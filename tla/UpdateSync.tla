----------------------------- MODULE UpdateSync -----------------------------
(***************************************************************************)
(* The calls a deployment with auto_pg makes on all its ranks, one after   *)
(* the other: register, gather_metas, update for everybody or for some     *)
(* ranks, unregister.  What the ranks have to agree on across calls: the   *)
(* store prefix of their process group, the number in their ZMQ addresses, *)
(* whose memory the gathered metas describe, and the store barrier that    *)
(* ends an update.                                                         *)
(*                                                                         *)
(* A collective is one step of the ranks in it, taken when all are there;  *)
(* the pipeline of an update is one verdict, common to its members         *)
(* (UpdatePipeline!Agreement).                                             *)
(***************************************************************************)
EXTENDS StoreBarrier

CONSTANTS
    Script,     \* the calls: [op |-> "update", ranks |-> {}] and so on
    Owners,     \* the ranks register_checkpoint pins memory on
    MayRaise,   \* the updates whose pipeline may raise on its members
    Patient     \* whether a barrier outlasts the loading of the weights

Calls == 1 .. Len(Script)

ASSUME SyncAssumption ==
    /\ Script \in Seq([op : {"register", "gather", "update", "unregister"}, ranks : SUBSET Ranks])
    /\ Owners \subseteq Ranks /\ MayRaise \subseteq Calls /\ Patient \in BOOLEAN
    /\ Len(Script) <= MaxGen

VARIABLES
    pos,        \* pos[r]: the call rank r is in, or the last it was in
    stage,      \* stage[r]: where rank r stands in it
    verdict,    \* verdict[u]: what the pipeline of update u did on its members
    prefix,     \* prefix[r]: _store_counter
    open,       \* open[r]: dist.is_initialized()
    zmq,        \* zmq[r]: _zmq_addr_counter
    socket,     \* socket[r]: the number in the addresses of r's last update, or -1
    held,       \* held[r]: the call that registered what r has in memory, or 0
    metas       \* metas[r]: what r has gathered, held[o] of every rank o

groupVars == <<prefix, open>>
addressVars == <<zmq, socket>>
memoryVars == <<held, metas>>
syncVars == <<pos, stage, verdict, groupVars, addressVars, memoryVars>>
allVars == <<barrierVars, syncVars>>

SyncInit ==
    /\ BarrierInit
    /\ pos = [r \in Ranks |-> 0] /\ stage = [r \in Ranks |-> "idle"]
    /\ verdict = [u \in Calls |-> "none"]
    /\ prefix = [r \in Ranks |-> 0] /\ open = [r \in Ranks |-> FALSE]
    /\ zmq = [r \in Ranks |-> 0] /\ socket = [r \in Ranks |-> -1]
    /\ held = [r \in Ranks |-> 0] /\ metas = [r \in Ranks |-> [o \in Ranks |-> 0]]

\* The ranks an update is for: all of them if ranks is None or [].
Members(u) == IF Script[u].ranks = {} THEN Ranks ELSE Script[u].ranks
IsMember(r) == r \in Members(pos[r])
P2P(u) == Script[u].ranks # {}

AllAt(u, there, rs) == \A r \in rs : pos[r] = u /\ stage[r] = there
MoveTo(rs, there) == stage' = [r \in Ranks |-> IF r \in rs THEN there ELSE stage[r]]

\* The next call of rank r is op.
Begin(r, op) ==
    /\ stage[r] = "idle" /\ pos[r] < Len(Script) /\ Script[pos[r] + 1].op = op
    /\ pos' = [pos EXCEPT ![r] = @ + 1]

\* A plausible bug: a rank that is not a member stays out of the process group.
OpenIfMember(r) ==
    IF open[r] \/ r \notin Members(pos[r] + 1) THEN UNCHANGED groupVars
    ELSE prefix' = [prefix EXCEPT ![r] = @ + 1] /\ open' = [open EXCEPT ![r] = TRUE]

\* init_process_group, under the next prefix, unless it is initialized.
OpenGroup(r) ==
    IF open[r] THEN UNCHANGED groupVars
    ELSE prefix' = [prefix EXCEPT ![r] = @ + 1] /\ open' = [open EXCEPT ![r] = TRUE]

\* A group is there when every rank has joined under the same prefix.
Joined(r) == \A q \in Ranks : prefix[q] >= prefix[r]

\* register_checkpoint and unregister_checkpoint of the same name (Registry).
Register(r) ==
    /\ Begin(r, "register")
    /\ held' = [held EXCEPT ![r] = IF r \in Owners THEN pos[r] + 1 ELSE 0]
    /\ UNCHANGED <<stage, verdict, groupVars, addressVars, metas, barrierVars>>

Unregister(r) ==
    /\ Begin(r, "unregister")
    /\ held' = [held EXCEPT ![r] = 0]
    /\ UNCHANGED <<stage, verdict, groupVars, addressVars, metas, barrierVars>>

Gather(r) ==
    /\ Begin(r, "gather")
    /\ OpenGroup(r) /\ MoveTo({r}, "gathering")
    /\ UNCHANGED <<verdict, addressVars, memoryVars, barrierVars>>

\* all_gather_object of gather_metas; the process group stays open.
Gathered(u) ==
    /\ AllAt(u, "gathering", Ranks) /\ \A r \in Ranks : Joined(r)
    /\ metas' = [r \in Ranks |-> held]
    /\ MoveTo(Ranks, "idle")
    /\ UNCHANGED <<pos, verdict, groupVars, addressVars, held, barrierVars>>

\* update is called.
Call(r) ==
    /\ Begin(r, "update")
    /\ OpenGroup(r) /\ MoveTo({r}, "joining")
    /\ UNCHANGED <<verdict, addressVars, memoryVars, barrierVars>>

\* A plausible bug: no maximum over the members.
KeepOwn(u, r) == zmq[r]

\* The least of the negated counters, negated.
LargestOf(u, r) == CHOOSE n \in {zmq[q] : q \in Members(u)} : \A q \in Members(u) : zmq[q] <= n

\* The barrier of the members' group, and _detect_bucket_size's all_reduce.
Sized(u) ==
    /\ AllAt(u, "joining", Members(u)) /\ \A r \in Members(u) : Joined(r)
    /\ zmq' = [r \in Ranks |-> IF r \in Members(u) THEN LargestOf(u, r) ELSE zmq[r]]
    /\ MoveTo(Members(u), "binding")
    /\ UNCHANGED <<pos, verdict, groupVars, socket, memoryVars, barrierVars>>

\* A plausible bug: the number is used again.
BindAgain(r) ==
    /\ stage[r] = "binding"
    /\ socket' = [socket EXCEPT ![r] = zmq[r]]
    /\ MoveTo({r}, "loading")
    /\ UNCHANGED <<pos, verdict, groupVars, zmq, memoryVars, barrierVars>>

\* _bind_zmq_socket names r's own socket and those of all ranks by one number.
Bind(r) ==
    /\ stage[r] = "binding"
    /\ socket' = [socket EXCEPT ![r] = zmq[r]]
    /\ zmq' = [zmq EXCEPT ![r] = @ + 1]
    /\ MoveTo({r}, "loading")
    /\ UNCHANGED <<pos, verdict, groupVars, memoryVars, barrierVars>>

\* The members have been through the loop and the barrier of its finally clause,
\* all with an exception or none.
Loaded(u) ==
    /\ AllAt(u, "loading", Members(u))
    /\ \/ verdict' = [verdict EXCEPT ![u] = "ok"]
       \/ u \in MayRaise /\ verdict' = [verdict EXCEPT ![u] = "raised"]
    /\ MoveTo(Members(u), "loaded")
    /\ UNCHANGED <<pos, groupVars, addressVars, memoryVars, barrierVars>>

\* A member that has not raised, or a rank that has nothing to do in this update.
MayPass(r) ==
    \/ stage[r] = "loaded" /\ verdict[pos[r]] = "ok"
    \/ stage[r] = "joining" /\ ~IsMember(r) /\ Joined(r)

\* A plausible bug: a rank that is not a member returns before the barrier.
OnlyMembersGo(r) ==
    /\ MayPass(r)
    /\ IF IsMember(r)
       THEN Enter(r) /\ MoveTo({r}, "barrier") /\ UNCHANGED open
       ELSE MoveTo({r}, "idle") /\ open' = [open EXCEPT ![r] = FALSE] /\ UNCHANGED barrierVars
    /\ UNCHANGED <<pos, verdict, prefix, addressVars, memoryVars>>

\* Both go to the barrier.
GoToBarrier(r) ==
    /\ MayPass(r)
    /\ Enter(r) /\ MoveTo({r}, "barrier")
    /\ UNCHANGED <<pos, verdict, groupVars, addressVars, memoryVars>>

\* The end of update: its finally clause destroys the process group.
Leaves(r) ==
    /\ MoveTo({r}, "idle")
    /\ open' = [open EXCEPT ![r] = FALSE]
    /\ UNCHANGED <<pos, verdict, prefix, addressVars, memoryVars, barrierVars>>

\* A member that raises leaves update without the barrier.
SkipBarrier(r) == stage[r] = "loaded" /\ verdict[pos[r]] = "raised" /\ Leaves(r)

Return(r) == stage[r] = "barrier" /\ at[r] \in {"out", "raised"} /\ Leaves(r)

InBarrier(r) == stage[r] = "barrier" /\ Inner(r) /\ UNCHANGED syncVars

\* The barrier's five minutes.  If they are long, they end only when no rank of
\* this update is still on its way to the barrier.
GiveUp(r) ==
    /\ stage[r] = "barrier" /\ TimeOut(r)
    /\ Patient => \A q \in Ranks : \/ pos[q] > pos[r]
                                   \/ pos[q] = pos[r] /\ (stage[q] = "idle" \/ at[q] = "wait")
    /\ UNCHANGED syncVars

SyncStep(r) ==
    \/ Register(r) \/ Unregister(r) \/ Gather(r) \/ Call(r) \/ Bind(r)
    \/ GoToBarrier(r) \/ SkipBarrier(r) \/ InBarrier(r) \/ GiveUp(r) \/ Return(r)

Collective(u) == Gathered(u) \/ Sized(u) \/ Loaded(u)

\* All the calls are over.
AllDone ==
    /\ \A r \in Ranks : stage[r] = "idle" /\ pos[r] = Len(Script)
    /\ UNCHANGED allVars

SyncNext == (\E r \in Ranks : SyncStep(r)) \/ (\E u \in Calls : Collective(u)) \/ AllDone

\* Every rank that can take a step takes one, and so do ranks that have met.
SyncSpec == /\ SyncInit /\ [][SyncNext]_allVars
            /\ \A r \in Ranks : WF_allVars(SyncStep(r))
            /\ \A u \in Calls : WF_allVars(Collective(u))

-----------------------------------------------------------------------------
(* Properties.                                                             *)

\* A rank is past the barrier of an update only when every rank has reached
\* that update's barrier (ps.py:554, "a store-based barrier synchronization
\* across all ranks", called at the end of every update).
UpdatesSynchronized ==
    \A r \in Ranks : stage[r] = "barrier" /\ at[r] = "out" =>
        \A q \in Ranks : \/ pos[q] > pos[r]
                         \/ pos[q] = pos[r] /\ stage[q] \in {"barrier", "idle"}

\* Every rank comes out of every call: out of a failed update, too, into the
\* retry that follows it, and into the process groups of later calls.
UpdatesEnd == <>(\A r \in Ranks : stage[r] = "idle" /\ pos[r] = Len(Script))

\* No rank's barrier times out in an update in which no pipeline failed.
NoSpuriousFailure ==
    \A r \in Ranks : stage[r] = "barrier" /\ at[r] = "raised" => verdict[pos[r]] = "raised"

\* While no barrier times out and no delete fails, at most three generations
\* have keys in the store ("Rank 0 retains the two latest generations",
\* ps.py:579, and the third is either new or about to go).
KeysBounded ==
    (\A r \in Ranks : at[r] # "raised") => Cardinality(counters \cup announced) <= 3

\* The addresses the members of an update give to the engine are those the
\* others have bound: all use one number, though updates for some ranks advance
\* the counters of those only (_detect_bucket_size takes the maximum for it).
AddressesAgree ==
    \A r, q \in Ranks :
        /\ pos[r] = pos[q]
        /\ stage[r] \in {"loading", "loaded"} /\ stage[q] \in {"loading", "loaded"}
        => socket[r] = socket[q]

\* A rank never binds an address a second time: a worker left over from a failed
\* update would connect to it again.
AddressesFresh == \A r \in Ranks : stage[r] = "binding" => zmq[r] > socket[r]

\* While a member loads, the memory its metas point at is what they describe:
\* no owner, member or not, has unregistered or replaced it since they were
\* gathered (_get_addr_ptrs; a broadcast reads the rank's own memory only).
ReadsCurrent ==
    \A r, o \in Ranks :
        /\ stage[r] = "loading" /\ metas[r][o] # 0
        /\ P2P(pos[r]) \/ o = r
        => held[o] = metas[r][o]

-----------------------------------------------------------------------------
(* The inductive invariant behind them.                                    *)

Sending == {"binding", "loading", "loaded"}
Stages == Sending \cup {"idle", "gathering", "joining", "barrier"}

\* Every variable has its type.
SyncTypeOK ==
    /\ pos \in [Ranks -> 0 .. Len(Script)] /\ stage \in [Ranks -> Stages]
    /\ verdict \in [Calls -> {"none", "ok", "raised"}]
    /\ prefix \in [Ranks -> Nat] /\ open \in [Ranks -> BOOLEAN]
    /\ zmq \in [Ranks -> Nat] /\ socket \in [Ranks -> Int]
    /\ held \in [Ranks -> 0 .. Len(Script)]
    /\ metas \in [Ranks -> [Ranks -> 0 .. Len(Script)]]

\* Where a rank can stand in a call.
PlacedAt(r) ==
    /\ stage[r] # "idle" => pos[r] \in Calls
    /\ stage[r] = "gathering" => Script[pos[r]].op = "gather"
    /\ stage[r] \notin {"idle", "gathering"} => Script[pos[r]].op = "update"
    /\ stage[r] \in Sending => IsMember(r)
    /\ at[r] \notin {"out", "raised"} => stage[r] = "barrier"
Placed == \A r \in Ranks : PlacedAt(r)

\* The number rank r names its addresses by, in the update it is in.
Number(r) == IF stage[r] = "binding" THEN zmq[r] ELSE socket[r]

\* The counters of an update's members meet, below the number of updates.
Numbered ==
    /\ \A r \in Ranks : socket[r] < zmq[r]
    /\ \A r \in Ranks : zmq[r] <= pos[r] /\ (stage[r] \in {"joining", "binding"} => zmq[r] < pos[r])
    /\ \A r, q \in Ranks :
          pos[r] = pos[q] /\ stage[r] \in Sending /\ stage[q] \in Sending => Number(r) = Number(q)

\* What a rank has gathered is what the owner holds, unless the owner has since
\* registered or unregistered.
IsGather(g) == Script[g].op = "gather"
ChangesMemory(k) == Script[k].op \in {"register", "unregister"}
GatheredAt(r, g) ==
    /\ IsGather(g) /\ \A q \in Ranks : pos[q] >= g
    /\ \A h \in Calls : g < h /\ h <= pos[r] /\ IsGather(h) => h = pos[r] /\ stage[r] = "gathering"
    /\ \A o \in Ranks : metas[r][o] = held[o]
                        \/ \E k \in Calls : g < k /\ k <= pos[o] /\ ChangesMemory(k)
Remembered == \A r \in Ranks : (\A o \in Ranks : metas[r][o] = 0) \/ \E g \in Calls : GatheredAt(r, g)

\* If every update that raises does so on all ranks: they have all gone through
\* the same barriers, one for each update that has not raised.
RaiseTogether == \A u \in MayRaise : Members(u) = Ranks

BarrierOf(u) == Script[u].op = "update" /\ verdict[u] # "raised"
BarriersUpTo(n) == {u \in Calls : u <= n /\ BarrierOf(u)}
Passed(r) == IF stage[r] \in Sending \cup {"joining"} THEN pos[r] - 1 ELSE pos[r]

Behind(q, u) == pos[q] < u \/ (pos[q] = u /\ stage[q] \in {"joining", "binding", "loading"})

InStep ==
    /\ \A u \in Calls : verdict[u] = "raised" => \A q \in Ranks : ~Behind(q, u)
    /\ \A r \in Ranks : stage[r] = "barrier" => verdict[pos[r]] # "raised"
    /\ \A r \in Ranks : count[r] = Cardinality(BarriersUpTo(Passed(r)))

\* With patience, too, no barrier times out, and who is past an update has left
\* nobody behind who still loads.
Finished(r, u) == u < pos[r] \/ (u = pos[r] /\ stage[r] = "idle")
Together ==
    /\ \A r \in Ranks : at[r] # "raised"
    /\ \A r \in Ranks, u \in Calls :
          Script[u].op = "update" /\ Finished(r, u) => \A q \in Ranks : ~Behind(q, u)

\* Between a gather and an update that uses it, registrations are gathered again.
GathersAgain ==
    \A g, k, u \in Calls :
        g < k /\ k < u /\ IsGather(g) /\ ChangesMemory(k) /\ Script[u].op = "update" =>
            \E h \in Calls : k < h /\ h < u /\ IsGather(h)

\* Groups are opened by the calls that need one, unless the last such call was a
\* gather, which leaves it open; an update never does.
NeedsGroup(u) == Script[u].op \in {"gather", "update"}
LeftOpen(n) ==
    \E g \in Calls : /\ g <= n /\ IsGather(g)
                     /\ \A v \in Calls : g < v /\ v <= n => Script[v].op # "update"
Opens(u) == NeedsGroup(u) /\ ~LeftOpen(u - 1)
OpeningsUpTo(n) == {u \in Calls : u <= n /\ Opens(u)}

\* The prefix counts them, so that the ranks meet in a call only when all of them
\* are out of every update before it.
Met(r, u) == u < pos[r] \/ (u = pos[r] /\ stage[r] \notin {"gathering", "joining"})
Grouped ==
    /\ \A r \in Ranks : prefix[r] = Cardinality(OpeningsUpTo(pos[r]))
    /\ \A r \in Ranks : open[r] <=> (stage[r] # "idle" \/ LeftOpen(pos[r]))
    /\ \A r, q \in Ranks, u, v \in Calls :
          v < u /\ Script[v].op = "update" /\ NeedsGroup(u) /\ Met(r, u) => Finished(q, v)

\* If no barrier times out and no delete fails, the keys in the store are those of
\* the generations rank 0 has kept, and of one more: the one it is in or is
\* deleting, or the one the others are in already.
InTrash(g) == \E i \in 1 .. Len(trash) : trash[i] = g
OneMore(g) ==
    \/ at[0] \in Inside /\ g = count[0]
    \/ at[0] \in {"deleteCounter", "deleteAnnouncement"} /\ g = stale
    \/ at[0] = "out" /\ g = count[0] + 1
FewKeys ==
    /\ Len(trash) <= Retained
    /\ \A r, q \in Ranks : count[r] <= count[q] + 1
    /\ at[0] \notin Inside /\ count[0] # 0 => InTrash(count[0])
    /\ at[0] = "deleteAnnouncement" => stale \notin counters
    /\ \A g \in counters \cup announced : InTrash(g) \/ OneMore(g)
=============================================================================
