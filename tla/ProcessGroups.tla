--------------------------- MODULE ProcessGroups ---------------------------
(***************************************************************************)
(* The process groups of checkpoint_engine.distributed with a backend of   *)
(* its own (DistributedNccl, DistributedHccl), as gather_metas and update  *)
(* of an auto_pg deployment use them: one communicator of all ranks per    *)
(* init_process_group, a smaller one for the ranks of a P2P update, and    *)
(* one communicator object per rank that is switched from one to the other *)
(* around every collective.                                                *)
(*                                                                         *)
(* NCCL and HCCL are external: a collective is over when every rank of the *)
(* communicator has called it.  The store barrier of update is left out.   *)
(***************************************************************************)
EXTENDS Lists

CONSTANTS
    N,          \* the world size
    Backends,   \* the backends to choose from: "nccl", "hccl"
    Script,     \* the calls: [op |-> "update", ranks |-> .., sources |-> ..]
    Objects,    \* Objects[r + 1]: the bytes of what rank r gathers
    MayFail     \* the updates that may fail, on all members, after a bucket

Ranks == 0 .. N - 1
Calls == 1 .. Len(Script)

ASSUME GroupsAssumption ==
    /\ N \in Nat \ {0}
    /\ Script \in Seq([op : {"gather", "update"}, ranks : Seq(Ranks), sources : Seq(Ranks)])
    /\ \A u \in Calls : LET call == Script[u] IN
          /\ call.op = "gather" => call.ranks = <<>>
          /\ call.ranks # <<>> => Range(call.sources) \subseteq Range(call.ranks)
    /\ Objects \in [1 .. N -> Seq(Nat)] /\ MayFail \subseteq Calls

VARIABLES
    backend,        \* the backend use_backend has chosen
    pos, pc, turn,  \* the call each rank is in, where it stands, the bucket
    worlds,         \* worlds[r]: how many process groups rank r has opened
    initialized,    \* initialized[r]
    comm,           \* comm[r]: self.comm, the communicator of all ranks
    current,        \* current[r]: the communicator the next collective is on
    rank,           \* rank[r]: the rank pynccl (pyhccl) takes itself for
    subs,           \* subs[r]: sub_groups, by handle
    nextSub,        \* nextSub[r]: the number of the next smaller communicator
    group,          \* group[r]: ranks_group of update, or NoGroup
    posted,         \* posted[r]: the collective rank r waits in, or Nothing
    got,            \* got[r]: what the last gather_metas returned
    created, freed  \* created[r], freed[r]: the communicators, in order (history)

caller == <<pos, pc, turn, group>>
object == <<initialized, comm, current, rank, subs, nextSub>>
history == <<created, freed>>
vars == <<backend, caller, worlds, object, posted, got, history>>

\* A communicator is named by its process group, its number in it, and its ranks.
Comm(world, sub, ranks) == [world |-> world, sub |-> sub, ranks |-> ranks]
NoGroup == Comm(0, 0, <<>>)
Nothing == [comm |-> NoGroup, kind |-> "none", root |-> 0]
Everyone == [i \in 1 .. N |-> i - 1]

\* The ranks in a list, from the least to the largest.
Sorted(ranks) == InOrder(Range(ranks))

Index(ranks, r) == (CHOOSE i \in DOMAIN ranks : ranks[i] = r) - 1

All(x) == [r \in Ranks |-> x]

Init ==
    /\ backend \in Backends
    /\ pos = All(0) /\ pc = All("idle") /\ turn = All(0) /\ group = All(NoGroup)
    /\ worlds = All(0) /\ initialized = All(FALSE)
    /\ comm = All(NoGroup) /\ current = All(NoGroup) /\ rank = All(0)
    /\ subs = All({}) /\ nextSub = All(1)
    /\ posted = All(Nothing) /\ got = All(<<>>)
    /\ created = All({}) /\ freed = All(<<>>)

-----------------------------------------------------------------------------
(* The caller: gather_metas and update.                                    *)

This(r) == Script[pos[r]]
P2P(r) == This(r).ranks # <<>>
IsMember(r) == ~P2P(r) \/ r \in Range(This(r).ranks)
Goto(r, there) == pc' = [pc EXCEPT ![r] = there]

\* Where a call goes from there once there is a process group.
FirstStep(r, u) ==
    IF Script[u].op = "gather" THEN "gather" ELSE IF Script[u].ranks = <<>> THEN "size" ELSE "group"

\* A call opens the process group unless there is one.
Call(r) ==
    /\ pc[r] = "idle" /\ pos[r] < Len(Script)
    /\ pos' = [pos EXCEPT ![r] = @ + 1] /\ turn' = [turn EXCEPT ![r] = 1]
    /\ Goto(r, IF initialized[r] THEN FirstStep(r, pos[r] + 1) ELSE "init")
    /\ UNCHANGED <<backend, group, worlds, object, posted, got, history>>

\* A plausible bug: the numbers of smaller communicators go on in a new group.
OldCounters == nextSub

\* A new communicator object counts from 1 (subcomm_id).
NewCounters == All(1)

\* init_process_group: returns when every rank has called it with the same store.
Opened ==
    /\ \A r \in Ranks : pc[r] = "init" /\ worlds[r] = worlds[0]
    /\ LET world == Comm(worlds[0] + 1, 0, Everyone) IN
       /\ comm' = All(world) /\ current' = All(world)
       /\ created' = [r \in Ranks |-> created[r] \cup {world}]
    /\ worlds' = [r \in Ranks |-> worlds[r] + 1]
    /\ initialized' = All(TRUE) /\ rank' = [r \in Ranks |-> r] /\ nextSub' = NewCounters
    /\ pc' = [r \in Ranks |-> FirstStep(r, pos[r])]
    /\ UNCHANGED <<backend, pos, turn, group, subs, posted, got, freed>>

-----------------------------------------------------------------------------
(* The collectives of a backend.                                           *)

\* A plausible bug: the source is not converted to its rank in the group.
WorldRank(g, r) == r

\* The rank of r in a group: that in all the ranks if there is no group.
RankIn(g, r) == IF g = NoGroup THEN r ELSE Index(g.ranks, r)

\* The with statement of every collective (_use_group): the communicator is the
\* group's, and so is the rank if there is a source.
UseGroup(r, g, kind, src) ==
    /\ g # NoGroup => g \in subs[r]
    /\ current' = IF g = NoGroup THEN current ELSE [current EXCEPT ![r] = g]
    /\ rank' = IF g # NoGroup /\ kind = "broadcast"
               THEN [rank EXCEPT ![r] = RankIn(g, r)] ELSE rank
    /\ posted' = [posted EXCEPT ![r] =
                    [comm |-> current'[r], kind |-> kind,
                     root |-> IF kind = "broadcast" THEN RankIn(g, src) ELSE 0]]

\* The collective of each step of the caller.
Kind == [gather |-> "gather", enter |-> "barrier", size |-> "reduce", send |-> "broadcast",
         vote |-> "reduce", finish |-> "barrier"]

Post(r) ==
    /\ pc[r] \in DOMAIN Kind /\ posted[r] = Nothing
    /\ initialized[r]
    /\ UseGroup(r, group[r], Kind[pc[r]],
                IF pc[r] = "send" THEN This(r).sources[turn[r]] ELSE 0)
    /\ UNCHANGED <<backend, caller, worlds, initialized, comm, subs, nextSub, got, history>>

\* new_group.  NCCL: every rank splits the communicator of all ranks; HCCL: the
\* members create one, each under the number it has come to.
NewGroup(r) ==
    /\ pc[r] = "group" /\ posted[r] = Nothing /\ initialized[r]
    /\ IF backend = "hccl" /\ ~IsMember(r)
       THEN Goto(r, "close") /\ UNCHANGED posted
       ELSE /\ posted' = [posted EXCEPT ![r] =
                  [comm |-> IF backend = "hccl"
                            THEN Comm(comm[r].world, nextSub[r], Sorted(This(r).ranks))
                            ELSE current[r],
                   kind |-> "group", root |-> 0]]
            /\ UNCHANGED pc
    /\ UNCHANGED <<backend, pos, turn, group, worlds, object, got, history>>

\* Every rank of c has called the same collective on it.
Met(c, kind) == \A r \in Range(c.ranks) : posted[r].comm = c /\ posted[r].kind = kind
Of(c, f, g) == [r \in Ranks |-> IF r \in Range(c.ranks) THEN g[r] ELSE f[r]]

\* The group is there for its members; for the others it is None.
GroupMade(c) ==
    LET made == IF backend = "hccl" THEN c ELSE Comm(c.world, nextSub[c.ranks[1]],
                                                     Sorted(This(c.ranks[1]).ranks))
        has(r) == r \in Range(made.ranks)
    IN
    /\ Met(c, "group")
    /\ posted' = Of(c, posted, All(Nothing))
    /\ group' = Of(c, group, [r \in Ranks |-> IF has(r) THEN made ELSE NoGroup])
    /\ subs' = [r \in Ranks |-> IF has(r) THEN subs[r] \cup {made} ELSE subs[r]]
    /\ created' = [r \in Ranks |-> IF has(r) THEN created[r] \cup {made} ELSE created[r]]
    /\ nextSub' = Of(c, nextSub, [r \in Ranks |-> nextSub[r] + 1])
    /\ pc' = Of(c, pc, [r \in Ranks |-> IF has(r) THEN "enter" ELSE "close"])
    /\ UNCHANGED <<backend, pos, turn, worlds, initialized, comm, current, rank, got, freed>>

\* A plausible bug: the communicator is not switched back.
StayInGroup(c) == UNCHANGED <<current, rank>>

\* The end of the with statement.
LeaveGroup(c) ==
    /\ current' = Of(c, current, comm)
    /\ rank' = Of(c, rank, [r \in Ranks |-> r])

\* What follows a collective in update, when no worker has failed.
NextStep(r) ==
    CASE pc[r] = "gather" -> "idle"
      [] pc[r] = "enter" -> "size"
      [] pc[r] = "size" -> IF This(r).sources = <<>> THEN "finish" ELSE "send"
      [] pc[r] = "send" -> "vote"
      [] pc[r] = "vote" -> IF turn[r] < Len(This(r).sources) THEN "send" ELSE "finish"
      [] pc[r] = "finish" -> "close"
      [] OTHER -> pc[r]

\* A plausible bug: the objects are cut out at multiples of the object's own size.
CutAtOwn(coalesced, sizes, i, largest) ==
    SubSeq(coalesced, sizes[i] * (i - 1) + 1, sizes[i] * (i - 1) + sizes[i])

\* The i-th object in the bytes gathered from all ranks, largest bytes of each.
CutObject(coalesced, sizes, i, largest) ==
    SubSeq(coalesced, largest * (i - 1) + 1, largest * (i - 1) + sizes[i])

\* _common_all_gather_object: sizes first, then the bytes of every rank, resized to
\* the largest; what resize_ adds is whatever was there.
Junk == 0 - 1
GatherObjects(objects) ==
    LET sizes == [i \in DOMAIN objects |-> Len(objects[i])]
        largest == CHOOSE n \in Range(sizes) : \A i \in DOMAIN sizes : sizes[i] <= n
        resized == [i \in DOMAIN objects |->
                       [k \in 1 .. largest |-> IF k <= sizes[i] THEN objects[i][k] ELSE Junk]]
    IN [i \in DOMAIN objects |-> CutObject(FlattenSeq(resized), sizes, i, largest)]

Complete(c, kind) ==
    /\ Met(c, kind)
    /\ posted' = Of(c, posted, All(Nothing))
    /\ LeaveGroup(c)
    /\ got' = IF kind = "gather" THEN Of(c, got, All(GatherObjects(Objects))) ELSE got
    /\ turn' = [r \in Ranks |-> IF r \in Range(c.ranks) /\ pc[r] = "vote" THEN turn[r] + 1 ELSE turn[r]]
    /\ \/ pc' = Of(c, pc, [r \in Ranks |-> NextStep(r)])
       \/ /\ \A r \in Range(c.ranks) : pc[r] = "vote" /\ pos[r] \in MayFail
          /\ pc' = Of(c, pc, All("finish"))
    /\ UNCHANGED <<backend, pos, group, worlds, initialized, comm, subs, nextSub, history>>

-----------------------------------------------------------------------------
(* destroy_process_group, in the finally clause of update.                 *)

\* A group whose handle is known is destroyed alone; otherwise the communicator
\* that is current, and with it the process group.
Destroy(r, g) ==
    /\ initialized[r]
    /\ group' = [group EXCEPT ![r] = NoGroup]
    /\ IF g \in subs[r]
       THEN /\ freed' = [freed EXCEPT ![r] = Append(@, g)]
            /\ subs' = [subs EXCEPT ![r] = @ \ {g}]
            /\ UNCHANGED <<initialized, pc>>
       ELSE /\ freed' = [freed EXCEPT ![r] = Append(@, current[r])]
            /\ initialized' = [initialized EXCEPT ![r] = FALSE]
            /\ Goto(r, "idle")
            /\ UNCHANGED subs

\* Two calls: for ranks_group if there is one, then for everything.
Close(r) ==
    /\ pc[r] = "close"
    /\ Destroy(r, group[r])
    /\ UNCHANGED <<backend, pos, turn, worlds, comm, current, rank, nextSub, posted, got, created>>

-----------------------------------------------------------------------------
AllDone == (\A r \in Ranks : pc[r] = "idle" /\ pos[r] = Len(Script)) /\ UNCHANGED vars

Step(r) == Call(r) \/ Post(r) \/ NewGroup(r) \/ Close(r)

\* The communicators ranks wait on.
Waiting == {posted[r].comm : r \in Ranks} \ {NoGroup}
Meet == \/ Opened
        \/ \E c \in Waiting : GroupMade(c) \/ \E kind \in Range(Kind) : Complete(c, kind)

Next == (\E r \in Ranks : Step(r)) \/ Meet \/ AllDone

\* Every rank goes on, and a collective all ranks have called returns.
Spec == Init /\ [][Next]_vars /\ (\A r \in Ranks : WF_vars(Step(r))) /\ WF_vars(Meet)

-----------------------------------------------------------------------------
(* Properties.                                                             *)

\* What the intended root of a broadcast is.
Source(r) == This(r).sources[turn[r]]

\* Ranks that meet on a communicator have called the same collective; they name
\* the same rank as its source, the one update means, and only that rank takes
\* itself for it (the conversions and switches of _use_group).
CollectivesMatch ==
    \A r \in Ranks : LET mine == posted[r] IN mine # Nothing =>
        /\ r \in Range(mine.comm.ranks)
        /\ \A q \in Ranks : posted[q].comm = mine.comm => posted[q].kind = mine.kind
        /\ mine.kind = "broadcast" =>
              /\ mine.root + 1 \in DOMAIN mine.comm.ranks
              /\ mine.comm.ranks[mine.root + 1] = Source(r)
              /\ (rank[r] = mine.root) <=> (r = Source(r))

\* A rank destroys every communicator it has got, once, before it is without a
\* process group again, and never waits on one that it has destroyed.
CommunicatorsBalanced ==
    \A r \in Ranks :
        /\ IsInjective(freed[r]) /\ Range(freed[r]) \subseteq created[r]
        /\ ~initialized[r] => Range(freed[r]) = created[r] /\ subs[r] = {}
        /\ posted[r].comm \notin Range(freed[r])

\* Every rank gets every object as it was sent, however long the others are.
ObjectsExact ==
    \A r \in Ranks : got[r] # <<>> => got[r] = Objects

\* All the calls end: ranks never wait for each other in different collectives, and
\* HCCL members agree on the number of their group.
CallsEnd == <>(\A r \in Ranks : pc[r] = "idle" /\ pos[r] = Len(Script))

-----------------------------------------------------------------------------
(* The inductive invariant behind CollectivesMatch and CommunicatorsBalanced. *)

Steps == DOMAIN Kind \cup {"idle", "init", "group", "close"}
Kinds == Range(Kind) \cup {"none", "group"}
Communicators == [world : Nat, sub : Nat, ranks : Seq(Ranks)]

\* Every variable has its type.
TypeOK ==
    /\ pos \in [Ranks -> 0 .. Len(Script)] /\ pc \in [Ranks -> Steps] /\ turn \in [Ranks -> Nat]
    /\ worlds \in [Ranks -> Nat] /\ initialized \in [Ranks -> BOOLEAN]
    /\ comm \in [Ranks -> Communicators] /\ current \in [Ranks -> Communicators]
    /\ rank \in [Ranks -> Int] /\ nextSub \in [Ranks -> Nat]
    /\ subs \in [Ranks -> SUBSET Communicators] /\ group \in [Ranks -> Communicators]
    /\ posted \in [Ranks -> [comm : Communicators, kind : Kinds, root : Int]]
    /\ created \in [Ranks -> SUBSET Communicators] /\ freed \in [Ranks -> Seq(Communicators)]

\* Where a rank can stand in a call.
InGroup == {"enter", "size", "send", "vote", "finish"}
PlacedAt(r) ==
    /\ pos[r] = 0 => pc[r] = "idle"
    /\ pc[r] = "gather" => This(r).op = "gather"
    /\ pc[r] \in InGroup \cup {"group", "close"} => This(r).op = "update"
    /\ pc[r] \in {"group", "enter"} => P2P(r)
    /\ pc[r] \in InGroup => IsMember(r)
    /\ pc[r] \in {"init", "gather", "group", "enter", "size"} => turn[r] = 1
    /\ pc[r] \in {"send", "vote"} => turn[r] \in DOMAIN This(r).sources
    /\ initialized[r] <=> pc[r] \notin {"idle", "init"} \/ (pos[r] > 0 /\ pc[r] = "idle" /\ This(r).op = "gather")

\* The group of a P2P update: there can be only one in a process group.
GroupFor(r) == Comm(worlds[r], 1, Sorted(This(r).ranks))
World(r) == Comm(worlds[r], 0, Everyone)

\* What a rank has of communicators.
HasAt(r) ==
    /\ group[r] = NoGroup \/ (group[r] = GroupFor(r) /\ P2P(r) /\ IsMember(r) /\ pc[r] \in InGroup \cup {"close"})
    /\ pc[r] \in InGroup /\ P2P(r) => group[r] = GroupFor(r)
    /\ subs[r] = {group[r]} \ {NoGroup}
    /\ initialized[r] /\ pc[r] \in {"idle", "gather", "group"} => nextSub[r] = 1
    /\ initialized[r] => comm[r] = World(r)
    /\ initialized[r] => current[r] = IF posted[r].kind \in Range(Kind) /\ group[r] # NoGroup
                                      THEN group[r] ELSE comm[r]
    /\ initialized[r] => rank[r] = IF posted[r].kind = "broadcast" THEN RankIn(group[r], r) ELSE r

\* The collective a rank waits in is that of its step, on its group if it has one.
PostedAt(r) ==
    posted[r] # Nothing =>
        IF pc[r] = "group"
        THEN /\ posted[r] = [comm |-> IF backend = "hccl" THEN GroupFor(r) ELSE World(r),
                             kind |-> "group", root |-> 0]
             /\ backend = "hccl" => IsMember(r)
        ELSE /\ pc[r] \in DOMAIN Kind
             /\ posted[r] = [comm |-> IF group[r] = NoGroup THEN World(r) ELSE group[r],
                             kind |-> Kind[pc[r]],
                             root |-> IF pc[r] = "send" THEN RankIn(group[r], Source(r)) ELSE 0]

\* What a rank has created and not freed is what it has; newer communicators
\* differ from all that there have been.
OwnedAt(r) ==
    /\ IsInjective(freed[r]) /\ Range(freed[r]) \subseteq created[r]
    /\ created[r] \ Range(freed[r]) = IF initialized[r] THEN {comm[r]} \cup subs[r] ELSE {}
    /\ \A c \in created[r] : c # NoGroup /\ c.world <= worlds[r]
    /\ initialized[r] /\ pc[r] \in {"idle", "gather", "group"} =>
          \A c \in created[r] : c.world = worlds[r] => c.sub = 0

\* The members of a call are at the same step of it, or past its collectives.
MemberOf(r, u) == Script[u].ranks = <<>> \/ r \in Range(Script[u].ranks)
Over(r) == This(r).op = "update" /\ pc[r] \in {"close", "idle"}
SamePlace(q, r) == (pc[q] = pc[r] /\ turn[q] = turn[r]) \/ (Over(q) /\ Over(r))
Joint(q, r) ==
    /\ pc[q] = "init" <=> pc[r] = "init"
    /\ backend # "hccl" => (pc[q] = "group" <=> pc[r] = "group")
    /\ IsMember(q) /\ IsMember(r) => SamePlace(q, r)

\* Rank q is behind rank r: idle after a gather_metas (or at the beginning) while r
\* waits in the first collective of the next call or, with HCCL, is in or past one
\* for another group; or in an update while r waits for the next process group.
FarApart(q, r) == backend = "hccl" /\ ~(MemberOf(q, pos[q] + 1) /\ MemberOf(r, pos[q] + 1))
Behind(q, r) ==
    \/ pos[q] = 0 /\ pos[r] = 1 /\ pc[r] = "init"
    \/ /\ pos[q] > 0 /\ This(q).op = "gather" /\ pc[q] = "idle"
       /\ \/ pos[r] = pos[q] + 1 /\ pc[r] = FirstStep(r, pos[r]) /\ turn[r] = 1
          \/ pos[r] = pos[q] + 1 /\ pc[r] # "init" /\ FarApart(q, r)
          \/ pos[r] = pos[q] + 2 /\ pc[r] = "init" /\ FarApart(q, r) /\ Script[pos[q] + 1].op = "update"
    \/ /\ pos[q] > 0 /\ This(q).op = "update" /\ pc[q] # "init"
       /\ pos[r] = pos[q] + 1 /\ pc[r] = "init"
       /\ backend # "hccl" => pc[q] # "group"
       /\ MemberOf(q, pos[q]) /\ MemberOf(r, pos[q]) => Over(q)

Lockstep ==
    \A q, r \in Ranks :
        /\ worlds[q] = worlds[r]
        /\ pos[q] = pos[r] /\ pos[q] > 0 => Joint(q, r)
        /\ pos[q] < pos[r] => Behind(q, r)

GroupsInv ==
    /\ TypeOK /\ Lockstep
    /\ \A r \in Ranks : PlacedAt(r) /\ HasAt(r) /\ PostedAt(r) /\ OwnedAt(r)
=============================================================================
