--------------------------- MODULE UpdatePipeline ---------------------------
(***************************************************************************)
(* One call of ParameterServer._update_per_bucket on every rank of a      *)
(* group, each with the inference worker colocated on its device           *)
(* (worker.py, update_weights_from_ipc) and the thread that asks the       *)
(* engine to start the workers (req_func of examples/update.py).           *)
(*                                                                         *)
(* The checkpoint has been cut into buckets numbered in the order of the   *)
(* update loop (module BucketPlan); bucket g goes through half g % 2 of a   *)
(* device buffer every rank shares with its worker.  Rank Receiver[g]      *)
(* copies the bucket in and broadcasts it; an all_reduce of an error code  *)
(* separates one bucket from the next.  A rank and its worker alternate    *)
(* requests and replies over one REQ/REP socket.                           *)
(*                                                                         *)
(* Copies and broadcasts are device work: the host enqueues them and goes  *)
(* on, and only the synchronize after the all_reduce waits for them.       *)
(***************************************************************************)
EXTENDS Integers, Sequences

CONSTANTS
    Rank,       \* the ranks of the group (ranks_group, or the whole world)
    Leader,     \* Leader[r]: the rank whose req_func starts r's worker
    NBuckets,   \* number of buckets of the plan
    Receiver,   \* Receiver[g]: the rank that broadcasts bucket g
    Round,      \* Round[g]: the pass i of the outer loop in which g is sent
    H2D,        \* whether a separate h2d_buffer stages a rank's next bucket
    Faults      \* what may fail in this instance

FaultKinds == {"attach", "load", "hook", "copy", "request"}

Bucket == 0 .. NBuckets - 1

ASSUME PipelineAssumption ==
    /\ NBuckets \in Nat \ {0}
    /\ Leader \in [Rank -> Rank] /\ \A r \in Rank : Leader[Leader[r]] = Leader[r]
    /\ Receiver \in [Bucket -> Rank]
    /\ Round \in [Bucket -> Nat]
    /\ \A g \in Bucket : g + 1 \in Bucket => Round[g + 1] \in {Round[g], Round[g] + 1}
    /\ \A g, h \in Bucket : Receiver[g] = Receiver[h] /\ Round[g] = Round[h] => g = h
    /\ H2D \in BOOLEAN
    /\ Faults \subseteq FaultKinds

VARIABLES
    pc,         \* pc[r]: where update stands on rank r
    gidx,       \* gidx[r]: buckets whose metadata r has sent to its worker
    voted,      \* voted[r]: how many all_reduces of the error code r has entered
    bad,        \* the buckets at whose all_reduce some rank contributed an error
    moved,      \* moved[r]: buckets whose broadcast has completed on r's device
    h2d,        \* h2d[r]: the bucket staged in r's h2d_buffer, or None
    half,       \* half[r][b]: the bucket held by half b of r's buffer, or None
    held,       \* held[r]: r's buffer is allocated and exported
    wire,       \* wire[r]: the message in transit on r's REQ/REP socket
    req,        \* req[r]: the req_thread of r
    outcome,    \* outcome[r]: how the body of r's update ended
    wpc,        \* wpc[w]: where the worker of rank w stands
    payload,    \* payload[w]: the bucket worker w is loading, or None
    mapped,     \* mapped[w]: worker w has the buffer mapped
    applied,    \* applied[w]: contents w read at each load, in order (history)
    fault       \* fault[w]: the failure of worker w, if any (history)

psVars     == <<pc, gidx, voted, bad, held, outcome>>
deviceVars == <<moved, h2d, half>>
workerVars == <<wpc, payload, mapped, applied, fault>>
vars == <<psVars, deviceVars, wire, req, workerVars>>

None == -1

Msg(kind) == [kind |-> kind, idx |-> None]

Meta(g)   == [kind |-> "meta", idx |-> g]
Nothing   == Msg("nothing")

\* The replies a worker sends: b"" when all is well, otherwise a traceback.
Replies == {Msg("ok"), Msg("error")}

\* A plausible bug: every bucket goes to the start of the buffer.
SingleHalf(g) == 0

\* The half of the double buffer that bucket g goes through.
Half(g) == g % 2

\* A plausible bug: staging is one round ahead of the broadcasts.
OwnInNextRound(r, g) == {k \in Bucket : Receiver[k] = r /\ Round[k] = Round[g] + 1}

\* The bucket r itself broadcasts in the round of bucket g, if it has one.
OwnInRound(r, g) == {k \in Bucket : Receiver[k] = r /\ Round[k] = Round[g]}

\* Where r goes before bucket g: staging happens once per round.
Heading(g) == IF g = NBuckets THEN "drain"
            ELSE IF g = 0 \/ Round[g] # Round[g - 1] THEN "stage" ELSE "fill"

Goto(r, there) == pc' = [pc EXCEPT ![r] = there]

Init ==
    /\ pc = [r \in Rank |-> "start"]
    /\ gidx = [r \in Rank |-> 0]
    /\ voted = [r \in Rank |-> 0]
    /\ bad = {}
    /\ moved = [r \in Rank |-> 0]
    /\ h2d = [r \in Rank |-> None]
    /\ half = [r \in Rank |-> [b \in 0..1 |-> None]]
    /\ held = [r \in Rank |-> FALSE]
    /\ wire = [r \in Rank |-> Nothing]
    /\ req = [r \in Rank |-> "idle"]
    /\ outcome = [r \in Rank |-> "none"]
    /\ wpc = [w \in Rank |-> "idle"]
    /\ payload = [w \in Rank |-> None]
    /\ mapped = [w \in Rank |-> FALSE]
    /\ applied = [w \in Rank |-> <<>>]
    /\ fault = [w \in Rank |-> "none"]

-----------------------------------------------------------------------------
(* The parameter server on rank r.                                         *)

\* Allocate and export the buffer, bind the socket, start the req_thread.  On
\* a rank that is not its group's leader req_func returns at once.
Start(r) ==
    /\ pc[r] = "start"
    /\ Goto(r, "handle")
    /\ held' = [held EXCEPT ![r] = TRUE]
    /\ req' = [req EXCEPT ![r] = IF Leader[r] = r THEN "running" ELSE "ended"]
    /\ UNCHANGED <<gidx, voted, bad, outcome, deviceVars, wire, workerVars>>

\* A REQ socket blocks in send until a peer has connected.
SendHandle(r) ==
    /\ pc[r] = "handle" /\ wpc[r] # "idle"
    /\ wire' = [wire EXCEPT ![r] = Msg("handle")]
    /\ Goto(r, Heading(0))
    /\ UNCHANGED <<gidx, voted, bad, held, outcome, deviceVars, req, workerVars>>

\* At the top of a round, copy r's own bucket of the round into h2d_buffer,
\* from pinned memory or by an RDMA read; _copy_to_buffer waits for the copy.
Stage(r) ==
    /\ pc[r] = "stage"
    /\ Goto(r, "fill")
    /\ \/ \E k \in OwnInRound(r, gidx[r]) : H2D /\ h2d' = [h2d EXCEPT ![r] = k]
       \/ (OwnInRound(r, gidx[r]) = {} \/ ~H2D) /\ UNCHANGED h2d
    /\ UNCHANGED <<gidx, voted, bad, held, outcome, moved, half, wire, req, workerVars>>

\* A plausible bug: the copy forgets in which half the bucket starts.
FillFirstHalf(r) ==
    LET g == gidx[r] IN
    /\ pc[r] = "fill"
    /\ Goto(r, "recv")
    /\ half' = IF Receiver[g] = r /\ ~H2D THEN [half EXCEPT ![r][0] = g] ELSE half
    /\ UNCHANGED <<gidx, voted, bad, held, outcome, moved, h2d, wire, req, workerVars>>

\* Enqueue the broadcast of bucket gidx[r].  Without an h2d_buffer the source
\* copies the bucket straight into the buffer, and waits for that copy.
Fill(r) ==
    LET g == gidx[r] IN
    /\ pc[r] = "fill"
    /\ Goto(r, "recv")
    /\ half' = IF Receiver[g] = r /\ ~H2D THEN [half EXCEPT ![r][Half(g)] = g] ELSE half
    /\ UNCHANGED <<gidx, voted, bad, held, outcome, moved, h2d, wire, req, workerVars>>

\* What r does next is a copy: into h2d_buffer, or without one into the half.
Copying(r) ==
    \/ pc[r] = "stage" /\ H2D /\ OwnInRound(r, gidx[r]) # {}
    \/ pc[r] = "fill" /\ ~H2D /\ Receiver[gidx[r]] = r

\* A copy of r fails (an assertion of _copy_to_buffer, a failed RDMA read):
\* the exception goes straight to the finally clause, r's worker is not told.
CopyFails(r) ==
    /\ "copy" \in Faults /\ Copying(r)
    /\ Goto(r, "join")
    /\ outcome' = [outcome EXCEPT ![r] = "local"]
    /\ UNCHANGED <<gidx, voted, bad, held, deviceVars, wire, req, workerVars>>

\* A plausible bug: an error reply does not set ret_code.
SilentVote(r) ==
    /\ pc[r] = "recv" /\ wire[r] \in Replies
    /\ wire' = [wire EXCEPT ![r] = Nothing]
    /\ voted' = [voted EXCEPT ![r] = gidx[r] + 1]
    /\ Goto(r, "reduce")
    /\ UNCHANGED <<gidx, bad, held, outcome, deviceVars, req, workerVars>>

\* Receive the worker's answer to the PREVIOUS request and enter the all_reduce
\* of the error code with it.
Vote(r) ==
    /\ pc[r] = "recv" /\ wire[r] \in Replies
    /\ wire' = [wire EXCEPT ![r] = Nothing]
    /\ bad' = IF wire[r] = Msg("error") THEN bad \cup {gidx[r]} ELSE bad
    /\ voted' = [voted EXCEPT ![r] = gidx[r] + 1]
    /\ Goto(r, "reduce")
    /\ UNCHANGED <<gidx, held, outcome, deviceVars, req, workerVars>>

\* Two plausible bugs: no synchronize after the all_reduce; no all_reduce, only
\* the synchronize.
Unsynchronized(g) == \A q \in Rank : voted[q] > g
Unreduced(g) == \A q \in Rank : moved[q] > g

\* The all_reduce of bucket g has completed on the device of r: every rank has
\* entered it, and on every device the broadcast queued before it is over.
Reduced(g) == \A q \in Rank : voted[q] > g /\ moved[q] > g

\* No rank failed: the worker may load the bucket, r turns to the next one.
SendMeta(r) ==
    LET g == gidx[r] IN
    /\ pc[r] = "reduce" /\ Reduced(g) /\ g \notin bad
    /\ wire' = [wire EXCEPT ![r] = Meta(g)]
    /\ gidx' = [gidx EXCEPT ![r] = g + 1]
    /\ Goto(r, Heading(g + 1))
    /\ UNCHANGED <<voted, bad, held, outcome, deviceVars, req, workerVars>>

\* A plausible bug: the update raises without telling its worker.
QuitSilently(r) ==
    /\ pc[r] = "reduce" /\ Reduced(gidx[r]) /\ gidx[r] \in bad
    /\ outcome' = [outcome EXCEPT ![r] = "remote"]
    /\ Goto(r, "join")
    /\ UNCHANGED <<gidx, voted, bad, held, deviceVars, wire, req, workerVars>>

\* Some rank failed: tell the worker to quit, and raise.
Quit(r) ==
    /\ pc[r] = "reduce" /\ Reduced(gidx[r]) /\ gidx[r] \in bad
    /\ wire' = [wire EXCEPT ![r] = Msg("quit")]
    /\ outcome' = [outcome EXCEPT ![r] = "remote"]
    /\ Goto(r, "join")
    /\ UNCHANGED <<gidx, voted, bad, held, deviceVars, req, workerVars>>

\* After the loop: take the answer to the last bucket, WITHOUT looking at it,
\* and ask the worker to release the buffer.
Drain(r) ==
    /\ pc[r] = "drain" /\ wire[r] \in Replies
    /\ wire' = [wire EXCEPT ![r] = Msg("none")]
    /\ Goto(r, "release")
    /\ UNCHANGED <<gidx, voted, bad, held, outcome, deviceVars, req, workerVars>>

\* The worker has let go of the buffer: free it, and ask for the post_hook.
Release(r) ==
    /\ pc[r] = "release" /\ wire[r] \in Replies
    /\ held' = [held EXCEPT ![r] = FALSE]
    /\ wire' = [wire EXCEPT ![r] = Msg("none")]
    /\ Goto(r, "hook")
    /\ UNCHANGED <<gidx, voted, bad, outcome, deviceVars, req, workerVars>>

Hooked(r) ==
    /\ pc[r] = "hook" /\ wire[r] \in Replies
    /\ wire' = [wire EXCEPT ![r] = Nothing]
    /\ outcome' = [outcome EXCEPT ![r] = "ok"]
    /\ Goto(r, "join")
    /\ UNCHANGED <<gidx, voted, bad, held, deviceVars, req, workerVars>>

\* A plausible bug: the req_thread is not joined.
JoinNobody(r) ==
    /\ pc[r] = "join"
    /\ Goto(r, "barrier")
    /\ UNCHANGED <<gidx, voted, bad, held, outcome, deviceVars, wire, req, workerVars>>

\* The finally clause: join the req_thread, then a barrier of the group.
Join(r) ==
    /\ pc[r] = "join" /\ req[r] = "ended"
    /\ Goto(r, "barrier")
    /\ UNCHANGED <<gidx, voted, bad, held, outcome, deviceVars, wire, req, workerVars>>

\* A plausible bug: there is no barrier in the finally clause.
FinishAlone(r) ==
    /\ pc[r] = "barrier"
    /\ held' = [held EXCEPT ![r] = FALSE]
    /\ Goto(r, "done")
    /\ UNCHANGED <<gidx, voted, bad, outcome, deviceVars, wire, req, workerVars>>

\* Leave the barrier; the buffer of an update that raised is freed on the way out.
Finish(r) ==
    /\ pc[r] = "barrier"
    /\ \A q \in Rank : pc[q] \in {"barrier", "done"}
    /\ held' = [held EXCEPT ![r] = FALSE]
    /\ Goto(r, "done")
    /\ UNCHANGED <<gidx, voted, bad, outcome, deviceVars, wire, req, workerVars>>

-----------------------------------------------------------------------------
(* The device of rank r.                                                   *)

\* r has enqueued a broadcast that its device has not finished.
Posted(r) == pc[r] \in {"recv", "reduce"} /\ moved[r] = gidx[r]

\* The source's device copies h2d_buffer into the half and sends it.
Broadcast(r) ==
    LET g == gidx[r] IN
    /\ Posted(r) /\ Receiver[g] = r
    /\ half' = IF H2D THEN [half EXCEPT ![r][Half(g)] = h2d[r]] ELSE half
    /\ moved' = [moved EXCEPT ![r] = g + 1]
    /\ UNCHANGED <<psVars, h2d, wire, req, workerVars>>

\* The device of another rank receives what the source's half holds.
Accept(r) ==
    LET g == gidx[r]
        s == Receiver[g] IN
    /\ Posted(r) /\ s # r /\ moved[s] > g
    /\ half' = [half EXCEPT ![r][Half(g)] = half[s][Half(g)]]
    /\ moved' = [moved EXCEPT ![r] = g + 1]
    /\ UNCHANGED <<psVars, h2d, wire, req, workerVars>>

-----------------------------------------------------------------------------
(* The req_threads, and the engine's workers they start.                   *)

Group(l) == {w \in Rank : Leader[w] = l}

\* The leader's request reaches the engine, which starts the group's workers.
Dispatch(l) ==
    /\ req[l] = "running" /\ Leader[l] = l
    /\ \A w \in Group(l) : wpc[w] = "idle"
    /\ wpc' = [w \in Rank |-> IF Leader[w] = l THEN "connected" ELSE wpc[w]]
    /\ UNCHANGED <<psVars, deviceVars, wire, req, payload, mapped, applied, fault>>

\* The request returns once every worker of the group has stopped or raised.
Answer(l) ==
    /\ req[l] = "running"
    /\ \A w \in Group(l) : wpc[w] \in {"stopped", "crashed"}
    /\ req' = [req EXCEPT ![l] = "ended"]
    /\ UNCHANGED <<psVars, deviceVars, wire, workerVars>>

\* The request is refused, or its 300 s are over; the exception stays in the thread.
RequestFails(l) ==
    /\ "request" \in Faults /\ req[l] = "running"
    /\ req' = [req EXCEPT ![l] = "ended"]
    /\ UNCHANGED <<psVars, deviceVars, wire, workerVars>>

-----------------------------------------------------------------------------
(* The worker of rank w: update_weights_from_ipc.                          *)

Reply(w, kind) == wire' = [wire EXCEPT ![w] = Msg(kind)]
Become(w, there) == wpc' = [wpc EXCEPT ![w] = there]

Attach(w) ==
    /\ wpc[w] = "connected" /\ wire[w] = Msg("handle")
    /\ mapped' = [mapped EXCEPT ![w] = TRUE]
    /\ Reply(w, "ok") /\ Become(w, "ready")
    /\ UNCHANGED <<psVars, deviceVars, req, payload, applied, fault>>

\* Opening the handle fails: report it, and wait for the server's answer.
AttachFails(w) ==
    /\ "attach" \in Faults
    /\ wpc[w] = "connected" /\ wire[w] = Msg("handle")
    /\ Reply(w, "error") /\ Become(w, "ack")
    /\ fault' = [fault EXCEPT ![w] = "attach"]
    /\ UNCHANGED <<psVars, deviceVars, req, payload, mapped, applied>>

\* After a failed attach the worker raises on whatever it receives.
Acknowledge(w) ==
    /\ wpc[w] = "ack" /\ wire[w] # Msg("error") /\ wire[w] # Nothing
    /\ wire' = [wire EXCEPT ![w] = Nothing]
    /\ Become(w, "crashed")
    /\ UNCHANGED <<psVars, deviceVars, req, payload, mapped, applied, fault>>

\* Receive a list of tensor metadata: views on the half are handed to run.
Receive(w) ==
    /\ wpc[w] = "ready" /\ wire[w].kind = "meta"
    /\ payload' = [payload EXCEPT ![w] = wire[w].idx]
    /\ wire' = [wire EXCEPT ![w] = Nothing]
    /\ Become(w, "loading")
    /\ UNCHANGED <<psVars, deviceVars, req, mapped, applied, fault>>

\* run and synchronize are over; what was read is what the half held.
Load(w) ==
    /\ wpc[w] = "loading"
    /\ applied' = [applied EXCEPT ![w] = Append(@, half[w][Half(payload[w])])]
    /\ payload' = [payload EXCEPT ![w] = None]
    /\ Reply(w, "ok") /\ Become(w, "ready")
    /\ UNCHANGED <<psVars, deviceVars, req, mapped, fault>>

\* run raises: the worker answers with the traceback and stays.
LoadFails(w) ==
    /\ "load" \in Faults /\ wpc[w] = "loading"
    /\ fault' = [fault EXCEPT ![w] = "load"]
    /\ payload' = [payload EXCEPT ![w] = None]
    /\ Reply(w, "error") /\ Become(w, "ready")
    /\ UNCHANGED <<psVars, deviceVars, req, mapped, applied>>

\* The first None: drop the views, unmap, answer.
Unmap(w) ==
    /\ wpc[w] = "ready" /\ wire[w] = Msg("none")
    /\ mapped' = [mapped EXCEPT ![w] = FALSE]
    /\ Reply(w, "ok") /\ Become(w, "released")
    /\ UNCHANGED <<psVars, deviceVars, req, payload, applied, fault>>

\* The second None: run the post_hook, answer, stop.
Hook(w) ==
    /\ wpc[w] = "released" /\ wire[w] = Msg("none")
    /\ Reply(w, "ok") /\ Become(w, "stopped")
    /\ UNCHANGED <<psVars, deviceVars, req, payload, mapped, applied, fault>>

\* The post_hook raises: nothing catches it, and no answer is sent.
HookFails(w) ==
    /\ "hook" \in Faults
    /\ wpc[w] = "released" /\ wire[w] = Msg("none")
    /\ wire' = [wire EXCEPT ![w] = Nothing]
    /\ fault' = [fault EXCEPT ![w] = "hook"]
    /\ Become(w, "crashed")
    /\ UNCHANGED <<psVars, deviceVars, req, payload, mapped, applied>>

\* An Exception payload: raise it, unmapping on the way out.
Obey(w) ==
    /\ wpc[w] = "ready" /\ wire[w] = Msg("quit")
    /\ wire' = [wire EXCEPT ![w] = Nothing]
    /\ mapped' = [mapped EXCEPT ![w] = FALSE]
    /\ Become(w, "crashed")
    /\ UNCHANGED <<psVars, deviceVars, req, payload, applied, fault>>

-----------------------------------------------------------------------------

Server(r) == \/ Start(r) \/ SendHandle(r) \/ Stage(r) \/ Fill(r) \/ CopyFails(r)
             \/ Vote(r) \/ SendMeta(r) \/ Quit(r) \/ Drain(r) \/ Release(r)
             \/ Hooked(r) \/ Join(r) \/ Finish(r)

Device(r) == Broadcast(r) \/ Accept(r)

Thread(l) == Dispatch(l) \/ Answer(l) \/ RequestFails(l)

Worker(w) == \/ Attach(w) \/ AttachFails(w) \/ Acknowledge(w) \/ Receive(w)
             \/ Load(w) \/ LoadFails(w) \/ Unmap(w) \/ Hook(w) \/ HookFails(w)
             \/ Obey(w)

\* The update is over on every rank.
Terminating == (\A r \in Rank : pc[r] = "done") /\ UNCHANGED vars

Next == (\E r \in Rank : Server(r) \/ Device(r) \/ Thread(r) \/ Worker(r)) \/ Terminating

Spec == Init /\ [][Next]_vars

\* Every thread, device and worker process that can take a step takes one.
Fairness == \A r \in Rank : /\ WF_vars(Server(r))
                            /\ WF_vars(Device(r))
                            /\ WF_vars(Thread(r))
                            /\ WF_vars(Worker(r))

FairSpec == Spec /\ Fairness

-----------------------------------------------------------------------------
(* Properties.                                                             *)

Content == Bucket \cup {None}

Kinds == {"nothing", "handle", "meta", "none", "quit", "ok", "error"}

\* Every variable has its type.
TypeOK ==
    /\ pc \in [Rank -> {"start", "handle", "stage", "fill", "recv", "reduce", "drain",
                        "release", "hook", "join", "barrier", "done"}]
    /\ gidx \in [Rank -> 0 .. NBuckets]
    /\ voted \in [Rank -> 0 .. NBuckets]
    /\ bad \subseteq Bucket
    /\ moved \in [Rank -> 0 .. NBuckets]
    /\ h2d \in [Rank -> Content]
    /\ half \in [Rank -> [0..1 -> Content]]
    /\ held \in [Rank -> BOOLEAN]
    /\ wire \in [Rank -> [kind : Kinds, idx : Content]]
    /\ req \in [Rank -> {"idle", "running", "ended"}]
    /\ outcome \in [Rank -> {"none", "ok", "remote", "local"}]
    /\ wpc \in [Rank -> {"idle", "connected", "ack", "ready", "loading", "released",
                         "stopped", "crashed"}]
    /\ payload \in [Rank -> Content]
    /\ mapped \in [Rank -> BOOLEAN]
    /\ applied \in [Rank -> Seq(Content)]
    /\ fault \in [Rank -> {"none", "attach", "load", "hook"}]

\* While a worker loads a bucket, the half it reads holds that bucket: the
\* broadcasts of later buckets, already under way, go to the other half
\* (the gidx % 2 double buffering of the update loop).
HalfIntact ==
    \A w \in Rank : wpc[w] = "loading" => half[w][Half(payload[w])] = payload[w]

\* Each worker has loaded the buckets 0, 1, ... in order, each from a half that
\* still held it; a bucket that failed is the last one it was given.
AppliedInOrder ==
    \A w \in Rank : \A i \in 1 .. Len(applied[w]) : applied[w][i] = i - 1

\* A rank whose worker still maps the buffer has not freed it: on the way out
\* of a failed update this takes the join of the group's leader AND the barrier.
FreedAfterUnmap == \A r \in Rank : mapped[r] => held[r]

\* update returns or raises only when its worker is gone, and returns normally
\* only when the worker has run its post_hook.
WorkerGone ==
    \A r \in Rank : /\ pc[r] = "done" => wpc[r] \in {"stopped", "crashed"}
                    /\ outcome[r] = "ok" => wpc[r] = "stopped"

\* No rank returns from an update that raises on another rank.
Agreement ==
    \A q, r \in Rank : outcome[q] = "ok" => outcome[r] \in {"none", "ok"}

\* Every update ends, on every rank.
Termination == <>(\A r \in Rank : pc[r] = "done")

\* worker.py:115: "all workers should quit in the same way by receiving the
\* exception from PS": when one worker failed to load a bucket, no worker ends
\* its run normally.
FailureReachesAll ==
    (\E w \in Rank : fault[w] = "load") => \A v \in Rank : wpc[v] # "stopped"

\* The same sentence for a failure on the server's side: once update has failed
\* on its rank, a worker does not wait for ever.
WorkersQuit ==
    \A r \in Rank : outcome[r] \in {"remote", "local"} ~> wpc[r] \in {"stopped", "crashed"}

-----------------------------------------------------------------------------
(* The inductive invariant behind HalfIntact, AppliedInOrder and Agreement. *)

\* Where a rank is in the loop, and which collectives it has entered.
Position ==
    \A r \in Rank :
        /\ pc[r] \in {"start", "handle"} => gidx[r] = 0
        /\ pc[r] \in {"stage", "fill", "recv", "reduce"} => gidx[r] < NBuckets
        /\ pc[r] \in {"drain", "release", "hook"} \/ outcome[r] = "ok" => gidx[r] = NBuckets
        /\ outcome[r] \in {"remote", "local"} => gidx[r] < NBuckets
        /\ outcome[r] = "remote" => gidx[r] \in bad
        /\ outcome[r] # "none" <=> pc[r] \in {"join", "barrier", "done"}
        /\ voted[r] = IF pc[r] = "reduce" \/ outcome[r] = "remote" THEN gidx[r] + 1 ELSE gidx[r]
        /\ \/ moved[r] = gidx[r]
           \/ moved[r] = gidx[r] + 1 /\ (pc[r] \in {"recv", "reduce"} \/ outcome[r] = "remote")

\* No rank is past a bucket another rank has not voted on and received.
LockStep ==
    /\ \A q, r \in Rank : gidx[q] <= moved[r] /\ gidx[q] <= voted[r]
    /\ \A r \in Rank : \A g \in bad : gidx[r] <= g

\* What is on a rank's socket, and how far its worker has come.
Conversation ==
    \A r \in Rank :
        /\ pc[r] \in {"start", "handle"} => wire[r] = Nothing /\ applied[r] = <<>>
        /\ wire[r].kind = "handle" => pc[r] # "reduce" /\ gidx[r] = 0 /\ applied[r] = <<>>
        /\ wire[r].kind = "meta" => /\ pc[r] # "reduce" /\ gidx[r] > 0
                                   /\ wire[r].idx = gidx[r] - 1
                                   /\ Len(applied[r]) = gidx[r] - 1
        /\ wire[r].kind = "none" => pc[r] \in {"release", "hook"}
        /\ wire[r] = Msg("ok") /\ pc[r] \in {"stage", "fill", "recv"} => Len(applied[r]) = gidx[r]
        /\ pc[r] = "reduce" /\ gidx[r] \notin bad => Len(applied[r]) = gidx[r]
        /\ wpc[r] = "loading" => /\ wire[r] = Nothing /\ pc[r] # "reduce" /\ gidx[r] > 0
                                /\ payload[r] = gidx[r] - 1
                                /\ Len(applied[r]) = gidx[r] - 1

\* What the staging buffer and the halves hold.
Buffers ==
    \A r \in Rank :
        /\ \A g \in Bucket : g + 1 \in {gidx[r], moved[r]} => half[r][Half(g)] = g
        /\ H2D /\ pc[r] \in {"fill", "recv", "reduce"} =>
               \A k \in OwnInRound(r, gidx[r]) : h2d[r] = k
        /\ ~H2D /\ pc[r] \in {"recv", "reduce"} /\ Receiver[gidx[r]] = r =>
               half[r][Half(gidx[r])] = gidx[r]

IInv == TypeOK /\ Position /\ LockStep /\ Conversation /\ Buffers /\ AppliedInOrder

\* How far the worker of a rank can be, given where the rank is, whose turn it is.
Turns ==
    \A r \in Rank :
        /\ pc[r] \in {"start", "handle"} => wpc[r] \in {"idle", "connected"}
        /\ pc[r] \in {"stage", "fill", "recv", "reduce", "drain"} =>
               wpc[r] \in {"connected", "ack", "ready", "loading"}
        /\ pc[r] \in {"release", "hook"} => wpc[r] \notin {"idle", "connected", "ack", "loading"}
        /\ wpc[r] = "connected" => wire[r].kind = IF pc[r] \in {"start", "handle"} THEN "nothing" ELSE "handle"
        /\ wpc[r] = "ack" => /\ gidx[r] = 0
                             /\ wire[r] = Msg("error") \/ (0 \in bad /\ wire[r] \in {Nothing, Msg("quit")})
        /\ wire[r] = Msg("quit") => outcome[r] = "remote"
        /\ wpc[r] = "idle" => pc[r] \in {"start", "handle"}
        /\ pc[r] = "release" => wpc[r] = IF wire[r] = Msg("none") THEN "ready" ELSE "released"
        /\ pc[r] = "hook" => CASE wire[r] = Msg("none") -> wpc[r] = "released"
                               [] wire[r] = Nothing -> wpc[r] = "crashed"
                               [] OTHER -> wpc[r] = "stopped"
        /\ pc[r] = "reduce" => wire[r] = Nothing
        /\ outcome[r] = "ok" => wpc[r] = "stopped"
        /\ mapped[r] => wpc[r] \in {"ready", "loading"}

\* A rank past its join has waited for its request, and one past the barrier for
\* all ranks; without a request that fails, its workers are gone then.
Joined ==
    /\ \A r \in Rank : pc[r] \in {"barrier", "done"} => req[r] = "ended"
    /\ \A r \in Rank : req[r] = "idle" <=> pc[r] = "start"
    /\ \A q, r \in Rank : pc[r] = "done" => pc[q] \in {"barrier", "done"}
    /\ "request" \notin Faults =>
           \A r \in Rank : req[Leader[r]] = "ended" => wpc[r] \in {"stopped", "crashed"}

\* The buffer is held until its release, or until the end of an update that fails.
Held ==
    \A r \in Rank : held[r] <=> pc[r] \notin {"start", "hook", "done"} /\ outcome[r] # "ok"

\* A worker has loaded the buckets its server has sent, but for the one it is at or
\* failed on, and its failure before the last bucket is on its way to the ranks, or
\* known to them.
Answering == {"stage", "fill", "recv"}

Accounted(w) ==
    /\ fault[w] \in {"none", "attach", "load"} /\ outcome[w] # "local"
    /\ wire[w].kind = "meta" => pc[w] \in Answering \cup {"drain"}
    /\ wire[w].kind = "meta" \/ wpc[w] \in {"idle", "connected", "loading"} => fault[w] = "none"
    /\ Len(applied[w]) = IF wire[w].kind = "meta" \/ wpc[w] = "loading" \/ fault[w] = "load"
                         THEN gidx[w] - 1 ELSE gidx[w]
    /\ fault[w] = "attach" => gidx[w] = 0
    /\ fault[w] # "none" /\ gidx[w] < NBuckets =>
           gidx[w] \in bad \/ (wire[w] = Msg("error") /\ pc[w] \in Answering)
    /\ wire[w] = Msg("error") /\ pc[w] \in Answering => fault[w] # "none"
    /\ outcome[w] = "remote" => \/ wire[w] = Msg("quit") /\ wpc[w] \in {"ack", "ready"}
                                \/ wire[w] = Nothing /\ wpc[w] = "crashed"

\* The failures account for the verdicts, as long as no post_hook and no copy fails.
Blamed ==
    /\ \A w \in Rank : Accounted(w)
    /\ \A g \in bad : \E w \in Rank : fault[w] # "none" /\ gidx[w] = g

-----------------------------------------------------------------------------
(* The promise of update: hide the transport.                              *)

Abstract == INSTANCE WeightUpdate WITH
    verdict <- [r \in Rank |-> IF pc[r] # "done" THEN "none"
                               ELSE IF outcome[r] = "ok" THEN "returned" ELSE "raised"]

\* The pipeline does what WeightUpdate promises: lock-step loading in order, and
\* one verdict for all ranks, fixed by the workers' failures.
Promise == Abstract!Spec
=============================================================================
