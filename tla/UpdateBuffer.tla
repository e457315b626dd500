---------------------------- MODULE UpdateBuffer ----------------------------
(***************************************************************************)
(* The device memory of the updates of one rank, one after the other: from *)
(* its allocation and its registration with the P2P store as               *)
(* __ipc_buffer__ through the IPC handle the rank exports (ipc_handler.py, *)
(* xpu_ipc) to the worker that maps it, and back, on every way out of      *)
(* update.  A worker belongs to one update, but may outlive it.            *)
(*                                                                         *)
(* With "torch" (CUDA, NPU) a handle needs no release; with "xpu" the      *)
(* rank keeps it in a table, by address, until it puts it, and there is no *)
(* P2P update.  The loop over the buckets and the other ranks are one      *)
(* choice of a verdict (UpdatePipeline).                                   *)
(*                                                                         *)
(* One rank of an inference group, its leader, makes the request that      *)
(* starts the workers of the group: the rank may be the leader, or not.    *)
(***************************************************************************)
EXTENDS Integers, FiniteSets

CONSTANTS
    NUpdates,   \* how many times update is called
    Addr,       \* the addresses device memory is allocated at
    Faults      \* what may fail in this instance

\* export or what follows it; the registration; the request (refused or timed
\* out); opening or wrapping the handle; a copy; the barrier of the group.
FaultKinds == {"early", "engine", "request", "open", "wrap", "copy", "barrier"}

\* No address.
NULL == "null"

ASSUME BufferAssumption ==
    /\ NUpdates \in Nat /\ NULL \notin Addr /\ Cardinality(Addr) >= 3
    /\ Faults \subseteq FaultKinds

VARIABLES
    backend,        \* "torch" or "xpu"
    leader,         \* whether this rank makes the request of its group
    update, pc,     \* the number of the update under way or the last, and where it is
    p2p,            \* whether it is a P2P update
    buffer, h2d,    \* the addresses of its buffers, NULL when dropped or not there
    named, engine,  \* __ipc_buffer__ in named_tensors; what the engine has registered
    exported,       \* _exported_ptr of its IPC handler
    handles,        \* g_handles[a]: the update whose handle is kept for address a, or 0
    puts,           \* puts[u]: how often the handle of update u was put (history)
    request,        \* request[u]: the leader's request of update u: "none", "due" (when
                    \* another rank is to make it), "running", "ended"
    wire,           \* wire[u]: the message on the socket of update u
    worker,         \* worker[u]: where the worker of update u stands
    mapped,         \* mapped[u]: it has the handle open
    mishaps         \* the faults that have happened (history)

role == <<backend, leader>>
server == <<update, pc, p2p>>
memory == <<buffer, h2d>>
store == <<named, engine>>
ipc == <<exported, handles, puts>>
peer == <<wire, worker, mapped>>
vars == <<role, server, memory, store, ipc, request, peer, mishaps>>

Updates == 1 .. NUpdates
All(x) == [u \in Updates |-> x]

\* Memory that something refers to; the P2P store keeps its tensors alive.
Allocated == {buffer, h2d, named} \ {NULL}

Init ==
    /\ backend \in {"torch", "xpu"} /\ leader \in BOOLEAN
    /\ update = 0 /\ pc = "idle" /\ p2p = FALSE
    /\ buffer = NULL /\ h2d = NULL /\ named = NULL /\ engine = {}
    /\ exported = NULL /\ handles = [a \in Addr |-> 0] /\ puts = All(0)
    /\ request = All("none") /\ wire = All("nothing")
    /\ worker = All("none") /\ mapped = All(FALSE)
    /\ mishaps = {}

Goto(there) == pc' = there /\ UNCHANGED <<update, p2p>>
Happens(fault) == fault \in Faults /\ mishaps' = mishaps \cup {fault}
Send(u, msg) == wire' = [wire EXCEPT ![u] = msg]
Ask(u) == request' = [request EXCEPT ![u] = "running"] /\ worker' = [worker EXCEPT ![u] = "asked"]
Await(u) == request' = [request EXCEPT ![u] = "due"] /\ UNCHANGED worker

-----------------------------------------------------------------------------
(* The parameter server: update, _update_per_bucket.                       *)

\* Two buffers, or one if the device has no room for an h2d_buffer.
Allocate(withP2P) ==
    /\ pc = "idle" /\ update < NUpdates
    /\ withP2P => backend = "torch"
    /\ update' = update + 1 /\ p2p' = withP2P
    /\ pc' = IF withP2P THEN "publish" ELSE "export"
    /\ buffer' \in Addr \ Allocated
    /\ h2d' \in (Addr \ (Allocated \cup {buffer'})) \cup {NULL}
    /\ UNCHANGED <<role, store, ipc, request, peer, mishaps>>

\* register_named_tensors: the name first, then the engine.
Publish ==
    /\ pc = "publish"
    /\ named' = IF h2d = NULL THEN buffer ELSE h2d
    /\ \/ engine' = engine \cup {named'} /\ Goto("export") /\ UNCHANGED mishaps
       \/ Happens("engine") /\ Goto("exit") /\ UNCHANGED engine
    /\ UNCHANGED <<role, memory, ipc, request, peer>>

\* A plausible bug: the handle is put as soon as its bytes have been copied.
ExportAndPut ==
    /\ pc = "export" /\ Goto("start")
    /\ IF backend = "torch" THEN UNCHANGED ipc
       ELSE /\ exported' = buffer
            /\ puts' = [puts EXCEPT ![update] = @ + 1]
            /\ UNCHANGED handles
    /\ UNCHANGED <<role, memory, store, request, peer, mishaps>>

\* ipc_get_handle keeps the handle, and puts one left from the same address.
Export ==
    /\ pc = "export" /\ Goto("start")
    /\ IF backend = "torch" THEN UNCHANGED ipc
       ELSE /\ exported' = buffer
            /\ handles' = [handles EXCEPT ![buffer] = update]
            /\ puts' = [u \in Updates |-> puts[u] + IF handles[buffer] = u THEN 1 ELSE 0]
    /\ UNCHANGED <<role, memory, store, request, peer, mishaps>>

\* The export, the binding of the socket or the start of the thread raises; the
\* socket may be known to the leader by then.
StartFails ==
    /\ pc \in {"export", "start"} /\ Happens("early") /\ Goto("exit")
    /\ \/ UNCHANGED <<request, worker>>
       \/ pc = "start" /\ ~leader /\ Await(update)
    /\ UNCHANGED <<role, memory, store, ipc, wire, mapped>>

\* Bind the socket and start the request thread, which has something to do on the
\* leader only.
StartRequest ==
    /\ pc = "start" /\ Goto("send")
    /\ IF leader THEN Ask(update) ELSE Await(update)
    /\ UNCHANGED <<role, memory, store, ipc, wire, mapped, mishaps>>

\* send_pyobj(handle) waits for a worker to connect.
SendHandle ==
    /\ pc = "send" /\ worker[update] = "connected" /\ Goto("answer")
    /\ Send(update, "handle")
    /\ UNCHANGED <<role, memory, store, ipc, request, worker, mapped, mishaps>>

\* The worker has answered, and no worker has failed: the buckets are sent.
Answered ==
    /\ pc = "answer" /\ wire[update] = "ok" /\ Goto("loop")
    /\ Send(update, "nothing")
    /\ UNCHANGED <<role, memory, store, ipc, request, worker, mapped, mishaps>>

\* This worker, or one of another rank, has failed: the worker is told.
Quit ==
    /\ \/ pc = "answer" /\ wire[update] \in {"ok", "error"}
       \/ pc = "loop"
    /\ Goto("join")
    /\ Send(update, "quit")
    /\ UNCHANGED <<role, memory, store, ipc, request, worker, mapped, mishaps>>

\* A copy of this rank fails: straight to the finally clause.
CopyFails ==
    /\ pc \in {"answer", "loop"} /\ Happens("copy") /\ Goto("join")
    /\ UNCHANGED <<role, memory, store, ipc, request, peer>>

\* All the buckets are through: the worker shall release the buffer.
AskRelease ==
    /\ pc = "loop" /\ Goto("release")
    /\ Send(update, "none")
    /\ UNCHANGED <<role, memory, store, ipc, request, worker, mapped, mishaps>>

\* A plausible bug: the buffers are dropped without waiting for the answer.
ReleaseAtOnce ==
    /\ pc = "release" /\ Goto("hook")
    /\ buffer' = NULL /\ h2d' = NULL
    /\ IF wire[update] = "ok" THEN Send(update, "none") ELSE UNCHANGED wire
    /\ UNCHANGED <<role, store, ipc, request, worker, mapped, mishaps>>

\* It has: drop the buffers, and ask for the post_hook.
Release ==
    /\ pc = "release" /\ wire[update] = "ok" /\ Goto("hook")
    /\ buffer' = NULL /\ h2d' = NULL
    /\ Send(update, "none")
    /\ UNCHANGED <<role, store, ipc, request, worker, mapped, mishaps>>

Hooked ==
    /\ pc = "hook" /\ wire[update] = "ok" /\ Goto("join")
    /\ Send(update, "nothing")
    /\ UNCHANGED <<role, memory, store, ipc, request, worker, mapped, mishaps>>

\* The finally clause: the request thread, on the leader only with a request to
\* wait for, then the barrier.
Join ==
    /\ pc = "join" /\ Goto("barrier")
    /\ leader => request[update] = "ended"
    /\ UNCHANGED <<role, memory, store, ipc, request, peer, mishaps>>

BarrierFails ==
    /\ pc = "barrier" /\ Happens("barrier") /\ Goto("exit")
    /\ UNCHANGED <<role, memory, store, ipc, request, peer>>

\* The barrier is passed: the leader has joined its request.
AllJoined == pc = "barrier" /\ request[update] = "ended"

\* A plausible bug: only an update that went well withdraws its buffer.
WithdrawIfWell ==
    /\ AllJoined /\ Goto("exit")
    /\ IF p2p /\ buffer = NULL THEN named' = NULL /\ engine' = engine \ {named} ELSE UNCHANGED store
    /\ UNCHANGED <<role, memory, ipc, request, peer, mishaps>>

\* unregister_named_tensors of __ipc_buffer__, if the engine agrees.
Withdraw ==
    /\ AllJoined /\ Goto("exit")
    /\ \/ ~p2p /\ UNCHANGED <<store, mishaps>>
       \/ p2p /\ named' = NULL /\ engine' = engine \ {named} /\ UNCHANGED mishaps
       \/ p2p /\ Happens("engine") /\ UNCHANGED store
    /\ UNCHANGED <<role, memory, ipc, request, peer>>

\* A plausible bug: the handle is released on the normal way out only.
DetachIfWell ==
    /\ pc = "exit" /\ Goto("raise")
    /\ IF exported = NULL \/ buffer # NULL THEN UNCHANGED <<handles, puts>>
       ELSE /\ handles' = [handles EXCEPT ![exported] = 0]
            /\ puts' = [u \in Updates |-> puts[u] + IF handles[exported] = u THEN 1 ELSE 0]
    /\ exported' = NULL
    /\ UNCHANGED <<role, memory, store, request, peer, mishaps>>

\* The end of the with statement: ipc_release_handle of the exported address.
Detach ==
    /\ pc = "exit" /\ Goto("raise")
    /\ IF exported = NULL THEN UNCHANGED <<handles, puts>>
       ELSE /\ handles' = [handles EXCEPT ![exported] = 0]
            /\ puts' = [u \in Updates |-> puts[u] + IF handles[exported] = u THEN 1 ELSE 0]
    /\ exported' = NULL
    /\ UNCHANGED <<role, memory, store, request, peer, mishaps>>

\* update has returned or raised, and with it go the variables of its frames.
Leave ==
    /\ pc = "raise" /\ Goto("idle")
    /\ buffer' = NULL /\ h2d' = NULL
    /\ UNCHANGED <<role, store, ipc, request, peer, mishaps>>

Server ==
    \/ \E withP2P \in BOOLEAN : Allocate(withP2P)
    \/ Publish \/ Export \/ StartFails \/ StartRequest \/ SendHandle \/ Answered
    \/ Quit \/ CopyFails \/ AskRelease \/ Release \/ Hooked
    \/ Join \/ BarrierFails \/ Withdraw \/ Detach \/ Leave

-----------------------------------------------------------------------------
(* The requests, the engine and the workers.                               *)

\* The leader, another rank, makes its request, sooner or later.
LeaderAsks(u) ==
    /\ request[u] = "due" /\ Ask(u)
    /\ UNCHANGED <<role, server, memory, store, ipc, wire, mapped, mishaps>>

\* The engine starts the worker: at once, or late, when the request that asked
\* for it has long timed out.
Dispatch(u) ==
    /\ worker[u] = "asked"
    /\ worker' = [worker EXCEPT ![u] = "connected"]
    /\ UNCHANGED <<role, server, memory, store, ipc, request, wire, mapped, mishaps>>

\* A request returns when its workers are gone, this rank's among them.
RequestReturns(u) ==
    /\ request[u] = "running" /\ worker[u] = "gone"
    /\ request' = [request EXCEPT ![u] = "ended"]
    /\ UNCHANGED <<role, server, memory, store, ipc, peer, mishaps>>

\* A request is refused or times out.
RequestFails(u) ==
    /\ request[u] = "running" /\ Happens("request")
    /\ request' = [request EXCEPT ![u] = "ended"]
    /\ UNCHANGED <<role, server, memory, store, ipc, peer>>

Worker(u, from, msg, to, answer, open) ==
    /\ worker[u] = from /\ wire[u] = msg
    /\ worker' = [worker EXCEPT ![u] = to] /\ Send(u, answer)
    /\ mapped' = [mapped EXCEPT ![u] = open]
    /\ UNCHANGED <<role, server, memory, store, ipc, request>>

Attach(u) == Worker(u, "connected", "handle", "attached", "ok", TRUE) /\ UNCHANGED mishaps

\* The handle cannot be opened.
OpenFails(u) == Happens("open") /\ Worker(u, "connected", "handle", "failed", "error", FALSE)

\* With xpu: it can, and then wrap_tensor raises.
WrapFails(u) ==
    /\ backend = "xpu" /\ Happens("wrap")
    /\ Worker(u, "connected", "handle", "failed", "error", TRUE)

\* A failed worker raises on any answer, without a detach.
Acknowledge(u) ==
    /\ wire[u] \notin {"nothing", "ok", "error"}
    /\ Worker(u, "failed", wire[u], "gone", "nothing", mapped[u]) /\ UNCHANGED mishaps

\* The first None: detach, or drop the last reference.
LetGo(u) == Worker(u, "attached", "none", "released", "ok", FALSE) /\ UNCHANGED mishaps

\* The second None.
PostHook(u) == Worker(u, "released", "none", "gone", "ok", FALSE) /\ UNCHANGED mishaps

\* An exception: the finally clause detaches.
Obey(u) == Worker(u, "attached", "quit", "gone", "nothing", FALSE) /\ UNCHANGED mishaps

Next ==
    \/ Server
    \/ \E u \in Updates : \/ LeaderAsks(u) \/ RequestReturns(u) \/ RequestFails(u)
                          \/ Dispatch(u) \/ Attach(u) \/ OpenFails(u) \/ WrapFails(u)
                          \/ Acknowledge(u) \/ LetGo(u) \/ PostHook(u) \/ Obey(u)

Spec == Init /\ [][Next]_vars

-----------------------------------------------------------------------------
(* Properties.                                                             *)

\* Something keeps the rank from leaving its update before its worker has gone:
\* its own request or the barrier behind the leader's, unless they fail.
Guarded == "request" \notin mishaps /\ (leader \/ "barrier" \notin mishaps)

\* As long as no request ends before its workers, nor, on a rank that leaves the
\* request to its leader, a barrier fails: a handle is opened while its update is
\* under way and the exporter keeps it ("Release only in detach(): freeing before
\* the consumer opens can drop the fd", ipc_handler.py:94).
OpenedInTime ==
    [][\A u \in Updates : ~mapped[u] /\ mapped'[u] /\ Guarded =>
           /\ u = update /\ buffer # NULL
           /\ backend = "xpu" => handles[buffer] = u]_vars

\* Whatever fails: a handle is put once at most, and not one is left between
\* updates ("`with` releases the exported IPC handle on every exit path",
\* ps.py:637), also when a later update gets the same address.
HandlesPutOnce ==
    /\ \A u \in Updates : puts[u] <= 1
    /\ pc = "idle" => \A a \in Addr : handles[a] = 0

\* A worker maps the buffer of the update under way only, and that buffer has
\* not been freed: as long as no request ends early, no mapping leaks and, on a
\* rank that leaves the request to its leader, no barrier fails.
UnmappedBeforeFreed ==
    Guarded /\ "wrap" \notin mishaps =>
        \A u \in Updates : mapped[u] => u = update /\ buffer # NULL

\* The engine's memory is never freed under it, update after update, although
\* the buffers of a failed update go with its frames: as long as no update
\* fails before its loop or in its finally clause (ps.py:867, 972).
PublishedIsAllocated ==
    mishaps \cap {"early", "engine", "barrier"} = {} => engine \subseteq Allocated

-----------------------------------------------------------------------------
(* The inductive invariant behind them.                                    *)

Stages == {"idle", "publish", "export", "start", "send", "answer", "loop", "release",
           "hook", "join", "barrier", "exit", "raise"}
Started == {"send", "answer", "loop", "release", "hook", "join"}
Messages == {"nothing", "handle", "ok", "error", "quit", "none"}
WorkerStages == {"none", "asked", "connected", "attached", "failed", "released", "gone"}

\* Every variable has its type.
TypeOK ==
    /\ backend \in {"torch", "xpu"} /\ leader \in BOOLEAN
    /\ update \in 0 .. NUpdates /\ pc \in Stages /\ p2p \in BOOLEAN
    /\ buffer \in Addr \cup {NULL} /\ h2d \in Addr \cup {NULL}
    /\ named \in Addr \cup {NULL} /\ engine \subseteq Addr
    /\ exported \in Addr \cup {NULL}
    /\ handles \in [Addr -> 0 .. NUpdates] /\ puts \in [Updates -> Nat]
    /\ request \in [Updates -> {"none", "due", "running", "ended"}]
    /\ wire \in [Updates -> Messages] /\ worker \in [Updates -> WorkerStages]
    /\ mapped \in [Updates -> BOOLEAN] /\ mishaps \subseteq FaultKinds

\* An update has its buffer at least until it asks for its release.
HasBuffer ==
    /\ pc # "idle" => update \in Updates
    /\ pc \in {"publish", "export", "start", "send", "answer", "loop", "release"} => buffer # NULL

\* The only handle kept is that of the address exported, by the update under way,
\* which has not put it.
HandleKept ==
    /\ \A a \in Addr : handles[a] = IF a = exported THEN update ELSE 0
    /\ exported # NULL => pc \notin {"idle", "publish", "export", "raise"}
    /\ exported # NULL /\ buffer # NULL => exported = buffer
    /\ backend = "xpu" /\ pc \in Started \cup {"start", "barrier"} => exported # NULL
    /\ \A u \in Updates :
          /\ puts[u] <= 1
          /\ puts[u] > 0 => u < update \/ (u = update /\ pc \in {"raise", "idle"})

\* Between its publication and its withdrawal, the engine knows __ipc_buffer__
\* and nothing else.
EngineKnows ==
    mishaps \cap {"early", "engine", "barrier"} = {} =>
        /\ engine \subseteq {named} \ {NULL}
        /\ pc = "publish" => p2p
        /\ named # NULL => p2p /\ pc \in Started \cup {"export", "start", "barrier"}

\* Where the rank may be while its worker can have the buffer open.
Serving == {"answer", "loop", "release", "hook", "join"} \cup (IF leader THEN {} ELSE {"barrier"})

\* The worker has the handle, and it is open or about to be.
Live(u) == worker[u] = "attached" \/ (worker[u] = "connected" /\ wire[u] = "handle")

\* A request that does not end early covers the life of its worker, which has the
\* handle open only when it is attached; the request of the leader covers it up to
\* the barrier, the rank's own up to the join, and then there is a buffer.
WorkerCovered ==
    Guarded =>
        \A u \in Updates :
            /\ u > update \/ (u = update /\ pc \in {"publish", "export", "start"}) => request[u] = "none"
            /\ request[u] \in {"none", "due"} => worker[u] = "none"
            /\ request[u] = "ended" => worker[u] = "gone"
            /\ worker[u] \in {"none", "asked"} => wire[u] # "handle"
            /\ Live(u) => u = update /\ pc \in Serving /\ buffer # NULL
            /\ u = update /\ pc = "release" =>
                  wire[u] # "handle" /\ ~(wire[u] = "ok" /\ worker[u] = "attached")
            /\ "wrap" \notin mishaps /\ mapped[u] => worker[u] = "attached"

BufferInv == TypeOK /\ HasBuffer /\ HandleKept /\ EngineKnows /\ WorkerCovered
=============================================================================
