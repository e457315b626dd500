------------------------- MODULE UpdateBufferProofs -------------------------
(***************************************************************************)
(* What holds of the device memory of a rank's updates, for any number of  *)
(* them, any addresses and any set of faults: BufferInv is inductive, and  *)
(* the four properties of UpdateBuffer follow from its parts.              *)
(***************************************************************************)
EXTENDS UpdateBuffer, TLAPS

-----------------------------------------------------------------------------
(* The steps, by what they leave alone.                                    *)

\* A step of a worker, or of its socket's other end.
WorkerStep(u) ==
    \/ Dispatch(u) \/ Attach(u) \/ OpenFails(u) \/ WrapFails(u)
    \/ Acknowledge(u) \/ LetGo(u) \/ PostHook(u) \/ Obey(u)

\* A step of a request of the leader.
RequestStep(u) == LeaderAsks(u) \/ RequestReturns(u) \/ RequestFails(u)

\* The engine, the requests and the workers leave the server's side alone.
LEMMA OthersLeaveServer ==
    ASSUME \E u \in Updates : RequestStep(u) \/ WorkerStep(u)
    PROVE  UNCHANGED <<role, server, memory, store, ipc>> /\ mishaps \subseteq mishaps'
BY DEF RequestStep, LeaderAsks, RequestReturns, RequestFails, WorkerStep, Dispatch, Attach, OpenFails, WrapFails,
       Acknowledge, LetGo, PostHook, Obey, Worker, Happens

\* A worker's step is one of the worker of a single update.
LEMMA WorkerStepIsLocal ==
    ASSUME TypeOK, NEW u \in Updates, WorkerStep(u)
    PROVE  /\ UNCHANGED request
           /\ \A v \in Updates \ {u} :
                 worker'[v] = worker[v] /\ wire'[v] = wire[v] /\ mapped'[v] = mapped[v]
<1>1. ASSUME NEW from, NEW msg, NEW to, NEW answer, NEW open, Worker(u, from, msg, to, answer, open)
      PROVE  /\ UNCHANGED request
             /\ \A v \in Updates \ {u} :
                   worker'[v] = worker[v] /\ wire'[v] = wire[v] /\ mapped'[v] = mapped[v]
  BY <1>1 DEF Worker, Send, TypeOK
<1>2. Dispatch(u) => /\ UNCHANGED request
                     /\ \A v \in Updates \ {u} :
                           worker'[v] = worker[v] /\ wire'[v] = wire[v] /\ mapped'[v] = mapped[v]
  BY DEF Dispatch, TypeOK
<1>. QED
  BY <1>1, <1>2 DEF WorkerStep, Attach, OpenFails, WrapFails, Acknowledge, LetGo, PostHook, Obey

\* A request's step is one of the request of a single update.
LEMMA RequestStepIsLocal ==
    ASSUME TypeOK, NEW u \in Updates, RequestStep(u)
    PROVE  /\ UNCHANGED <<wire, mapped>>
           /\ \A v \in Updates \ {u} : worker'[v] = worker[v] /\ request'[v] = request[v]
BY DEF RequestStep, LeaderAsks, RequestReturns, RequestFails, Ask, peer, TypeOK

\* The rank keeps its role.
LEMMA RoleStays == ASSUME [Next]_vars PROVE UNCHANGED role
<1>1. Server => UNCHANGED role
  BY DEF Server, Allocate, Publish, Export, StartFails, StartRequest, SendHandle, Answered, Quit,
         CopyFails, AskRelease, Release, Hooked, Join, BarrierFails, Withdraw, Detach, Leave
<1>. QED
  BY <1>1, OthersLeaveServer DEF Next, WorkerStep, RequestStep, vars

LEMMA MishapsStay == ASSUME [Next]_vars PROVE mishaps \subseteq mishaps'
<1>1. Server => mishaps \subseteq mishaps'
  BY DEF Server, Allocate, Publish, Export, StartFails, StartRequest, SendHandle, Answered, Quit,
         CopyFails, AskRelease, Release, Hooked, Join, BarrierFails, Withdraw, Detach, Leave, Happens
<1>. QED
  BY <1>1, OthersLeaveServer DEF Next, WorkerStep, RequestStep, vars

-----------------------------------------------------------------------------
(* Types.                                                                  *)

LEMMA TypeInit == Init => TypeOK
<1>. SUFFICES ASSUME Init PROVE TypeOK
  OBVIOUS
<1>1. NUpdates \in Nat /\ 0 \in 0 .. NUpdates
  BY BufferAssumption
<1>2. update \in 0 .. NUpdates /\ pc \in Stages /\ p2p \in BOOLEAN /\ backend \in {"torch", "xpu"} /\ leader \in BOOLEAN
  BY <1>1 DEF Init, Stages
<1>3. handles \in [Addr -> 0 .. NUpdates] /\ puts \in [Updates -> Nat]
  BY <1>1 DEF Init, All
<1>4. /\ wire \in [Updates -> Messages] /\ worker \in [Updates -> WorkerStages]
      /\ mapped \in [Updates -> BOOLEAN] /\ request \in [Updates -> {"none", "due", "running", "ended"}]
  BY DEF Init, All, Messages, WorkerStages
<1>. QED
  BY <1>2, <1>3, <1>4 DEF Init, TypeOK

LEMMA TypeStep == ASSUME TypeOK, HasBuffer, [Next]_vars PROVE TypeOK'
<1>. USE BufferAssumption DEF role, AllJoined, TypeOK, Updates
<1>1. ASSUME Server PROVE TypeOK'
  <2>1. ASSUME NEW withP2P \in BOOLEAN, Allocate(withP2P) PROVE TypeOK'
    BY <2>1 DEF Allocate, Stages, store, ipc, peer
  <2>2. CASE Publish
    BY <2>2, HasBuffer DEF HasBuffer, Publish, Goto, Happens, Stages, memory, ipc, peer
  <2>3. CASE Export
    <3>1. /\ buffer \in Addr /\ update \in 0 .. NUpdates /\ pc' \in Stages
          /\ UNCHANGED <<role, update, p2p, memory, store, request, peer, mishaps>>
      BY <2>3 DEF HasBuffer, Export, Goto, Stages
    <3>2. exported' \in Addr \cup {NULL} /\ handles' \in [Addr -> 0 .. NUpdates]
      BY <2>3, <3>1 DEF Export, ipc
    <3>3. puts' \in [Updates -> Nat]
      <4>1. \A u \in Updates : puts[u] + (IF handles[buffer] = u THEN 1 ELSE 0) \in Nat
        OBVIOUS
      <4>2. \/ puts' = puts
            \/ puts' = [u \in Updates |-> puts[u] + IF handles[buffer] = u THEN 1 ELSE 0]
        BY <2>3 DEF Export, ipc
      <4>. QED
        BY <4>1, <4>2, Zenon
    <3>. QED
      BY <3>1, <3>2, <3>3 DEF memory, store, peer
  <2>4. CASE CopyFails \/ BarrierFails \/ Join
    BY <2>4 DEF CopyFails, BarrierFails, Join, Goto, Happens, Stages, memory, store, ipc, peer
  <2>5. CASE StartFails \/ StartRequest
    <3>1. /\ pc' \in Stages /\ mishaps' \subseteq FaultKinds
          /\ UNCHANGED <<role, update, p2p, memory, store, ipc, wire, mapped>>
      BY <2>5 DEF StartFails, StartRequest, Goto, Happens, Stages
    <3>2. /\ worker' \in [Updates -> WorkerStages]
          /\ request' \in [Updates -> {"none", "due", "running", "ended"}]
      BY <2>5 DEF StartFails, StartRequest, Ask, Await, WorkerStages
    <3>. QED
      BY <3>1, <3>2 DEF memory, store, ipc
  <2>6. CASE SendHandle \/ Answered \/ Quit \/ AskRelease \/ Hooked
    BY <2>6 DEF SendHandle, Answered, Quit, AskRelease, Hooked, Goto, Send, Stages, Messages,
                memory, store, ipc
  <2>7. CASE Release
    BY <2>7 DEF Release, Goto, Send, Stages, Messages, store, ipc
  <2>8. CASE Withdraw
    <3>1. pc' \in Stages /\ UNCHANGED <<role, update, p2p, memory, ipc, request, peer>>
      BY <2>8 DEF Withdraw, Goto, Stages
    <3>2. named' \in Addr \cup {NULL} /\ engine' \subseteq Addr /\ mishaps' \subseteq FaultKinds
      BY <2>8 DEF Withdraw, Happens, store
    <3>. QED
      BY <3>1, <3>2 DEF memory, ipc, peer
  <2>9. CASE Detach
    <3>1. pc' \in Stages /\ UNCHANGED <<role, update, p2p, memory, store, request, peer, mishaps>>
      BY <2>9 DEF Detach, Goto, Stages
    <3>2. exported' = NULL /\ handles' \in [Addr -> 0 .. NUpdates]
      <4>1. 0 \in 0 .. NUpdates
        OBVIOUS
      <4>2. handles' = handles \/ handles' = [handles EXCEPT ![exported] = 0]
        BY <2>9 DEF Detach
      <4>3. [handles EXCEPT ![exported] = 0] \in [Addr -> 0 .. NUpdates]
        BY <4>1
      <4>. QED
        BY <2>9, <4>2, <4>3 DEF Detach
    <3>3. puts' \in [Updates -> Nat]
      <4>1. \A u \in Updates : puts[u] + (IF handles[exported] = u THEN 1 ELSE 0) \in Nat
        OBVIOUS
      <4>2. \/ puts' = puts
            \/ puts' = [u \in Updates |-> puts[u] + IF handles[exported] = u THEN 1 ELSE 0]
        BY <2>9 DEF Detach, ipc
      <4>. QED
        BY <4>1, <4>2, Zenon
    <3>. QED
      BY <3>1, <3>2, <3>3 DEF memory, store, peer
  <2>10. CASE Leave
    BY <2>10 DEF Leave, Goto, Stages, store, ipc, peer
  <2>. QED
    BY <1>1, <2>1, <2>2, <2>3, <2>4, <2>5, <2>6, <2>7, <2>8, <2>9, <2>10 DEF Server
<1>2. ASSUME NEW u \in Updates, RequestStep(u) PROVE TypeOK'
  <2>1. UNCHANGED <<role, server, memory, store, ipc, wire, mapped>>
    BY <1>2, OthersLeaveServer, RequestStepIsLocal
  <2>2. /\ worker' \in [Updates -> WorkerStages] /\ mishaps' \subseteq FaultKinds
        /\ request' \in [Updates -> {"none", "due", "running", "ended"}]
    BY <1>2 DEF RequestStep, LeaderAsks, RequestReturns, RequestFails, Ask, Happens, peer, WorkerStages
  <2>. QED
    BY <2>1, <2>2 DEF server, memory, store, ipc
<1>3. ASSUME NEW u \in Updates, WorkerStep(u) PROVE TypeOK'
  <2>1. UNCHANGED <<role, server, memory, store, ipc, request>>
    BY <1>3, OthersLeaveServer, WorkerStepIsLocal
  <2>2. mishaps' \subseteq FaultKinds
    BY <1>3 DEF WorkerStep, Dispatch, Attach, OpenFails, WrapFails, Acknowledge, LetGo, PostHook,
                Obey, Happens
  <2>3. ASSUME NEW from, NEW msg, NEW to \in WorkerStages, NEW answer \in Messages,
               NEW open \in BOOLEAN, Worker(u, from, msg, to, answer, open)
        PROVE  /\ worker' \in [Updates -> WorkerStages] /\ wire' \in [Updates -> Messages]
               /\ mapped' \in [Updates -> BOOLEAN]
    BY <2>3 DEF Worker, Send
  <2>4. /\ worker' \in [Updates -> WorkerStages] /\ wire' \in [Updates -> Messages]
        /\ mapped' \in [Updates -> BOOLEAN]
    <3>1. CASE Dispatch(u)
      BY <3>1 DEF Dispatch, WorkerStages
    <3>2. CASE Attach(u) \/ OpenFails(u) \/ WrapFails(u)
      BY <3>2, <2>3 DEF Attach, OpenFails, WrapFails, WorkerStages, Messages
    <3>3. CASE Acknowledge(u)
      <4>1. mapped[u] \in BOOLEAN /\ "gone" \in WorkerStages /\ "nothing" \in Messages
        BY DEF WorkerStages, Messages
      <4>. QED
        BY <4>1, <3>3, <2>3 DEF Acknowledge
    <3>4. CASE LetGo(u) \/ PostHook(u) \/ Obey(u)
      BY <3>4, <2>3 DEF LetGo, PostHook, Obey, WorkerStages, Messages
    <3>. QED
      BY <1>3, <3>1, <3>2, <3>3, <3>4 DEF WorkerStep
  <2>. QED
    BY <2>1, <2>2, <2>4 DEF server, memory, store, ipc
<1>4. CASE UNCHANGED vars
  BY <1>4 DEF vars, server, memory, store, ipc, peer
<1>. QED
  BY <1>1, <1>2, <1>3, <1>4 DEF Next, WorkerStep, RequestStep

-----------------------------------------------------------------------------
(* The buffer, and the handle kept for it.                                 *)

LEMMA HasBufferStep == ASSUME TypeOK, HasBuffer, [Next]_vars PROVE HasBuffer'
<1>. USE BufferAssumption DEF role, AllJoined, TypeOK, HasBuffer, Updates
<1>1. ASSUME NEW withP2P \in BOOLEAN, Allocate(withP2P) PROVE HasBuffer'
  BY <1>1 DEF Allocate
<1>2. CASE Publish \/ Export \/ StartFails \/ StartRequest \/ SendHandle \/ Answered
  BY <1>2 DEF Publish, Export, StartFails, StartRequest, SendHandle, Answered, Goto, memory
<1>3. CASE Quit \/ CopyFails \/ AskRelease \/ Release \/ Hooked
  BY <1>3 DEF Quit, CopyFails, AskRelease, Release, Hooked, Goto, memory
<1>4. CASE Join \/ BarrierFails \/ Withdraw \/ Detach \/ Leave
  BY <1>4 DEF Join, BarrierFails, Withdraw, Detach, Leave, Goto, memory
<1>5. CASE \E u \in Updates : RequestStep(u) \/ WorkerStep(u)
  BY <1>5, OthersLeaveServer DEF server, memory
<1>6. CASE UNCHANGED vars
  BY <1>6 DEF vars, server, memory
<1>. QED
  BY <1>1, <1>2, <1>3, <1>4, <1>5, <1>6 DEF Next, Server, WorkerStep, RequestStep

LEMMA HandleStep == ASSUME TypeOK, HasBuffer, HandleKept, [Next]_vars PROVE HandleKept'
<1>. USE BufferAssumption DEF role, AllJoined, TypeOK, HandleKept, Updates
<1>1. ASSUME NEW withP2P \in BOOLEAN, Allocate(withP2P) PROVE HandleKept'
  <2>1. exported = NULL /\ UNCHANGED <<role, exported, handles, puts>>
    BY <1>1 DEF Allocate, ipc
  <2>2. pc' \notin Started \cup {"start", "barrier"}
    BY <1>1 DEF Allocate, Started
  <2>3. \A u \in Updates : puts[u] > 0 => u < update'
    BY <1>1 DEF Allocate
  <2>. QED
    BY <2>1, <2>2, <2>3
<1>2. CASE Export
  <2>1. exported = NULL /\ buffer # NULL /\ \A a \in Addr : handles[a] = 0
    BY <1>2 DEF Export, HasBuffer
  <2>2. UNCHANGED <<role, update, buffer>> /\ pc' = "start"
    BY <1>2 DEF Export, Goto, memory
  <2>3. puts' = puts
    BY <1>2, <2>1 DEF Export, ipc, HasBuffer
  <2>4. /\ \A a \in Addr : handles'[a] = IF a = exported' THEN update ELSE 0
        /\ exported' # NULL => exported' = buffer
        /\ backend = "xpu" => exported' # NULL
    BY <1>2, <2>1 DEF Export, ipc
  <2>. QED
    BY <1>2, <2>2, <2>3, <2>4 DEF Export
<1>3. CASE Publish \/ StartFails \/ StartRequest \/ SendHandle \/ Answered \/ Quit
  BY <1>3 DEF Publish, StartFails, StartRequest, SendHandle, Answered, Quit, Goto, Started,
              memory, ipc
<1>4. CASE CopyFails \/ AskRelease \/ Release \/ Hooked \/ Join \/ BarrierFails \/ Withdraw
  BY <1>4 DEF CopyFails, AskRelease, Release, Hooked, Join, BarrierFails, Withdraw, Goto, Started,
              memory, ipc
<1>5. CASE Detach
  <2>1. update \in Updates /\ exported' = NULL /\ UNCHANGED <<role, update, buffer>> /\ pc' = "raise"
    BY <1>5 DEF Detach, Goto, memory, HasBuffer
  <2>2. \A a \in Addr : handles'[a] = 0
    BY <1>5 DEF Detach
  <2>3. \A u \in Updates : puts[u] > 0 => u < update
    BY <1>5 DEF Detach
  <2>4. \A u \in Updates : puts'[u] = puts[u] \/ (u = update /\ puts'[u] = puts[u] + 1)
    BY <1>5 DEF Detach
  <2>5. \A u \in Updates : puts'[u] <= 1 /\ (puts'[u] > 0 => u <= update)
    <3>1. \A u \in Updates : puts[u] \in Nat /\ puts[u] <= 1 /\ (~(u < update) => puts[u] = 0)
      BY <2>3
    <3>. QED
      BY <2>1, <2>4, <3>1
  <2>. QED
    BY <2>1, <2>2, <2>5 DEF Started
<1>6. CASE Leave
  BY <1>6 DEF Leave, Goto, Started, ipc
<1>7. CASE \E u \in Updates : RequestStep(u) \/ WorkerStep(u)
  BY <1>7, OthersLeaveServer DEF server, memory, ipc
<1>8. CASE UNCHANGED vars
  BY <1>8 DEF vars, server, memory, ipc
<1>. QED
  BY <1>1, <1>2, <1>3, <1>4, <1>5, <1>6, <1>7, <1>8 DEF Next, Server, WorkerStep, RequestStep

-----------------------------------------------------------------------------
(* What the engine knows.                                                  *)

LEMMA EngineStep == ASSUME TypeOK, HasBuffer, EngineKnows, [Next]_vars PROVE EngineKnows'
<1>. DEFINE Kept == {"early", "engine", "barrier"}
            Held(n) == n # NULL => p2p' /\ pc' \in Started \cup {"export", "start", "barrier"}
<1>. SUFFICES ASSUME mishaps' \cap Kept = {}
              PROVE  /\ engine' \subseteq {named'} \ {NULL}
                     /\ pc' = "publish" => p2p'
                     /\ Held(named')
  BY DEF EngineKnows
<1>1. mishaps \cap Kept = {}
  BY MishapsStay
<1>2. /\ engine \subseteq {named} \ {NULL}
      /\ pc = "publish" => p2p
      /\ named # NULL => p2p /\ pc \in Started \cup {"export", "start", "barrier"}
  BY <1>1 DEF EngineKnows
<1>3. ASSUME NEW withP2P \in BOOLEAN, Allocate(withP2P)
      PROVE  named' = NULL /\ engine' = engine /\ named = NULL /\ (pc' = "publish" => p2p')
  BY <1>2, <1>3 DEF Allocate, store, Started
<1>4. ASSUME Publish
      PROVE  named = NULL /\ named' # NULL /\ engine' = engine \cup {named'} /\ pc' = "export" /\ p2p'
  <2>1. pc = "publish" /\ buffer # NULL /\ named = NULL
    BY <1>2, <1>4 DEF Publish, HasBuffer, Started
  <2>2. engine' = engine \cup {named'} /\ pc' = "export" /\ p2p'
    BY <1>4, <1>2 DEF Publish, Happens, Goto
  <2>. QED
    BY <1>4, <2>1, <2>2 DEF Publish
<1>5. ASSUME Export \/ StartRequest \/ SendHandle \/ Answered \/ Quit \/ CopyFails
      PROVE  UNCHANGED <<named, engine, p2p>> /\ pc' \in Started \cup {"start"}
  BY <1>5 DEF Export, StartRequest, SendHandle, Answered, Quit, CopyFails, Goto, Started, store
<1>6. ASSUME AskRelease \/ Release \/ Hooked \/ Join
      PROVE  UNCHANGED <<named, engine, p2p>> /\ pc' \in Started \cup {"barrier"}
  BY <1>6 DEF AskRelease, Release, Hooked, Join, Goto, Started, store
<1>7. ~StartFails /\ ~BarrierFails
  BY DEF StartFails, BarrierFails, Happens
<1>8. ASSUME Withdraw PROVE pc' = "exit" /\ named' = NULL /\ engine' \subseteq engine \ {named}
  <2>1. CASE ~p2p
    BY <1>8, <1>2, <2>1 DEF Withdraw, Goto, store
  <2>2. CASE p2p
    BY <1>8, <2>2 DEF Withdraw, Goto, Happens
  <2>. QED
    BY <2>1, <2>2
<1>9. ASSUME Detach \/ Leave
      PROVE  named = NULL /\ UNCHANGED <<named, engine>> /\ pc' \in {"raise", "idle"}
  BY <1>9, <1>2 DEF Detach, Leave, Goto, Started, store
<1>10. ASSUME (\E u \in Updates : RequestStep(u) \/ WorkerStep(u)) \/ UNCHANGED vars
       PROVE  UNCHANGED <<server, store>>
  BY <1>10, OthersLeaveServer DEF vars
<1>11. CASE \E withP2P \in BOOLEAN : Allocate(withP2P)
  BY <1>11, <1>2, <1>3
<1>12. CASE Publish
  BY <1>12, <1>2, <1>4
<1>13. CASE Export \/ StartRequest \/ SendHandle \/ Answered \/ Quit \/ CopyFails
  <2>1. pc # "idle"
    BY <1>13 DEF Export, StartRequest, SendHandle, Answered, Quit, CopyFails
  <2>. QED
    BY <1>13, <1>2, <1>5 DEF Started
<1>14. CASE AskRelease \/ Release \/ Hooked \/ Join
  BY <1>14, <1>2, <1>6 DEF Started
<1>15. CASE Withdraw
  BY <1>15, <1>2, <1>8
<1>16. CASE Detach \/ Leave
  BY <1>16, <1>2, <1>9
<1>17. CASE (\E u \in Updates : RequestStep(u) \/ WorkerStep(u)) \/ UNCHANGED vars
  BY <1>17, <1>2, <1>10 DEF server, store
<1>. QED
  BY <1>7, <1>11, <1>12, <1>13, <1>14, <1>15, <1>16, <1>17 DEF Next, Server, WorkerStep, RequestStep

-----------------------------------------------------------------------------
(* The life of a worker.                                                   *)

\* What WorkerCovered says of one update, when nothing lets the rank leave early.
Covered(u) ==
    /\ u > update \/ (u = update /\ pc \in {"publish", "export", "start"}) => request[u] = "none"
    /\ request[u] \in {"none", "due"} => worker[u] = "none"
    /\ request[u] = "ended" => worker[u] = "gone"
    /\ worker[u] \in {"none", "asked"} => wire[u] # "handle"
    /\ Live(u) => u = update /\ pc \in Serving /\ buffer # NULL
    /\ u = update /\ pc = "release" =>
          wire[u] # "handle" /\ ~(wire[u] = "ok" /\ worker[u] = "attached")
    /\ "wrap" \notin mishaps /\ mapped[u] => worker[u] = "attached"

LEMMA WorkerCoveredIs == WorkerCovered <=> (Guarded => \A u \in Updates : Covered(u))
BY DEF WorkerCovered, Covered

LEMMA GuardedBefore == ASSUME [Next]_vars, Guarded' PROVE Guarded
BY MishapsStay, RoleStays DEF Guarded, role

\* A step of the server that leaves requests, workers and sockets alone keeps this,
\* if it leaves no live worker behind.
LEMMA QuietStep ==
    ASSUME NEW u \in Updates, Covered(u), mishaps \subseteq mishaps',
           UNCHANGED <<role, update, request, peer>>,
           pc' \notin {"publish", "release"}, pc' \in {"export", "start"} => pc \in {"publish", "export"},
           Live(u) => pc' \in Serving /\ buffer' # NULL
    PROVE  Covered(u)'
<1>1. UNCHANGED <<wire, worker, mapped>> /\ Live(u)' = Live(u) /\ Serving' = Serving
  BY DEF peer, role, Live, Serving
<1>. QED
  BY <1>1 DEF Covered

LEMMA CoveredStep ==
    ASSUME TypeOK, HasBuffer, HandleKept, Guarded', [Next]_vars,
           \A v \in Updates : Covered(v), NEW u \in Updates
    PROVE  Covered(u)'
<1>. USE BufferAssumption DEF TypeOK, Updates
<1>1. Covered(u) /\ mishaps \subseteq mishaps' /\ UNCHANGED role /\ Serving' = Serving
  BY MishapsStay, RoleStays DEF role, Serving
<1>2. ASSUME NEW withP2P \in BOOLEAN, Allocate(withP2P) PROVE Covered(u)'
  <2>1. /\ pc = "idle" /\ update' = update + 1 /\ pc' \in {"publish", "export"}
        /\ UNCHANGED <<request, wire, worker, mapped, mishaps>>
    BY <1>2 DEF Allocate, peer
  <2>2. ~Live(u) /\ ~Live(u)'
    BY <1>1, <2>1 DEF Covered, Serving, Live
  <2>. QED
    BY <1>1, <2>1, <2>2 DEF Covered
<1>3. CASE Publish \/ Export
  <2>1. /\ pc \in {"publish", "export"} /\ pc' \in {"export", "start", "exit"}
        /\ UNCHANGED <<update, request, peer>>
    BY <1>3 DEF Publish, Export, Goto
  <2>2. ~Live(u)
    BY <1>1, <2>1 DEF Covered, Serving
  <2>3. pc' \in {"export", "start"} => pc \in {"publish", "export"}
    BY <2>1
  <2>. QED
    BY <1>1, <2>1, <2>2, <2>3, QuietStep
<1>4. CASE StartFails \/ StartRequest
  <2>1. /\ pc \in {"export", "start"} /\ pc' \in {"exit", "send"}
        /\ UNCHANGED <<update, wire, mapped>> /\ update \in Updates
    BY <1>4 DEF StartFails, StartRequest, Goto, HasBuffer
  <2>2. ~Live(u)
    BY <1>1, <2>1 DEF Covered, Serving
  <2>3. \/ request'[u] = request[u] /\ worker'[u] = worker[u]
        \/ u = update /\ pc = "start" /\ request'[u] = "due" /\ worker'[u] = worker[u]
        \/ u = update /\ pc = "start" /\ request'[u] = "running" /\ worker'[u] = "asked"
    BY <1>4, <2>1 DEF StartFails, StartRequest, Ask, Await
  <2>4. CASE request'[u] = request[u] /\ worker'[u] = worker[u]
    BY <1>1, <2>1, <2>2, <2>4 DEF Covered, Live
  <2>5. CASE u = update /\ pc = "start" /\ request'[u] \in {"due", "running"} /\ worker'[u] \in {worker[u], "asked"}
    <3>1. worker[u] = "none" /\ ("wrap" \notin mishaps => ~mapped[u]) /\ wire[u] # "handle"
      BY <1>1, <2>5 DEF Covered
    <3>2. request'[u] = "due" => worker'[u] = "none"
      BY <2>3, <2>5, <3>1
    <3>. QED
      BY <1>1, <2>1, <2>5, <3>1, <3>2 DEF Covered, Live
  <2>. QED
    BY <2>3, <2>4, <2>5
<1>5. CASE SendHandle
  <2>1. /\ pc = "send" /\ worker[update] = "connected" /\ pc' = "answer"
        /\ UNCHANGED <<update, buffer, request, worker, mapped, mishaps>>
    BY <1>5 DEF SendHandle, Goto, memory
  <2>2. buffer # NULL /\ update \in Updates
    BY <2>1 DEF HasBuffer
  <2>3. wire'[u] = IF u = update THEN "handle" ELSE wire[u]
    BY <1>5 DEF SendHandle, Send
  <2>4. ~Live(u)
    BY <1>1, <2>1 DEF Covered, Serving
  <2>. QED
    BY <1>1, <2>1, <2>2, <2>3, <2>4 DEF Covered, Live, Serving
<1>6. CASE Answered \/ Quit
  <2>1. /\ pc \in {"answer", "loop"} /\ pc' \in {"loop", "join"}
        /\ UNCHANGED <<update, buffer, request, worker, mapped, mishaps>>
    BY <1>6 DEF Answered, Quit, Goto, memory
  <2>2. wire'[u] = wire[u] \/ wire'[u] \in {"nothing", "quit"}
    BY <1>6 DEF Answered, Quit, Send
  <2>3. Live(u)' => Live(u)
    BY <2>1, <2>2 DEF Live
  <2>. QED
    BY <1>1, <2>1, <2>2, <2>3 DEF Covered, Serving
<1>7. CASE AskRelease \/ Hooked
  <2>1. /\ pc \in {"loop", "hook"} /\ pc' \in {"release", "join"}
        /\ UNCHANGED <<update, buffer, request, worker, mapped, mishaps>>
    BY <1>7 DEF AskRelease, Hooked, Goto, memory
  <2>2. wire'[u] = IF u = update THEN wire'[update] ELSE wire[u]
    BY <1>7 DEF AskRelease, Hooked, Send
  <2>3. wire'[update] \in {"nothing", "none"}
    BY <1>7, HasBuffer DEF AskRelease, Hooked, Send, HasBuffer
  <2>4. Live(u)' => Live(u)
    BY <2>1, <2>2, <2>3 DEF Live
  <2>. QED
    BY <1>1, <2>1, <2>2, <2>3, <2>4 DEF Covered, Serving
<1>8. CASE Release
  <2>1. /\ pc = "release" /\ wire[update] = "ok" /\ pc' = "hook"
        /\ UNCHANGED <<update, request, worker, mapped, mishaps>>
    BY <1>8 DEF Release, Goto
  <2>2. wire'[u] = IF u = update THEN "none" ELSE wire[u]
    BY <1>8 DEF Release, Send
  <2>3. ~Live(u)
    BY <1>1, <2>1 DEF Covered, Live
  <2>. QED
    BY <1>1, <2>1, <2>2, <2>3 DEF Covered, Live
<1>9. CASE Join
  <2>1. /\ pc = "join" /\ pc' = "barrier" /\ UNCHANGED <<update, buffer, request, peer>>
        /\ leader => request[update] = "ended"
    BY <1>9 DEF Join, Goto, memory
  <2>2. Live(u) => "barrier" \in Serving /\ buffer # NULL
    <3>. SUFFICES ASSUME Live(u) PROVE ~leader /\ buffer # NULL
      BY DEF Serving
    <3>. QED
      BY <1>1, <2>1 DEF Covered, Live
  <2>. QED
    BY <1>1, <2>1, <2>2, QuietStep
<1>10. CASE BarrierFails \/ Withdraw \/ Detach \/ Leave
  <2>1. /\ pc \in {"barrier", "exit", "raise"} /\ pc' \in {"exit", "raise", "idle"}
        /\ UNCHANGED <<update, request, peer>>
    BY <1>10 DEF BarrierFails, Withdraw, AllJoined, Detach, Leave, Goto
  <2>2. ~Live(u)
    <3>1. CASE BarrierFails
      <4>1. leader /\ pc = "barrier"
        BY <3>1 DEF BarrierFails, Happens, Guarded, role
      <4>. QED
        BY <1>1, <4>1 DEF Covered, Serving
    <3>2. CASE Withdraw
      BY <1>1, <3>2 DEF Covered, Withdraw, AllJoined, Live
    <3>3. CASE Detach \/ Leave
      BY <1>1, <3>3 DEF Covered, Detach, Leave, Serving
    <3>. QED
      BY <1>10, <3>1, <3>2, <3>3
  <2>. QED
    BY <1>1, <2>1, <2>2, QuietStep
<1>11. CASE CopyFails
  <2>1. /\ pc \in {"answer", "loop"} /\ pc' = "join" /\ UNCHANGED <<update, buffer, request, peer>>
    BY <1>11 DEF CopyFails, Goto, memory
  <2>2. Live(u) => pc' \in Serving /\ buffer' # NULL
    BY <1>1, <2>1 DEF Covered, Serving
  <2>. QED
    BY <1>1, <2>1, <2>2, QuietStep
<1>12. ASSUME NEW v \in Updates, RequestStep(v) PROVE Covered(u)'
  <2>1. UNCHANGED <<update, pc, buffer, wire, mapped>>
    BY <1>12, OthersLeaveServer, RequestStepIsLocal DEF server, memory
  <2>2. CASE u # v
    <3>1. worker'[u] = worker[u] /\ request'[u] = request[u]
      BY <1>12, <2>2, RequestStepIsLocal
    <3>. QED
      BY <1>1, <2>1, <3>1 DEF Covered, Live
  <2>3. CASE LeaderAsks(u)
    <3>1. request[u] = "due" /\ request'[u] = "running" /\ worker'[u] = "asked"
      BY <2>3 DEF LeaderAsks, Ask
    <3>2. worker[u] = "none" /\ wire[u] # "handle" /\ ("wrap" \notin mishaps => ~mapped[u])
      BY <1>1, <3>1 DEF Covered
    <3>. QED
      BY <1>1, <2>1, <3>1, <3>2 DEF Covered, Live
  <2>4. CASE RequestReturns(u)
    <3>1. /\ request[u] = "running" /\ request'[u] = "ended"
          /\ worker[u] = "gone" /\ worker'[u] = "gone"
      BY <2>4 DEF RequestReturns, peer
    <3>. QED
      BY <1>1, <2>1, <3>1 DEF Covered, Live
  <2>5. ~RequestFails(u)
    BY DEF RequestFails, Happens, Guarded
  <2>. QED
    BY <1>12, <2>2, <2>3, <2>4, <2>5 DEF RequestStep
<1>13. ASSUME NEW v \in Updates, WorkerStep(v) PROVE Covered(u)'
  <2>1. UNCHANGED <<update, pc, buffer, request>>
    BY <1>13, OthersLeaveServer, WorkerStepIsLocal DEF server, memory
  <2>2. CASE u # v
    <3>1. worker'[u] = worker[u] /\ wire'[u] = wire[u] /\ mapped'[u] = mapped[u]
      BY <1>13, <2>2, WorkerStepIsLocal
    <3>. QED
      BY <1>1, <2>1, <3>1 DEF Covered, Live
  <2>3. ASSUME NEW from, NEW msg, NEW to, NEW answer, NEW open, Worker(u, from, msg, to, answer, open)
        PROVE  /\ worker[u] = from /\ wire[u] = msg
               /\ worker'[u] = to /\ wire'[u] = answer /\ mapped'[u] = open
    BY <2>3 DEF Worker, Send
  <2>4. CASE Dispatch(u)
    <3>1. worker[u] = "asked" /\ worker'[u] = "connected" /\ UNCHANGED <<wire, mapped, mishaps>>
      BY <2>4 DEF Dispatch
    <3>2. wire[u] # "handle" /\ request[u] = "running"
      BY <1>1, <3>1 DEF Covered
    <3>. QED
      BY <1>1, <2>1, <3>1, <3>2 DEF Covered, Live
  <2>5. CASE Attach(u)
    <3>1. /\ worker[u] = "connected" /\ wire[u] = "handle"
          /\ worker'[u] = "attached" /\ wire'[u] = "ok"
      BY <2>5, <2>3 DEF Attach
    <3>2. Live(u) /\ request[u] = "running"
      BY <1>1, <3>1 DEF Covered, Live
    <3>3. u = update /\ pc \in Serving /\ buffer # NULL /\ pc # "release"
      BY <1>1, <3>1, <3>2 DEF Covered
    <3>. QED
      BY <1>1, <2>1, <3>1, <3>2, <3>3 DEF Covered
  <2>6. CASE OpenFails(u) \/ WrapFails(u)
    <3>1. /\ worker[u] = "connected" /\ worker'[u] = "failed" /\ wire'[u] = "error"
          /\ mapped'[u] => "wrap" \in mishaps'
      BY <2>6, <2>3 DEF OpenFails, WrapFails, Happens
    <3>. QED
      BY <1>1, <2>1, <3>1 DEF Covered, Live
  <2>7. CASE Acknowledge(u)
    <3>1. /\ worker[u] = "failed" /\ worker'[u] = "gone" /\ wire'[u] = "nothing"
          /\ mapped'[u] = mapped[u]
      BY <2>7, <2>3 DEF Acknowledge
    <3>. QED
      BY <1>1, <2>1, <3>1 DEF Covered, Live
  <2>8. CASE LetGo(u) \/ PostHook(u) \/ Obey(u)
    <3>1. /\ worker[u] \in {"attached", "released"} /\ worker'[u] \in {"released", "gone"}
          /\ wire'[u] # "handle" /\ ~mapped'[u]
      <4>1. CASE LetGo(u)
        BY <4>1 DEF LetGo, Worker, Send
      <4>2. CASE PostHook(u)
        BY <4>2 DEF PostHook, Worker, Send
      <4>3. CASE Obey(u)
        BY <4>3 DEF Obey, Worker, Send
      <4>. QED
        BY <2>8, <4>1, <4>2, <4>3
    <3>2. request[u] = "running"
      BY <1>1, <3>1 DEF Covered
    <3>. QED
      BY <1>1, <2>1, <3>1, <3>2 DEF Covered, Live
  <2>. QED
    BY <1>13, <2>2, <2>4, <2>5, <2>6, <2>7, <2>8 DEF WorkerStep
<1>14. CASE UNCHANGED vars
  <2>1. UNCHANGED <<update, pc, buffer, request, wire, worker, mapped, mishaps>>
    BY <1>14 DEF vars, server, memory, peer
  <2>. QED
    BY <1>1, <2>1 DEF Covered, Live
<1>. QED
  BY <1>2, <1>3, <1>4, <1>5, <1>6, <1>7, <1>8, <1>9, <1>10, <1>11, <1>12, <1>13, <1>14
     DEF Next, Server, WorkerStep, RequestStep

LEMMA WorkerCoveredStep == ASSUME BufferInv, [Next]_vars PROVE WorkerCovered'
<1>. SUFFICES ASSUME Guarded' PROVE \A u \in Updates : Covered(u)'
  BY DEF WorkerCovered, Covered
<1>1. \A u \in Updates : Covered(u)
  BY GuardedBefore, WorkerCoveredIs DEF BufferInv
<1>. QED
  BY <1>1, CoveredStep DEF BufferInv

-----------------------------------------------------------------------------
(* The theorems.                                                           *)

LEMMA BufferInit == Init => BufferInv
<1>. SUFFICES ASSUME Init PROVE BufferInv
  OBVIOUS
<1>1. TypeOK
  BY TypeInit
<1>2. HasBuffer /\ HandleKept
  BY BufferAssumption DEF Init, HasBuffer, HandleKept, All, Updates, Started
<1>3. EngineKnows /\ WorkerCovered
  BY DEF Init, EngineKnows, WorkerCovered, Live, All, Updates
<1>. QED
  BY <1>1, <1>2, <1>3 DEF BufferInv

\* Whatever fails, update after update: the buffer, the handle kept for it, the
\* registration with the engine and the worker's life are tied to each other.
THEOREM BufferInductive == Spec => []BufferInv
<1>1. BufferInv /\ [Next]_vars => BufferInv'
  BY TypeStep, HasBufferStep, HandleStep, EngineStep, WorkerCoveredStep DEF BufferInv
<1>. QED
  BY BufferInit, <1>1, PTL DEF Spec

\* Every variable of the model has its type (_update_per_bucket, ipc_handler.py).
THEOREM BufferTypeCorrect == Spec => []TypeOK
<1>1. BufferInv => TypeOK
  BY DEF BufferInv
<1>. QED
  BY BufferInductive, <1>1, PTL

\* A handle is put at most once and none is left between updates, whatever fails
\* and whichever addresses are used again (ipc_handler.py, attach and detach).
THEOREM HandlesOnce == Spec => []HandlesPutOnce
<1>1. BufferInv => HandlesPutOnce
  <2>. SUFFICES ASSUME BufferInv PROVE HandlesPutOnce
    OBVIOUS
  <2>1. pc = "idle" => \A a \in Addr : handles[a] = 0
    BY BufferAssumption DEF BufferInv, HandleKept
  <2>. QED
    BY <2>1 DEF BufferInv, HandleKept, HandlesPutOnce
<1>. QED
  BY BufferInductive, <1>1, PTL

\* What the engine has registered as __ipc_buffer__ is never freed, as long as no
\* update fails outside its try block (ps.py, _update_per_bucket).
THEOREM PublishedAllocated == Spec => []PublishedIsAllocated
<1>1. BufferInv => PublishedIsAllocated
  BY DEF BufferInv, EngineKnows, PublishedIsAllocated, Allocated
<1>. QED
  BY BufferInductive, <1>1, PTL

\* A worker has no buffer mapped that the server has freed, as long as no request
\* ends before its worker, no mapping leaks and, on a rank that is not the leader of
\* its group, no barrier fails (worker.py, update_weights_from_ipc; ps.py, the
\* finally clause of _update_per_bucket).
THEOREM FreedUnmapped == Spec => []UnmappedBeforeFreed
<1>1. BufferInv => UnmappedBeforeFreed
  <2>. SUFFICES ASSUME BufferInv, Guarded, "wrap" \notin mishaps,
                       NEW u \in Updates, mapped[u]
                PROVE  u = update /\ buffer # NULL
    BY DEF UnmappedBeforeFreed
  <2>1. Covered(u)
    BY WorkerCoveredIs DEF BufferInv
  <2>. QED
    BY <2>1 DEF Covered, Live
<1>. QED
  BY BufferInductive, <1>1, PTL

\* A handle is opened while its update is under way, and the exporter keeps it then,
\* under the same conditions (ipc_handler.py, the note on release): no descriptor is dropped before its use.
THEOREM HandleOpenedInTime == Spec => OpenedInTime
<1>1. ASSUME BufferInv, [Next]_vars
      PROVE  \A u \in Updates : ~mapped[u] /\ mapped'[u] /\ Guarded =>
                /\ u = update /\ buffer # NULL
                /\ backend = "xpu" => handles[buffer] = u
  <2>. SUFFICES ASSUME NEW u \in Updates, ~mapped[u], mapped'[u], Guarded
                PROVE  /\ u = update /\ buffer # NULL
                       /\ backend = "xpu" => handles[buffer] = u
    OBVIOUS
  <2>1. Covered(u)
    BY <1>1, WorkerCoveredIs DEF BufferInv
  <2>2. \E v \in Updates : WorkerStep(v)
    <3>1. Server \/ (\E v \in Updates : RequestStep(v)) \/ UNCHANGED vars => mapped' = mapped
      BY DEF Server, Allocate, Publish, Export, StartFails, StartRequest, SendHandle, Answered,
             Quit, CopyFails, AskRelease, Release, Hooked, Join, BarrierFails, Withdraw, Detach,
             Leave, RequestStep, LeaderAsks, RequestReturns, RequestFails, peer, vars
    <3>. QED
      BY <1>1, <3>1 DEF Next, WorkerStep, RequestStep
  <2>3. WorkerStep(u)
    BY <1>1, <2>2, WorkerStepIsLocal DEF BufferInv
  <2>4. worker[u] = "connected" /\ wire[u] = "handle"
    <3>1. Attach(u) \/ WrapFails(u)
      BY <1>1, <2>3 DEF WorkerStep, Dispatch, OpenFails, Acknowledge, LetGo, PostHook, Obey,
                        Worker, BufferInv, TypeOK
    <3>. QED
      BY <3>1 DEF Attach, WrapFails, Worker
  <2>5. u = update /\ pc \in Serving /\ buffer # NULL
    BY <2>1, <2>4 DEF Covered, Live
  <2>6. backend = "xpu" => handles[buffer] = u
    <3>1. pc \in Started \cup {"barrier"}
      BY <2>5 DEF Serving, Started
    <3>. QED
      BY <1>1, <2>5, <3>1 DEF BufferInv, HandleKept, TypeOK
  <2>. QED
    BY <2>5, <2>6
<1>2. BufferInv /\ [Next]_vars =>
          [\A u \in Updates : ~mapped[u] /\ mapped'[u] /\ Guarded =>
               /\ u = update /\ buffer # NULL
               /\ backend = "xpu" => handles[buffer] = u]_vars
  BY <1>1
<1>. QED
  BY <1>2, BufferInductive, PTL DEF Spec, OpenedInTime
=============================================================================
