------------------------ MODULE UpdatePipelineProofs ------------------------
(***************************************************************************)
(* The update pipeline is safe, for any number of ranks and buckets, any   *)
(* assignment of the buckets to receivers, and any of the faults; and it   *)
(* implements WeightUpdate, as long as workers fail only to attach or to   *)
(* load, and requests to return.                                           *)
(***************************************************************************)
EXTENDS UpdatePipeline, TLAPS

LEMMA Constants ==
    /\ NBuckets \in Nat /\ NBuckets > 0
    /\ Bucket \subseteq Int
    /\ \A g \in Bucket : Receiver[g] \in Rank
BY PipelineAssumption DEF Bucket

LEMMA Halves ==
    /\ \A g \in Nat : Half(g) \in 0..1
    /\ \A g, h \in Nat : g + 1 = h => Half(g) # Half(h)
BY DEF Half

LEMMA BucketsAreNats == Bucket \subseteq Nat
BY Constants DEF Bucket

LEMMA MessageTypes ==
    /\ \A g \in Bucket : Meta(g) \in [kind : Kinds, idx : Content]
    /\ \A k \in Kinds : Msg(k) \in [kind : Kinds, idx : Content]
    /\ Nothing \in [kind : Kinds, idx : Content]
BY DEF Meta, Msg, Nothing, Kinds, Content, None

LEMMA TypeInit == Init => TypeOK
BY MessageTypes, Constants DEF Init, TypeOK, Content, None

(* What each kind of step leaves alone.                                     *)

LEMMA ServerFrame ==
    ASSUME NEW r \in Rank, Server(r)
    PROVE  UNCHANGED <<moved, workerVars>>
BY DEF Server, Start, SendHandle, Stage, Fill, CopyFails, Vote, SendMeta, Quit, Drain,
       Release, Hooked, Join, Finish, psVars, deviceVars, workerVars

LEMMA DeviceFrame ==
    ASSUME NEW r \in Rank, Device(r)
    PROVE  UNCHANGED <<psVars, h2d, wire, req, workerVars>>
BY DEF Device, Broadcast, Accept, psVars, deviceVars, workerVars

LEMMA ThreadFrame ==
    ASSUME NEW r \in Rank, Thread(r)
    PROVE  UNCHANGED <<psVars, deviceVars, wire, payload, mapped, applied, fault>>
BY DEF Thread, Dispatch, Answer, RequestFails, workerVars

LEMMA WorkerFrame ==
    ASSUME NEW w \in Rank, Worker(w)
    PROVE  UNCHANGED <<psVars, deviceVars, req>>
BY DEF Worker, Attach, AttachFails, Acknowledge, Receive, Load, LoadFails, Unmap, Hook,
       HookFails, Obey

-----------------------------------------------------------------------------

LEMMA TypeServer ==
    ASSUME TypeOK, Position, NEW r \in Rank, Server(r)
    PROVE  TypeOK'
<1>. USE MessageTypes DEF TypeOK, psVars, deviceVars, workerVars, Goto, Kinds
<1>1. CASE Start(r)
  BY <1>1 DEF Start
<1>2. CASE SendHandle(r)
  BY <1>2 DEF SendHandle, Heading
<1>3. CASE Stage(r)
  <2>1. h2d' = h2d \/ \E k \in Content : h2d' = [h2d EXCEPT ![r] = k]
    <3>1. OwnInRound(r, gidx[r]) \subseteq Content
      BY Zenon DEF OwnInRound, Content
    <3>. QED
      BY <1>3, <3>1, Zenon DEF Stage
  <2>2. h2d' \in [Rank -> Content]
    BY <2>1, Zenon DEF TypeOK
  <2>. QED
    BY <1>3, <2>2 DEF Stage
<1>4. CASE Fill(r)
  <2>1. gidx[r] \in Nat /\ gidx[r] \in Content
    BY <1>4, Constants DEF Fill, Position, Content, Bucket
  <2>2. half' \in [Rank -> [0..1 -> Content]]
    BY <1>4, <2>1, Halves DEF Fill
  <2>. QED
    BY <1>4, <2>2 DEF Fill
<1>5. CASE CopyFails(r)
  BY <1>5 DEF CopyFails, Copying
<1>6. CASE Vote(r)
  <2>1. gidx[r] \in Bucket /\ gidx[r] + 1 \in 0 .. NBuckets
    BY <1>6, Constants DEF Vote, Position, Bucket
  <2>2. bad' \subseteq Bucket /\ voted' \in [Rank -> 0 .. NBuckets]
    BY <1>6, <2>1 DEF Vote
  <2>. QED
    BY <1>6, <2>2 DEF Vote
<1>7. CASE SendMeta(r)
  <2>1. gidx[r] \in Bucket /\ gidx[r] + 1 \in 0 .. NBuckets
    BY <1>7, Constants DEF SendMeta, Position, Bucket
  <2>2. Heading(gidx[r] + 1) \in {"drain", "stage", "fill"}
    BY DEF Heading
  <2>. QED
    BY <1>7, <2>1, <2>2 DEF SendMeta
<1>8. CASE Quit(r)
  BY <1>8 DEF Quit
<1>9. CASE Drain(r)
  BY <1>9 DEF Drain
<1>10. CASE Release(r)
  BY <1>10 DEF Release
<1>11. CASE Hooked(r)
  BY <1>11 DEF Hooked
<1>12. CASE Join(r)
  BY <1>12 DEF Join
<1>13. CASE Finish(r)
  BY <1>13 DEF Finish
<1>. QED
  BY <1>1, <1>2, <1>3, <1>4, <1>5, <1>6, <1>7, <1>8, <1>9, <1>10, <1>11, <1>12, <1>13
  DEF Server

LEMMA TypeDevice ==
    ASSUME TypeOK, Position, NEW r \in Rank, Device(r)
    PROVE  TypeOK'
<1>1. gidx[r] \in Bucket /\ gidx[r] + 1 \in 0 .. NBuckets
  BY Constants DEF Device, Broadcast, Accept, Posted, Position, TypeOK, Bucket
<1>2. gidx[r] \in Nat /\ Half(gidx[r]) \in 0..1 /\ Receiver[gidx[r]] \in Rank
  BY <1>1, Constants, Halves DEF Bucket
<1>3. moved' \in [Rank -> 0 .. NBuckets]
  BY <1>1 DEF Device, Broadcast, Accept, TypeOK
<1>4. half' \in [Rank -> [0..1 -> Content]]
  <2>. USE DEF TypeOK
  <2>1. CASE Broadcast(r)
    BY <1>2, <2>1 DEF Broadcast
  <2>2. CASE Accept(r)
    BY <1>2, <2>2 DEF Accept
  <2>. QED
    BY <2>1, <2>2 DEF Device
<1>. QED
  BY <1>3, <1>4, DeviceFrame DEF TypeOK, psVars, workerVars

LEMMA TypeThread ==
    ASSUME TypeOK, NEW r \in Rank, Thread(r)
    PROVE  TypeOK'
<1>. USE DEF TypeOK, psVars, deviceVars, workerVars
<1>1. CASE Dispatch(r)
  BY <1>1 DEF Dispatch
<1>2. CASE Answer(r)
  BY <1>2 DEF Answer
<1>3. CASE RequestFails(r)
  BY <1>3 DEF RequestFails
<1>. QED
  BY <1>1, <1>2, <1>3 DEF Thread

LEMMA TypeWorker ==
    ASSUME TypeOK, NEW w \in Rank, Worker(w)
    PROVE  TypeOK'
<1>. USE MessageTypes DEF TypeOK, psVars, deviceVars, Become, Reply, Kinds
<1>0. None \in Content
  BY DEF Content
<1>1. CASE Attach(w)
  BY <1>1 DEF Attach
<1>2. CASE AttachFails(w)
  BY <1>2 DEF AttachFails
<1>3. CASE Acknowledge(w)
  BY <1>3 DEF Acknowledge
<1>4. CASE Receive(w)
  BY <1>4 DEF Receive
<1>5. CASE Load(w)
  <2>1. half[w][Half(payload[w])] \in Content
    <3>1. payload[w] \in Int
      BY DEF Content, Bucket, None
    <3>2. Half(payload[w]) \in 0..1
      BY <3>1 DEF Half
    <3>. QED
      BY <3>2
  <2>2. applied' \in [Rank -> Seq(Content)]
    BY <1>5, <2>1 DEF Load
  <2>. QED
    BY <1>0, <1>5, <2>2 DEF Load
<1>6. CASE LoadFails(w)
  BY <1>0, <1>6 DEF LoadFails
<1>7. CASE Unmap(w)
  BY <1>7 DEF Unmap
<1>8. CASE Hook(w)
  BY <1>8 DEF Hook
<1>9. CASE HookFails(w)
  BY <1>9 DEF HookFails
<1>10. CASE Obey(w)
  BY <1>10 DEF Obey
<1>. QED
  BY <1>1, <1>2, <1>3, <1>4, <1>5, <1>6, <1>7, <1>8, <1>9, <1>10 DEF Worker

LEMMA TypeStep == ASSUME TypeOK, Position, [Next]_vars PROVE TypeOK'
<1>1. CASE UNCHANGED vars
  BY <1>1 DEF TypeOK, vars, psVars, deviceVars, workerVars
<1>. QED
  BY <1>1, TypeServer, TypeDevice, TypeThread, TypeWorker DEF Next, Terminating

-----------------------------------------------------------------------------
(* Where the ranks are.                                                    *)

LEMMA PositionServer ==
    ASSUME TypeOK, Position, NEW r \in Rank, Server(r)
    PROVE  Position'
<1>. USE Constants DEF TypeOK, Position, psVars, deviceVars, workerVars, Goto
<1>1. CASE Start(r)
  BY <1>1 DEF Start
<1>2. CASE SendHandle(r)
  BY <1>2 DEF SendHandle, Heading
<1>3. CASE Stage(r)
  BY <1>3 DEF Stage
<1>4. CASE Fill(r)
  BY <1>4 DEF Fill
<1>5. CASE CopyFails(r)
  BY <1>5 DEF CopyFails, Copying
<1>6. CASE Vote(r)
  BY <1>6 DEF Vote
<1>7. CASE SendMeta(r)
  BY <1>7 DEF SendMeta, Heading, Reduced
<1>8. CASE Quit(r)
  BY <1>8 DEF Quit, Reduced
<1>9. CASE Drain(r)
  BY <1>9 DEF Drain
<1>10. CASE Release(r)
  BY <1>10 DEF Release
<1>11. CASE Hooked(r)
  BY <1>11 DEF Hooked
<1>12. CASE Join(r)
  BY <1>12 DEF Join
<1>13. CASE Finish(r)
  BY <1>13 DEF Finish
<1>. QED
  BY <1>1, <1>2, <1>3, <1>4, <1>5, <1>6, <1>7, <1>8, <1>9, <1>10, <1>11, <1>12, <1>13
  DEF Server

LEMMA PositionStep == ASSUME TypeOK, Position, [Next]_vars PROVE Position'
<1>1. ASSUME NEW r \in Rank, Device(r) PROVE Position'
  BY <1>1, DeviceFrame DEF Device, Broadcast, Accept, Posted, TypeOK, Position, psVars
<1>2. ASSUME NEW r \in Rank, Thread(r) \/ Worker(r) PROVE Position'
  BY <1>2, ThreadFrame, WorkerFrame DEF Position, psVars, deviceVars
<1>3. CASE UNCHANGED vars
  BY <1>3 DEF Position, vars, psVars, deviceVars
<1>. QED
  BY <1>1, <1>2, <1>3, PositionServer DEF Next, Terminating

LEMMA LockStepStep == ASSUME TypeOK, Position, LockStep, [Next]_vars PROVE LockStep'
<1>1. ASSUME NEW r \in Rank, Server(r) PROVE LockStep'
  <2>. USE DEF TypeOK, LockStep, psVars
  <2>1. CASE Vote(r)
    <3>1. voted[r] = gidx[r] /\ voted' = [voted EXCEPT ![r] = gidx[r] + 1]
          /\ gidx' = gidx /\ bad' \subseteq bad \cup {gidx[r]}
      BY <2>1 DEF Vote, Position
    <3>2. \A q \in Rank : gidx[q] <= gidx[r]
      BY <3>1
    <3>. QED
      BY <3>1, <3>2, <1>1, ServerFrame, Constants DEF Bucket
  <2>2. CASE SendMeta(r)
    <3>1. \A q \in Rank : gidx[r] + 1 <= voted[q] /\ gidx[r] + 1 <= moved[q]
      BY <2>2 DEF SendMeta, Reduced
    <3>2. \A g \in bad : gidx[r] + 1 <= g
      BY <2>2 DEF SendMeta, Bucket
    <3>. QED
      BY <2>2, <3>1, <3>2 DEF SendMeta, deviceVars, Bucket
  <2>3. CASE UNCHANGED <<gidx, voted, bad>>
    BY <2>3, <1>1, ServerFrame
  <2>. QED
    BY <1>1, <2>1, <2>2, <2>3 DEF Server, Start, SendHandle, Stage, Fill, CopyFails, Quit,
       Drain, Release, Hooked, Join, Finish
<1>2. ASSUME NEW r \in Rank, Device(r) PROVE LockStep'
  <2>1. moved' = [moved EXCEPT ![r] = gidx[r] + 1] /\ moved[r] = gidx[r]
    BY <1>2 DEF Device, Broadcast, Accept, Posted
  <2>. QED
    BY <1>2, <2>1, DeviceFrame DEF LockStep, TypeOK, psVars
<1>3. ASSUME NEW r \in Rank, Thread(r) \/ Worker(r) PROVE LockStep'
  BY <1>3, ThreadFrame, WorkerFrame DEF LockStep, psVars, deviceVars
<1>4. CASE UNCHANGED vars
  BY <1>4 DEF LockStep, vars, psVars, deviceVars
<1>. QED
  BY <1>1, <1>2, <1>3, <1>4 DEF Next, Terminating

-----------------------------------------------------------------------------
(* What is said on the sockets.                                            *)

LEMMA MessageKinds ==
    /\ \A k \in Kinds : Msg(k).kind = k
    /\ \A k, l \in Kinds : Msg(k) = Msg(l) => k = l
    /\ \A g \in Int : Meta(g).kind = "meta" /\ Meta(g).idx = g
    /\ Nothing = Msg("nothing")
    /\ Replies = {Msg("ok"), Msg("error")}
BY DEF Msg, Meta, Nothing, Replies, Kinds

LEMMA ConversationServer ==
    ASSUME TypeOK, Position, LockStep, Conversation, NEW r \in Rank, Server(r)
    PROVE  Conversation'
<1>. USE Constants, MessageKinds
     DEF TypeOK, Position, Conversation, psVars, workerVars, Goto, Kinds
<1>1. CASE Start(r)
  BY <1>1 DEF Start
<1>2. CASE SendHandle(r)
  BY <1>2 DEF SendHandle, Heading
<1>3. CASE Stage(r)
  BY <1>3 DEF Stage
<1>4. CASE Fill(r)
  BY <1>4 DEF Fill
<1>5. CASE CopyFails(r)
  BY <1>5 DEF CopyFails, Copying
<1>6. CASE Vote(r)
  BY <1>6 DEF Vote
<1>7. CASE SendMeta(r)
  BY <1>7 DEF SendMeta, Heading
<1>8. CASE Quit(r)
  BY <1>8 DEF Quit
<1>9. CASE Drain(r)
  BY <1>9 DEF Drain
<1>10. CASE Release(r)
  BY <1>10 DEF Release
<1>11. CASE Hooked(r)
  BY <1>11 DEF Hooked
<1>12. CASE Join(r)
  BY <1>12 DEF Join
<1>13. CASE Finish(r)
  BY <1>13 DEF Finish
<1>. QED
  BY <1>1, <1>2, <1>3, <1>4, <1>5, <1>6, <1>7, <1>8, <1>9, <1>10, <1>11, <1>12, <1>13
  DEF Server

LEMMA ConversationWorker ==
    ASSUME TypeOK, Position, Conversation, NEW w \in Rank, Worker(w)
    PROVE  Conversation'
<1>. USE Constants, MessageKinds
     DEF TypeOK, Position, Conversation, psVars, Kinds, Become, Reply
<1>1. CASE Attach(w)
  BY <1>1 DEF Attach
<1>2. CASE AttachFails(w)
  BY <1>2 DEF AttachFails
<1>3. CASE Acknowledge(w)
  BY <1>3 DEF Acknowledge
<1>4. CASE Receive(w)
  BY <1>4 DEF Receive
<1>5. CASE Load(w)
  BY <1>5 DEF Load
<1>6. CASE LoadFails(w)
  BY <1>6 DEF LoadFails
<1>7. CASE Unmap(w)
  BY <1>7 DEF Unmap
<1>8. CASE Hook(w)
  BY <1>8 DEF Hook
<1>9. CASE HookFails(w)
  BY <1>9 DEF HookFails
<1>10. CASE Obey(w)
  BY <1>10 DEF Obey
<1>. QED
  BY <1>1, <1>2, <1>3, <1>4, <1>5, <1>6, <1>7, <1>8, <1>9, <1>10 DEF Worker

LEMMA ConversationStep ==
    ASSUME TypeOK, Position, LockStep, Conversation, [Next]_vars
    PROVE  Conversation'
<1>1. ASSUME NEW r \in Rank, Device(r) PROVE Conversation'
  BY <1>1, DeviceFrame DEF Conversation, psVars, workerVars
<1>2. ASSUME NEW r \in Rank, Thread(r) PROVE Conversation'
  <2>1. \A w \in Rank : wpc'[w] = "loading" => wpc[w] = "loading"
    BY <1>2 DEF Thread, Dispatch, Answer, RequestFails, TypeOK, workerVars
  <2>. QED
    BY <1>2, <2>1, ThreadFrame DEF Conversation, psVars
<1>3. CASE UNCHANGED vars
  BY <1>3 DEF Conversation, vars, psVars, workerVars
<1>. QED
  BY <1>1, <1>2, <1>3, ConversationServer, ConversationWorker DEF Next, Terminating

-----------------------------------------------------------------------------
(* What the buffers hold.                                                  *)

\* A rank stages at most one bucket per round, and consecutive buckets of a
\* round share what is staged.
LEMMA Rounds ==
    /\ \A r \in Rank, g \in Bucket : \A h, k \in OwnInRound(r, g) : h = k
    /\ \A r \in Rank, g \in Bucket : Receiver[g] = r => g \in OwnInRound(r, g)
    /\ \A r \in Rank, g \in Bucket :
           g + 1 \in Bucket /\ Heading(g + 1) = "fill" => OwnInRound(r, g + 1) = OwnInRound(r, g)
<1>1. \A r \in Rank, g \in Bucket : \A h, k \in OwnInRound(r, g) : h = k
  BY PipelineAssumption DEF OwnInRound
<1>2. ASSUME NEW r \in Rank, NEW g \in Bucket, g + 1 \in Bucket, Heading(g + 1) = "fill"
      PROVE  OwnInRound(r, g + 1) = OwnInRound(r, g)
  <2>1. Round[g + 1] = Round[g]
    BY <1>2 DEF Heading, Bucket
  <2>. QED
    BY <2>1 DEF OwnInRound
<1>. QED
  BY <1>1, <1>2 DEF OwnInRound

\* Inside the loop gidx names a bucket; before its broadcast is posted the device
\* of the rank has finished all the broadcasts before it.
LEMMA InLoop ==
    ASSUME TypeOK, Position, NEW r \in Rank
    PROVE  /\ pc[r] \in {"stage", "fill", "recv", "reduce"} => gidx[r] \in Bucket
           /\ pc[r] \in {"stage", "fill"} => moved[r] = gidx[r]
           /\ gidx[r] \in Int /\ moved[r] \in Int /\ moved[r] <= gidx[r] + 1
<1>1. NBuckets \in Nat /\ gidx[r] \in 0 .. NBuckets /\ moved[r] \in Int
  BY Constants DEF TypeOK
<1>2. pc[r] \in {"stage", "fill", "recv", "reduce"} => gidx[r] < NBuckets
  BY DEF Position
<1>3. moved[r] = gidx[r] \/ moved[r] = gidx[r] + 1
  BY DEF Position
<1>4. pc[r] \in {"stage", "fill"} => moved[r] = gidx[r]
  BY DEF Position
<1>. QED
  BY <1>1, <1>2, <1>3, <1>4 DEF Bucket

LEMMA BuffersServer ==
    ASSUME TypeOK, Position, Buffers, NEW r \in Rank, Server(r)
    PROVE  Buffers'
<1>. USE Constants DEF TypeOK, Position, Buffers, psVars, deviceVars, Goto
<1>1. CASE Stage(r)
  <2>1. gidx[r] \in Bucket
    BY <1>1 DEF Stage, Bucket
  <2>2. H2D => \A k \in OwnInRound(r, gidx[r]) : h2d'[r] = k
    BY <1>1, <2>1, Rounds DEF Stage
  <2>3. \A q \in Rank : q # r => h2d'[q] = h2d[q]
    BY <1>1 DEF Stage
  <2>. QED
    BY <1>1, <2>2, <2>3 DEF Stage, OwnInRound
<1>2. CASE Fill(r)
  <2>1. gidx[r] \in Bucket /\ moved[r] = gidx[r]
    BY <1>2, InLoop DEF Fill
  <2>2. Half(gidx[r]) \in 0..1
    BY <2>1, Halves, BucketsAreNats
  <2>3. \A g \in Bucket : g + 1 = gidx[r] => Half(g) \in 0..1 /\ Half(g) # Half(gidx[r])
    BY <2>1, Halves, BucketsAreNats
  <2>4. \A g \in Bucket : g + 1 = gidx[r] => half'[r][Half(g)] = g
    BY <1>2, <2>1, <2>2, <2>3 DEF Fill
  <2>5. ~H2D /\ Receiver[gidx[r]] = r => half'[r][Half(gidx[r])] = gidx[r]
    BY <1>2, <2>2 DEF Fill
  <2>6. \A q \in Rank : q # r => half'[q] = half[q]
    BY <1>2 DEF Fill
  <2>. QED
    BY <1>2, <2>1, <2>4, <2>5, <2>6 DEF Fill, OwnInRound
<1>3. CASE SendMeta(r)
  <2>1. gidx[r] \in Bucket /\ moved[r] = gidx[r] + 1
    BY <1>3 DEF SendMeta, Reduced, Bucket
  <2>2. gidx'[r] = moved[r]
    BY <1>3, <2>1 DEF SendMeta
  <2>3. pc'[r] \in {"fill", "recv", "reduce"} =>
            gidx[r] + 1 \in Bucket /\ Heading(gidx[r] + 1) = "fill"
    BY <1>3, <2>1 DEF SendMeta, Heading, Bucket
  <2>4. H2D /\ pc'[r] \in {"fill", "recv", "reduce"} =>
            \A k \in OwnInRound(r, gidx'[r]) : h2d'[r] = k
    BY <1>3, <2>1, <2>3, Rounds DEF SendMeta
  <2>. QED
    BY <1>3, <2>1, <2>2, <2>4 DEF SendMeta, Heading
<1>4. CASE /\ UNCHANGED <<gidx, moved, h2d, half>>
           /\ \A q \in Rank :
                 /\ pc'[q] \in {"fill", "recv", "reduce"} => pc[q] \in {"fill", "recv", "reduce"}
                 /\ pc'[q] \in {"recv", "reduce"} => pc[q] \in {"recv", "reduce"}
  <2>. SUFFICES ASSUME NEW q \in Rank
                PROVE  /\ \A g \in Bucket : g + 1 \in {gidx'[q], moved'[q]} => half'[q][Half(g)] = g
                       /\ H2D /\ pc'[q] \in {"fill", "recv", "reduce"} =>
                              \A k \in OwnInRound(q, gidx'[q]) : h2d'[q] = k
                       /\ ~H2D /\ pc'[q] \in {"recv", "reduce"} /\ Receiver[gidx'[q]] = q =>
                              half'[q][Half(gidx'[q])] = gidx'[q]
    BY <1>4 DEF OwnInRound
  <2>. QED
    BY <1>4
<1>5. ASSUME UNCHANGED <<gidx, moved, h2d, half>>, \A q \in Rank : q # r => pc'[q] = pc[q],
             pc'[r] \notin {"fill", "recv", "reduce"} \/ (pc[r] = "recv" /\ pc'[r] = "reduce")
      PROVE  Buffers'
  <2>1. \A q \in Rank : /\ pc'[q] \in {"fill", "recv", "reduce"} => pc[q] \in {"fill", "recv", "reduce"}
                        /\ pc'[q] \in {"recv", "reduce"} => pc[q] \in {"recv", "reduce"}
    BY <1>5
  <2>. QED
    BY <1>4, <1>5, <2>1
<1>6. CASE Start(r)
  <2>1. /\ UNCHANGED <<gidx, moved, h2d, half>> /\ \A q \in Rank : q # r => pc'[q] = pc[q]
        /\ pc'[r] \notin {"fill", "recv", "reduce"} \/ (pc[r] = "recv" /\ pc'[r] = "reduce")
    BY <1>6 DEF Start
  <2>. QED
    BY <1>5, <2>1
<1>7. CASE SendHandle(r)
  <2>1. /\ UNCHANGED <<gidx, moved, h2d, half>> /\ \A q \in Rank : q # r => pc'[q] = pc[q]
        /\ pc'[r] \notin {"fill", "recv", "reduce"} \/ (pc[r] = "recv" /\ pc'[r] = "reduce")
    BY <1>7 DEF SendHandle, Heading
  <2>. QED
    BY <1>5, <2>1
<1>8. CASE CopyFails(r)
  <2>1. /\ UNCHANGED <<gidx, moved, h2d, half>> /\ \A q \in Rank : q # r => pc'[q] = pc[q]
        /\ pc'[r] \notin {"fill", "recv", "reduce"} \/ (pc[r] = "recv" /\ pc'[r] = "reduce")
    BY <1>8 DEF CopyFails
  <2>. QED
    BY <1>5, <2>1
<1>9. CASE Vote(r)
  <2>1. /\ UNCHANGED <<gidx, moved, h2d, half>> /\ \A q \in Rank : q # r => pc'[q] = pc[q]
        /\ pc'[r] \notin {"fill", "recv", "reduce"} \/ (pc[r] = "recv" /\ pc'[r] = "reduce")
    BY <1>9 DEF Vote
  <2>. QED
    BY <1>5, <2>1
<1>10. CASE Quit(r)
  <2>1. /\ UNCHANGED <<gidx, moved, h2d, half>> /\ \A q \in Rank : q # r => pc'[q] = pc[q]
        /\ pc'[r] \notin {"fill", "recv", "reduce"} \/ (pc[r] = "recv" /\ pc'[r] = "reduce")
    BY <1>10 DEF Quit
  <2>. QED
    BY <1>5, <2>1
<1>11. CASE Drain(r)
  <2>1. /\ UNCHANGED <<gidx, moved, h2d, half>> /\ \A q \in Rank : q # r => pc'[q] = pc[q]
        /\ pc'[r] \notin {"fill", "recv", "reduce"} \/ (pc[r] = "recv" /\ pc'[r] = "reduce")
    BY <1>11 DEF Drain
  <2>. QED
    BY <1>5, <2>1
<1>12. CASE Release(r)
  <2>1. /\ UNCHANGED <<gidx, moved, h2d, half>> /\ \A q \in Rank : q # r => pc'[q] = pc[q]
        /\ pc'[r] \notin {"fill", "recv", "reduce"} \/ (pc[r] = "recv" /\ pc'[r] = "reduce")
    BY <1>12 DEF Release
  <2>. QED
    BY <1>5, <2>1
<1>13. CASE Hooked(r)
  <2>1. /\ UNCHANGED <<gidx, moved, h2d, half>> /\ \A q \in Rank : q # r => pc'[q] = pc[q]
        /\ pc'[r] \notin {"fill", "recv", "reduce"} \/ (pc[r] = "recv" /\ pc'[r] = "reduce")
    BY <1>13 DEF Hooked
  <2>. QED
    BY <1>5, <2>1
<1>14. CASE Join(r)
  <2>1. /\ UNCHANGED <<gidx, moved, h2d, half>> /\ \A q \in Rank : q # r => pc'[q] = pc[q]
        /\ pc'[r] \notin {"fill", "recv", "reduce"} \/ (pc[r] = "recv" /\ pc'[r] = "reduce")
    BY <1>14 DEF Join
  <2>. QED
    BY <1>5, <2>1
<1>15. CASE Finish(r)
  <2>1. /\ UNCHANGED <<gidx, moved, h2d, half>> /\ \A q \in Rank : q # r => pc'[q] = pc[q]
        /\ pc'[r] \notin {"fill", "recv", "reduce"} \/ (pc[r] = "recv" /\ pc'[r] = "reduce")
    BY <1>15 DEF Finish
  <2>. QED
    BY <1>5, <2>1
<1>. QED
  BY <1>1, <1>2, <1>3, <1>6, <1>7, <1>8, <1>9, <1>10, <1>11, <1>12, <1>13, <1>14, <1>15 DEF Server

LEMMA BuffersDevice ==
    ASSUME TypeOK, Position, LockStep, Buffers, NEW r \in Rank, Device(r)
    PROVE  Buffers'
<1>. DEFINE g == gidx[r]
<1>1. g \in Bucket /\ moved[r] = g /\ pc[r] \in {"recv", "reduce"}
  BY InLoop DEF Device, Broadcast, Accept, Posted
<1>2. Half(g) \in 0..1 /\ \A h \in Bucket : h + 1 = g => Half(h) \in 0..1 /\ Half(h) # Half(g)
  BY <1>1, Halves, BucketsAreNats
<1>3. /\ moved' = [moved EXCEPT ![r] = g + 1]
      /\ \A q \in Rank : q # r => half'[q] = half[q]
      /\ \A b \in 0..1 : b # Half(g) => half'[r][b] = half[r][b]
  BY <1>2 DEF Device, Broadcast, Accept, TypeOK
<1>4. half'[r][Half(g)] = g
  <2>1. CASE Broadcast(r)
    <3>1. H2D => h2d[r] = g
      BY <1>1, <2>1, Rounds DEF Broadcast, Buffers
    <3>2. ~H2D => half[r][Half(g)] = g
      BY <1>1, <2>1 DEF Broadcast, Buffers
    <3>. QED
      BY <1>2, <2>1, <3>1, <3>2, Constants DEF Broadcast, TypeOK
  <2>2. CASE Accept(r)
    <3>. DEFINE s == Receiver[g]
    <3>1. s \in Rank /\ moved[s] > g
      BY <1>1, <2>2, Constants DEF Accept
    <3>2. gidx[s] <= g
      BY <1>1, <3>1 DEF LockStep
    <3>3. moved[s] = g + 1
      BY <1>1, <3>1, <3>2, InLoop, BucketsAreNats
    <3>4. half[s][Half(g)] = g
      BY <1>1, <3>1, <3>3 DEF Buffers
    <3>. QED
      BY <1>2, <2>2, <3>4 DEF Accept, TypeOK
  <2>. QED
    BY <2>1, <2>2 DEF Device
<1>5. \A h \in Bucket : h + 1 \in {gidx'[r], moved'[r]} => half'[r][Half(h)] = h
  <2>1. \A h \in Bucket : h + 1 \in {gidx'[r], moved'[r]} => h + 1 = g \/ h = g
    BY <1>1, <1>3, DeviceFrame DEF psVars, TypeOK, Bucket
  <2>2. \A h \in Bucket : h + 1 = g => half'[r][Half(h)] = h
    BY <1>1, <1>2, <1>3 DEF Buffers
  <2>. QED
    BY <1>4, <2>1, <2>2
<1>. QED
  BY <1>1, <1>3, <1>4, <1>5, DeviceFrame DEF Buffers, psVars, OwnInRound, TypeOK

LEMMA BuffersStep ==
    ASSUME TypeOK, Position, LockStep, Buffers, [Next]_vars
    PROVE  Buffers'
<1>1. ASSUME NEW r \in Rank, Thread(r) \/ Worker(r) PROVE Buffers'
  BY <1>1, ThreadFrame, WorkerFrame DEF Buffers, psVars, deviceVars, OwnInRound
<1>2. CASE UNCHANGED vars
  BY <1>2 DEF Buffers, vars, psVars, deviceVars, OwnInRound
<1>. QED
  BY <1>1, <1>2, BuffersServer, BuffersDevice DEF Next, Terminating

-----------------------------------------------------------------------------
(* What the workers have read.                                             *)

LEMMA IntactBuffers ==
    ASSUME TypeOK, Conversation, Buffers
    PROVE  HalfIntact
<1>. SUFFICES ASSUME NEW w \in Rank, wpc[w] = "loading"
              PROVE  half[w][Half(payload[w])] = payload[w]
  BY DEF HalfIntact
<1>1. payload[w] \in Bucket /\ payload[w] + 1 = gidx[w]
  BY Constants DEF Conversation, TypeOK, Bucket
<1>. QED
  BY <1>1 DEF Buffers

LEMMA OrderStep ==
    ASSUME TypeOK, Conversation, Buffers, AppliedInOrder, [Next]_vars
    PROVE  AppliedInOrder'
<1>1. ASSUME NEW w \in Rank, Load(w) PROVE AppliedInOrder'
  <2>1. half[w][Half(payload[w])] = payload[w] /\ payload[w] = Len(applied[w])
    BY <1>1, IntactBuffers DEF HalfIntact, Load, Conversation
  <2>2. applied' = [applied EXCEPT ![w] = Append(applied[w], Len(applied[w]))]
    BY <1>1, <2>1 DEF Load
  <2>3. \A i \in 1 .. Len(applied'[w]) : applied'[w][i] = i - 1
    <3>1. applied'[w] = Append(applied[w], Len(applied[w])) /\ applied[w] \in Seq(Content)
      BY <2>2 DEF TypeOK
    <3>2. \A i \in 1 .. Len(applied[w]) : applied[w][i] = i - 1
      BY DEF AppliedInOrder
    <3>. QED
      BY <3>1, <3>2
  <2>. QED
    BY <2>2, <2>3 DEF AppliedInOrder, TypeOK
<1>2. CASE UNCHANGED applied
  BY <1>2 DEF AppliedInOrder
<1>3. ASSUME NEW w \in Rank, Worker(w) PROVE Load(w) \/ UNCHANGED applied
  BY <1>3 DEF Worker, Attach, AttachFails, Acknowledge, Receive, LoadFails, Unmap, Hook,
       HookFails, Obey
<1>. QED
  BY <1>1, <1>2, <1>3, ServerFrame, DeviceFrame, ThreadFrame
  DEF Next, Terminating, vars, workerVars

-----------------------------------------------------------------------------
(* Whose turn it is, and how an update ends.                               *)

LEMMA TurnsServer ==
    ASSUME TypeOK, Position, Conversation, Turns, NEW r \in Rank, Server(r)
    PROVE  Turns'
<1>. USE Constants, MessageKinds
     DEF TypeOK, Position, Conversation, Turns, psVars, workerVars, Goto, Kinds
<1>1. CASE Start(r)
  BY <1>1 DEF Start
<1>2. CASE SendHandle(r)
  BY <1>2 DEF SendHandle, Heading
<1>3. CASE Stage(r) \/ Fill(r)
  BY <1>3 DEF Stage, Fill
<1>4. CASE CopyFails(r)
  <2>1. pc[r] \in {"stage", "fill"} /\ outcome[r] = "none" /\ wire[r] # Msg("quit")
    BY <1>4 DEF CopyFails, Copying
  <2>. QED
    BY <1>4, <2>1 DEF CopyFails
<1>5. CASE Vote(r)
  BY <1>5 DEF Vote
<1>6. CASE SendMeta(r)
  BY <1>6 DEF SendMeta, Heading
<1>7. CASE Quit(r)
  BY <1>7 DEF Quit
<1>8. CASE Drain(r)
  BY <1>8 DEF Drain
<1>9. CASE Release(r)
  BY <1>9 DEF Release
<1>10. CASE Hooked(r)
  BY <1>10 DEF Hooked
<1>11. CASE Join(r) \/ Finish(r)
  BY <1>11 DEF Join, Finish
<1>. QED
  BY <1>1, <1>2, <1>3, <1>4, <1>5, <1>6, <1>7, <1>8, <1>9, <1>10, <1>11 DEF Server

LEMMA TurnsWorker ==
    ASSUME TypeOK, Position, Conversation, Turns, NEW w \in Rank, Worker(w)
    PROVE  Turns'
<1>. USE Constants, MessageKinds
     DEF TypeOK, Position, Conversation, Turns, psVars, Kinds, Become, Reply
<1>1. CASE Attach(w)
  BY <1>1 DEF Attach
<1>2. CASE AttachFails(w)
  BY <1>2 DEF AttachFails
<1>3. CASE Acknowledge(w)
  <2>1. outcome[w] = "remote" /\ pc[w] \in {"join", "barrier", "done"} /\ ~mapped'[w]
    BY <1>3 DEF Acknowledge
  <2>2. /\ wire' = [wire EXCEPT ![w] = Nothing] /\ wpc' = [wpc EXCEPT ![w] = "crashed"]
        /\ UNCHANGED psVars /\ \A v \in Rank : v # w => mapped'[v] = mapped[v]
    BY <1>3 DEF Acknowledge
  <2>. QED
    BY <2>1, <2>2
<1>4. CASE Receive(w)
  BY <1>4 DEF Receive
<1>5. CASE Load(w)
  BY <1>5 DEF Load
<1>6. CASE LoadFails(w)
  BY <1>6 DEF LoadFails
<1>7. CASE Unmap(w)
  BY <1>7 DEF Unmap
<1>8. CASE Hook(w)
  BY <1>8 DEF Hook
<1>9. CASE HookFails(w)
  BY <1>9 DEF HookFails
<1>10. CASE Obey(w)
  <2>1. outcome[w] = "remote" /\ pc[w] \in {"join", "barrier", "done"} /\ ~mapped'[w]
    BY <1>10 DEF Obey
  <2>2. /\ wire' = [wire EXCEPT ![w] = Nothing] /\ wpc' = [wpc EXCEPT ![w] = "crashed"]
        /\ UNCHANGED psVars /\ \A v \in Rank : v # w => mapped'[v] = mapped[v]
    BY <1>10 DEF Obey
  <2>. QED
    BY <2>1, <2>2
<1>. QED
  BY <1>1, <1>2, <1>3, <1>4, <1>5, <1>6, <1>7, <1>8, <1>9, <1>10 DEF Worker

LEMMA TurnsStep ==
    ASSUME TypeOK, Position, Conversation, Turns, [Next]_vars
    PROVE  Turns'
<1>1. ASSUME NEW r \in Rank, Device(r) PROVE Turns'
  BY <1>1, DeviceFrame DEF Turns, psVars, workerVars
<1>2. ASSUME NEW r \in Rank, Thread(r) PROVE Turns'
  <2>1. \A w \in Rank : wpc'[w] = wpc[w] \/ (wpc[w] = "idle" /\ wpc'[w] = "connected")
    BY <1>2 DEF Thread, Dispatch, Answer, RequestFails, TypeOK, workerVars, Group
  <2>2. \A w \in Rank : wpc[w] = "idle" => pc[w] \in {"start", "handle"} /\ wire[w].kind = "nothing"
    BY MessageKinds DEF Turns, Conversation, Kinds
  <2>. QED
    BY <1>2, <2>1, <2>2, ThreadFrame DEF Turns, psVars
<1>3. CASE UNCHANGED vars
  BY <1>3 DEF Turns, vars, psVars, workerVars
<1>. QED
  BY <1>1, <1>2, <1>3, TurnsServer, TurnsWorker DEF Next, Terminating

LEMMA JoinedStep == ASSUME TypeOK, Joined, [Next]_vars PROVE Joined'
<1>. USE PipelineAssumption DEF TypeOK, Joined
<1>1. ASSUME NEW r \in Rank, Server(r) PROVE Joined'
  <2>1. wpc' = wpc
    BY <1>1, ServerFrame DEF workerVars
  <2>2. CASE Start(r)
    BY <2>1, <2>2 DEF Start, Goto
  <2>3. CASE Join(r)
    BY <2>1, <2>3 DEF Join, Goto
  <2>4. CASE Finish(r)
    BY <2>1, <2>4 DEF Finish, Goto
  <2>5. ASSUME UNCHANGED req,
               pc[r] \notin {"start", "barrier", "done"}, pc'[r] \notin {"start", "barrier", "done"},
               \A q \in Rank : q # r => pc'[q] = pc[q]
        PROVE  Joined'
    BY <2>1, <2>5
  <2>6. CASE SendHandle(r) \/ Stage(r) \/ Fill(r) \/ CopyFails(r) \/ Vote(r)
    BY <2>5, <2>6 DEF SendHandle, Stage, Fill, CopyFails, Copying, Vote, Goto, Heading
  <2>7. CASE SendMeta(r)
    BY <2>5, <2>7 DEF SendMeta, Goto, Heading
  <2>8. CASE Quit(r) \/ Drain(r) \/ Release(r) \/ Hooked(r)
    BY <2>5, <2>8 DEF Quit, Drain, Release, Hooked, Goto
  <2>. QED
    BY <1>1, <2>2, <2>3, <2>4, <2>6, <2>7, <2>8 DEF Server
<1>2. ASSUME NEW r \in Rank, Device(r) PROVE Joined'
  BY <1>2, DeviceFrame DEF psVars, workerVars
<1>3. ASSUME NEW l \in Rank, Thread(l) PROVE Joined'
  <2>1. UNCHANGED pc
    BY <1>3, ThreadFrame DEF psVars
  <2>2. CASE Dispatch(l)
    <3>1. req' = req /\ req[l] = "running" /\ \A w \in Rank : Leader[w] # l => wpc'[w] = wpc[w]
      BY <2>2 DEF Dispatch
    <3>. QED
      BY <2>1, <3>1
  <2>3. CASE Answer(l)
    <3>1. req[l] = "running" /\ req' = [req EXCEPT ![l] = "ended"] /\ wpc' = wpc
      BY <2>3 DEF Answer, workerVars
    <3>2. \A w \in Rank : Leader[w] = l => wpc[w] \in {"stopped", "crashed"}
      BY <2>3 DEF Answer, Group
    <3>. QED
      BY <2>1, <3>1, <3>2
  <2>4. CASE RequestFails(l)
    BY <2>1, <2>4 DEF RequestFails, workerVars
  <2>. QED
    BY <1>3, <2>2, <2>3, <2>4 DEF Thread
<1>4. ASSUME NEW w \in Rank, Worker(w) PROVE Joined'
  <2>1. UNCHANGED <<pc, req>>
    BY <1>4, WorkerFrame DEF psVars
  <2>2. wpc[w] \notin {"stopped", "crashed"} /\ \A v \in Rank : v # w => wpc'[v] = wpc[v]
    BY <1>4 DEF Worker, Attach, AttachFails, Acknowledge, Receive, Load, LoadFails, Unmap, Hook,
                HookFails, Obey, Become
  <2>. QED
    BY <2>1, <2>2
<1>5. CASE UNCHANGED vars
  BY <1>5 DEF vars, psVars, workerVars
<1>. QED
  BY <1>1, <1>2, <1>3, <1>4, <1>5 DEF Next, Terminating

LEMMA HeldStep == ASSUME TypeOK, Position, Held, [Next]_vars PROVE Held'
<1>1. ASSUME NEW r \in Rank, Server(r) PROVE Held'
  <2>. USE DEF TypeOK, Position, Held, Goto
  <2>1. CASE Start(r)
    BY <2>1 DEF Start
  <2>2. CASE Release(r)
    BY <2>2 DEF Release
  <2>3. CASE Finish(r)
    BY <2>3 DEF Finish
  <2>4. CASE Hooked(r)
    BY <2>4 DEF Hooked
  <2>5. CASE SendHandle(r)
    BY <2>5 DEF SendHandle, Heading
  <2>6. CASE SendMeta(r)
    BY <2>6 DEF SendMeta, Heading
  <2>7. CASE Stage(r)
    BY <2>7 DEF Stage
  <2>11. CASE Fill(r)
    BY <2>11 DEF Fill
  <2>12. CASE Vote(r)
    BY <2>12 DEF Vote
  <2>13. CASE Drain(r)
    BY <2>13 DEF Drain
  <2>8. CASE Join(r)
    BY <2>8 DEF Join
  <2>9. CASE CopyFails(r)
    BY <2>9 DEF CopyFails, Copying
  <2>10. CASE Quit(r)
    BY <2>10 DEF Quit
  <2>. QED
    BY <1>1, <2>1, <2>2, <2>3, <2>4, <2>5, <2>6, <2>7, <2>8, <2>9, <2>10, <2>11, <2>12, <2>13 DEF Server
<1>2. ASSUME NEW r \in Rank, Device(r) \/ Thread(r) \/ Worker(r) PROVE Held'
  BY <1>2, DeviceFrame, ThreadFrame, WorkerFrame DEF Held, psVars
<1>3. CASE UNCHANGED vars
  BY <1>3 DEF Held, vars, psVars
<1>. QED
  BY <1>1, <1>2, <1>3 DEF Next, Terminating

-----------------------------------------------------------------------------
(* The theorems.                                                           *)

\* The strengthening is inductive: it holds at the start of every update and no
\* step of a rank, a device, a req_thread or a worker breaks it.
THEOREM Inductive == Spec => []IInv
<1>1. Init => IInv
  <2>. SUFFICES ASSUME Init PROVE IInv
    OBVIOUS
  <2>1. Position
    BY Constants DEF Init, Position
  <2>2. LockStep
    BY DEF Init, LockStep
  <2>3. Conversation
    BY MessageKinds DEF Init, Conversation, Kinds
  <2>4. Buffers
    <3>1. \A g \in Bucket : g + 1 # 0
      BY BucketsAreNats
    <3>. QED
      BY <3>1 DEF Init, Buffers
  <2>5. AppliedInOrder
    BY DEF Init, AppliedInOrder
  <2>. QED
    BY <2>1, <2>2, <2>3, <2>4, <2>5, TypeInit DEF IInv
<1>2. IInv /\ [Next]_vars => IInv'
  BY TypeStep, PositionStep, LockStepStep, ConversationStep, BuffersStep, OrderStep DEF IInv
<1>. QED
  BY <1>1, <1>2, PTL DEF Spec

\* Type correctness of the update pipeline.
THEOREM TypeCorrect == Spec => []TypeOK
<1>1. IInv => TypeOK
  BY DEF IInv
<1>. QED
  BY <1>1, Inductive, PTL

\* The double buffer of _update_per_bucket is safe: however far a rank and the
\* broadcasts of its peers run ahead, a worker reads the bucket it was told to.
THEOREM DoubleBufferSafe == Spec => []HalfIntact
<1>1. IInv => HalfIntact
  BY IntactBuffers DEF IInv
<1>. QED
  BY <1>1, Inductive, PTL

\* A worker loads every bucket at most once, in order, none skipped, and each
\* from a half that held it -- whatever fails.
THEOREM LoadsInOrder == Spec => []AppliedInOrder
<1>1. IInv => AppliedInOrder
  BY DEF IInv
<1>. QED
  BY <1>1, Inductive, PTL

\* No rank returns normally from an update that raises on another.
THEOREM RanksAgree == Spec => []Agreement
<1>1. IInv => Agreement
  <2>. SUFFICES ASSUME IInv, NEW q \in Rank, NEW r \in Rank, outcome[q] = "ok",
                       outcome[r] \in {"remote", "local"}
                PROVE  FALSE
    BY DEF Agreement, IInv, TypeOK
  <2>1. gidx[q] = NBuckets /\ gidx[r] < NBuckets
    BY DEF IInv, Position
  <2>2. CASE outcome[r] = "remote"
    BY <2>1, <2>2, Constants DEF IInv, Position, LockStep, TypeOK
  <2>3. CASE outcome[r] = "local"
    <3>1. voted[r] = gidx[r]
      BY <2>3 DEF IInv, Position
    <3>. QED
      BY <2>1, <3>1, Constants DEF IInv, LockStep, TypeOK
  <2>. QED
    BY <2>2, <2>3
<1>. QED
  BY <1>1, Inductive, PTL

\* The ends of the ranks, their requests and their workers are tied to each other.
LEMMA Endings == Spec => [](Turns /\ Joined /\ Held)
<1>1. Init => Turns /\ Joined /\ Held
  <2>. SUFFICES ASSUME Init PROVE Turns /\ Joined /\ Held
    OBVIOUS
  <2>1. Turns
    BY MessageKinds DEF Init, Turns, Kinds
  <2>2. Joined
    BY PipelineAssumption DEF Init, Joined
  <2>3. Held
    BY DEF Init, Held
  <2>. QED
    BY <2>1, <2>2, <2>3
<1>2. IInv /\ (Turns /\ Joined /\ Held) /\ [Next]_vars => (Turns /\ Joined /\ Held)'
  BY TurnsStep, JoinedStep, HeldStep DEF IInv
<1>. QED
  BY <1>1, <1>2, Inductive, PTL DEF Spec

\* update returns or raises only when its worker is gone, and normally only after
\* the post_hook: if no request fails, the join of the leader's req_thread and the
\* barrier see to it (the finally clause of _update_per_bucket).
THEOREM WorkersGone == ASSUME "request" \notin Faults PROVE Spec => []WorkerGone
<1>1. Turns /\ Joined /\ Held => WorkerGone
  <2>. SUFFICES ASSUME Turns, Joined, NEW r \in Rank
                PROVE  /\ pc[r] = "done" => wpc[r] \in {"stopped", "crashed"}
                       /\ outcome[r] = "ok" => wpc[r] = "stopped"
    BY DEF WorkerGone
  <2>1. Leader[r] \in Rank
    BY PipelineAssumption
  <2>. QED
    BY <2>1 DEF Turns, Joined
<1>. QED
  BY <1>1, Endings, PTL

\* If no request fails, no rank frees the buffer while its worker has it mapped,
\* whatever else fails and on whichever rank.
THEOREM FreedLast == ASSUME "request" \notin Faults PROVE Spec => []FreedAfterUnmap
<1>1. IInv /\ (Turns /\ Joined /\ Held) => FreedAfterUnmap
  <2>. SUFFICES ASSUME IInv, Turns, Joined, Held, NEW r \in Rank, mapped[r] PROVE held[r]
    BY DEF FreedAfterUnmap
  <2>1. wpc[r] \in {"ready", "loading"}
    BY DEF Turns
  <2>2. pc[r] \notin {"start", "hook", "done"} /\ outcome[r] # "ok"
    <3>1. pc[r] # "done"
      <4>1. Leader[r] \in Rank
        BY PipelineAssumption
      <4>. QED
        BY <2>1, <4>1 DEF Joined
    <3>. QED
      BY <2>1, <3>1 DEF Turns
  <2>. QED
    BY <2>2 DEF Held
<1>. QED
  BY <1>1, Inductive, Endings, PTL

-----------------------------------------------------------------------------
(* The promise.                                                            *)

WorkersFail == Faults \cap {"hook", "copy"} = {}

-----------------------------------------------------------------------------
(* Every failure is accounted for.                                         *)

\* A rank whose own state does not change: the others can only add to bad.
LEMMA AccountedStays ==
    ASSUME NEW w \in Rank, Accounted(w), bad \subseteq bad', NBuckets' = NBuckets,
           fault'[w] = fault[w], outcome'[w] = outcome[w], wire'[w] = wire[w], pc'[w] = pc[w],
           wpc'[w] = wpc[w], applied'[w] = applied[w], gidx'[w] = gidx[w]
    PROVE  Accounted(w)'
BY DEF Accounted, Nothing, Msg

LEMMA AccountedServer ==
    ASSUME WorkersFail, TypeOK, Position, Conversation, Turns, NEW r \in Rank, Accounted(r), Server(r)
    PROVE  Accounted(r)'
<1>. USE Constants, MessageKinds
     DEF TypeOK, Position, Accounted, Answering, psVars, workerVars, Goto, Kinds
<1>1. CASE Start(r)
  BY <1>1 DEF Start
<1>2. CASE SendHandle(r)
  BY <1>2 DEF SendHandle, Heading, Turns
<1>3. CASE Stage(r)
  BY <1>3 DEF Stage
<1>4. CASE Fill(r)
  BY <1>4 DEF Fill
<1>5. ~CopyFails(r)
  BY DEF CopyFails, WorkersFail
<1>6. CASE Vote(r)
  BY <1>6 DEF Vote
<1>7. CASE SendMeta(r)
  <2>1. gidx[r] \notin bad /\ pc[r] = "reduce" /\ wire[r] = Nothing
    BY <1>7 DEF SendMeta, Turns
  <2>2. wpc[r] = "ready" /\ fault[r] = "none"
    BY <2>1 DEF Turns, Conversation
  <2>. QED
    BY <1>7, <2>1, <2>2 DEF SendMeta, Heading
<1>8. CASE Quit(r)
  BY <1>8 DEF Quit, Turns, Conversation
<1>9. CASE Drain(r)
  BY <1>9 DEF Drain
<1>10. CASE Release(r)
  BY <1>10 DEF Release
<1>11. CASE Hooked(r)
  BY <1>11 DEF Hooked
<1>12. CASE Join(r)
  BY <1>12 DEF Join
<1>13. CASE Finish(r)
  BY <1>13 DEF Finish
<1>. QED
  BY <1>1, <1>2, <1>3, <1>4, <1>5, <1>6, <1>7, <1>8, <1>9, <1>10, <1>11, <1>12, <1>13
  DEF Server

\* A worker is handed something only while its server is in the loop, or past it.
LEMMA WorkerTurn ==
    ASSUME TypeOK, Position, Conversation, Turns, NEW w \in Rank, Accounted(w)
    PROVE  /\ wpc[w] = "connected" /\ wire[w] = Msg("handle") =>
                  pc[w] \in Answering /\ gidx[w] = 0 /\ fault[w] = "none"
           /\ wpc[w] = "loading" =>
                  pc[w] \in Answering \cup {"drain"} /\ gidx[w] > 0 /\ fault[w] = "none"
BY Constants, MessageKinds
   DEF TypeOK, Position, Conversation, Turns, Accounted, Answering, Kinds

LEMMA AccountedWorker ==
    ASSUME WorkersFail, TypeOK, Position, Conversation, Turns, NEW w \in Rank, Accounted(w), Worker(w)
    PROVE  Accounted(w)'
<1>. USE Constants, MessageKinds
     DEF TypeOK, Position, Accounted, psVars, Kinds, Become, Reply
<1>1. CASE Attach(w)
  BY <1>1, WorkerTurn DEF Attach
<1>2. CASE AttachFails(w)
  <2>1. pc[w] \in Answering /\ gidx[w] = 0 /\ outcome[w] = "none" /\ wpc[w] = "connected"
    BY <1>2, WorkerTurn DEF AttachFails, Answering
  <2>2. /\ wire'[w] = Msg("error") /\ wpc'[w] = "ack" /\ fault'[w] = "attach"
        /\ UNCHANGED <<pc, gidx, outcome, applied, bad>>
    BY <1>2 DEF AttachFails
  <2>3. Len(applied[w]) = gidx[w]
    BY <1>2, <2>1 DEF AttachFails
  <2>4. wire'[w].kind = "error"
    BY <2>2
  <2>. QED
    BY <2>1, <2>2, <2>3, <2>4
<1>3. CASE Acknowledge(w)
  BY <1>3 DEF Acknowledge, Turns
<1>4. CASE Receive(w)
  BY <1>4 DEF Receive
<1>5. CASE Load(w)
  BY <1>5, WorkerTurn DEF Load
<1>6. CASE LoadFails(w)
  BY <1>6, WorkerTurn DEF LoadFails
<1>7. CASE Unmap(w)
  BY <1>7 DEF Unmap
<1>8. CASE Hook(w)
  BY <1>8 DEF Hook
<1>9. ~HookFails(w)
  BY DEF HookFails, WorkersFail
<1>10. CASE Obey(w)
  BY <1>10 DEF Obey
<1>. QED
  BY <1>1, <1>2, <1>3, <1>4, <1>5, <1>6, <1>7, <1>8, <1>9, <1>10 DEF Worker

LEMMA OthersStay ==
    ASSUME TypeOK, NEW r \in Rank, Server(r) \/ Worker(r), NEW w \in Rank \ {r}
    PROVE  /\ fault'[w] = fault[w] /\ outcome'[w] = outcome[w] /\ wire'[w] = wire[w] /\ pc'[w] = pc[w]
           /\ wpc'[w] = wpc[w] /\ applied'[w] = applied[w] /\ gidx'[w] = gidx[w] /\ bad \subseteq bad'
<1>1. CASE Server(r)
  BY <1>1 DEF Server, Start, SendHandle, Stage, Fill, CopyFails, Vote, SendMeta, Quit, Drain, Release,
              Hooked, Join, Finish, TypeOK, psVars, workerVars, Goto
<1>2. CASE Worker(r)
  BY <1>2 DEF Worker, Attach, AttachFails, Acknowledge, Receive, Load, LoadFails, Unmap, Hook,
              HookFails, Obey, TypeOK, psVars, Become, Reply
<1>. QED
  BY <1>1, <1>2

\* The buckets known to be bad are those failures stand at.
LEMMA BadStep ==
    ASSUME WorkersFail, TypeOK, Position, Blamed, NEW r \in Rank, Server(r) \/ Worker(r),
           NEW g \in bad'
    PROVE  \E w \in Rank : fault'[w] # "none" /\ gidx'[w] = g
<1>. USE DEF TypeOK
<1>1. CASE g \in bad
  <2>1. PICK w \in Rank : fault[w] # "none" /\ gidx[w] = g
    BY <1>1 DEF Blamed
  <2>2. CASE w # r
    <3>1. w \in Rank \ {r}
      BY <2>2
    <3>2. fault'[w] = fault[w] /\ gidx'[w] = gidx[w]
      BY <3>1, OthersStay
    <3>. QED
      BY <2>1, <3>2
  <2>3. CASE w = r
    <3>1. ~SendMeta(r)
      BY <1>1, <2>1, <2>3 DEF SendMeta
    <3>2. fault'[r] # "none"
      BY <2>1, <2>3, ServerFrame
         DEF Worker, Attach, AttachFails, Acknowledge, Receive, Load, LoadFails, Unmap, Hook,
             HookFails, Obey, workerVars
    <3>3. gidx' = gidx
      BY <3>1, WorkerFrame
         DEF Server, Start, SendHandle, Stage, Fill, CopyFails, Vote, Quit, Drain, Release,
             Hooked, Join, Finish, psVars
    <3>. QED
      BY <2>1, <2>3, <3>2, <3>3
  <2>. QED
    BY <2>2, <2>3
<1>2. CASE g \notin bad
  <2>1. Vote(r) /\ wire[r] = Msg("error") /\ g = gidx[r] /\ pc[r] = "recv" /\ gidx' = gidx /\ fault' = fault
    BY <1>2, WorkerFrame, ServerFrame
       DEF Server, Start, SendHandle, Stage, Fill, CopyFails, Vote, SendMeta, Quit, Drain, Release,
           Hooked, Join, Finish, psVars, workerVars
  <2>2. fault[r] # "none"
    BY <2>1 DEF Blamed, Accounted, Answering
  <2>. QED
    BY <2>1, <2>2
<1>. QED
  BY <1>1, <1>2

LEMMA BlamedStep ==
    ASSUME WorkersFail, TypeOK, Position, Conversation, Turns, Blamed, [Next]_vars
    PROVE  Blamed'
<1>1. ASSUME NEW r \in Rank, Server(r) \/ Worker(r) PROVE Blamed'
  <2>1. \A w \in Rank \ {r} : Accounted(w)'
    BY <1>1, OthersStay, AccountedStays DEF Blamed
  <2>2. Accounted(r)'
    BY <1>1, AccountedServer, AccountedWorker DEF Blamed
  <2>3. \A g \in bad' : \E w \in Rank : fault'[w] # "none" /\ gidx'[w] = g
    BY <1>1, BadStep
  <2>. QED
    BY <2>1, <2>2, <2>3 DEF Blamed
<1>2. ASSUME UNCHANGED <<fault, outcome, wire, pc, wpc, applied, gidx, bad>> PROVE Blamed'
  BY <1>2, AccountedStays DEF Blamed
<1>3. ASSUME NEW r \in Rank, Device(r) PROVE Blamed'
  BY <1>2, <1>3, DeviceFrame DEF psVars, workerVars
<1>4. ASSUME NEW r \in Rank, Thread(r) PROVE Blamed'
  <2>1. UNCHANGED <<fault, outcome, wire, pc, applied, gidx, bad>>
    BY <1>4, ThreadFrame DEF psVars
  <2>2. \A w \in Rank : wpc'[w] = wpc[w] \/ (wpc[w] = "idle" /\ wpc'[w] = "connected")
    <3>1. CASE Dispatch(r)
      BY <3>1 DEF Dispatch, Group
    <3>2. CASE Answer(r) \/ RequestFails(r)
      BY <3>2 DEF Answer, RequestFails, workerVars
    <3>. QED
      BY <1>4, <3>1, <3>2 DEF Thread
  <2>3. ASSUME NEW w \in Rank PROVE Accounted(w)'
    BY <2>1, <2>2, AccountedStays DEF Blamed, Accounted, Nothing, Msg
  <2>. QED
    BY <2>1, <2>3 DEF Blamed
<1>5. CASE UNCHANGED vars
  BY <1>2, <1>5 DEF vars, psVars, workerVars
<1>. QED
  BY <1>1, <1>3, <1>4, <1>5 DEF Next, Terminating

-----------------------------------------------------------------------------
(* The refinement.                                                         *)

Verdict == [r \in Rank |-> IF pc[r] # "done" THEN "none"
                           ELSE IF outcome[r] = "ok" THEN "returned" ELSE "raised"]

\* A worker that loads may do so: the others have answered for the bucket before.
LEMMA MayLoads ==
    ASSUME IInv, Turns, Blamed, NEW w \in Rank, wpc[w] = "loading"
    PROVE  /\ Abstract!MayLoad(w) /\ Abstract!Turn(w) = Len(applied[w])
           /\ payload[w] = Len(applied[w]) /\ half[w][Half(payload[w])] = payload[w]
<1>. USE Constants, MessageKinds DEF IInv, TypeOK
<1>1. /\ fault[w] = "none" /\ gidx[w] > 0 /\ gidx[w] <= NBuckets
      /\ Len(applied[w]) = gidx[w] - 1 /\ payload[w] = gidx[w] - 1
  BY WorkerTurn DEF Conversation, Blamed
<1>2. half[w][Half(payload[w])] = payload[w]
  BY IntactBuffers DEF HalfIntact
<1>3. ASSUME NEW v \in Rank PROVE fault[v] # "attach" /\ Len(applied[v]) >= gidx[w] - 1
  <2>1. gidx[w] <= voted[v] /\ \A g \in bad : gidx[w] <= g
    BY DEF LockStep
  <2>2. Accounted(v) /\ gidx[v] \in Nat
    BY DEF Blamed
  <2>3. gidx[v] >= gidx[w] \/ (gidx[v] = gidx[w] - 1 /\ pc[v] = "reduce")
    <3>1. outcome[v] = "remote" => gidx[v] \in bad
      BY DEF Position
    <3>. QED
      BY <2>1, <3>1 DEF Position
  <2>4. CASE gidx[v] >= gidx[w]
    BY <1>1, <2>2, <2>4 DEF Accounted
  <2>5. CASE gidx[v] = gidx[w] - 1 /\ pc[v] = "reduce"
    <3>1. gidx[v] \notin bad
      BY <2>1, <2>5
    <3>2. fault[v] = "none"
      BY <1>1, <2>2, <2>5, <3>1 DEF Accounted, Answering
    <3>3. Len(applied[v]) = gidx[v]
      BY <2>5, <3>1 DEF Conversation
    <3>. QED
      BY <2>5, <3>2, <3>3
  <2>. QED
    BY <2>3, <2>4, <2>5
<1>4. Abstract!Turn(w) = gidx[w] - 1
  BY <1>1 DEF Abstract!Turn
<1>. QED
  BY <1>1, <1>2, <1>3, <1>4 DEF Abstract!MayLoad

\* A worker that cannot attach does so before any other has been handed a bucket.
LEMMA NobodyLoads ==
    ASSUME IInv, Turns, Blamed, NEW w \in Rank, wpc[w] = "connected", wire[w] = Msg("handle")
    PROVE  fault[w] = "none" /\ \A v \in Rank : applied[v] = <<>> /\ fault[v] # "load"
<1>. USE Constants, MessageKinds DEF IInv, TypeOK
<1>1. pc[w] \in Answering /\ gidx[w] = 0 /\ fault[w] = "none"
  BY WorkerTurn DEF Blamed
<1>2. voted[w] = 0
  BY <1>1 DEF Position, Answering
<1>3. ASSUME NEW v \in Rank PROVE applied[v] = <<>> /\ fault[v] # "load"
  <2>1. gidx[v] = 0
    BY <1>2 DEF LockStep
  <2>2. Len(applied[v]) \in Nat /\ applied[v] \in Seq(Content)
    OBVIOUS
  <2>3. Len(applied[v]) = 0 /\ fault[v] # "load"
    BY <2>1, <2>2 DEF Blamed, Accounted
  <2>. QED
    BY <2>2, <2>3
<1>. QED
  BY <1>1, <1>3

\* What a rank ends with is what the failures of the workers ask for.
LEMMA EndsRight ==
    ASSUME IInv, Turns, Blamed, NEW r \in Rank, \A q \in Rank : pc[q] \in {"barrier", "done"}
    PROVE  IF outcome[r] = "ok" THEN \A w \in Rank : fault[w] # "attach" /\ Abstract!Turn(w) = NBuckets
           ELSE \E w \in Rank : fault[w] = "attach" \/ (fault[w] = "load" /\ Abstract!Turn(w) < NBuckets)
<1>. USE Constants, MessageKinds DEF IInv, TypeOK
<1>1. \A w \in Rank : /\ outcome[w] \in {"ok", "remote"}
                      /\ Len(applied[w]) = IF wpc[w] = "loading" \/ fault[w] = "load"
                                           THEN gidx[w] - 1 ELSE gidx[w]
  <2>. SUFFICES ASSUME NEW w \in Rank
                PROVE  /\ outcome[w] \in {"ok", "remote"}
                       /\ Len(applied[w]) = IF wpc[w] = "loading" \/ fault[w] = "load"
                                            THEN gidx[w] - 1 ELSE gidx[w]
    OBVIOUS
  <2>1. Accounted(w) /\ pc[w] \in {"barrier", "done"}
    BY DEF Blamed
  <2>2. wire[w].kind # "meta"
    BY <2>1 DEF Accounted, Answering
  <2>3. outcome[w] \in {"ok", "remote"}
    BY <2>1 DEF Accounted, Position
  <2>. QED
    BY <2>1, <2>2, <2>3 DEF Accounted
<1>2. CASE outcome[r] = "ok"
  <2>1. gidx[r] = NBuckets
    BY <1>2 DEF Position
  <2>2. ASSUME NEW w \in Rank PROVE fault[w] # "attach" /\ Abstract!Turn(w) = NBuckets
    <3>1. outcome[w] = "ok"
      <4>1. outcome[w] = "remote" => gidx[w] \in bad
        BY DEF Position
      <4>. QED
        BY <1>1, <2>1, <4>1 DEF LockStep, Bucket
    <3>2. gidx[w] = NBuckets /\ wpc[w] = "stopped"
      BY <3>1 DEF Position, Turns
    <3>3. fault[w] # "attach"
      BY <3>2 DEF Blamed, Accounted
    <3>. QED
      BY <1>1, <3>2, <3>3 DEF Abstract!Turn
  <2>. QED
    BY <1>2, <2>2
<1>3. CASE outcome[r] = "remote"
  <2>1. gidx[r] \in bad
    BY <1>3 DEF Position
  <2>2. PICK w \in Rank : fault[w] # "none" /\ gidx[w] = gidx[r]
    BY <2>1 DEF Blamed
  <2>3. fault[w] \in {"attach", "load"}
    BY <2>2 DEF Blamed, Accounted
  <2>4. fault[w] = "load" => Abstract!Turn(w) < NBuckets
    BY <1>1, <2>1, <2>2 DEF Abstract!Turn, Bucket
  <2>. QED
    BY <1>3, <2>3, <2>4
<1>. QED
  BY <1>1, <1>2, <1>3

LEMMA PromiseStep ==
    ASSUME WorkersFail, IInv, Turns, Blamed, [Next]_vars
    PROVE  Abstract!Next \/ UNCHANGED <<applied, fault, Verdict>>
<1>. USE DEF IInv, TypeOK
<1>1. ASSUME NEW r \in Rank, Finish(r) PROVE Abstract!Next
  <2>1. /\ \A q \in Rank : pc[q] \in {"barrier", "done"}
        /\ pc[r] = "barrier" /\ pc' = [pc EXCEPT ![r] = "done"] /\ outcome' = outcome
        /\ UNCHANGED <<applied, fault>>
    BY <1>1 DEF Finish, Goto, workerVars
  <2>2. Verdict' = [Verdict EXCEPT ![r] = IF outcome[r] = "ok" THEN "returned" ELSE "raised"]
    BY <2>1 DEF Verdict
  <2>3. Verdict[r] = "none"
    BY <2>1 DEF Verdict
  <2>4. CASE outcome[r] = "ok"
    <3>1. Abstract!Return(r)
      BY <2>1, <2>2, <2>3, <2>4, EndsRight DEF Abstract!Return, Verdict
    <3>. QED
      BY <3>1 DEF Abstract!Next
  <2>5. CASE outcome[r] # "ok"
    <3>1. Abstract!Raise(r)
      BY <2>1, <2>2, <2>3, <2>5, EndsRight DEF Abstract!Raise, Verdict
    <3>. QED
      BY <3>1 DEF Abstract!Next
  <2>. QED
    BY <2>4, <2>5
<1>2. ASSUME NEW r \in Rank, Server(r), ~Finish(r) PROVE UNCHANGED <<applied, fault, Verdict>>
  <2>1. UNCHANGED <<applied, fault>>
    BY <1>2, ServerFrame DEF workerVars
  <2>2. pc[r] # "done" /\ pc'[r] # "done"
    <3>1. \E there : pc[r] # "done" /\ there # "done" /\ Goto(r, there)
      <4>1. Heading(0) # "done" /\ Heading(gidx[r] + 1) # "done"
        BY DEF Heading
      <4>2. SendHandle(r) \/ SendMeta(r) => \E there : pc[r] # "done" /\ there # "done" /\ Goto(r, there)
        BY <4>1, Zenon DEF SendHandle, SendMeta
      <4>3. Start(r) \/ Stage(r) \/ Fill(r) \/ CopyFails(r) \/ Vote(r) =>
                \E there : pc[r] # "done" /\ there # "done" /\ Goto(r, there)
        BY DEF Start, Stage, Fill, CopyFails, Copying, Vote
      <4>4. Quit(r) \/ Drain(r) \/ Release(r) \/ Hooked(r) \/ Join(r) =>
                \E there : pc[r] # "done" /\ there # "done" /\ Goto(r, there)
        BY DEF Quit, Drain, Release, Hooked, Join
      <4>. QED
        BY <1>2, <4>2, <4>3, <4>4 DEF Server
    <3>. QED
      BY <3>1 DEF Goto
  <2>3. \A q \in Rank \ {r} : pc'[q] = pc[q] /\ outcome'[q] = outcome[q]
    BY <1>2, OthersStay
  <2>4. Verdict' = Verdict
    BY <2>2, <2>3 DEF Verdict
  <2>. QED
    BY <2>1, <2>4
<1>3. ASSUME UNCHANGED psVars PROVE Verdict' = Verdict
  BY <1>3 DEF Verdict, psVars
<1>4. ASSUME NEW w \in Rank, Load(w) PROVE Abstract!Next
  <2>1. Abstract!Load(w)
    BY <1>3, <1>4, MayLoads DEF Load, Abstract!Load, Verdict
  <2>. QED
    BY <2>1 DEF Abstract!Next
<1>5. ASSUME NEW w \in Rank, LoadFails(w) PROVE Abstract!Next
  <2>1. Abstract!LoadFails(w)
    BY <1>3, <1>5, MayLoads DEF LoadFails, Abstract!LoadFails, Verdict
  <2>. QED
    BY <2>1 DEF Abstract!Next
<1>6. ASSUME NEW w \in Rank, AttachFails(w) PROVE Abstract!Next
  <2>1. Abstract!AttachFails(w)
    BY <1>3, <1>6, NobodyLoads DEF AttachFails, Abstract!AttachFails, Verdict
  <2>. QED
    BY <2>1 DEF Abstract!Next
<1>7. ASSUME NEW w \in Rank, Worker(w), ~Load(w), ~LoadFails(w), ~AttachFails(w)
      PROVE  UNCHANGED <<applied, fault, Verdict>>
  BY <1>3, <1>7 DEF WorkersFail, Worker, Attach, Acknowledge, Receive, Unmap, Hook, HookFails, Obey
<1>8. ASSUME NEW r \in Rank, Device(r) PROVE UNCHANGED <<applied, fault, Verdict>>
  BY <1>3, <1>8, DeviceFrame DEF workerVars
<1>9. ASSUME NEW r \in Rank, Thread(r) PROVE UNCHANGED <<applied, fault, Verdict>>
  BY <1>3, <1>9, ThreadFrame
<1>10. CASE UNCHANGED vars
  BY <1>3, <1>10 DEF vars, workerVars
<1>. QED
  BY <1>1, <1>2, <1>4, <1>5, <1>6, <1>7, <1>8, <1>9, <1>10 DEF Next, Terminating

\* update keeps the promise of WeightUpdate: every worker loads the buckets in order,
\* none is handed one before all have answered for the last, and all ranks return or
\* all raise, as the failures of the workers decide (_update_per_bucket and
\* update_weights_from_ipc), if post_hooks and copies do not fail.
THEOREM KeepsPromise == ASSUME WorkersFail PROVE Spec => Promise
<1>1. Init => Blamed
  BY Constants, MessageKinds DEF Init, Blamed, Accounted, Answering, Kinds
<1>2. Init => Abstract!Init
  BY DEF Init, Abstract!Init
<1>3. IInv /\ Turns /\ Blamed /\ [Next]_vars => Blamed'
  BY BlamedStep DEF IInv
<1>4. IInv /\ Turns /\ Blamed /\ [Next]_vars => [Abstract!Next]_(Abstract!vars)
  BY PromiseStep DEF Abstract!vars, Verdict
<1>. QED
  BY <1>1, <1>2, <1>3, <1>4, Inductive, Endings, PTL DEF Spec, Promise, Abstract!Spec
=============================================================================
