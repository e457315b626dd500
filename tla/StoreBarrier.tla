---------------------------- MODULE StoreBarrier ----------------------------
(***************************************************************************)
(* ParameterServer.store_based_barrier: a barrier of all ranks on the      *)
(* shared TCP store, one generation of keys per call, and the deletion of  *)
(* the keys of old generations by rank 0.                                  *)
(*                                                                         *)
(* torch's _store_based_barrier is not in the repository; as it is used    *)
(* here a rank adds 1 to the generation's counter, reads it, sets the      *)
(* last_worker key if it read the rendezvous count, and waits for that     *)
(* key, or gives up after a timeout with one more add of 0.                *)
(***************************************************************************)
EXTENDS Integers, Sequences, FiniteSets

CONSTANTS
    N,              \* the world size
    MaxGen,         \* bound: generations a rank enters
    MayTimeOut,     \* a waiting rank may give up
    DeleteMayFail   \* delete_key may raise RuntimeError

ASSUME BarrierAssumption ==
    /\ N \in Nat \ {0}
    /\ MaxGen \in Nat
    /\ MayTimeOut \in BOOLEAN /\ DeleteMayFail \in BOOLEAN

Ranks == 0 .. N - 1
Gen == 1 .. MaxGen

VARIABLES
    count,      \* count[r]: _store_barrier_counter of rank r
    at,         \* at[r]: where rank r stands in the barrier
    counters,   \* the generations whose counter key is in the store
    tally,      \* tally[g]: the value of that key, 0 when it is absent
    announced,  \* the generations whose last_worker key is in the store
    trash,      \* _store_barrier_trash of rank 0
    stale       \* the generation rank 0 is deleting, or 0

barrierVars == <<count, at, counters, tally, announced, trash, stale>>

Inside == {"entered", "announce", "wait"}

BarrierInit ==
    /\ count = [r \in Ranks |-> 0]
    /\ at = [r \in Ranks |-> "out"]
    /\ counters = {} /\ announced = {}
    /\ tally = [g \in Gen |-> 0]
    /\ trash = <<>> /\ stale = 0

\* A new generation for every call; add(key, 1) creates the key if need be.
Enter(r) ==
    /\ at[r] \in {"out", "raised"} /\ count[r] < MaxGen
    /\ LET g == count[r] + 1 IN
       /\ count' = [count EXCEPT ![r] = g]
       /\ counters' = counters \cup {g}
       /\ tally' = [tally EXCEPT ![g] = @ + 1]
    /\ at' = [at EXCEPT ![r] = "entered"]
    /\ UNCHANGED <<announced, trash, stale>>

\* A plausible bug: the rendezvous count leaves out the rank that announces.
OthersOnly == N - 1

\* The rendezvous_count the barrier is called with: the world size.
RendezvousCount == N

\* add(key, 0): who reads the full count announces the end of the barrier.
ReadTally(r) ==
    /\ at[r] = "entered"
    /\ counters' = counters \cup {count[r]}
    /\ at' = [at EXCEPT ![r] = IF tally[count[r]] = RendezvousCount THEN "announce" ELSE "wait"]
    /\ UNCHANGED <<count, tally, announced, trash, stale>>

Announce(r) ==
    /\ at[r] = "announce"
    /\ announced' = announced \cup {count[r]}
    /\ at' = [at EXCEPT ![r] = "wait"]
    /\ UNCHANGED <<count, counters, tally, trash, stale>>

\* Two plausible bugs: the generation just left is not retained; one too many is.
RetainNone == 0
RetainThree == 3

\* How many of the latest generations rank 0 keeps.
Retained == 2

\* A plausible bug: rank 0 turns to the newest generation, not the oldest.
LeaveNewest(r) ==
    /\ at[r] = "wait" /\ count[r] \in announced
    /\ IF r = 0 /\ Len(trash) >= Retained
       THEN stale' = count[r] /\ UNCHANGED trash /\ at' = [at EXCEPT ![r] = "deleteCounter"]
       ELSE /\ trash' = IF r = 0 THEN Append(trash, count[r]) ELSE trash
            /\ at' = [at EXCEPT ![r] = "out"]
            /\ UNCHANGED stale
    /\ UNCHANGED <<count, counters, tally, announced>>

\* The wait is over.  Rank 0 records the generation, and turns to the oldest
\* one it has kept when there are more than it retains.
Leave(r) ==
    /\ at[r] = "wait" /\ count[r] \in announced
    /\ LET kept == IF r = 0 THEN Append(trash, count[r]) ELSE trash IN
       IF r = 0 /\ Len(kept) > Retained
       THEN /\ stale' = Head(kept) /\ trash' = Tail(kept)
            /\ at' = [at EXCEPT ![r] = "deleteCounter"]
       ELSE /\ trash' = kept
            /\ at' = [at EXCEPT ![r] = "out"]
            /\ UNCHANGED stale
    /\ UNCHANGED <<count, counters, tally, announced>>

\* delete_key of the counter, then of last_worker; a failure is only logged.
DeleteCounter(r) ==
    /\ at[r] = "deleteCounter"
    /\ \/ counters' = counters \ {stale} /\ tally' = [tally EXCEPT ![stale] = 0]
       \/ DeleteMayFail /\ UNCHANGED <<counters, tally>>
    /\ at' = [at EXCEPT ![r] = "deleteAnnouncement"]
    /\ UNCHANGED <<count, announced, trash, stale>>

DeleteAnnouncement(r) ==
    /\ at[r] = "deleteAnnouncement"
    /\ \/ announced' = announced \ {stale}
       \/ DeleteMayFail /\ UNCHANGED announced
    /\ stale' = 0
    /\ at' = [at EXCEPT ![r] = "out"]
    /\ UNCHANGED <<count, counters, tally, trash>>

\* A plausible bug: a generation is recorded even when the barrier timed out.
TimeOutRecorded(r) ==
    /\ MayTimeOut
    /\ at[r] = "wait" /\ count[r] \notin announced
    /\ counters' = counters \cup {count[r]}
    /\ trash' = IF r = 0 THEN Append(trash, count[r]) ELSE trash
    /\ at' = [at EXCEPT ![r] = "raised"]
    /\ UNCHANGED <<count, tally, announced, stale>>

\* The timeout is over: the call raises, and its generation is never recorded.
TimeOut(r) ==
    /\ MayTimeOut
    /\ at[r] = "wait" /\ count[r] \notin announced
    /\ counters' = counters \cup {count[r]}
    /\ at' = [at EXCEPT ![r] = "raised"]
    /\ UNCHANGED <<count, tally, announced, trash, stale>>

\* The steps of a call that is under way, the timeout excepted.
Inner(r) == \/ ReadTally(r) \/ Announce(r) \/ Leave(r)
            \/ DeleteCounter(r) \/ DeleteAnnouncement(r)

BarrierNext == \E r \in Ranks : Enter(r) \/ Inner(r) \/ TimeOut(r)

BarrierSpec == BarrierInit /\ [][BarrierNext]_barrierVars

-----------------------------------------------------------------------------
(* Properties.                                                             *)

\* Every variable has its type.
BarrierTypeOK ==
    /\ count \in [Ranks -> 0 .. MaxGen]
    /\ at \in [Ranks -> Inside \cup {"out", "raised", "deleteCounter", "deleteAnnouncement"}]
    /\ counters \subseteq Gen
    /\ tally \in [Gen -> Nat]
    /\ announced \subseteq Gen
    /\ trash \in Seq(Gen)
    /\ stale \in 0 .. MaxGen

\* A rank that has returned from a generation did not do so before every rank
\* had entered it ("barrier synchronization across all ranks", ps.py:554).
BarrierHolds ==
    \A r \in Ranks : at[r] \notin Inside \cup {"raised"} =>
        \A q \in Ranks : count[q] >= count[r]

\* Keys are deleted only when no rank uses their generation or will enter it
\* (_delete_stale_store_barrier_keys: "so N's keys are safe to delete").
UnusedWhenDeleted ==
    [][\A g \in Gen :
          (g \in counters \ counters') \/ (g \in announced \ announced') =>
             \A r \in Ranks : count[r] > g \/ (count[r] = g /\ at[r] \notin Inside)]_barrierVars

\* A rank that has not given up finds the counter it added to, and once some
\* rank has returned normally from a generation its last_worker key is there
\* for every rank that still waits.
KeysThereWhenUsed ==
    \A r \in Ranks : at[r] \in Inside =>
        /\ count[r] \in counters
        /\ (\E q \in Ranks : at[q] = "out" /\ count[q] = count[r]) => count[r] \in announced

\* No wait is in vain: once every rank has entered a generation, and none of it
\* is about to read the counter or to announce, it has been announced, also for
\* a rank that comes late to its wait (so a barrier that times out misses a rank).
WaitEnds ==
    \A r \in Ranks :
        /\ at[r] = "wait"
        /\ \A q \in Ranks : count[q] >= count[r]
        /\ \A q \in Ranks : count[q] = count[r] => at[q] \notin {"entered", "announce"}
        => count[r] \in announced

-----------------------------------------------------------------------------
(* The inductive invariant behind them.                                    *)

Entered(cnt, g) == {r \in Ranks : cnt[r] >= g}

\* A counter never runs ahead of the ranks, and nothing is announced too early.
Counted ==
    /\ \A g \in Gen : tally[g] <= Cardinality(Entered(count, g))
    /\ \A g \in announced : Entered(count, g) = Ranks
    /\ \A r \in Ranks : at[r] = "announce" => Entered(count, count[r]) = Ranks
    /\ \A r \in Ranks : at[r] # "out" => count[r] \in Gen
    /\ \A r \in Ranks : at[r] \notin Inside \cup {"raised"} /\ count[r] # 0 =>
           count[r] \in announced

\* The generations rank 0 has kept are complete, oldest first, and the one it is
\* deleting is behind every rank.
Kept ==
    /\ \A i \in 1 .. Len(trash) : Entered(count, trash[i]) = Ranks
    /\ \A i, j \in 1 .. Len(trash) : i < j => trash[i] < trash[j]
    /\ at[0] \in Inside => \A i \in 1 .. Len(trash) : trash[i] < count[0]
    /\ \A r \in Ranks : at[r] \in {"deleteCounter", "deleteAnnouncement"} =>
           r = 0 /\ stale \in Gen /\ \A q \in Ranks : count[q] > stale

BarrierInv == BarrierTypeOK /\ Counted /\ Kept /\ KeysThereWhenUsed

\* While some rank is not past a generation its counter counts who has entered,
\* so that the last one to enter, if nobody else, will announce it.
Awaited ==
    /\ \A g \in Gen : (\E q \in Ranks : count[q] <= g) => tally[g] = Cardinality(Entered(count, g))
    /\ \A g \in Gen \ announced :
           /\ \A r \in Ranks : count[r] >= g
           /\ \E r \in Ranks : count[r] = g /\ at[r] \in Inside
           => \E r \in Ranks : count[r] = g /\ at[r] \in {"entered", "announce"}
=============================================================================
