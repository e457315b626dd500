-------------------------- MODULE UpdateSyncProofs --------------------------
(***************************************************************************)
(* The store barrier synchronizes, and its garbage collection is safe, for *)
(* any number of ranks and generations, with time-outs and failed          *)
(* deletions.                                                              *)
(*                                                                         *)
(* What the ranks agree on across update calls, for any world size and any *)
(* script of calls.  The addresses agree and are fresh whatever the        *)
(* updates do.  If the updates that raise do so on all ranks, a rank is    *)
(* past an update only when all are; if the barrier is also patient, it    *)
(* never times out, and if registrations are gathered before they are      *)
(* used, no member reads memory its metas do not describe.  Process groups *)
(* are opened in turn whatever fails, and with patience and successful     *)
(* deletions the store holds few keys.                                     *)
(***************************************************************************)
EXTENDS UpdateSync, FiniteSetTheorems, WellFoundedInduction, TLAPS

-----------------------------------------------------------------------------
(* The store barrier.                                                      *)

LEMMA RanksFinite == IsFiniteSet(Ranks) /\ Cardinality(Ranks) = N /\ N \in Nat /\ 0 \in Ranks
BY BarrierAssumption, FS_Interval DEF Ranks

LEMMA Bounds == MaxGen \in Nat /\ Gen \subseteq Nat \ {0} /\ \A n \in Nat : n < MaxGen => n + 1 \in Gen
BY BarrierAssumption DEF Gen

\* A counter that has reached N was incremented by every rank.
LEMMA FullCount ==
    ASSUME NEW g
    PROVE  /\ IsFiniteSet(Entered(count, g)) /\ Cardinality(Entered(count, g)) \in Nat
           /\ Cardinality(Entered(count, g)) >= N => Entered(count, g) = Ranks
<1>1. Entered(count, g) \in SUBSET Ranks
  BY DEF Entered
<1>2. IsFiniteSet(Entered(count, g)) /\ Cardinality(Entered(count, g)) <= N
      /\ (Cardinality(Entered(count, g)) = N => Entered(count, g) = Ranks)
  BY <1>1, RanksFinite, FS_Subset
<1>3. Cardinality(Entered(count, g)) \in Nat
  BY <1>2, FS_CardinalityType
<1>. QED
  BY <1>2, <1>3, RanksFinite

\* Entering a generation adds the rank to those who have entered it.
LEMMA EnterGrows ==
    ASSUME BarrierTypeOK, NEW r \in Ranks, Enter(r)
    PROVE  /\ count[r] + 1 \in Gen
           /\ Entered(count', count[r] + 1) = Entered(count, count[r] + 1) \cup {r}
           /\ r \notin Entered(count, count[r] + 1)
           /\ \A g \in Gen : g # count[r] + 1 => Entered(count', g) = Entered(count, g)
           /\ \A g \in Gen : Entered(count, g) \subseteq Entered(count', g)
<1>1. count[r] \in Nat /\ count[r] + 1 \in Gen /\ count' = [count EXCEPT ![r] = count[r] + 1]
  <2>1. count[r] \in Nat /\ count[r] < MaxGen
    BY Bounds DEF Enter, BarrierTypeOK
  <2>2. count' = [count EXCEPT ![r] = count[r] + 1]
    BY DEF Enter
  <2>. QED
    BY <2>1, <2>2, Bounds
<1>2. \A q \in Ranks : count[q] \in Int /\ count'[q] = IF q = r THEN count[r] + 1 ELSE count[q]
  BY <1>1 DEF BarrierTypeOK
<1>3. /\ Entered(count', count[r] + 1) = Entered(count, count[r] + 1) \cup {r}
      /\ r \notin Entered(count, count[r] + 1)
  BY <1>1, <1>2 DEF Entered
<1>4. \A g \in Int : g # count[r] + 1 => Entered(count', g) = Entered(count, g)
  BY <1>1, <1>2 DEF Entered
<1>5. Gen \subseteq Int
  BY Bounds
<1>. QED
  BY <1>1, <1>3, <1>4, <1>5

\* Any other step leaves the ranks' counters alone.
LEMMA InnerFrame ==
    ASSUME NEW r \in Ranks, Inner(r) \/ TimeOut(r)
    PROVE  UNCHANGED count
BY DEF Inner, ReadTally, Announce, Leave, DeleteCounter, DeleteAnnouncement, TimeOut

-----------------------------------------------------------------------------

LEMMA BarrierInitInv == BarrierInit => BarrierInv
<1>. SUFFICES ASSUME BarrierInit PROVE BarrierInv
  OBVIOUS
<1>. USE BarrierAssumption, RanksFinite DEF BarrierInit, Inside
<1>1. BarrierTypeOK
  BY DEF BarrierTypeOK
<1>2. Counted
  BY FullCount DEF Counted
<1>3. Kept
  BY DEF Kept
<1>4. KeysThereWhenUsed
  BY DEF KeysThereWhenUsed
<1>. QED
  BY <1>1, <1>2, <1>3, <1>4 DEF BarrierInv

LEMMA TypeStep ==
    ASSUME BarrierInv, NEW r \in Ranks, Enter(r) \/ Inner(r) \/ TimeOut(r)
    PROVE  BarrierTypeOK'
<1>. USE DEF BarrierInv, BarrierTypeOK, Inside
<1>1. CASE Enter(r)
  <2>1. count[r] + 1 \in Gen /\ count[r] + 1 \in 0 .. MaxGen
    <3>1. count[r] \in Nat /\ count[r] < MaxGen
      BY <1>1, Bounds DEF Enter
    <3>. QED
      BY <3>1, Bounds
  <2>2. tally' \in [Gen -> Nat]
    <3>1. tally' = [tally EXCEPT ![count[r] + 1] = tally[count[r] + 1] + 1]
      BY <1>1 DEF Enter
    <3>. QED
      BY <2>1, <3>1
  <2>. QED
    BY <1>1, <2>1, <2>2 DEF Enter
<1>2. CASE ReadTally(r)
  BY <1>2 DEF ReadTally, Counted
<1>3. CASE Announce(r)
  BY <1>3 DEF Announce, Counted
<1>4. CASE Leave(r)
  <2>. DEFINE kept == IF r = 0 THEN Append(trash, count[r]) ELSE trash
  <2>1. kept \in Seq(Gen)
    <3>1. count[r] \in Gen /\ trash \in Seq(Gen)
      BY <1>4 DEF Leave, Counted
    <3>. QED
      BY <3>1
  <2>2. Len(kept) > 2 => Head(kept) \in 0 .. MaxGen /\ Tail(kept) \in Seq(Gen)
    <3>. HIDE DEF kept
    <3>1. ASSUME Len(kept) > 2 PROVE kept # <<>>
      BY <2>1, <3>1
    <3>2. kept # <<>> => Head(kept) \in Gen /\ Tail(kept) \in Seq(Gen)
      BY <2>1
    <3>. QED
      BY <3>1, <3>2 DEF Gen
  <2>. QED
    BY <1>4, <2>1, <2>2 DEF Leave, Retained
<1>5. CASE DeleteCounter(r)
  <2>1. counters' \subseteq Gen /\ tally' \in [Gen -> Nat]
    BY <1>5 DEF DeleteCounter
  <2>. QED
    BY <1>5, <2>1 DEF DeleteCounter
<1>6. CASE DeleteAnnouncement(r)
  <2>1. announced' \subseteq Gen /\ stale' \in 0 .. MaxGen
    <3>1. announced' \subseteq announced /\ stale' = 0
      BY <1>6 DEF DeleteAnnouncement
    <3>. QED
      BY <3>1, Bounds
  <2>. QED
    BY <1>6, <2>1 DEF DeleteAnnouncement
<1>7. CASE TimeOut(r)
  BY <1>7 DEF TimeOut, Counted
<1>. QED
  BY <1>1, <1>2, <1>3, <1>4, <1>5, <1>6, <1>7 DEF Inner

LEMMA CountedStep ==
    ASSUME BarrierInv, NEW r \in Ranks, Enter(r) \/ Inner(r) \/ TimeOut(r)
    PROVE  Counted'
<1>. USE DEF BarrierInv, BarrierTypeOK, Inside
<1>1. CASE Enter(r)
  <2>. DEFINE g == count[r] + 1
  <2>1. g \in Gen /\ (\A h \in Gen : h # g => Entered(count', h) = Entered(count, h))
        /\ \A h \in Gen : Entered(count, h) \subseteq Entered(count', h)
    BY <1>1, EnterGrows
  <2>2. Cardinality(Entered(count', g)) = Cardinality(Entered(count, g)) + 1
    <3>1. Entered(count', g) = Entered(count, g) \cup {r} /\ r \notin Entered(count, g) /\ IsFiniteSet(Entered(count, g))
      BY <1>1, EnterGrows, FullCount
    <3>. QED
      BY <3>1, FS_AddElement
  <2>3. \A h \in Gen : tally'[h] <= Cardinality(Entered(count', h))
    <3>1. tally'[g] = tally[g] + 1 /\ tally[g] \in Nat /\ tally[g] <= Cardinality(Entered(count, g))
      BY <1>1, <2>1 DEF Enter, Counted
    <3>2. tally'[g] <= Cardinality(Entered(count', g))
      BY <2>2, <3>1, FullCount
    <3>3. \A h \in Gen : h # g => tally'[h] = tally[h]
      BY <1>1, <2>1 DEF Enter
    <3>4. \A h \in Gen : h # g => Cardinality(Entered(count', h)) = Cardinality(Entered(count, h))
      BY <2>1
    <3>5. \A h \in Gen : tally[h] <= Cardinality(Entered(count, h))
      BY DEF Counted
    <3>. QED
      BY <3>2, <3>3, <3>4, <3>5
  <2>4. \A h \in announced' : Entered(count', h) = Ranks
    BY <1>1, <2>1 DEF Enter, Counted, Entered
  <2>5. \A q \in Ranks : q # r => count'[q] = count[q] /\ at'[q] = at[q]
    BY <1>1 DEF Enter
  <2>6. count'[r] = g /\ at'[r] = "entered"
    BY <1>1 DEF Enter
  <2>7. \A q \in Ranks : at'[q] = "announce" => Entered(count', count'[q]) = Ranks
    <3>. SUFFICES ASSUME NEW q \in Ranks, at'[q] = "announce"
                  PROVE  Entered(count', count'[q]) = Ranks
      OBVIOUS
    <3>1. q # r /\ count'[q] = count[q] /\ count[q] \in Gen /\ Entered(count, count[q]) = Ranks
      BY <2>5, <2>6 DEF Counted
    <3>2. Entered(count, count[q]) \subseteq Entered(count', count[q])
      BY <2>1, <3>1
    <3>3. Entered(count', count[q]) \subseteq Ranks
      BY DEF Entered
    <3>. QED
      BY <3>1, <3>2, <3>3
  <2>8. \A q \in Ranks : at'[q] # "out" => count'[q] \in Gen
    BY <2>1, <2>5, <2>6 DEF Counted
  <2>9. \A q \in Ranks : at'[q] \notin Inside \cup {"raised"} /\ count'[q] # 0 =>
            count'[q] \in announced'
    BY <1>1, <2>5, <2>6 DEF Counted, Enter
  <2>. QED
    BY <2>3, <2>4, <2>7, <2>8, <2>9 DEF Counted
<1>2. CASE ReadTally(r)
  <2>1. tally[count[r]] = N => Entered(count, count[r]) = Ranks
    BY <1>2, FullCount, RanksFinite DEF ReadTally, RendezvousCount, Counted
  <2>2. Entered(count', count[r]) = Entered(count, count[r]) /\ \A g : Entered(count', g) = Entered(count, g)
    BY <1>2 DEF ReadTally, Entered
  <2>. QED
    BY <1>2, <2>1, <2>2 DEF ReadTally, RendezvousCount, Counted
<1>3. CASE Announce(r)
  BY <1>3 DEF Announce, Counted, Entered
<1>4. CASE Leave(r)
  BY <1>4, RanksFinite DEF Leave, Counted, Entered
<1>5. CASE DeleteCounter(r)
  <2>1. tally' \in [Gen -> Nat] /\ \A g \in Gen : tally'[g] = tally[g] \/ tally'[g] = 0
    BY <1>5 DEF DeleteCounter
  <2>2. \A g \in Gen : Entered(count', g) = Entered(count, g) /\ tally'[g] <= Cardinality(Entered(count, g))
    <3>1. \A g \in Gen : Entered(count', g) = Entered(count, g)
      BY <1>5 DEF DeleteCounter, Entered
    <3>2. \A g \in Gen : tally[g] <= Cardinality(Entered(count, g)) /\ 0 <= Cardinality(Entered(count, g))
      BY FullCount DEF Counted
    <3>. QED
      BY <2>1, <3>1, <3>2
  <2>. QED
    BY <1>5, <2>2 DEF DeleteCounter, Counted, Entered
<1>6. CASE DeleteAnnouncement(r)
  <2>1. \A q \in Ranks : count[q] > stale
    BY <1>6 DEF DeleteAnnouncement, Kept
  <2>. QED
    BY <1>6, <2>1 DEF DeleteAnnouncement, Counted, Entered
<1>7. CASE TimeOut(r)
  BY <1>7 DEF TimeOut, Counted, Entered
<1>. QED
  BY <1>1, <1>2, <1>3, <1>4, <1>5, <1>6, <1>7 DEF Inner

\* The generation rank 0 turns to is older than the one it has just completed.
LEMMA LeaveOldest ==
    ASSUME BarrierInv, NEW r \in Ranks, Leave(r), at'[r] = "deleteCounter"
    PROVE  /\ r = 0 /\ stale' \in Gen /\ \A q \in Ranks : count[q] > stale'
           /\ \A i \in 1 .. Len(trash') : trash'[i] = Append(trash, count[r])[i + 1]
           /\ Len(trash') = Len(trash)
<1>. DEFINE kept == Append(trash, count[r])
<1>1. r = 0 /\ Len(kept) > 2 /\ stale' = Head(kept) /\ trash' = Tail(kept)
  BY DEF Leave, BarrierInv, BarrierTypeOK, Retained
<1>2. count[r] \in Gen /\ count[r] \in announced /\ trash \in Seq(Gen) /\ kept \in Seq(Gen)
  BY DEF Leave, BarrierInv, BarrierTypeOK, Counted, Inside
<1>3. Len(trash) >= 1 /\ stale' = trash[1] /\ trash[1] \in Gen
  BY <1>1, <1>2
<1>4. trash[1] < count[0]
  BY <1>1, <1>3 DEF Leave, BarrierInv, Kept, Inside
<1>5. \A q \in Ranks : count[q] >= count[r]
  BY <1>2 DEF BarrierInv, Counted, Entered
<1>6. \A q \in Ranks : count[q] > stale'
  <2>1. \A q \in Ranks : count[q] \in Nat
    BY Bounds DEF BarrierInv, BarrierTypeOK
  <2>2. trash[1] \in Nat /\ count[r] \in Nat
    BY <1>2, <1>3, Bounds
  <2>. QED
    BY <1>1, <1>3, <1>4, <1>5, <2>1, <2>2
<1>7. Len(trash') = Len(trash) /\ \A i \in 1 .. Len(trash') : trash'[i] = kept[i + 1]
  BY <1>1, <1>2
<1>. QED
  BY <1>1, <1>3, <1>6, <1>7

LEMMA LastIndex ==
    ASSUME NEW n \in Nat, NEW i \in 1 .. n + 1, NEW j \in 1 .. n + 1, i < j
    PROVE  i \in 1 .. n /\ (j \in 1 .. n \/ j = n + 1)
OBVIOUS

LEMMA KeptStep ==
    ASSUME BarrierInv, NEW r \in Ranks, Enter(r) \/ Inner(r) \/ TimeOut(r)
    PROVE  Kept'
<1>. USE RanksFinite DEF BarrierInv, BarrierTypeOK, Inside
<1>0. trash \in Seq(Gen) /\ Gen \subseteq Nat
  BY Bounds
<1>1. CASE Enter(r)
  <2>1. \A g \in Gen : Entered(count, g) = Ranks => Entered(count', g) = Ranks
    BY <1>1, EnterGrows DEF Entered
  <2>2. \A i \in 1 .. Len(trash) : Entered(count', trash[i]) = Ranks
    <3>1. \A i \in 1 .. Len(trash) : trash[i] \in Gen
      BY <1>0
    <3>. QED
      BY <2>1, <3>1 DEF Kept
  <2>3. \A q \in Ranks : count[q] \in Nat /\ count'[q] \in Nat /\ count'[q] >= count[q]
    BY <1>1, Bounds DEF Enter
  <2>4. \A q \in Ranks : at'[q] \in {"deleteCounter", "deleteAnnouncement"} => at'[q] = at[q]
    BY <1>1 DEF Enter
  <2>5. at'[0] \in Inside => \A i \in 1 .. Len(trash) : trash[i] < count'[0]
    <3>1. \A i \in 1 .. Len(trash) : trash[i] <= count[0] /\ trash[i] \in Nat
      <4>1. \A i \in 1 .. Len(trash) : trash[i] \in Nat
        <5>1. \A i \in 1 .. Len(trash) : trash[i] \in Gen
          BY <1>0
        <5>. QED
          BY <5>1, <1>0
      <4>2. \A i \in 1 .. Len(trash) : 0 \in Entered(count, trash[i])
        BY DEF Kept
      <4>. QED
        BY <4>1, <4>2, <2>3 DEF Entered
    <3>2. CASE r = 0
      BY <1>1, <2>3, <3>1, <3>2 DEF Enter
    <3>3. CASE r # 0
      BY <1>1, <3>3 DEF Enter, Kept
    <3>. QED
      BY <3>2, <3>3
  <2>6. \A q \in Ranks : at'[q] \in {"deleteCounter", "deleteAnnouncement"} =>
            q = 0 /\ stale \in Gen /\ \A p \in Ranks : count'[p] > stale
    <3>1. \A q \in Ranks : at'[q] \in {"deleteCounter", "deleteAnnouncement"} =>
              q = 0 /\ stale \in Gen /\ \A p \in Ranks : count[p] > stale
      BY <2>4 DEF Kept
    <3>2. stale \in Gen => stale \in Nat
      BY <1>0
    <3>. QED
      BY <2>3, <3>1, <3>2
  <2>. QED
    BY <1>1, <2>2, <2>5, <2>6 DEF Kept, Enter
<1>2. CASE ReadTally(r) \/ Announce(r) \/ TimeOut(r)
  BY <1>2 DEF ReadTally, Announce, TimeOut, Kept, Entered
<1>3. CASE DeleteCounter(r)
  BY <1>3 DEF DeleteCounter, Kept, Entered
<1>4. CASE DeleteAnnouncement(r)
  <2>1. \A q \in Ranks : at'[q] \notin {"deleteCounter", "deleteAnnouncement"}
    BY <1>4 DEF DeleteAnnouncement, Kept
  <2>. QED
    BY <1>4, <2>1 DEF DeleteAnnouncement, Kept, Entered
<1>5. CASE Leave(r) /\ r # 0
  BY <1>5 DEF Leave, Kept, Entered
<1>6. CASE Leave(r) /\ r = 0
  <2>. DEFINE kept == Append(trash, count[0])
  <2>1. count[0] \in Gen /\ Entered(count, count[0]) = Ranks /\ at[0] = "wait"
    BY <1>6 DEF Leave, Counted
  <2>2. kept \in Seq(Gen) /\ Len(kept) = Len(trash) + 1 /\ kept[Len(kept)] = count[0]
        /\ \A i \in 1 .. Len(trash) : kept[i] = trash[i]
    BY <1>0, <2>1
  <2>3. \A i \in 1 .. Len(kept) : Entered(count, kept[i]) = Ranks
    <3>1. \A i \in 1 .. Len(kept) : i \in 1 .. Len(trash) \/ i = Len(kept)
      BY <1>0, <2>2
    <3>. QED
      BY <2>1, <2>2, <3>1 DEF Kept
  <2>4. \A i, j \in 1 .. Len(kept) : i < j => kept[i] < kept[j]
    <3>. SUFFICES ASSUME NEW i \in 1 .. Len(kept), NEW j \in 1 .. Len(kept), i < j
                  PROVE  kept[i] < kept[j]
      OBVIOUS
    <3>1. i \in 1 .. Len(trash) /\ (j \in 1 .. Len(trash) \/ j = Len(trash) + 1)
      <4>1. Len(trash) \in Nat /\ Len(kept) = Len(trash) + 1
        BY <1>0, <2>2
      <4>2. i \in 1 .. Len(trash) + 1 /\ j \in 1 .. Len(trash) + 1
        BY <4>1
      <4>. QED
        BY <4>1, <4>2, LastIndex
    <3>2. trash[i] < count[0]
      BY <2>1, <3>1 DEF Kept
    <3>3. j \in 1 .. Len(trash) => trash[i] < trash[j]
      BY <3>1 DEF Kept
    <3>. QED
      BY <2>2, <3>1, <3>2, <3>3
  <2>5. count' = count /\ \A g : Entered(count', g) = Entered(count, g)
    BY <1>6 DEF Leave, Entered
  <2>6. \A q \in Ranks : q # 0 => at'[q] = at[q]
    BY <1>6 DEF Leave
  <2>7. CASE at'[0] = "deleteCounter"
    <3>1. stale' \in Gen /\ (\A q \in Ranks : count[q] > stale')
          /\ Len(trash') = Len(trash)
          /\ \A i \in 1 .. Len(trash') : trash'[i] = kept[i + 1]
      BY <1>6, <2>7, LeaveOldest
    <3>2. \A i \in 1 .. Len(trash') : i + 1 \in 1 .. Len(kept)
      BY <1>0, <2>2, <3>1
    <3>3. \A i \in 1 .. Len(trash') : Entered(count', trash'[i]) = Ranks
      BY <2>3, <2>5, <3>1, <3>2
    <3>4. \A i, j \in 1 .. Len(trash') : i < j => trash'[i] < trash'[j]
      <4>. SUFFICES ASSUME NEW i \in 1 .. Len(trash'), NEW j \in 1 .. Len(trash'), i < j
                    PROVE  trash'[i] < trash'[j]
        OBVIOUS
      <4>1. i + 1 \in 1 .. Len(kept) /\ j + 1 \in 1 .. Len(kept) /\ i + 1 < j + 1
        BY <3>2
      <4>2. kept[i + 1] < kept[j + 1]
        BY <2>4, <4>1
      <4>. QED
        BY <3>1, <4>2
    <3>. QED
      BY <2>5, <2>6, <2>7, <3>1, <3>3, <3>4 DEF Kept
  <2>8. CASE at'[0] # "deleteCounter"
    <3>1. trash' = kept /\ at'[0] = "out"
      BY <1>6, <2>8 DEF Leave
    <3>2. \A i \in 1 .. Len(trash') : Entered(count', trash'[i]) = Ranks
      BY <2>3, <2>5, <3>1
    <3>3. \A q \in Ranks : at'[q] \notin {"deleteCounter", "deleteAnnouncement"}
      BY <2>6, <3>1 DEF Kept
    <3>. QED
      BY <2>4, <3>1, <3>2, <3>3 DEF Kept
  <2>. QED
    BY <2>7, <2>8
<1>. QED
  BY <1>1, <1>2, <1>3, <1>4, <1>5, <1>6 DEF Inner

LEMMA KeysStep ==
    ASSUME BarrierInv, NEW r \in Ranks, Enter(r) \/ Inner(r) \/ TimeOut(r)
    PROVE  KeysThereWhenUsed'
<1>. USE DEF BarrierInv, BarrierTypeOK, Inside
<1>1. CASE Enter(r)
  <2>1. count[r] + 1 \in Gen /\ count'[r] = count[r] + 1 /\ at'[r] = "entered"
        /\ count'[r] \in counters' /\ counters \subseteq counters' /\ announced' = announced
    BY <1>1, EnterGrows DEF Enter
  <2>2. \A q \in Ranks : q # r => count'[q] = count[q] /\ at'[q] = at[q]
    BY <1>1 DEF Enter
  <2>3. \A q \in Ranks : at[q] = "out" /\ count[q] = count[r] + 1 => count[q] \in announced
    BY <2>1, Bounds DEF Counted
  <2>. QED
    BY <2>1, <2>2, <2>3 DEF KeysThereWhenUsed
<1>2. CASE ReadTally(r) \/ Announce(r) \/ TimeOut(r)
  BY <1>2 DEF ReadTally, Announce, TimeOut, KeysThereWhenUsed
<1>3. CASE Leave(r)
  BY <1>3 DEF Leave, KeysThereWhenUsed
<1>4. CASE DeleteCounter(r)
  <2>1. \A q \in Ranks : count[q] # stale
    BY <1>4 DEF DeleteCounter, Kept
  <2>. QED
    BY <1>4, <2>1 DEF DeleteCounter, KeysThereWhenUsed
<1>5. CASE DeleteAnnouncement(r)
  <2>1. \A q \in Ranks : count[q] # stale
    BY <1>5 DEF DeleteAnnouncement, Kept
  <2>2. \A q \in Ranks : at[q] \in Inside => count[q] \in counters /\ count[q] \in Gen
    BY DEF KeysThereWhenUsed, Counted
  <2>3. \A p, q \in Ranks : at'[p] = "out" /\ at[q] \in Inside /\ count[p] = count[q] =>
            count[q] \in announced
    <3>. SUFFICES ASSUME NEW p \in Ranks, NEW q \in Ranks, at'[p] = "out",
                         at[q] \in Inside, count[p] = count[q]
                  PROVE  count[q] \in announced
      OBVIOUS
    <3>1. at[p] = "out" \/ at[p] = "deleteAnnouncement"
      BY <1>5 DEF DeleteAnnouncement
    <3>2. count[p] # 0
      BY <2>2, Bounds
    <3>. QED
      BY <3>1, <3>2 DEF Counted
  <2>. QED
    BY <1>5, <2>1, <2>2, <2>3 DEF DeleteAnnouncement, KeysThereWhenUsed
<1>. QED
  BY <1>1, <1>2, <1>3, <1>4, <1>5 DEF Inner

-----------------------------------------------------------------------------
(* The theorems.                                                           *)

\* The strengthening is inductive.
THEOREM BarrierInductive == BarrierSpec => []BarrierInv
<1>1. BarrierInv /\ UNCHANGED barrierVars => BarrierInv'
  BY DEF BarrierInv, barrierVars, BarrierTypeOK, Counted, Kept, KeysThereWhenUsed, Entered
<1>2. BarrierInv /\ [BarrierNext]_barrierVars => BarrierInv'
  <2>1. ASSUME BarrierInv, NEW r \in Ranks, Enter(r) \/ Inner(r) \/ TimeOut(r)
        PROVE  BarrierInv'
    BY <2>1, TypeStep, CountedStep, KeptStep, KeysStep DEF BarrierInv
  <2>. QED
    BY <1>1, <2>1 DEF BarrierNext
<1>. QED
  BY <1>2, BarrierInitInv, PTL DEF BarrierSpec

\* Type correctness of the store barrier.
THEOREM BarrierTypeCorrect == BarrierSpec => []BarrierTypeOK
<1>1. BarrierInv => BarrierTypeOK
  BY DEF BarrierInv
<1>. QED
  BY <1>1, BarrierInductive, PTL

LEMMA BarrierInvHolds == BarrierInv => BarrierHolds
<1>. SUFFICES ASSUME BarrierInv, NEW r \in Ranks, at[r] \notin Inside \cup {"raised"}, NEW q \in Ranks
              PROVE  count[q] >= count[r]
  BY DEF BarrierHolds
<1>1. CASE count[r] = 0
  BY <1>1 DEF BarrierInv, BarrierTypeOK
<1>2. CASE count[r] # 0
  BY <1>2 DEF BarrierInv, Counted, Entered
<1>. QED
  BY <1>1, <1>2

\* Nobody returns from a generation before everybody has entered it.
THEOREM BarrierSynchronizes == BarrierSpec => []BarrierHolds
BY BarrierInvHolds, BarrierInductive, PTL

\* The keys a rank needs are there as long as it needs them.
THEOREM KeysStay == BarrierSpec => []KeysThereWhenUsed
<1>1. BarrierInv => KeysThereWhenUsed
  BY DEF BarrierInv
<1>. QED
  BY <1>1, BarrierInductive, PTL

\* Rank 0 deletes the keys of a generation only when every rank is past it, even
\* when ranks have timed out and deletions have failed.
THEOREM DeletionSafe == BarrierSpec => UnusedWhenDeleted
<1>. DEFINE Unused ==
        \A g \in Gen :
          (g \in counters \ counters') \/ (g \in announced \ announced') =>
             \A r \in Ranks : count[r] > g \/ (count[r] = g /\ at[r] \notin Inside)
<1>1. BarrierInv /\ [BarrierNext]_barrierVars => [Unused]_barrierVars
  <2>1. ASSUME BarrierInv, NEW r \in Ranks, DeleteCounter(r) PROVE Unused
    BY <2>1 DEF DeleteCounter, BarrierInv, Kept
  <2>2. ASSUME BarrierInv, NEW r \in Ranks, DeleteAnnouncement(r) PROVE Unused
    BY <2>2 DEF DeleteAnnouncement, BarrierInv, Kept
  <2>3. ASSUME NEW r \in Ranks,
               Enter(r) \/ ReadTally(r) \/ Announce(r) \/ Leave(r) \/ TimeOut(r)
        PROVE  Unused
    BY <2>3 DEF Enter, ReadTally, Announce, Leave, TimeOut
  <2>. QED
    BY <2>1, <2>2, <2>3 DEF BarrierNext, Inner
<1>. QED
  BY <1>1, BarrierInductive, PTL DEF BarrierSpec, UnusedWhenDeleted

-----------------------------------------------------------------------------
(* No wait is in vain.                                                     *)

LEMMA AwaitedInit == BarrierInit => Awaited
<1>. SUFFICES ASSUME BarrierInit PROVE Awaited
  OBVIOUS
<1>1. \A g \in Gen : Entered(count, g) = {}
  BY Bounds DEF BarrierInit, Entered
<1>2. \A g \in Gen : tally[g] = Cardinality(Entered(count, g))
  BY <1>1, FS_EmptySet DEF BarrierInit
<1>. QED
  BY <1>2 DEF BarrierInit, Awaited, Inside

\* While a rank has not passed a generation, its counter is exact.
LEMMA TallyStep ==
    ASSUME BarrierInv, Awaited, NEW r \in Ranks, Enter(r) \/ Inner(r) \/ TimeOut(r),
           NEW g \in Gen, \E q \in Ranks : count'[q] <= g
    PROVE  tally'[g] = Cardinality(Entered(count', g))
<1>. USE DEF BarrierInv, BarrierTypeOK
<1>1. CASE Enter(r)
  <2>1. \E q \in Ranks : count[q] <= g
    <3>1. \A q \in Ranks : count[q] \in Nat /\ count'[q] \in Nat /\ count'[q] >= count[q]
      BY <1>1, Bounds DEF Enter
    <3>. QED
      BY <3>1, Bounds
  <2>2. tally[g] = Cardinality(Entered(count, g))
    BY <2>1 DEF Awaited
  <2>3. CASE g # count[r] + 1
    <3>1. tally'[g] = tally[g] /\ Entered(count', g) = Entered(count, g)
      BY <1>1, <2>3, EnterGrows DEF Enter
    <3>. QED
      BY <2>2, <3>1
  <2>4. CASE g = count[r] + 1
    <3>1. tally'[g] = tally[g] + 1
      BY <1>1, <2>4 DEF Enter
    <3>2. Entered(count', g) = Entered(count, g) \cup {r} /\ r \notin Entered(count, g)
          /\ IsFiniteSet(Entered(count, g))
      BY <1>1, <2>4, EnterGrows, FullCount
    <3>3. Cardinality(Entered(count', g)) = Cardinality(Entered(count, g)) + 1
      BY <3>2, FS_AddElement
    <3>. QED
      BY <2>2, <3>1, <3>3
  <2>. QED
    BY <2>3, <2>4
<1>2. CASE DeleteCounter(r)
  <2>1. g # stale
    <3>1. \A q \in Ranks : count[q] > stale /\ stale \in Gen /\ count'[q] = count[q]
      BY <1>2 DEF DeleteCounter, Kept
    <3>. QED
      BY <3>1, Bounds
  <2>. QED
    BY <1>2, <2>1 DEF DeleteCounter, Awaited, Entered
<1>3. CASE ReadTally(r) \/ Announce(r) \/ Leave(r) \/ DeleteAnnouncement(r) \/ TimeOut(r)
  <2>1. count' = count /\ tally' = tally
    BY <1>3 DEF ReadTally, Announce, Leave, DeleteAnnouncement, TimeOut
  <2>2. Entered(count', g) = Entered(count, g)
    BY <2>1 DEF Entered
  <2>. QED
    BY <2>1, <2>2 DEF Awaited
<1>. QED
  BY <1>1, <1>2, <1>3 DEF Inner

\* Of a complete generation that is not announced, somebody will announce it.
LEMMA AnnouncerStep ==
    ASSUME BarrierInv, Awaited, NEW r \in Ranks, Enter(r) \/ Inner(r) \/ TimeOut(r),
           NEW g \in Gen, g \notin announced', \A q \in Ranks : count'[q] >= g,
           NEW p \in Ranks, count'[p] = g, at'[p] \in Inside
    PROVE  \E w \in Ranks : count'[w] = g /\ at'[w] \in {"entered", "announce"}
<1>. USE DEF BarrierInv, BarrierTypeOK, Inside
<1>1. CASE Enter(r)
  <2>1. count'[r] = count[r] + 1 /\ at'[r] = "entered" /\ announced' = announced
        /\ at[r] \in {"out", "raised"}
    BY <1>1 DEF Enter
  <2>2. \A q \in Ranks : q # r => count'[q] = count[q] /\ at'[q] = at[q]
    BY <1>1 DEF Enter
  <2>3. CASE count[r] + 1 = g
    BY <2>1, <2>3
  <2>4. CASE count[r] + 1 # g
    <3>1. p # r /\ count[p] = g /\ at[p] \in Inside
      BY <2>1, <2>2, <2>4
    <3>2. \A q \in Ranks : count[q] >= g
      BY <2>1, <2>2, <2>4, Bounds
    <3>3. PICK w \in Ranks : count[w] = g /\ at[w] \in {"entered", "announce"}
      BY <2>1, <3>1, <3>2 DEF Awaited
    <3>. QED
      BY <2>1, <2>2, <3>3
  <2>. QED
    BY <2>3, <2>4
<1>2. CASE ReadTally(r)
  <2>1. count' = count /\ announced' = announced /\ at[r] = "entered"
        /\ at' = [at EXCEPT ![r] = IF tally[count[r]] = N THEN "announce" ELSE "wait"]
    BY <1>2 DEF ReadTally, RendezvousCount
  <2>2. PICK w \in Ranks : count[w] = g /\ at[w] \in {"entered", "announce"}
    BY <2>1 DEF Awaited
  <2>3. CASE w # r
    BY <2>1, <2>2, <2>3
  <2>4. CASE w = r
    <3>1. Entered(count, g) = Ranks
      BY <2>1 DEF Entered
    <3>2. tally[g] = Cardinality(Entered(count, g))
      BY <2>2, Bounds DEF Awaited
    <3>3. at'[r] = "announce"
      BY <2>1, <2>2, <2>4, <3>1, <3>2, RanksFinite
    <3>. QED
      BY <2>1, <2>2, <2>4, <3>3
  <2>. QED
    BY <2>3, <2>4
<1>3. CASE Announce(r)
  <2>1. g # count[r] /\ g \notin announced /\ count' = count
        /\ \A q \in Ranks : q # r => at'[q] = at[q]
    BY <1>3 DEF Announce
  <2>. QED
    BY <2>1 DEF Awaited
<1>4. CASE DeleteAnnouncement(r)
  <2>1. count' = count /\ (announced' = announced \/ announced' = announced \ {stale})
        /\ (\A q \in Ranks : q # r => at'[q] = at[q]) /\ at'[r] = "out"
        /\ at[r] = "deleteAnnouncement"
    BY <1>4 DEF DeleteAnnouncement
  <2>2. g # stale /\ g \notin announced
    BY <2>1, Bounds DEF Kept
  <2>3. p # r /\ count[p] = g /\ at[p] \in Inside /\ \A q \in Ranks : count[q] >= g
    BY <2>1
  <2>4. PICK w \in Ranks : count[w] = g /\ at[w] \in {"entered", "announce"}
    BY <2>2, <2>3 DEF Awaited
  <2>5. w # r
    BY <2>1, <2>4
  <2>. QED
    BY <2>1, <2>4, <2>5
<1>5. CASE Leave(r) \/ DeleteCounter(r) \/ TimeOut(r)
  <2>1. count' = count /\ announced' = announced /\ (\A q \in Ranks : q # r => at'[q] = at[q])
        /\ at'[r] \notin Inside /\ at[r] \notin {"entered", "announce"}
    BY <1>5 DEF Leave, DeleteCounter, TimeOut
  <2>. QED
    BY <2>1 DEF Awaited
<1>. QED
  BY <1>1, <1>2, <1>3, <1>4, <1>5 DEF Inner

LEMMA AwaitedStep ==
    ASSUME BarrierInv, Awaited, NEW r \in Ranks, Enter(r) \/ Inner(r) \/ TimeOut(r)
    PROVE  Awaited'
BY TallyStep, AnnouncerStep DEF Awaited

\* The counters' exactness is inductive, too.
THEOREM AwaitedInductive == BarrierSpec => []Awaited
<1>1. Awaited /\ UNCHANGED barrierVars => Awaited'
  BY DEF barrierVars, Awaited, Entered
<1>2. BarrierInv /\ Awaited /\ [BarrierNext]_barrierVars => Awaited'
  BY <1>1, AwaitedStep DEF BarrierNext
<1>. QED
  BY <1>2, AwaitedInit, BarrierInductive, PTL DEF BarrierSpec

\* A rank that waits although all have entered, and nobody is left to announce,
\* waits for a key that is there.
LEMMA AwaitedEnds == BarrierInv /\ Awaited => WaitEnds
BY DEF BarrierInv, Counted, Awaited, WaitEnds, Inside

\* A barrier that times out has missed a rank.
THEOREM NoWaitInVain == BarrierSpec => []WaitEnds
BY AwaitedEnds, BarrierInductive, AwaitedInductive, PTL

-----------------------------------------------------------------------------
(* The barrier's own invariants hold of the barrier the updates use.       *)

LEMMA UpdateStepsBarrier == [SyncNext]_allVars => [BarrierNext]_barrierVars
<1>. SUFFICES ASSUME [SyncNext]_allVars PROVE [BarrierNext]_barrierVars
  OBVIOUS
<1>1. ASSUME NEW r \in Ranks, GoToBarrier(r) \/ InBarrier(r) \/ GiveUp(r) PROVE BarrierNext
  BY <1>1 DEF GoToBarrier, InBarrier, GiveUp, BarrierNext
<1>2. ASSUME NEW r \in Ranks,
             Register(r) \/ Unregister(r) \/ Gather(r) \/ Call(r) \/ Bind(r) \/ SkipBarrier(r) \/ Return(r)
      PROVE  UNCHANGED barrierVars
  BY <1>2 DEF Register, Unregister, Gather, Call, Bind, SkipBarrier, Return, Leaves
<1>3. ASSUME NEW u \in Calls, Collective(u) PROVE UNCHANGED barrierVars
  BY <1>3 DEF Collective, Gathered, Sized, Loaded
<1>4. AllDone \/ UNCHANGED allVars => UNCHANGED barrierVars
  BY DEF AllDone, allVars
<1>. QED
  BY <1>1, <1>2, <1>3, <1>4 DEF SyncNext, SyncStep

\* The updates use the barrier as its specification says: every behaviour of the
\* calls, projected on the barrier's variables, is one of the barrier.
THEOREM UpdatesUseBarrier == SyncSpec => BarrierSpec
<1>1. SyncInit => BarrierInit
  BY DEF SyncInit
<1>. QED
  BY <1>1, UpdateStepsBarrier, PTL DEF SyncSpec, BarrierSpec

LEMMA BarrierOfUpdates == SyncSpec => [](BarrierInv /\ Awaited)
BY UpdatesUseBarrier, BarrierInductive, AwaitedInductive, PTL

-----------------------------------------------------------------------------
(* Types and places.                                                       *)

LEMMA ScriptFacts ==
    /\ Calls \subseteq Nat \ {0} /\ Len(Script) \in Nat
    /\ \A u \in Calls : /\ Script[u].op \in {"register", "gather", "update", "unregister"}
                        /\ Members(u) \subseteq Ranks /\ Members(u) # {}
    /\ \A n \in 0 .. Len(Script) : n < Len(Script) => n + 1 \in Calls
<1>. DEFINE C == [op : {"register", "gather", "update", "unregister"}, ranks : SUBSET Ranks]
<1>1. Len(Script) \in Nat /\ \A u \in Calls : Script[u] \in C
  <2>1. Script \in Seq(C)
    BY SyncAssumption
  <2>. HIDE DEF C
  <2>. QED
    BY <2>1 DEF Calls
<1>2. \A u \in Calls : /\ Script[u].op \in {"register", "gather", "update", "unregister"}
                       /\ Members(u) \subseteq Ranks /\ Members(u) # {}
  BY <1>1, RanksFinite DEF Members
<1>. QED
  BY <1>1, <1>2 DEF Calls

\* The largest counter of an update's members is one of theirs, and no less than
\* any of theirs.
LEMMA Largest ==
    ASSUME SyncTypeOK, Numbered, NEW u \in Calls, NEW r \in Ranks
    PROVE  /\ LargestOf(u, r) \in {zmq[q] : q \in Members(u)}
           /\ \A q \in Members(u) : zmq[q] <= LargestOf(u, r)
<1>. DEFINE K == Len(Script)
            S == {zmq[q] : q \in Members(u)}
            T == {K - n : n \in S}
            R == OpToRel(<, Nat)
<1>1. K \in Nat /\ Members(u) \subseteq Ranks /\ Members(u) # {}
  BY ScriptFacts
<1>2. \A q \in Ranks : zmq[q] \in Nat /\ zmq[q] <= K
  BY <1>1 DEF SyncTypeOK, Numbered
<1>3. S # {} /\ \A n \in S : n \in Nat /\ n <= K
  BY <1>1, <1>2
<1>4. T \subseteq Nat /\ T # {}
  <2>. HIDE DEF S, K
  <2>. QED
    BY <1>1, <1>3
<1>5. \E x \in T : \A y \in T : ~(<<y, x>> \in R)
  <2>. HIDE DEF T, R
  <2>1. IsWellFoundedOn(R, Nat)
    BY NatLessThanWellFounded DEF R
  <2>. QED
    BY <1>4, <2>1, WFMin
<1>6. PICK x \in T : \A y \in T : ~(<<y, x>> \in R)
  BY <1>5
<1>7. \A y \in T : ~(y < x)
  BY <1>4, <1>6 DEF OpToRel
<1>8. PICK n \in S : x = K - n
  BY <1>6
<1>9. \A m \in S : m <= n
  <2>. HIDE DEF S, K
  <2>1. \A m \in S : K - m \in T
    OBVIOUS
  <2>2. \A m \in S : ~(K - m < K - n)
    BY <1>7, <1>8, <2>1
  <2>. QED
    BY <1>1, <1>3, <2>2
<1>10. n \in S /\ \A q \in Members(u) : zmq[q] <= n
  BY <1>9
<1>11. \E m \in S : \A q \in Members(u) : zmq[q] <= m
  BY <1>10
<1>12. LargestOf(u, r) = CHOOSE m \in S : \A q \in Members(u) : zmq[q] <= m
  BY DEF LargestOf
<1>. HIDE DEF S
<1>13. LargestOf(u, r) \in S /\ \A q \in Members(u) : zmq[q] <= LargestOf(u, r)
  BY <1>11, <1>12
<1>. QED
  BY <1>13 DEF S

LEMMA SyncInitInv == SyncInit => SyncTypeOK /\ Placed /\ Numbered
<1>. SUFFICES ASSUME SyncInit PROVE SyncTypeOK /\ Placed /\ Numbered
  OBVIOUS
<1>1. SyncTypeOK
  BY ScriptFacts DEF SyncInit, SyncTypeOK, Stages
<1>2. Placed
  BY DEF SyncInit, BarrierInit, Placed, PlacedAt, Sending
<1>3. Numbered
  BY DEF SyncInit, Numbered, Sending
<1>. QED
  BY <1>1, <1>2, <1>3

LEMMA SyncTypeStep ==
    ASSUME SyncTypeOK, Placed, Numbered, [SyncNext]_allVars
    PROVE  SyncTypeOK'
<1>. USE ScriptFacts DEF SyncTypeOK, Stages, Sending
<1>1. ASSUME NEW r \in Ranks, Register(r) \/ Unregister(r) PROVE SyncTypeOK'
  <2>1. pos[r] \in 0 .. Len(Script) /\ pos[r] < Len(Script) /\ pos' = [pos EXCEPT ![r] = @ + 1]
    BY <1>1 DEF Register, Unregister, Begin
  <2>2. pos' \in [Ranks -> 0 .. Len(Script)]
    BY <2>1
  <2>3. held' \in [Ranks -> 0 .. Len(Script)]
    <3>1. pos[r] + 1 \in 0 .. Len(Script) /\ 0 \in 0 .. Len(Script)
      BY <2>1
    <3>. QED
      BY <1>1, <3>1 DEF Register, Unregister
  <2>. QED
    BY <1>1, <2>2, <2>3 DEF Register, Unregister, groupVars, addressVars
<1>2. ASSUME NEW r \in Ranks, Gather(r) \/ Call(r) PROVE SyncTypeOK'
  <2>1. pos[r] \in 0 .. Len(Script) /\ pos[r] < Len(Script) /\ pos' = [pos EXCEPT ![r] = @ + 1]
    BY <1>2 DEF Gather, Call, Begin
  <2>2. pos' \in [Ranks -> 0 .. Len(Script)]
    BY <2>1
  <2>3. prefix' \in [Ranks -> Nat] /\ open' \in [Ranks -> BOOLEAN]
    <3>1. OpenGroup(r)
      BY <1>2 DEF Gather, Call
    <3>2. prefix' = prefix \/ prefix' = [prefix EXCEPT ![r] = prefix[r] + 1]
      BY <3>1 DEF OpenGroup, groupVars
    <3>3. open' = open \/ open' = [open EXCEPT ![r] = TRUE]
      BY <3>1 DEF OpenGroup, groupVars
    <3>4. prefix' \in [Ranks -> Nat]
      BY <3>2
    <3>5. open' \in [Ranks -> BOOLEAN]
      BY <3>3, Zenon
    <3>. QED
      BY <3>4, <3>5
  <2>. QED
    BY <1>2, <2>2, <2>3 DEF Gather, Call, MoveTo, addressVars, memoryVars
<1>3. ASSUME NEW r \in Ranks, Bind(r) PROVE SyncTypeOK'
  BY <1>3 DEF Bind, MoveTo, groupVars, memoryVars
<1>4. ASSUME NEW r \in Ranks, GoToBarrier(r) \/ InBarrier(r) \/ GiveUp(r) PROVE SyncTypeOK'
  BY <1>4 DEF GoToBarrier, InBarrier, GiveUp, MoveTo, syncVars, groupVars, addressVars, memoryVars
<1>5. ASSUME NEW r \in Ranks, SkipBarrier(r) \/ Return(r) PROVE SyncTypeOK'
  BY <1>5 DEF SkipBarrier, Return, Leaves, MoveTo, addressVars, memoryVars
<1>6. ASSUME NEW u \in Calls, Gathered(u) PROVE SyncTypeOK'
  BY <1>6 DEF Gathered, MoveTo, groupVars, addressVars
<1>7. ASSUME NEW u \in Calls, Sized(u) PROVE SyncTypeOK'
  <2>1. \A r \in Ranks : LargestOf(u, r) \in Nat
    <3>1. \A r \in Ranks : LargestOf(u, r) \in {zmq[q] : q \in Members(u)}
      BY Largest
    <3>. QED
      BY <3>1
  <2>. QED
    BY <1>7, <2>1 DEF Sized, MoveTo, groupVars, memoryVars
<1>8. ASSUME NEW u \in Calls, Loaded(u) PROVE SyncTypeOK'
  BY <1>8 DEF Loaded, MoveTo, groupVars, addressVars, memoryVars
<1>9. AllDone \/ UNCHANGED allVars => SyncTypeOK'
  BY DEF AllDone, allVars, syncVars, groupVars, addressVars, memoryVars
<1>. QED
  BY <1>1, <1>2, <1>3, <1>4, <1>5, <1>6, <1>7, <1>8, <1>9 DEF SyncNext, SyncStep, Collective

\* A rank keeps its place while nothing of it changes.
LEMMA PlaceKept ==
    ASSUME Placed, NEW q \in Ranks, pos'[q] = pos[q], stage'[q] = stage[q], at'[q] = at[q]
    PROVE  PlacedAt(q)'
BY DEF Placed, PlacedAt, IsMember

\* What the steps of the barrier change of the other ranks: nothing.
LEMMA BarrierFrame ==
    ASSUME BarrierInv, NEW r \in Ranks, Enter(r) \/ Inner(r) \/ TimeOut(r),
           NEW q \in Ranks, q # r
    PROVE  at'[q] = at[q] /\ count'[q] = count[q]
<1>1. at \in [Ranks -> Inside \cup {"out", "raised", "deleteCounter", "deleteAnnouncement"}]
      /\ DOMAIN count = Ranks
  BY DEF BarrierInv, BarrierTypeOK
<1>2. \E s : at' = [at EXCEPT ![r] = s]
  BY DEF Inner, Enter, ReadTally, Announce, Leave, DeleteCounter, DeleteAnnouncement, TimeOut
<1>3. count' = count \/ \E n : count' = [count EXCEPT ![r] = n]
  BY InnerFrame DEF Enter
<1>. QED
  BY <1>1, <1>2, <1>3

LEMMA PlacedStep ==
    ASSUME SyncTypeOK, BarrierInv, Placed, [SyncNext]_allVars
    PROVE  Placed'
<1>. USE ScriptFacts DEF SyncTypeOK, Sending
<1>1. ASSUME NEW r \in Ranks, Register(r) \/ Unregister(r), NEW q \in Ranks PROVE PlacedAt(q)'
  <2>1. /\ stage[r] = "idle" /\ stage' = stage /\ at' = at
        /\ q # r => pos'[q] = pos[q]
    BY <1>1 DEF Register, Unregister, Begin, barrierVars
  <2>2. CASE q = r
    BY <2>1, <2>2 DEF Placed, PlacedAt
  <2>. QED
    BY <2>1, <2>2, PlaceKept
<1>2. ASSUME NEW r \in Ranks, Gather(r) \/ Call(r), NEW q \in Ranks PROVE PlacedAt(q)'
  <2>1. /\ pos[r] \in 0 .. Len(Script) /\ pos[r] < Len(Script) /\ pos'[r] = pos[r] + 1
        /\ stage[r] = "idle" /\ at' = at
        /\ \/ stage'[r] = "gathering" /\ Script[pos'[r]].op = "gather"
           \/ stage'[r] = "joining" /\ Script[pos'[r]].op = "update"
        /\ q # r => pos'[q] = pos[q] /\ stage'[q] = stage[q]
    BY <1>2 DEF Gather, Call, Begin, MoveTo, barrierVars
  <2>2. pos'[r] \in Calls
    BY <2>1
  <2>3. CASE q = r
    BY <2>1, <2>2, <2>3 DEF Placed, PlacedAt
  <2>. QED
    BY <2>1, <2>3, PlaceKept
<1>3. ASSUME NEW r \in Ranks, Bind(r), NEW q \in Ranks PROVE PlacedAt(q)'
  BY <1>3 DEF Bind, MoveTo, barrierVars, Placed, PlacedAt, IsMember
<1>4. ASSUME NEW r \in Ranks, GoToBarrier(r), NEW q \in Ranks PROVE PlacedAt(q)'
  <2>1. /\ stage[r] \in {"loaded", "joining"} /\ stage'[r] = "barrier" /\ pos' = pos /\ Enter(r)
        /\ q # r => stage'[q] = stage[q]
    BY <1>4 DEF GoToBarrier, MayPass, MoveTo
  <2>2. CASE q = r
    BY <2>1, <2>2 DEF Placed, PlacedAt
  <2>. QED
    BY <2>1, <2>2, BarrierFrame, PlaceKept
<1>5. ASSUME NEW r \in Ranks, InBarrier(r) \/ GiveUp(r), NEW q \in Ranks PROVE PlacedAt(q)'
  <2>1. pos' = pos /\ stage' = stage /\ stage[r] = "barrier" /\ (Inner(r) \/ TimeOut(r))
    BY <1>5 DEF InBarrier, GiveUp, syncVars
  <2>2. CASE q = r
    BY <2>1, <2>2 DEF Placed, PlacedAt
  <2>. QED
    BY <2>1, <2>2, BarrierFrame, PlaceKept
<1>6. ASSUME NEW r \in Ranks, SkipBarrier(r) \/ Return(r), NEW q \in Ranks PROVE PlacedAt(q)'
  <2>1. pos' = pos /\ at' = at /\ stage' = [p \in Ranks |-> IF p = r THEN "idle" ELSE stage[p]]
        /\ (at[r] \in {"out", "raised"} \/ stage[r] = "loaded")
    BY <1>6 DEF SkipBarrier, Return, Leaves, MoveTo, barrierVars
  <2>2. CASE q = r
    BY <2>1, <2>2 DEF Placed, PlacedAt
  <2>. QED
    BY <2>1, <2>2, PlaceKept
<1>7. ASSUME NEW u \in Calls, Gathered(u), NEW q \in Ranks PROVE PlacedAt(q)'
  BY <1>7 DEF Gathered, AllAt, MoveTo, barrierVars, Placed, PlacedAt
<1>8. ASSUME NEW u \in Calls, Sized(u) \/ Loaded(u), NEW q \in Ranks PROVE PlacedAt(q)'
  <2>1. /\ pos' = pos /\ at' = at
        /\ q \in Members(u) => pos[q] = u /\ stage[q] \in {"joining", "loading"}
        /\ q \in Members(u) => stage'[q] \in {"binding", "loaded"}
        /\ q \notin Members(u) => stage'[q] = stage[q]
    BY <1>8 DEF Sized, Loaded, AllAt, MoveTo, barrierVars
  <2>2. CASE q \in Members(u)
    BY <2>1, <2>2 DEF Placed, PlacedAt, IsMember
  <2>. QED
    BY <2>1, <2>2, PlaceKept
<1>9. ASSUME AllDone \/ UNCHANGED allVars, NEW q \in Ranks PROVE PlacedAt(q)'
  BY <1>9, PlaceKept DEF AllDone, allVars, syncVars, barrierVars
<1>10. ASSUME NEW r \in Ranks, SyncStep(r), NEW q \in Ranks PROVE PlacedAt(q)'
  BY <1>1, <1>2, <1>3, <1>4, <1>5, <1>6, <1>10 DEF SyncStep
<1>11. ASSUME NEW u \in Calls, Collective(u), NEW q \in Ranks PROVE PlacedAt(q)'
  BY <1>7, <1>8, <1>11 DEF Collective
<1>. QED
  BY <1>9, <1>10, <1>11 DEF SyncNext, Placed

-----------------------------------------------------------------------------
(* The numbers of the addresses.                                           *)

LEMMA Integral ==
    ASSUME SyncTypeOK
    PROVE  \A r \in Ranks : /\ pos[r] \in Nat /\ zmq[r] \in Nat /\ socket[r] \in Int
                            /\ pos[r] \in 0 .. Len(Script) /\ (pos[r] = 0 \/ pos[r] \in Calls)
BY ScriptFacts DEF SyncTypeOK, Calls

\* A step that begins a call, or moves a rank on without touching its numbers,
\* leaves the numbers in order.
LEMMA NumberedMove ==
    ASSUME SyncTypeOK, Numbered, NEW r \in Ranks, UNCHANGED addressVars,
           pos'[r] >= pos[r], pos'[r] \in Nat,
           \/ stage'[r] \notin Sending \cup {"joining"}
           \/ stage'[r] = "joining" /\ pos'[r] > pos[r],
           \A q \in Ranks : q # r => pos'[q] = pos[q] /\ stage'[q] = stage[q]
    PROVE  Numbered'
<1>. USE Integral DEF Sending, addressVars
<1>1. \A q \in Ranks : socket'[q] < zmq'[q]
  BY DEF Numbered
<1>2. \A q \in Ranks : zmq'[q] <= pos'[q]
                       /\ (stage'[q] \in {"joining", "binding"} => zmq'[q] < pos'[q])
  <2>. SUFFICES ASSUME NEW q \in Ranks
                PROVE  zmq'[q] <= pos'[q] /\ (stage'[q] \in {"joining", "binding"} => zmq'[q] < pos'[q])
    OBVIOUS
  <2>1. zmq'[q] = zmq[q] /\ zmq[q] <= pos[q] /\ (stage[q] \in {"joining", "binding"} => zmq[q] < pos[q])
    BY DEF Numbered
  <2>2. CASE q = r
    BY <2>1, <2>2
  <2>3. CASE q # r
    BY <2>1, <2>3
  <2>. QED
    BY <2>2, <2>3
<1>3. ASSUME NEW p \in Ranks, NEW q \in Ranks, pos'[p] = pos'[q], stage'[p] \in Sending, stage'[q] \in Sending
      PROVE  Number(p)' = Number(q)'
  <2>1. p # r /\ q # r
    BY <1>3
  <2>. QED
    BY <1>3, <2>1 DEF Numbered, Number
<1>. QED
  BY <1>1, <1>2, <1>3 DEF Numbered

LEMMA NumberedStep ==
    ASSUME SyncTypeOK, Placed, Numbered, [SyncNext]_allVars
    PROVE  Numbered'
<1>. USE DEF Sending
<1>0. \A u \in Calls : u \in Nat /\ Members(u) \subseteq Ranks
  BY ScriptFacts
<1>1. ASSUME NEW r \in Ranks, Register(r) \/ Unregister(r) \/ Gather(r) \/ Call(r) PROVE Numbered'
  <2>1. /\ pos[r] \in Nat /\ pos'[r] = pos[r] + 1 /\ UNCHANGED addressVars
        /\ stage[r] = "idle" /\ stage'[r] \in {"idle", "gathering", "joining"}
        /\ \A q \in Ranks : q # r => pos'[q] = pos[q] /\ stage'[q] = stage[q]
    BY <1>1 DEF Register, Unregister, Gather, Call, Begin, MoveTo, SyncTypeOK
  <2>2. /\ pos'[r] >= pos[r] /\ pos'[r] \in Nat
        /\ \/ stage'[r] \notin Sending \cup {"joining"}
           \/ stage'[r] = "joining" /\ pos'[r] > pos[r]
    BY <2>1, Integral
  <2>. QED
    BY <2>1, <2>2, NumberedMove
<1>2. ASSUME NEW r \in Ranks, GoToBarrier(r) \/ SkipBarrier(r) \/ Return(r) PROVE Numbered'
  <2>1. /\ pos' = pos /\ UNCHANGED addressVars /\ stage'[r] \in {"idle", "barrier"}
        /\ \A q \in Ranks : q # r => stage'[q] = stage[q]
    BY <1>2 DEF GoToBarrier, SkipBarrier, Return, Leaves, MoveTo, SyncTypeOK
  <2>2. pos'[r] >= pos[r] /\ pos'[r] \in Nat
    BY <2>1, Integral
  <2>. QED
    BY <2>1, <2>2, NumberedMove
<1>3. ASSUME NEW r \in Ranks, Bind(r) PROVE Numbered'
  <2>1. /\ pos' = pos /\ stage[r] = "binding" /\ stage'[r] = "loading"
        /\ socket'[r] = zmq[r] /\ zmq'[r] = zmq[r] + 1
        /\ \A q \in Ranks : q # r => stage'[q] = stage[q] /\ zmq'[q] = zmq[q] /\ socket'[q] = socket[q]
    BY <1>3 DEF Bind, MoveTo, SyncTypeOK
  <2>2. \A q \in Ranks : stage'[q] \in Sending => stage[q] \in Sending /\ Number(q)' = Number(q)
    BY <2>1 DEF Number
  <2>3. ASSUME NEW q \in Ranks
        PROVE  /\ socket'[q] < zmq'[q] /\ zmq'[q] <= pos'[q]
               /\ stage'[q] \in {"joining", "binding"} => zmq'[q] < pos'[q]
    <3>1. /\ socket[q] < zmq[q] /\ zmq[q] <= pos[q]
          /\ stage[q] \in {"joining", "binding"} => zmq[q] < pos[q]
      BY DEF Numbered
    <3>2. pos[q] \in Nat /\ zmq[q] \in Nat /\ socket[q] \in Int
      BY Integral
    <3>. QED
      BY <2>1, <3>1, <3>2
  <2>4. \A p, q \in Ranks : pos'[p] = pos'[q] /\ stage'[p] \in Sending /\ stage'[q] \in Sending
            => Number(p)' = Number(q)'
    <3>1. pos' = pos
      BY <2>1
    <3>. QED
      BY <2>2, <3>1 DEF Numbered
  <2>. QED
    BY <2>3, <2>4 DEF Numbered
<1>4. ASSUME NEW u \in Calls, Sized(u) PROVE Numbered'
  <2>1. /\ pos' = pos /\ socket' = socket
        /\ \A q \in Ranks : zmq'[q] = IF q \in Members(u) THEN LargestOf(u, q) ELSE zmq[q]
        /\ \A q \in Ranks : stage'[q] = IF q \in Members(u) THEN "binding" ELSE stage[q]
        /\ \A q \in Members(u) : q \in Ranks /\ pos[q] = u /\ stage[q] = "joining"
    BY <1>0, <1>4 DEF Sized, AllAt, MoveTo
  <2>2. \A q \in Ranks : LargestOf(u, q) \in {zmq[m] : m \in Members(u)}
                         /\ \A m \in Members(u) : zmq[m] <= LargestOf(u, q)
    BY Largest
  <2>3. \A q \in Ranks : LargestOf(u, q) \in Nat /\ LargestOf(u, q) < u
    BY <1>0, <2>1, <2>2, Integral DEF Numbered
  <2>4. ASSUME NEW p \in Ranks, NEW q \in Ranks, pos[p] = pos[q], stage'[p] \in Sending, stage'[q] \in Sending
        PROVE  Number(p)' = Number(q)'
    <3>1. CASE p \in Members(u) /\ q \in Members(u)
      BY <2>1, <3>1 DEF Number, LargestOf
    <3>2. CASE p \notin Members(u) /\ q \notin Members(u)
      BY <2>1, <2>4, <3>2 DEF Number, Numbered
    <3>3. CASE p \in Members(u) /\ q \notin Members(u)
      BY <2>1, <2>4, <3>3 DEF Placed, PlacedAt, IsMember
    <3>4. CASE p \notin Members(u) /\ q \in Members(u)
      BY <2>1, <2>4, <3>4 DEF Placed, PlacedAt, IsMember
    <3>. QED
      BY <3>1, <3>2, <3>3, <3>4
  <2>5. \A q \in Ranks : socket'[q] < zmq'[q]
    <3>1. \A q \in Ranks : socket[q] < zmq[q] /\ socket[q] \in Int /\ zmq[q] \in Nat
      BY Integral DEF Numbered
    <3>2. \A q \in Members(u) : zmq[q] <= LargestOf(u, q)
      BY <2>1, <2>2
    <3>. QED
      BY <2>1, <2>3, <3>1, <3>2
  <2>6. \A q \in Ranks : zmq'[q] <= pos'[q]
                         /\ (stage'[q] \in {"joining", "binding"} => zmq'[q] < pos'[q])
    <3>1. \A q \in Ranks : zmq[q] <= pos[q] /\ (stage[q] \in {"joining", "binding"} => zmq[q] < pos[q])
      BY DEF Numbered
    <3>2. \A q \in Members(u) : LargestOf(u, q) < pos[q] /\ LargestOf(u, q) \in Nat /\ pos[q] \in Nat
      BY <1>0, <2>1, <2>3
    <3>3. \A q \in Members(u) : LargestOf(u, q) <= pos[q]
      BY <3>2
    <3>. QED
      BY <2>1, <3>1, <3>2, <3>3
  <2>. QED
    BY <2>1, <2>4, <2>5, <2>6 DEF Numbered
<1>5. ASSUME NEW u \in Calls, Loaded(u) \/ Gathered(u) PROVE Numbered'
  <2>1. /\ pos' = pos /\ UNCHANGED addressVars
        /\ \A q \in Ranks : stage'[q] = stage[q] \/ stage'[q] = "idle"
                            \/ (stage[q] = "loading" /\ stage'[q] = "loaded")
    <3>1. CASE Loaded(u)
      BY <1>0, <3>1 DEF Loaded, AllAt, MoveTo
    <3>2. CASE Gathered(u)
      BY <3>2 DEF Gathered, MoveTo
    <3>. QED
      BY <1>5, <3>1, <3>2
  <2>2. \A q \in Ranks : stage'[q] \in Sending => stage[q] \in Sending /\ Number(q)' = Number(q)
    BY <2>1 DEF Number, addressVars
  <2>. QED
    BY <2>1, <2>2 DEF Numbered, addressVars
<1>6. (\E r \in Ranks : InBarrier(r) \/ GiveUp(r)) \/ AllDone \/ UNCHANGED allVars => Numbered'
  BY DEF InBarrier, GiveUp, AllDone, allVars, syncVars, addressVars, Numbered, Number
<1>. QED
  BY <1>1, <1>2, <1>3, <1>4, <1>5, <1>6 DEF SyncNext, SyncStep, Collective

\* Whatever scripts the ranks run, their updates and the barriers of the store stay
\* in the states that the invariant describes.
THEOREM SyncInductive == SyncSpec => [](BarrierInv /\ SyncTypeOK /\ Placed /\ Numbered)
<1>1. SyncTypeOK /\ BarrierInv /\ Placed /\ Numbered /\ [SyncNext]_allVars => (SyncTypeOK /\ Placed /\ Numbered)'
  BY SyncTypeStep, PlacedStep, NumberedStep
<1>. QED
  BY <1>1, SyncInitInv, BarrierOfUpdates, PTL DEF SyncSpec

\* The members of an update give the engine the addresses the others have bound.
THEOREM MembersAddressEachOther == SyncSpec => []AddressesAgree
<1>1. Numbered => AddressesAgree
  BY DEF Numbered, AddressesAgree, Number, Sending
<1>. QED
  BY <1>1, SyncInductive, PTL

\* No address is bound twice.
THEOREM NoAddressTwice == SyncSpec => []AddressesFresh
<1>1. SyncTypeOK /\ Numbered => AddressesFresh
  BY DEF SyncTypeOK, Numbered, AddressesFresh
<1>. QED
  BY <1>1, SyncInductive, PTL

-----------------------------------------------------------------------------
(* One barrier for each update.                                            *)

\* A step moves no rank back.
LEMMA Onward ==
    ASSUME SyncTypeOK, Placed, [SyncNext]_allVars, NEW q \in Ranks, NEW u \in Calls, Behind(q, u)'
    PROVE  Behind(q, u)
<1>0. pos[q] \in Nat /\ u \in Nat /\ \A v \in Calls : Members(v) \subseteq Ranks
  BY Integral, ScriptFacts
<1>1. ASSUME NEW r \in Ranks, Register(r) \/ Unregister(r) \/ Gather(r) \/ Call(r) PROVE Behind(q, u)
  <2>1. CASE q = r
    <3>1. pos'[r] = pos[r] + 1
      BY <1>1 DEF Register, Unregister, Gather, Call, Begin, SyncTypeOK
    <3>. QED
      BY <1>0, <2>1, <3>1 DEF Behind
  <2>2. CASE q # r
    <3>1. pos'[q] = pos[q] /\ stage'[q] = stage[q]
      BY <1>1, <2>2 DEF Register, Unregister, Gather, Call, Begin, MoveTo, SyncTypeOK
    <3>. QED
      BY <3>1 DEF Behind
  <2>. QED
    BY <2>1, <2>2
<1>2. ASSUME NEW r \in Ranks, Bind(r) \/ GoToBarrier(r) \/ SkipBarrier(r) \/ Return(r) PROVE Behind(q, u)
  <2>1. pos' = pos /\ (stage'[q] = stage[q] \/ stage[q] = "binding" \/ stage'[q] \in {"barrier", "idle"})
    BY <1>2 DEF Bind, GoToBarrier, SkipBarrier, Return, Leaves, MoveTo, SyncTypeOK
  <2>. QED
    BY <2>1 DEF Behind
<1>3. ASSUME NEW v \in Calls, Sized(v) \/ Loaded(v) \/ Gathered(v) PROVE Behind(q, u)
  <2>1. pos' = pos /\ (stage'[q] = stage[q] \/ stage[q] = "joining" \/ stage'[q] \in {"loaded", "idle"})
    BY <1>0, <1>3 DEF Sized, Loaded, Gathered, AllAt, MoveTo
  <2>. QED
    BY <2>1 DEF Behind
<1>4. (\E r \in Ranks : InBarrier(r) \/ GiveUp(r)) \/ AllDone \/ UNCHANGED allVars => pos' = pos /\ stage' = stage
  BY DEF InBarrier, GiveUp, AllDone, allVars, syncVars
<1>5. pos' = pos /\ stage' = stage => Behind(q, u)
  BY DEF Behind
<1>. QED
  BY <1>1, <1>2, <1>3, <1>4, <1>5 DEF SyncNext, SyncStep, Collective

LEMMA CallsFinite == IsFiniteSet(Calls)
<1>1. Len(Script) \in Int /\ 1 \in Int
  BY ScriptFacts
<1>2. IsFiniteSet(1 .. Len(Script))
  BY <1>1, FS_Interval
<1>. QED
  BY <1>2 DEF Calls

\* The number of barriers up to a call grows with the call.
LEMMA BarrierCounts ==
    ASSUME NEW m \in Nat, NEW n \in Nat, m <= n
    PROVE  /\ Cardinality(BarriersUpTo(m)) \in Nat /\ Cardinality(BarriersUpTo(n)) \in Nat
           /\ Cardinality(BarriersUpTo(m)) <= Cardinality(BarriersUpTo(n))
           /\ \A u \in Calls : m < u /\ u <= n /\ BarrierOf(u) =>
                  Cardinality(BarriersUpTo(m)) < Cardinality(BarriersUpTo(n))
<1>1. IsFiniteSet(Calls)
  BY CallsFinite
<1>2. BarriersUpTo(n) \in SUBSET Calls /\ BarriersUpTo(m) \in SUBSET BarriersUpTo(n)
  <2>1. \A u \in Calls : u \in Nat /\ (u <= m => u <= n)
    BY ScriptFacts
  <2>. QED
    BY <2>1 DEF BarriersUpTo
<1>3. IsFiniteSet(BarriersUpTo(n))
  BY <1>1, <1>2, FS_Subset
<1>4. IsFiniteSet(BarriersUpTo(m)) /\ Cardinality(BarriersUpTo(m)) <= Cardinality(BarriersUpTo(n))
      /\ (Cardinality(BarriersUpTo(n)) = Cardinality(BarriersUpTo(m)) => BarriersUpTo(n) = BarriersUpTo(m))
  BY <1>2, <1>3, FS_Subset
<1>5. Cardinality(BarriersUpTo(m)) \in Nat /\ Cardinality(BarriersUpTo(n)) \in Nat
  BY <1>3, <1>4, FS_CardinalityType
<1>6. ASSUME NEW u \in Calls, m < u, u <= n, BarrierOf(u) PROVE BarriersUpTo(n) # BarriersUpTo(m)
  <2>1. u \in BarriersUpTo(n) /\ u \notin BarriersUpTo(m)
    BY <1>6, ScriptFacts DEF BarriersUpTo
  <2>. QED
    BY <2>1
<1>. QED
  BY <1>4, <1>5, <1>6

\* A call adds one if it ends in the barrier.
LEMMA BarrierCountStep ==
    ASSUME NEW u \in Calls
    PROVE  Cardinality(BarriersUpTo(u)) = Cardinality(BarriersUpTo(u - 1)) + (IF BarrierOf(u) THEN 1 ELSE 0)
<1>0. u \in Nat /\ u - 1 \in Nat /\ Calls \subseteq Nat
  BY ScriptFacts
<1>1. IsFiniteSet(Calls)
  BY CallsFinite
<1>2. BarriersUpTo(u - 1) \in SUBSET Calls
  BY DEF BarriersUpTo
<1>3. IsFiniteSet(BarriersUpTo(u - 1)) /\ Cardinality(BarriersUpTo(u - 1)) \in Nat
  BY <1>1, <1>2, FS_Subset, FS_CardinalityType
<1>4. u \notin BarriersUpTo(u - 1)
  BY <1>0 DEF BarriersUpTo
<1>7. \A v \in Calls : v <= u <=> v <= u - 1 \/ v = u
  BY <1>0
<1>5. CASE BarrierOf(u)
  <2>1. BarriersUpTo(u) = BarriersUpTo(u - 1) \cup {u}
    BY <1>5, <1>7 DEF BarriersUpTo
  <2>. QED
    BY <1>3, <1>4, <1>5, <2>1, FS_AddElement
<1>6. CASE ~BarrierOf(u)
  <2>1. BarriersUpTo(u) = BarriersUpTo(u - 1)
    BY <1>6, <1>7 DEF BarriersUpTo
  <2>. QED
    BY <1>3, <1>6, <2>1
<1>. QED
  BY <1>5, <1>6

\* Steps that leave the verdicts alone leave the barriers alone.
LEMMA BarriersKept ==
    ASSUME verdict' = verdict, NEW n
    PROVE  BarriersUpTo(n)' = BarriersUpTo(n) /\ \A u \in Calls : BarrierOf(u)' = BarrierOf(u)
BY DEF BarriersUpTo, BarrierOf

\* A rank's count keeps up with the calls it has passed.
CountsOf(r) == count[r] = Cardinality(BarriersUpTo(Passed(r)))

LEMMA CountKept ==
    ASSUME InStep, verdict' = verdict, NEW q \in Ranks, count'[q] = count[q], Passed(q)' = Passed(q)
    PROVE  CountsOf(q)'
<1>1. BarriersUpTo(Passed(q))' = BarriersUpTo(Passed(q))
  BY BarriersKept DEF BarriersUpTo, BarrierOf
<1>. QED
  BY <1>1 DEF InStep, CountsOf

LEMMA CountsStep ==
    ASSUME RaiseTogether, SyncTypeOK, BarrierInv, Placed, InStep, [SyncNext]_allVars, NEW q \in Ranks
    PROVE  CountsOf(q)'
<1>0. pos[q] \in Nat /\ count \in [Ranks -> 0 .. MaxGen]
  BY Integral DEF BarrierInv, BarrierTypeOK
<1>1. ASSUME NEW r \in Ranks, Register(r) \/ Unregister(r) \/ Gather(r) PROVE CountsOf(q)'
  <2>1. /\ count' = count /\ verdict' = verdict
        /\ q # r => pos'[q] = pos[q] /\ stage'[q] = stage[q]
    BY <1>1 DEF Register, Unregister, Gather, Begin, MoveTo, barrierVars, SyncTypeOK
  <2>2. CASE q # r
    BY <2>1, <2>2, CountKept DEF Passed
  <2>3. CASE q = r
    <3>1. pos'[r] = pos[r] + 1 /\ pos[r] + 1 \in Calls /\ Script[pos[r] + 1].op # "update"
          /\ stage[r] = "idle" /\ stage'[r] \in {"idle", "gathering"}
      BY <1>0, <1>1, <2>3, ScriptFacts DEF Register, Unregister, Gather, Begin, MoveTo, SyncTypeOK
    <3>2. ~BarrierOf(pos[r] + 1) /\ Passed(r) = pos[r] /\ Passed(r)' = pos[r] + 1
      BY <3>1 DEF BarrierOf, Passed, Sending
    <3>3. Cardinality(BarriersUpTo(pos[r] + 1)) = Cardinality(BarriersUpTo(pos[r]))
      <4>1. PICK u \in Calls : u = pos[r] + 1
        BY <3>1
      <4>2. u - 1 = pos[r]
        BY <1>0, <2>3, <4>1
      <4>3. Cardinality(BarriersUpTo(pos[r])) \in Nat
        BY <1>0, <2>3, BarrierCounts
      <4>4. Cardinality(BarriersUpTo(u)) = Cardinality(BarriersUpTo(u - 1)) + 0
        BY <3>2, <4>1, BarrierCountStep
      <4>5. BarriersUpTo(u - 1) = BarriersUpTo(pos[r]) /\ BarriersUpTo(u) = BarriersUpTo(pos[r] + 1)
        BY <4>1, <4>2, Zenon
      <4>. QED
        BY <4>3, <4>4, <4>5
    <3>4. BarriersUpTo(Passed(r))' = BarriersUpTo(pos[r] + 1)
      BY <2>1, <3>2 DEF BarriersUpTo, BarrierOf
    <3>. QED
      BY <2>1, <2>3, <3>2, <3>3, <3>4 DEF CountsOf, InStep
  <2>. QED
    BY <2>2, <2>3
<1>2. ASSUME NEW r \in Ranks, Call(r) PROVE CountsOf(q)'
  <2>1. /\ count' = count /\ verdict' = verdict
        /\ q # r => pos'[q] = pos[q] /\ stage'[q] = stage[q]
        /\ q = r => pos'[q] = pos[q] + 1 /\ stage[q] = "idle" /\ stage'[q] = "joining"
    BY <1>2 DEF Call, Begin, MoveTo, barrierVars, SyncTypeOK
  <2>2. Passed(q)' = Passed(q)
    BY <1>0, <2>1 DEF Passed, Sending
  <2>. QED
    BY <2>1, <2>2, CountKept
<1>3. ASSUME NEW r \in Ranks, GoToBarrier(r) PROVE CountsOf(q)'
  <2>1. /\ pos' = pos /\ verdict' = verdict /\ Enter(r)
        /\ stage[r] \in {"joining", "loaded"} /\ stage'[r] = "barrier"
        /\ stage[r] = "loaded" => verdict[pos[r]] = "ok"
        /\ q # r => stage'[q] = stage[q]
    BY <1>3 DEF GoToBarrier, MayPass, MoveTo
  <2>2. CASE q # r
    <3>1. count'[q] = count[q] /\ Passed(q)' = Passed(q)
      BY <2>1, <2>2, BarrierFrame DEF Passed
    <3>. QED
      BY <2>1, <3>1, CountKept
  <2>3. CASE q = r
    <3>1. pos[r] \in Calls /\ Script[pos[r]].op = "update"
      BY <2>1 DEF Placed, PlacedAt
    <3>2. verdict[pos[r]] # "raised"
      BY <2>1, <3>1 DEF InStep, Behind
    <3>3. Cardinality(BarriersUpTo(pos[r])) = Cardinality(BarriersUpTo(pos[r] - 1)) + 1
      BY <3>1, <3>2, BarrierCountStep DEF BarrierOf
    <3>4. Passed(r) = pos[r] - 1 /\ Passed(r)' = pos[r]
      BY <2>1 DEF Passed, Sending
    <3>5. BarriersUpTo(Passed(r))' = BarriersUpTo(pos[r])
      BY <2>1, <3>4 DEF BarriersUpTo, BarrierOf
    <3>6. count'[r] = count[r] + 1
      BY <1>0, <2>1 DEF Enter
    <3>. QED
      BY <2>3, <3>3, <3>4, <3>5, <3>6 DEF CountsOf, InStep
  <2>. QED
    BY <2>2, <2>3
<1>4. ASSUME NEW r \in Ranks, SkipBarrier(r) PROVE CountsOf(q)'
  <2>1. /\ pos' = pos /\ verdict' = verdict /\ count' = count
        /\ stage[r] = "loaded" /\ stage'[r] = "idle" /\ verdict[pos[r]] = "raised"
        /\ q # r => stage'[q] = stage[q]
    BY <1>4 DEF SkipBarrier, Leaves, MoveTo, barrierVars
  <2>2. CASE q # r
    BY <2>1, <2>2, CountKept DEF Passed
  <2>3. CASE q = r
    <3>1. pos[r] \in Calls /\ ~BarrierOf(pos[r])
      BY <2>1 DEF Placed, PlacedAt, BarrierOf
    <3>2. Cardinality(BarriersUpTo(pos[r])) = Cardinality(BarriersUpTo(pos[r] - 1))
      <4>1. pos[r] \in Nat \ {0}
        BY <3>1, ScriptFacts
      <4>2. Cardinality(BarriersUpTo(pos[r] - 1)) \in Nat
        <5>1. pos[r] - 1 \in Nat
          BY <4>1
        <5>. QED
          BY <5>1, BarrierCounts
      <4>. QED
        BY <3>1, <4>2, BarrierCountStep
    <3>3. Passed(r) = pos[r] - 1 /\ Passed(r)' = pos[r]
      BY <2>1 DEF Passed, Sending
    <3>4. BarriersUpTo(Passed(r))' = BarriersUpTo(pos[r])
      BY <2>1, <3>3 DEF BarriersUpTo, BarrierOf
    <3>. QED
      BY <2>1, <2>3, <3>2, <3>3, <3>4 DEF CountsOf, InStep
  <2>. QED
    BY <2>2, <2>3
<1>5. ASSUME NEW r \in Ranks, Bind(r) \/ Return(r) \/ InBarrier(r) \/ GiveUp(r) PROVE CountsOf(q)'
  <2>1. /\ pos' = pos /\ verdict' = verdict /\ count' = count
        /\ \/ stage'[q] = stage[q]
           \/ stage[q] = "binding" /\ stage'[q] = "loading"
           \/ stage[q] = "barrier" /\ stage'[q] = "idle"
    BY <1>5, InnerFrame DEF Bind, Return, Leaves, InBarrier, GiveUp, MoveTo, syncVars, barrierVars
  <2>2. Passed(q)' = Passed(q)
    BY <2>1 DEF Passed, Sending
  <2>. QED
    BY <2>1, <2>2, CountKept
<1>6. ASSUME NEW u \in Calls, Gathered(u) \/ Sized(u) PROVE CountsOf(q)'
  <2>0. Members(u) \subseteq Ranks
    BY ScriptFacts
  <2>1. /\ pos' = pos /\ verdict' = verdict /\ count' = count
        /\ \/ stage'[q] = stage[q]
           \/ stage[q] = "gathering" /\ stage'[q] = "idle"
           \/ stage[q] = "joining" /\ stage'[q] = "binding"
    BY <1>6, <2>0 DEF Gathered, Sized, AllAt, MoveTo, barrierVars
  <2>2. Passed(q)' = Passed(q)
    BY <2>1 DEF Passed, Sending
  <2>. QED
    BY <2>1, <2>2, CountKept
<1>7. ASSUME NEW u \in Calls, Loaded(u) PROVE CountsOf(q)'
  <2>0. Members(u) \subseteq Ranks /\ Members(u) # {} /\ u \in Nat
    BY ScriptFacts
  <2>1. /\ pos' = pos /\ count' = count
        /\ \A m \in Members(u) : pos[m] = u /\ stage[m] = "loading"
        /\ \A p \in Ranks : stage'[p] = IF p \in Members(u) THEN "loaded" ELSE stage[p]
        /\ \A v \in Calls : v # u => verdict'[v] = verdict[v]
        /\ verdict'[u] = "ok" \/ (verdict'[u] = "raised" /\ u \in MayRaise)
    BY <1>7 DEF Loaded, AllAt, MoveTo, barrierVars, SyncTypeOK
  <2>2. Passed(q)' = Passed(q)
    BY <2>1 DEF Passed, Sending
  <2>3. verdict[u] # "raised"
    BY <2>0, <2>1 DEF InStep, Behind
  <2>4. BarriersUpTo(Passed(q))' = BarriersUpTo(Passed(q))
    <3>1. CASE verdict'[u] = "ok"
      <4>1. \A v \in Calls : BarrierOf(v)' <=> BarrierOf(v)
        BY <2>1, <2>3, <3>1 DEF BarrierOf
      <4>. QED
        BY <2>2, <4>1 DEF BarriersUpTo
    <3>2. CASE u \in MayRaise
      <4>1. Passed(q) = u - 1
        BY <2>1, <3>2 DEF RaiseTogether, Passed, Sending
      <4>2. \A v \in Calls : v <= u - 1 => (BarrierOf(v)' <=> BarrierOf(v))
        BY <2>0, <2>1 DEF BarrierOf
      <4>. QED
        BY <2>2, <4>1, <4>2 DEF BarriersUpTo
    <3>. QED
      BY <2>1, <3>1, <3>2
  <2>. QED
    BY <2>1, <2>4 DEF CountsOf, InStep
<1>8. AllDone \/ UNCHANGED allVars => CountsOf(q)'
  BY DEF AllDone, allVars, syncVars, barrierVars, InStep, CountsOf, Passed, BarriersUpTo, BarrierOf
<1>. QED
  BY <1>1, <1>2, <1>3, <1>4, <1>5, <1>6, <1>7, <1>8 DEF SyncNext, SyncStep, Collective

LEMMA InStepInit == SyncInit => InStep
<1>. SUFFICES ASSUME SyncInit PROVE InStep
  OBVIOUS
<1>1. BarriersUpTo(0) = {}
  <2>1. \A u \in Calls : ~(u <= 0)
    BY ScriptFacts
  <2>. QED
    BY <2>1 DEF BarriersUpTo
<1>2. \A r \in Ranks : count[r] = 0 /\ Passed(r) = 0
  BY DEF SyncInit, BarrierInit, Passed, Sending
<1>3. \A r \in Ranks : CountsOf(r)
  BY <1>1, <1>2, FS_EmptySet DEF CountsOf
<1>. QED
  BY <1>3 DEF SyncInit, InStep, CountsOf

LEMMA InStepStep ==
    ASSUME RaiseTogether, SyncTypeOK, BarrierInv, Placed, InStep, [SyncNext]_allVars
    PROVE  InStep'
<1>1. \A r \in Ranks : CountsOf(r)'
  BY CountsStep
<1>2. ASSUME NEW u \in Calls, Loaded(u) PROVE InStep'
  <2>0. Members(u) \subseteq Ranks /\ Members(u) # {}
    BY ScriptFacts
  <2>1. /\ pos' = pos
        /\ \A m \in Members(u) : pos[m] = u /\ stage[m] = "loading"
        /\ \A p \in Ranks : stage'[p] = IF p \in Members(u) THEN "loaded" ELSE stage[p]
        /\ \A v \in Calls : v # u => verdict'[v] = verdict[v]
        /\ verdict'[u] = "ok" \/ (verdict'[u] = "raised" /\ u \in MayRaise)
    BY <1>2 DEF Loaded, AllAt, MoveTo, SyncTypeOK
  <2>2. ASSUME NEW v \in Calls, verdict'[v] = "raised", NEW q \in Ranks PROVE ~Behind(q, v)'
    <3>1. CASE v # u
      BY <2>1, <2>2, <3>1, Onward DEF InStep
    <3>2. CASE v = u
      <4>1. q \in Members(u) /\ pos[q] = u
        BY <2>1, <2>2, <3>2 DEF RaiseTogether
      <4>2. pos'[q] = u /\ stage'[q] = "loaded"
        BY <2>1, <4>1
      <4>. QED
        BY <3>2, <4>2, ScriptFacts DEF Behind
    <3>. QED
      BY <3>1, <3>2
  <2>3. ASSUME NEW r \in Ranks, stage'[r] = "barrier" PROVE verdict'[pos'[r]] # "raised"
    <3>1. stage[r] = "barrier" /\ pos[r] \in Calls /\ verdict[pos[r]] # "raised" /\ r \notin Members(u)
      BY <2>1, <2>3 DEF InStep, Placed, PlacedAt
    <3>2. CASE pos[r] # u
      BY <2>1, <3>1, <3>2
    <3>3. CASE pos[r] = u
      BY <2>1, <3>1, <3>3 DEF RaiseTogether
    <3>. QED
      BY <3>2, <3>3
  <2>. QED
    BY <1>1, <2>2, <2>3 DEF InStep, CountsOf
<1>3. ASSUME verdict' = verdict PROVE InStep'
  <2>1. \A u \in Calls : verdict'[u] = "raised" => \A q \in Ranks : ~Behind(q, u)'
    BY <1>3, Onward DEF InStep
  <2>2. ASSUME NEW r \in Ranks, stage'[r] = "barrier" PROVE verdict'[pos'[r]] # "raised"
    <3>1. CASE stage[r] = "barrier" /\ pos'[r] = pos[r]
      BY <1>3, <3>1 DEF InStep
    <3>2. CASE GoToBarrier(r)
      <4>1. pos' = pos /\ stage[r] \in {"joining", "loaded"}
            /\ (stage[r] = "loaded" => verdict[pos[r]] = "ok")
        BY <3>2 DEF GoToBarrier, MayPass
      <4>. QED
        BY <1>3, <4>1 DEF InStep, Behind, Placed, PlacedAt
    <3>3. ASSUME NEW p \in Ranks,
                 Register(p) \/ Unregister(p) \/ Gather(p) \/ Call(p) \/ Bind(p) \/ SkipBarrier(p) \/ Return(p)
          PROVE  stage[r] = "barrier" /\ pos'[r] = pos[r]
      BY <2>2, <3>3 DEF Register, Unregister, Gather, Call, Bind, SkipBarrier, Return, Leaves, Begin, MoveTo,
                        SyncTypeOK
    <3>4. ASSUME NEW p \in Ranks, p # r, GoToBarrier(p) PROVE stage[r] = "barrier" /\ pos'[r] = pos[r]
      BY <2>2, <3>4 DEF GoToBarrier, MoveTo
    <3>5. ASSUME NEW u \in Calls, Collective(u) PROVE stage[r] = "barrier" /\ pos'[r] = pos[r]
      BY <2>2, <3>5 DEF Collective, Gathered, Sized, Loaded, MoveTo
    <3>6. (\E p \in Ranks : InBarrier(p) \/ GiveUp(p)) \/ AllDone \/ UNCHANGED allVars => pos' = pos /\ stage' = stage
      BY DEF InBarrier, GiveUp, AllDone, allVars, syncVars
    <3>. QED
      BY <2>2, <3>1, <3>2, <3>3, <3>4, <3>5, <3>6 DEF SyncNext, SyncStep
  <2>. QED
    BY <1>1, <2>1, <2>2 DEF InStep, CountsOf
<1>4. (\E u \in Calls : Loaded(u)) \/ verdict' = verdict
  BY DEF SyncNext, SyncStep, Collective, Register, Unregister, Gather, Call, Bind, GoToBarrier, SkipBarrier,
         Return, Leaves, InBarrier, GiveUp, Gathered, Sized, AllDone, allVars, syncVars
<1>. QED
  BY <1>2, <1>3, <1>4

\* A rank that is past a barrier has the others at it.
LEMMA SynchronizedByCount == SyncTypeOK /\ BarrierInv /\ Placed /\ InStep => UpdatesSynchronized
<1>. SUFFICES ASSUME SyncTypeOK, BarrierInv, Placed, InStep,
                     NEW r \in Ranks, stage[r] = "barrier", at[r] = "out", NEW q \in Ranks
              PROVE  pos[q] > pos[r] \/ (pos[q] = pos[r] /\ stage[q] \in {"barrier", "idle"})
  BY DEF UpdatesSynchronized
<1>1. pos[r] \in Calls /\ BarrierOf(pos[r]) /\ Script[pos[r]].op = "update" /\ Passed(r) = pos[r]
  BY DEF Placed, PlacedAt, InStep, BarrierOf, Passed, Sending
<1>2. count[q] >= count[r]
  BY BarrierInvHolds DEF BarrierHolds, Inside
<1>3. pos[q] \in Nat /\ pos[r] \in Nat /\ Passed(q) \in Int
      /\ (stage[q] \in Sending \cup {"joining"} => Passed(q) = pos[q] - 1 /\ pos[q] \in Nat \ {0})
      /\ (stage[q] \notin Sending \cup {"joining"} => Passed(q) = pos[q])
  BY Integral, ScriptFacts DEF Placed, PlacedAt, Passed, Sending
<1>4. Passed(q) \in Nat
  BY <1>3
<1>5. Passed(q) >= pos[r]
  <2>. SUFFICES ASSUME Passed(q) < pos[r] PROVE FALSE
    BY <1>3, <1>4
  <2>1. /\ Cardinality(BarriersUpTo(Passed(q))) < Cardinality(BarriersUpTo(pos[r]))
        /\ Cardinality(BarriersUpTo(Passed(q))) \in Nat /\ Cardinality(BarriersUpTo(pos[r])) \in Nat
    BY <1>1, <1>3, <1>4, BarrierCounts
  <2>. QED
    BY <1>1, <1>2, <2>1 DEF InStep
<1>6. CASE pos[q] = pos[r]
  <2>1. stage[q] \notin Sending \cup {"joining"}
    BY <1>3, <1>5, <1>6
  <2>2. stage[q] # "gathering"
    BY <1>1, <1>6 DEF Placed, PlacedAt
  <2>. QED
    BY <1>6, <2>1, <2>2 DEF SyncTypeOK, Stages
<1>. QED
  BY <1>3, <1>5, <1>6

\* The inductive invariant of updates that raise on all ranks or on none.
LEMMA InStepInductive == RaiseTogether => (SyncSpec => []InStep)
<1>. SUFFICES ASSUME RaiseTogether PROVE SyncSpec => []InStep
  OBVIOUS
<1>1. SyncTypeOK /\ BarrierInv /\ Placed /\ InStep /\ [SyncNext]_allVars => InStep'
  BY InStepStep
<1>. QED
  BY <1>1, InStepInit, SyncInductive, PTL DEF SyncSpec

\* No rank is past an update before all have reached its barrier, if every update
\* that raises does so on all ranks.
THEOREM UpdatesInStep == RaiseTogether => (SyncSpec => []UpdatesSynchronized)
<1>. SUFFICES ASSUME RaiseTogether PROVE SyncSpec => []UpdatesSynchronized
  OBVIOUS
<1>. QED
  BY SynchronizedByCount, InStepInductive, SyncInductive, PTL

-----------------------------------------------------------------------------
(* With patience: no barrier times out, and what is read is current.       *)

\* The barriers a rank has passed, as a natural number of calls.
LEMMA PassedFacts ==
    ASSUME SyncTypeOK, Placed, NEW r \in Ranks
    PROVE  /\ pos[r] \in Nat /\ Passed(r) \in Nat /\ Passed(r) <= pos[r]
           /\ stage[r] \in {"idle", "gathering", "barrier"} => Passed(r) = pos[r]
           /\ pos[r] # 0 => Passed(r) >= pos[r] - 1
<1>1. pos[r] \in Nat /\ (stage[r] \in Sending \cup {"joining"} => pos[r] \in Nat \ {0})
  BY Integral, ScriptFacts DEF Placed, PlacedAt, Sending
<1>2. CASE stage[r] \in Sending \cup {"joining"}
  BY <1>1, <1>2 DEF Passed, Sending
<1>3. CASE stage[r] \notin Sending \cup {"joining"}
  BY <1>1, <1>3 DEF Passed, Sending
<1>. QED
  BY <1>2, <1>3

\* Who waits while all others are past the update, or wait in it, too, waits for
\* a key that is there: the barrier does not time out.
LEMMA NobodyGivesUp ==
    ASSUME Patient, SyncTypeOK, BarrierInv, Awaited, Placed, InStep, Together,
           NEW r \in Ranks, GiveUp(r)
    PROVE  FALSE
<1>1. stage[r] = "barrier" /\ at[r] = "wait" /\ count[r] \notin announced
  BY DEF GiveUp, TimeOut
<1>2. \A q \in Ranks : pos[q] > pos[r] \/ (pos[q] = pos[r] /\ (stage[q] = "idle" \/ at[q] = "wait"))
  BY DEF GiveUp
<1>3. pos[r] \in Calls /\ BarrierOf(pos[r]) /\ Passed(r) = pos[r]
  BY <1>1, PassedFacts DEF Placed, PlacedAt, InStep, BarrierOf
<1>4. ASSUME NEW q \in Ranks PROVE count[q] >= count[r]
  <2>1. Passed(q) \in Nat /\ pos[r] \in Nat /\ Passed(q) >= pos[r]
    <3>1. CASE pos[q] > pos[r]
      BY <3>1, PassedFacts
    <3>2. CASE pos[q] = pos[r] /\ (stage[q] = "idle" \/ at[q] = "wait")
      <4>1. stage[q] \in {"idle", "barrier"}
        BY <3>2 DEF Placed, PlacedAt
      <4>. QED
        BY <3>2, <4>1, PassedFacts
    <3>. QED
      BY <1>2, <3>1, <3>2
  <2>2. Cardinality(BarriersUpTo(pos[r])) <= Cardinality(BarriersUpTo(Passed(q)))
    BY <2>1, BarrierCounts
  <2>. QED
    BY <1>3, <2>2 DEF InStep
<1>5. ASSUME NEW q \in Ranks, count[q] = count[r] PROVE at[q] \notin {"entered", "announce"}
  <2>. SUFFICES ASSUME at[q] \in {"entered", "announce"} PROVE FALSE
    OBVIOUS
  <2>1. stage[q] = "barrier" /\ pos[q] \in Calls /\ BarrierOf(pos[q]) /\ Passed(q) = pos[q]
    BY PassedFacts DEF Placed, PlacedAt, InStep, BarrierOf
  <2>2. pos[q] > pos[r]
    BY <1>2, <2>1
  <2>3. /\ Cardinality(BarriersUpTo(pos[r])) < Cardinality(BarriersUpTo(pos[q]))
        /\ Cardinality(BarriersUpTo(pos[r])) \in Nat /\ Cardinality(BarriersUpTo(pos[q])) \in Nat
    BY <2>1, <2>2, PassedFacts, BarrierCounts
  <2>. QED
    BY <1>3, <1>5, <2>1, <2>3 DEF InStep
<1>. QED
  BY <1>1, <1>4, <1>5, AwaitedEnds DEF WaitEnds

LEMMA TogetherInit == SyncInit => Together
<1>. SUFFICES ASSUME SyncInit PROVE Together
  OBVIOUS
<1>1. \A r \in Ranks, u \in Calls : ~Finished(r, u) /\ at[r] # "raised"
  BY ScriptFacts DEF SyncInit, BarrierInit, Finished
<1>2. \A r \in Ranks : at[r] # "raised"
  BY DEF SyncInit, BarrierInit
<1>. QED
  BY <1>1, <1>2 DEF Together

LEMMA TogetherStep ==
    ASSUME Patient, SyncTypeOK, BarrierInv, Awaited, Placed, InStep, Together, [SyncNext]_allVars
    PROVE  Together'
<1>1. ASSUME NEW r \in Ranks PROVE at'[r] # "raised"
  <2>1. ASSUME NEW q \in Ranks, Enter(q) \/ Inner(q) PROVE at'[r] # "raised"
    BY <2>1 DEF Enter, Inner, ReadTally, Announce, Leave, DeleteCounter, DeleteAnnouncement, Together,
                BarrierInv, BarrierTypeOK
  <2>2. ASSUME at' = at PROVE at'[r] # "raised"
    BY <2>2 DEF Together
  <2>3. ASSUME NEW q \in Ranks, GoToBarrier(q) \/ InBarrier(q) PROVE Enter(q) \/ Inner(q)
    BY <2>3 DEF GoToBarrier, InBarrier
  <2>4. ASSUME NEW q \in Ranks,
               Register(q) \/ Unregister(q) \/ Gather(q) \/ Call(q) \/ Bind(q) \/ SkipBarrier(q) \/ Return(q)
        PROVE  at' = at
    BY <2>4 DEF Register, Unregister, Gather, Call, Bind, SkipBarrier, Return, Leaves, barrierVars
  <2>5. (\E u \in Calls : Collective(u)) \/ AllDone \/ UNCHANGED allVars => at' = at
    BY DEF Collective, Gathered, Sized, Loaded, AllDone, allVars, barrierVars
  <2>. QED
    BY <2>1, <2>2, <2>3, <2>4, <2>5, NobodyGivesUp DEF SyncNext, SyncStep
<1>2. ASSUME NEW r \in Ranks, NEW u \in Calls, Script[u].op = "update", Finished(r, u)', NEW q \in Ranks
      PROVE  ~Behind(q, u)
  <2>0. pos[r] \in Nat /\ u \in Nat
    BY Integral, ScriptFacts
  <2>1. CASE Finished(r, u)
    BY <1>2, <2>1 DEF Together
  <2>2. ASSUME NEW p \in Ranks, Register(p) \/ Unregister(p) \/ Gather(p) \/ Call(p) PROVE Finished(r, u)
    <3>1. CASE p # r
      <4>1. pos'[r] = pos[r] /\ stage'[r] = stage[r]
        BY <2>2, <3>1 DEF Register, Unregister, Gather, Call, Begin, MoveTo, SyncTypeOK
      <4>. QED
        BY <1>2, <4>1 DEF Finished
    <3>2. CASE p = r
      <4>1. /\ pos'[r] = pos[r] + 1 /\ stage[r] = "idle"
            /\ stage'[r] = "idle" => Script[pos[r] + 1].op # "update"
        BY <2>2, <3>2 DEF Register, Unregister, Gather, Call, Begin, MoveTo, SyncTypeOK
      <4>. QED
        BY <1>2, <2>0, <4>1 DEF Finished
    <3>. QED
      BY <3>1, <3>2
  <2>3. ASSUME NEW p \in Ranks, Bind(p) \/ GoToBarrier(p) \/ InBarrier(p) PROVE Finished(r, u)
    <3>1. pos' = pos /\ (stage'[r] = stage[r] \/ stage'[r] \in {"loading", "barrier"})
      BY <2>3 DEF Bind, GoToBarrier, InBarrier, MoveTo, syncVars, SyncTypeOK
    <3>. QED
      BY <1>2, <3>1 DEF Finished
  <2>4. ASSUME NEW p \in Ranks, SkipBarrier(p), ~Finished(r, u) PROVE ~Behind(q, u)
    <3>1. pos' = pos /\ verdict[pos[p]] = "raised" /\ \A m \in Ranks : m # p => stage'[m] = stage[m]
      BY <2>4 DEF SkipBarrier, Leaves, MoveTo
    <3>2. p = r /\ u = pos[r]
      BY <1>2, <2>4, <3>1 DEF Finished
    <3>. QED
      BY <3>1, <3>2 DEF InStep
  <2>5. ASSUME NEW p \in Ranks, Return(p), ~Finished(r, u) PROVE ~Behind(q, u)
    <3>1. /\ pos' = pos /\ stage[p] = "barrier" /\ at[p] \in {"out", "raised"}
          /\ \A m \in Ranks : m # p => stage'[m] = stage[m]
      BY <2>5 DEF Return, Leaves, MoveTo
    <3>2. p = r /\ u = pos[r]
      BY <1>2, <2>5, <3>1 DEF Finished
    <3>3. at[r] = "out"
      BY <3>1, <3>2 DEF Together
    <3>4. pos[q] > pos[r] \/ (pos[q] = pos[r] /\ stage[q] \in {"barrier", "idle"})
      BY <3>1, <3>2, <3>3, SynchronizedByCount DEF UpdatesSynchronized
    <3>. QED
      BY <3>2, <3>4, Integral DEF Behind
  <2>6. ASSUME NEW v \in Calls, Collective(v) PROVE Finished(r, u)
    <3>1. pos' = pos /\ (stage'[r] = stage[r] \/ stage[r] = "gathering" \/ stage'[r] \in {"binding", "loaded"})
      BY <2>6 DEF Collective, Gathered, Sized, Loaded, AllAt, MoveTo
    <3>2. stage[r] = "gathering" => u # pos[r]
      BY <1>2 DEF Placed, PlacedAt
    <3>. QED
      BY <1>2, <3>1, <3>2 DEF Finished
  <2>7. AllDone \/ UNCHANGED allVars => Finished(r, u)
    BY <1>2 DEF AllDone, allVars, syncVars, Finished
  <2>. QED
    BY <2>1, <2>2, <2>3, <2>4, <2>5, <2>6, <2>7, NobodyGivesUp DEF SyncNext, SyncStep
<1>3. ASSUME NEW r \in Ranks, NEW u \in Calls, Script[u].op = "update", Finished(r, u)', NEW q \in Ranks
      PROVE  ~Behind(q, u)'
  BY <1>2, <1>3, Onward
<1>. QED
  BY <1>1, <1>3 DEF Together

LEMMA TogetherInductive == Patient /\ RaiseTogether => (SyncSpec => []Together)
<1>. SUFFICES ASSUME Patient, RaiseTogether PROVE SyncSpec => []Together
  OBVIOUS
<1>1. SyncTypeOK /\ BarrierInv /\ Awaited /\ Placed /\ InStep /\ Together /\ [SyncNext]_allVars => Together'
  BY TogetherStep
<1>. QED
  BY <1>1, TogetherInit, SyncInductive, InStepInductive, BarrierOfUpdates, PTL DEF SyncSpec

\* A barrier that outlasts the loading of the weights never times out, if every
\* update that raises does so on all ranks.
THEOREM NoBarrierTimesOut == Patient /\ RaiseTogether => (SyncSpec => []NoSpuriousFailure)
<1>. SUFFICES ASSUME Patient, RaiseTogether PROVE SyncSpec => []NoSpuriousFailure
  OBVIOUS
<1>1. Together => NoSpuriousFailure
  BY DEF Together, NoSpuriousFailure
<1>. QED
  BY <1>1, TogetherInductive, PTL

\* Nothing of what rank r has gathered since call g has become unknown to it.
LEMMA RememberedKept ==
    ASSUME SyncTypeOK, NEW r \in Ranks, NEW g \in Calls, GatheredAt(r, g),
           metas'[r] = metas[r],
           \A o \in Ranks : pos'[o] \in Nat /\ pos'[o] >= pos[o],
           \A o \in Ranks : held'[o] = held[o]
                            \/ (pos'[o] = pos[o] + 1 /\ pos'[o] \in Calls /\ ChangesMemory(pos'[o])),
           \/ pos'[r] = pos[r] /\ stage'[r] = stage[r]
           \/ pos'[r] = pos[r] /\ stage[r] # "gathering"
           \/ pos'[r] = pos[r] + 1 /\ stage[r] # "gathering" /\ ~IsGather(pos'[r])
           \/ pos'[r] = pos[r] + 1 /\ stage[r] # "gathering" /\ stage'[r] = "gathering"
    PROVE  GatheredAt(r, g)'
<1>0. \A o \in Ranks : pos[o] \in Nat /\ pos[o] >= g /\ g \in Nat
  BY Integral, ScriptFacts DEF GatheredAt
<1>1. IsGather(g)' /\ \A o \in Ranks : pos'[o] >= g
  BY <1>0 DEF GatheredAt, IsGather
<1>2. ASSUME NEW h \in Calls, g < h, h <= pos'[r], IsGather(h) PROVE h = pos'[r] /\ stage'[r] = "gathering"
  <2>1. h \in Nat /\ (h <= pos[r] => h = pos[r] /\ stage[r] = "gathering")
    BY <1>2, ScriptFacts DEF GatheredAt
  <2>. QED
    BY <1>0, <1>2, <2>1
<1>3. ASSUME NEW o \in Ranks
      PROVE  metas'[r][o] = held'[o] \/ \E k \in Calls : g < k /\ k <= pos'[o] /\ ChangesMemory(k)
  <2>1. CASE held'[o] = held[o]
    <3>1. \A k \in Calls : k \in Nat /\ (k <= pos[o] => k <= pos'[o])
      BY <1>0, ScriptFacts
    <3>. QED
      BY <2>1, <3>1 DEF GatheredAt
  <2>2. CASE pos'[o] = pos[o] + 1 /\ pos'[o] \in Calls /\ ChangesMemory(pos'[o])
    <3>1. g < pos'[o] /\ pos'[o] <= pos'[o]
      BY <1>0, <2>2
    <3>. QED
      BY <2>2, <3>1
  <2>. QED
    BY <2>1, <2>2
<1>. QED
  BY <1>1, <1>2, <1>3 DEF GatheredAt, IsGather, ChangesMemory

LEMMA RememberedStep ==
    ASSUME SyncTypeOK, Placed, Remembered, [SyncNext]_allVars
    PROVE  Remembered'
<1>0. \A o \in Ranks : pos[o] \in Nat /\ (stage[o] = "gathering" => IsGather(pos[o]))
  BY Integral DEF Placed, PlacedAt, IsGather
<1>1. ASSUME NEW p \in Ranks, Register(p) \/ Unregister(p) \/ Gather(p) \/ Call(p), NEW r \in Ranks
      PROVE  (\A o \in Ranks : metas'[r][o] = 0) \/ \E g \in Calls : GatheredAt(r, g)'
  <2>1. /\ metas' = metas /\ stage[p] = "idle"
        /\ pos'[p] = pos[p] + 1 /\ pos[p] + 1 \in Calls
        /\ \A o \in Ranks : o # p => pos'[o] = pos[o] /\ held'[o] = held[o] /\ stage'[o] = stage[o]
        /\ held'[p] = held[p] \/ ChangesMemory(pos[p] + 1)
        /\ stage'[p] = "gathering" \/ ~IsGather(pos[p] + 1)
    BY <1>1, ScriptFacts DEF Register, Unregister, Gather, Call, Begin, MoveTo, SyncTypeOK, memoryVars, IsGather,
                             ChangesMemory
  <2>2. \A o \in Ranks : pos'[o] \in Nat /\ pos'[o] >= pos[o]
    BY <1>0, <2>1
  <2>3. \A g \in Calls : GatheredAt(r, g) => GatheredAt(r, g)'
    <3>1. CASE r = p
      BY <2>1, <2>2, <3>1, RememberedKept
    <3>2. CASE r # p
      BY <2>1, <2>2, <3>2, RememberedKept
    <3>. QED
      BY <3>1, <3>2
  <2>. QED
    BY <2>1, <2>3 DEF Remembered
<1>2. ASSUME pos' = pos, held' = held, metas' = metas,
             \A q \in Ranks : stage'[q] = stage[q] \/ stage[q] # "gathering",
             NEW r \in Ranks
      PROVE  (\A o \in Ranks : metas'[r][o] = 0) \/ \E g \in Calls : GatheredAt(r, g)'
  <2>1. \A g \in Calls : GatheredAt(r, g) => GatheredAt(r, g)'
    <3>1. \A o \in Ranks : pos'[o] \in Nat /\ pos'[o] >= pos[o]
      BY <1>0, <1>2
    <3>. QED
      BY <1>2, <3>1, RememberedKept
  <2>. QED
    BY <1>2, <2>1 DEF Remembered
<1>3. ASSUME NEW u \in Calls, Gathered(u), NEW r \in Ranks PROVE GatheredAt(r, u)'
  <2>1. /\ pos' = pos /\ held' = held /\ \A q \in Ranks : metas'[q] = held
        /\ \A q \in Ranks : pos[q] = u /\ stage[q] = "gathering"
    BY <1>3 DEF Gathered, AllAt
  <2>2. IsGather(u)'
    BY <1>0, <2>1 DEF IsGather
  <2>3. \A q \in Ranks : pos'[q] >= u /\ \A h \in Calls : ~(u < h /\ h <= pos'[q])
    BY <2>1, ScriptFacts
  <2>. QED
    BY <2>1, <2>2, <2>3 DEF GatheredAt
<1>4. ASSUME NEW p \in Ranks, Bind(p) \/ GoToBarrier(p) \/ SkipBarrier(p) \/ Return(p) \/ InBarrier(p) \/ GiveUp(p)
      PROVE  /\ pos' = pos /\ held' = held /\ metas' = metas
             /\ \A q \in Ranks : stage'[q] = stage[q] \/ stage[q] # "gathering"
  BY <1>4 DEF Bind, GoToBarrier, MayPass, SkipBarrier, Return, Leaves, InBarrier, GiveUp, MoveTo, syncVars,
              memoryVars
<1>5. ASSUME NEW u \in Calls, Sized(u) \/ Loaded(u)
      PROVE  /\ pos' = pos /\ held' = held /\ metas' = metas
             /\ \A q \in Ranks : stage'[q] = stage[q] \/ stage[q] # "gathering"
  BY <1>5 DEF Sized, Loaded, AllAt, MoveTo, memoryVars
<1>6. AllDone \/ UNCHANGED allVars => pos' = pos /\ held' = held /\ metas' = metas /\ stage' = stage
  BY DEF AllDone, allVars, syncVars, memoryVars
<1>. QED
  BY <1>1, <1>2, <1>3, <1>4, <1>5, <1>6 DEF SyncNext, SyncStep, Collective, Remembered

LEMMA RememberedInductive == SyncSpec => []Remembered
<1>1. SyncInit => Remembered
  BY DEF SyncInit, Remembered
<1>2. SyncTypeOK /\ Placed /\ Remembered /\ [SyncNext]_allVars => Remembered'
  BY RememberedStep
<1>. QED
  BY <1>1, <1>2, SyncInductive, PTL DEF SyncSpec

\* Who loads has everybody in the same update, or still before it.
LEMMA CurrentByOrder ==
    GathersAgain /\ SyncTypeOK /\ Placed /\ Remembered /\ Together => ReadsCurrent
<1>. SUFFICES ASSUME GathersAgain, SyncTypeOK, Placed, Remembered, Together,
                     NEW r \in Ranks, NEW o \in Ranks, stage[r] = "loading", metas[r][o] # 0
              PROVE  held[o] = metas[r][o]
  BY DEF ReadsCurrent
<1>1. PICK u \in Calls : u = pos[r] /\ Script[u].op = "update"
  BY DEF Placed, PlacedAt
<1>2. Behind(r, u)
  BY <1>1 DEF Behind
<1>3. ~(u < pos[o])
  BY <1>1, <1>2 DEF Together, Finished
<1>4. PICK g \in Calls : GatheredAt(r, g)
  BY DEF Remembered
<1>5. ASSUME NEW k \in Calls, g < k, k <= pos[o], ChangesMemory(k) PROVE FALSE
  <2>1. pos[o] \in Nat /\ u \in Nat /\ k \in Nat /\ k # u
    BY <1>1, <1>5, Integral, ScriptFacts DEF ChangesMemory
  <2>2. k < u
    BY <1>3, <1>5, <2>1
  <2>3. PICK h \in Calls : k < h /\ h < u /\ IsGather(h)
    BY <1>1, <1>4, <1>5, <2>2 DEF GathersAgain, GatheredAt
  <2>4. g < h /\ h <= pos[r] /\ h # pos[r]
    BY <1>1, <1>5, <2>1, <2>3, ScriptFacts
  <2>. QED
    BY <1>4, <2>3, <2>4 DEF GatheredAt
<1>. QED
  BY <1>4, <1>5 DEF GatheredAt

\* What a member reads while it loads is what its metas describe, if a changed
\* registration is gathered before it is used, and under the conditions above.
THEOREM NoStaleRead == Patient /\ RaiseTogether /\ GathersAgain => (SyncSpec => []ReadsCurrent)
<1>. SUFFICES ASSUME Patient, RaiseTogether, GathersAgain PROVE SyncSpec => []ReadsCurrent
  OBVIOUS
<1>. QED
  BY CurrentByOrder, RememberedInductive, TogetherInductive, SyncInductive, PTL

-----------------------------------------------------------------------------
(* Process groups: what the prefix counts, and who has met whom.           *)

LEMMA LeftOpenStep ==
    ASSUME NEW n \in Nat, n + 1 \in Calls
    PROVE  LeftOpen(n + 1) <=> IsGather(n + 1) \/ (LeftOpen(n) /\ Script[n + 1].op # "update")
<1>0. Calls \subseteq Nat
  BY ScriptFacts
<1>1. ASSUME IsGather(n + 1) PROVE LeftOpen(n + 1)
  <2>1. \A v \in Calls : ~(n + 1 < v /\ v <= n + 1)
    BY <1>0
  <2>. QED
    BY <1>1, <2>1 DEF LeftOpen
<1>2. ASSUME LeftOpen(n), Script[n + 1].op # "update" PROVE LeftOpen(n + 1)
  <2>1. PICK g \in Calls : g <= n /\ IsGather(g) /\ \A v \in Calls : g < v /\ v <= n => Script[v].op # "update"
    BY <1>2 DEF LeftOpen
  <2>2. \A v \in Calls : v <= n + 1 => v <= n \/ v = n + 1
    BY <1>0
  <2>3. g <= n + 1
    BY <1>0, <2>1
  <2>. QED
    BY <1>2, <2>1, <2>2, <2>3 DEF LeftOpen
<1>3. ASSUME LeftOpen(n + 1), ~IsGather(n + 1) PROVE LeftOpen(n) /\ Script[n + 1].op # "update"
  <2>1. PICK g \in Calls : /\ g <= n + 1 /\ IsGather(g)
                           /\ \A v \in Calls : g < v /\ v <= n + 1 => Script[v].op # "update"
    BY <1>3 DEF LeftOpen
  <2>2. g <= n /\ g < n + 1 /\ n + 1 <= n + 1
    BY <1>0, <1>3, <2>1
  <2>3. \A v \in Calls : v <= n => v <= n + 1
    BY <1>0
  <2>. QED
    BY <2>1, <2>2, <2>3 DEF LeftOpen
<1>. QED
  BY <1>1, <1>2, <1>3

\* The number of groups up to a call grows with the call.
LEMMA OpeningCounts ==
    ASSUME NEW m \in Nat, NEW n \in Nat, m <= n
    PROVE  /\ Cardinality(OpeningsUpTo(m)) \in Nat /\ Cardinality(OpeningsUpTo(n)) \in Nat
           /\ \A u \in Calls : m < u /\ u <= n /\ Opens(u) =>
                  Cardinality(OpeningsUpTo(m)) < Cardinality(OpeningsUpTo(n))
<1>1. OpeningsUpTo(n) \in SUBSET Calls /\ OpeningsUpTo(m) \in SUBSET OpeningsUpTo(n)
  <2>1. \A u \in Calls : u \in Nat /\ (u <= m => u <= n)
    BY ScriptFacts
  <2>. QED
    BY <2>1 DEF OpeningsUpTo
<1>2. IsFiniteSet(OpeningsUpTo(n))
  BY <1>1, CallsFinite, FS_Subset
<1>3. IsFiniteSet(OpeningsUpTo(m)) /\ Cardinality(OpeningsUpTo(m)) <= Cardinality(OpeningsUpTo(n))
      /\ (Cardinality(OpeningsUpTo(n)) = Cardinality(OpeningsUpTo(m)) => OpeningsUpTo(n) = OpeningsUpTo(m))
  BY <1>1, <1>2, FS_Subset
<1>4. Cardinality(OpeningsUpTo(m)) \in Nat /\ Cardinality(OpeningsUpTo(n)) \in Nat
  BY <1>2, <1>3, FS_CardinalityType
<1>5. ASSUME NEW u \in Calls, m < u, u <= n, Opens(u) PROVE OpeningsUpTo(n) # OpeningsUpTo(m)
  <2>1. u \in OpeningsUpTo(n) /\ u \notin OpeningsUpTo(m)
    BY <1>5, ScriptFacts DEF OpeningsUpTo
  <2>. QED
    BY <2>1
<1>. QED
  BY <1>3, <1>4, <1>5

\* A call adds one if it opens a group.
LEMMA OpeningCountStep ==
    ASSUME NEW n \in Nat, n + 1 \in Calls
    PROVE  Cardinality(OpeningsUpTo(n + 1)) = Cardinality(OpeningsUpTo(n)) + (IF Opens(n + 1) THEN 1 ELSE 0)
<1>0. Calls \subseteq Nat
  BY ScriptFacts
<1>1. OpeningsUpTo(n) \in SUBSET Calls
  BY DEF OpeningsUpTo
<1>2. IsFiniteSet(OpeningsUpTo(n)) /\ Cardinality(OpeningsUpTo(n)) \in Nat
  BY <1>1, CallsFinite, FS_Subset, FS_CardinalityType
<1>3. n + 1 \notin OpeningsUpTo(n)
  BY DEF OpeningsUpTo
<1>4. \A v \in Calls : v <= n + 1 <=> v <= n \/ v = n + 1
  BY <1>0
<1>5. CASE Opens(n + 1)
  <2>1. OpeningsUpTo(n + 1) = OpeningsUpTo(n) \cup {n + 1}
    BY <1>4, <1>5 DEF OpeningsUpTo
  <2>. QED
    BY <1>2, <1>3, <1>5, <2>1, FS_AddElement
<1>6. CASE ~Opens(n + 1)
  <2>1. OpeningsUpTo(n + 1) = OpeningsUpTo(n)
    BY <1>4, <1>6 DEF OpeningsUpTo
  <2>. QED
    BY <1>2, <1>6, <2>1
<1>. QED
  BY <1>5, <1>6

\* Between an update and a later call that needs a group, a group is opened.
LEMMA OpeningBetween ==
    ASSUME NEW v \in Calls, NEW u \in Calls, v < u, Script[v].op = "update", NeedsGroup(u)
    PROVE  \E o \in Calls : v < o /\ o <= u /\ Opens(o)
<1>. DEFINE less == OpToRel(<, Nat)
            Later == {o \in Calls : v < o /\ NeedsGroup(o)}
<1>0. Calls \subseteq Nat \ {0}
  BY ScriptFacts
<1>1. IsWellFoundedOn(less, Nat)
  BY NatLessThanWellFounded
<1>2. u \in Later /\ Later \in SUBSET Nat
  BY <1>0
<1>. HIDE DEF less, Later
<1>3. PICK o \in Later : \A p \in Later : ~(<<p, o>> \in less)
  BY <1>1, <1>2, WFMin
<1>4. o \in Calls /\ v < o /\ NeedsGroup(o) /\ o \in Nat /\ u \in Nat
  BY <1>0, <1>3 DEF Later
<1>5. \A p \in Later : ~(p < o)
  BY <1>2, <1>3, <1>4 DEF OpToRel, less
<1>6. o <= u
  BY <1>2, <1>4, <1>5
<1>7. ASSUME NEW g \in Calls, g <= o - 1, IsGather(g) PROVE g < v
  <2>1. g \in Nat /\ v \in Nat /\ g < o
    BY <1>0, <1>4, <1>7
  <2>2. g \notin Later
    BY <1>5, <2>1
  <2>3. NeedsGroup(g) /\ g # v
    BY <1>7 DEF NeedsGroup, IsGather
  <2>. QED
    BY <2>1, <2>2, <2>3 DEF Later
<1>8. v <= o - 1
  BY <1>0, <1>4
<1>9. ~LeftOpen(o - 1)
  BY <1>7, <1>8 DEF LeftOpen
<1>. QED
  BY <1>4, <1>6, <1>9 DEF Opens

\* When rank r has met the others in a call, they are out of every update before it.
LEMMA MetAfterUpdate ==
    ASSUME SyncTypeOK, Grouped, NEW r \in Ranks, NEW q \in Ranks, Joined(r),
           pos[r] \in Calls, NeedsGroup(pos[r]), NEW v \in Calls, v < pos[r], Script[v].op = "update"
    PROVE  Finished(q, v)
<1>1. PICK o \in Calls : v < o /\ o <= pos[r] /\ Opens(o)
  BY OpeningBetween
<1>2. pos[r] \in Nat /\ pos[q] \in Nat /\ o \in Nat /\ v \in Nat
  BY Integral, ScriptFacts
<1>3. prefix[q] >= prefix[r]
  BY DEF Joined
<1>4. CASE pos[q] < o
  <2>1. pos[q] <= pos[r]
    BY <1>1, <1>2, <1>4
  <2>2. /\ Cardinality(OpeningsUpTo(pos[q])) < Cardinality(OpeningsUpTo(pos[r]))
        /\ Cardinality(OpeningsUpTo(pos[q])) \in Nat /\ Cardinality(OpeningsUpTo(pos[r])) \in Nat
    BY <1>1, <1>2, <1>4, <2>1, OpeningCounts
  <2>. QED
    BY <1>3, <2>2 DEF Grouped
<1>5. CASE ~(pos[q] < o)
  <2>1. v < pos[q]
    BY <1>1, <1>2, <1>5
  <2>. QED
    BY <2>1 DEF Finished
<1>. QED
  BY <1>4, <1>5

\* What a step does to the place of a rank: it begins a call, or goes on in one.
LEMMA Moves ==
    ASSUME SyncTypeOK, Placed, [SyncNext]_allVars, NEW q \in Ranks
    PROVE  \/ pos'[q] = pos[q] /\ stage'[q] = stage[q]
           \/ /\ pos'[q] = pos[q] + 1 /\ stage[q] = "idle" /\ pos[q] + 1 \in Calls
              /\ \/ stage'[q] = "idle" /\ ~NeedsGroup(pos[q] + 1)
                 \/ stage'[q] = "gathering" /\ IsGather(pos[q] + 1)
                 \/ stage'[q] = "joining" /\ Script[pos[q] + 1].op = "update"
           \/ pos'[q] = pos[q] /\ stage[q] \in {"gathering", "joining"} /\ Joined(q)
           \/ pos'[q] = pos[q] /\ stage[q] \in {"binding", "loading", "loaded", "barrier"}
              /\ stage'[q] \notin {"gathering", "joining"}
<1>0. \A u \in Calls : Members(u) \subseteq Ranks
  BY ScriptFacts
<1>1. ASSUME NEW r \in Ranks, Register(r) \/ Unregister(r) \/ Gather(r) \/ Call(r)
      PROVE  \/ pos'[q] = pos[q] /\ stage'[q] = stage[q]
             \/ /\ pos'[q] = pos[q] + 1 /\ stage[q] = "idle" /\ pos[q] + 1 \in Calls
                /\ \/ stage'[q] = "idle" /\ ~NeedsGroup(pos[q] + 1)
                   \/ stage'[q] = "gathering" /\ IsGather(pos[q] + 1)
                   \/ stage'[q] = "joining" /\ Script[pos[q] + 1].op = "update"
  <2>1. CASE q # r
    BY <1>1, <2>1 DEF Register, Unregister, Gather, Call, Begin, MoveTo, SyncTypeOK
  <2>2. CASE q = r
    <3>1. pos'[q] = pos[q] + 1 /\ stage[q] = "idle" /\ pos[q] < Len(Script)
      BY <1>1, <2>2 DEF Register, Unregister, Gather, Call, Begin, SyncTypeOK
    <3>2. pos[q] + 1 \in Calls
      BY <3>1, ScriptFacts DEF SyncTypeOK
    <3>3. \/ stage'[q] = "idle" /\ Script[pos[q] + 1].op \in {"register", "unregister"}
          \/ stage'[q] = "gathering" /\ Script[pos[q] + 1].op = "gather"
          \/ stage'[q] = "joining" /\ Script[pos[q] + 1].op = "update"
      BY <1>1, <2>2 DEF Register, Unregister, Gather, Call, Begin, MoveTo
    <3>. QED
      BY <3>1, <3>2, <3>3 DEF NeedsGroup, IsGather
  <2>. QED
    BY <2>1, <2>2
<1>2. ASSUME NEW r \in Ranks, Bind(r) \/ GoToBarrier(r) \/ SkipBarrier(r) \/ Return(r)
      PROVE  \/ pos'[q] = pos[q] /\ stage'[q] = stage[q]
             \/ pos'[q] = pos[q] /\ stage[q] \in {"gathering", "joining"} /\ Joined(q)
             \/ pos'[q] = pos[q] /\ stage[q] \in {"binding", "loading", "loaded", "barrier"}
                /\ stage'[q] \notin {"gathering", "joining"}
  BY <1>2 DEF Bind, GoToBarrier, MayPass, SkipBarrier, Return, Leaves, MoveTo
<1>3. ASSUME NEW u \in Calls, Collective(u)
      PROVE  \/ pos'[q] = pos[q] /\ stage'[q] = stage[q]
             \/ pos'[q] = pos[q] /\ stage[q] \in {"gathering", "joining"} /\ Joined(q)
             \/ pos'[q] = pos[q] /\ stage[q] \in {"binding", "loading", "loaded", "barrier"}
                /\ stage'[q] \notin {"gathering", "joining"}
  BY <1>0, <1>3 DEF Collective, Gathered, Sized, Loaded, AllAt, MoveTo
<1>4. (\E r \in Ranks : InBarrier(r) \/ GiveUp(r)) \/ AllDone \/ UNCHANGED allVars
         => pos'[q] = pos[q] /\ stage'[q] = stage[q]
  BY DEF InBarrier, GiveUp, AllDone, allVars, syncVars
<1>. QED
  BY <1>1, <1>2, <1>3, <1>4 DEF SyncNext, SyncStep

\* A step changes the group of a rank when it begins a call that needs one, or
\* comes to the end of an update.
LEMMA GroupMoves ==
    ASSUME SyncTypeOK, Placed, [SyncNext]_allVars, NEW q \in Ranks
    PROVE  \/ /\ prefix'[q] = prefix[q] /\ open'[q] = open[q]
              /\ \/ pos'[q] = pos[q] /\ stage'[q] = stage[q]
                 \/ /\ pos'[q] = pos[q] + 1 /\ stage[q] = "idle" /\ stage'[q] = "idle"
                    /\ pos[q] + 1 \in Calls /\ ~NeedsGroup(pos[q] + 1)
                 \/ pos'[q] = pos[q] /\ stage[q] # "idle" /\ stage'[q] # "idle"
                 \/ pos'[q] = pos[q] /\ stage[q] = "gathering" /\ stage'[q] = "idle"
           \/ /\ pos'[q] = pos[q] + 1 /\ stage[q] = "idle" /\ stage'[q] # "idle"
              /\ pos[q] + 1 \in Calls /\ NeedsGroup(pos[q] + 1) /\ open'[q] = TRUE
              /\ prefix'[q] = IF open[q] THEN prefix[q] ELSE prefix[q] + 1
           \/ /\ prefix'[q] = prefix[q] /\ open'[q] = FALSE
              /\ pos'[q] = pos[q] /\ stage[q] \in {"loaded", "barrier"} /\ stage'[q] = "idle"
<1>0. \A u \in Calls : Members(u) \subseteq Ranks
  BY ScriptFacts
<1>1. ASSUME NEW r \in Ranks, Register(r) \/ Unregister(r)
      PROVE  /\ prefix'[q] = prefix[q] /\ open'[q] = open[q]
             /\ \/ pos'[q] = pos[q] /\ stage'[q] = stage[q]
                \/ /\ pos'[q] = pos[q] + 1 /\ stage[q] = "idle" /\ stage'[q] = "idle"
                   /\ pos[q] + 1 \in Calls /\ ~NeedsGroup(pos[q] + 1)
  <2>1. prefix' = prefix /\ open' = open /\ stage' = stage
    BY <1>1 DEF Register, Unregister, groupVars
  <2>2. CASE q # r
    BY <1>1, <2>1, <2>2 DEF Register, Unregister, Begin, SyncTypeOK
  <2>3. CASE q = r
    <3>1. /\ pos'[q] = pos[q] + 1 /\ stage[q] = "idle" /\ pos[q] < Len(Script)
          /\ Script[pos[q] + 1].op \in {"register", "unregister"}
      BY <1>1, <2>3 DEF Register, Unregister, Begin, SyncTypeOK
    <3>2. pos[q] + 1 \in Calls
      BY <3>1, ScriptFacts DEF SyncTypeOK
    <3>. QED
      BY <2>1, <3>1, <3>2 DEF NeedsGroup
  <2>. QED
    BY <2>2, <2>3
<1>2. ASSUME NEW r \in Ranks, Gather(r) \/ Call(r)
      PROVE  \/ /\ prefix'[q] = prefix[q] /\ open'[q] = open[q]
                /\ pos'[q] = pos[q] /\ stage'[q] = stage[q]
             \/ /\ pos'[q] = pos[q] + 1 /\ stage[q] = "idle" /\ stage'[q] # "idle"
                /\ pos[q] + 1 \in Calls /\ NeedsGroup(pos[q] + 1) /\ open'[q] = TRUE
                /\ prefix'[q] = IF open[q] THEN prefix[q] ELSE prefix[q] + 1
  <2>1. OpenGroup(r)
    BY <1>2 DEF Gather, Call
  <2>2. CASE q # r
    <3>1. pos'[q] = pos[q] /\ stage'[q] = stage[q]
      BY <1>2, <2>2 DEF Gather, Call, Begin, MoveTo, SyncTypeOK
    <3>2. prefix'[q] = prefix[q] /\ open'[q] = open[q]
      BY <2>1, <2>2 DEF OpenGroup, groupVars, SyncTypeOK
    <3>. QED
      BY <3>1, <3>2
  <2>3. CASE q = r
    <3>1. /\ pos'[q] = pos[q] + 1 /\ stage[q] = "idle" /\ stage'[q] # "idle" /\ pos[q] < Len(Script)
          /\ Script[pos[q] + 1].op \in {"gather", "update"}
      BY <1>2, <2>3 DEF Gather, Call, Begin, MoveTo, SyncTypeOK
    <3>2. pos[q] + 1 \in Calls
      BY <3>1, ScriptFacts DEF SyncTypeOK
    <3>3. CASE open[q]
      BY <2>1, <2>3, <3>1, <3>2, <3>3 DEF NeedsGroup, OpenGroup, groupVars, SyncTypeOK
    <3>4. CASE ~open[q]
      BY <2>1, <2>3, <3>1, <3>2, <3>4 DEF NeedsGroup, OpenGroup, SyncTypeOK
    <3>. QED
      BY <3>3, <3>4
  <2>. QED
    BY <2>2, <2>3
<1>3. ASSUME NEW r \in Ranks, Bind(r) \/ GoToBarrier(r) \/ SkipBarrier(r) \/ Return(r)
      PROVE  \/ /\ prefix'[q] = prefix[q] /\ open'[q] = open[q]
                /\ \/ pos'[q] = pos[q] /\ stage'[q] = stage[q]
                   \/ pos'[q] = pos[q] /\ stage[q] # "idle" /\ stage'[q] # "idle"
             \/ /\ prefix'[q] = prefix[q] /\ open'[q] = FALSE
                /\ pos'[q] = pos[q] /\ stage[q] \in {"loaded", "barrier"} /\ stage'[q] = "idle"
  <2>1. CASE q # r
    BY <1>3, <2>1 DEF Bind, GoToBarrier, SkipBarrier, Return, Leaves, MoveTo, groupVars, SyncTypeOK
  <2>2. CASE q = r /\ (Bind(r) \/ GoToBarrier(r))
    BY <2>2 DEF Bind, GoToBarrier, MayPass, MoveTo, groupVars
  <2>3. CASE q = r /\ (SkipBarrier(r) \/ Return(r))
    BY <2>3 DEF SkipBarrier, Return, Leaves, MoveTo, SyncTypeOK
  <2>. QED
    BY <1>3, <2>1, <2>2, <2>3
<1>4. ASSUME NEW u \in Calls, Collective(u)
      PROVE  /\ prefix'[q] = prefix[q] /\ open'[q] = open[q]
             /\ \/ pos'[q] = pos[q] /\ stage'[q] = stage[q]
                \/ pos'[q] = pos[q] /\ stage[q] # "idle" /\ stage'[q] # "idle"
                \/ pos'[q] = pos[q] /\ stage[q] = "gathering" /\ stage'[q] = "idle"
  BY <1>0, <1>4 DEF Collective, Gathered, Sized, Loaded, AllAt, MoveTo, groupVars
<1>5. (\E r \in Ranks : InBarrier(r) \/ GiveUp(r)) \/ AllDone \/ UNCHANGED allVars
         => pos' = pos /\ stage' = stage /\ prefix' = prefix /\ open' = open
  BY DEF InBarrier, GiveUp, AllDone, allVars, syncVars, groupVars
<1>. QED
  BY <1>1, <1>2, <1>3, <1>4, <1>5 DEF SyncNext, SyncStep

LEMMA GroupedInit == SyncInit => Grouped
<1>. SUFFICES ASSUME SyncInit PROVE Grouped
  OBVIOUS
<1>0. Calls \subseteq Nat \ {0}
  BY ScriptFacts
<1>1. OpeningsUpTo(0) = {} /\ ~LeftOpen(0)
  <2>1. \A u \in Calls : ~(u <= 0)
    BY <1>0
  <2>. QED
    BY <2>1 DEF OpeningsUpTo, LeftOpen
<1>2. \A r \in Ranks, u \in Calls : ~Met(r, u)
  BY <1>0 DEF SyncInit, Met
<1>. QED
  BY <1>1, <1>2, FS_EmptySet DEF SyncInit, Grouped

LEMMA GroupedStep ==
    ASSUME SyncTypeOK, Placed, Grouped, [SyncNext]_allVars
    PROVE  Grouped'
<1>0. Calls \subseteq Nat \ {0}
  BY ScriptFacts
<1>1. ASSUME NEW r \in Ranks
      PROVE  /\ prefix'[r] = Cardinality(OpeningsUpTo(pos'[r]))
             /\ open'[r] <=> (stage'[r] # "idle" \/ LeftOpen(pos'[r]))
  <2>0. /\ pos[r] \in Nat /\ prefix[r] = Cardinality(OpeningsUpTo(pos[r]))
        /\ open[r] <=> (stage[r] # "idle" \/ LeftOpen(pos[r]))
    BY Integral DEF Grouped
  <2>1. CASE /\ prefix'[r] = prefix[r] /\ open'[r] = open[r] /\ pos'[r] = pos[r]
             /\ (stage'[r] = stage[r] \/ (stage[r] # "idle" /\ stage'[r] # "idle"))
    BY <2>0, <2>1
  <2>2. CASE /\ prefix'[r] = prefix[r] /\ open'[r] = open[r]
             /\ pos'[r] = pos[r] + 1 /\ stage[r] = "idle" /\ stage'[r] = "idle"
             /\ pos[r] + 1 \in Calls /\ ~NeedsGroup(pos[r] + 1)
    <3>1. Cardinality(OpeningsUpTo(pos[r])) \in Nat
      BY <2>0, OpeningCounts
    <3>2. Cardinality(OpeningsUpTo(pos[r] + 1)) = Cardinality(OpeningsUpTo(pos[r]))
      BY <2>0, <2>2, <3>1, OpeningCountStep DEF Opens
    <3>3. LeftOpen(pos[r] + 1) <=> LeftOpen(pos[r])
      BY <2>0, <2>2, LeftOpenStep DEF NeedsGroup, IsGather
    <3>. QED
      BY <2>0, <2>2, <3>2, <3>3
  <2>3. CASE /\ prefix'[r] = prefix[r] /\ open'[r] = open[r] /\ pos'[r] = pos[r]
             /\ stage[r] = "gathering" /\ stage'[r] = "idle"
    <3>1. pos[r] \in Calls /\ IsGather(pos[r])
      BY <2>3 DEF Placed, PlacedAt, IsGather
    <3>2. LeftOpen(pos[r])
      <4>1. \A v \in Calls : ~(pos[r] < v /\ v <= pos[r])
        BY <1>0, <2>0
      <4>. QED
        BY <2>0, <3>1, <4>1 DEF LeftOpen
    <3>. QED
      BY <2>0, <2>3, <3>2
  <2>4. CASE /\ pos'[r] = pos[r] + 1 /\ stage[r] = "idle" /\ stage'[r] # "idle"
             /\ pos[r] + 1 \in Calls /\ NeedsGroup(pos[r] + 1) /\ open'[r] = TRUE
             /\ prefix'[r] = IF open[r] THEN prefix[r] ELSE prefix[r] + 1
    <3>1. Cardinality(OpeningsUpTo(pos[r])) \in Nat
      BY <2>0, OpeningCounts
    <3>2. (pos[r] + 1) - 1 = pos[r]
      BY <2>0
    <3>3. Opens(pos[r] + 1) <=> ~open[r]
      BY <2>0, <2>4, <3>2 DEF Opens
    <3>4. prefix'[r] = Cardinality(OpeningsUpTo(pos[r] + 1))
      BY <2>0, <2>4, <3>1, <3>3, OpeningCountStep
    <3>. QED
      BY <2>4, <3>4
  <2>5. CASE /\ prefix'[r] = prefix[r] /\ open'[r] = FALSE
             /\ pos'[r] = pos[r] /\ stage[r] \in {"loaded", "barrier"} /\ stage'[r] = "idle"
    <3>1. pos[r] \in Calls /\ Script[pos[r]].op = "update"
      BY <2>5 DEF Placed, PlacedAt
    <3>2. ~LeftOpen(pos[r])
      <4>1. ASSUME NEW g \in Calls, g <= pos[r], IsGather(g) PROVE g < pos[r] /\ pos[r] <= pos[r]
        BY <1>0, <2>0, <3>1, <4>1 DEF IsGather
      <4>. QED
        BY <3>1, <4>1 DEF LeftOpen
    <3>. QED
      BY <2>0, <2>5, <3>2
  <2>. QED
    BY <2>1, <2>2, <2>3, <2>4, <2>5, GroupMoves
<1>2. ASSUME NEW q \in Ranks, NEW v \in Calls, Finished(q, v) PROVE Finished(q, v)'
  <2>1. pos[q] \in Nat /\ v \in Nat
    BY <1>0, Integral
  <2>. QED
    BY <1>2, <2>1, Moves DEF Finished
<1>3. ASSUME NEW r \in Ranks, NEW q \in Ranks, NEW u \in Calls, NEW v \in Calls,
             v < u, Script[v].op = "update", NeedsGroup(u), Met(r, u)'
      PROVE  Finished(q, v)
  <2>0. pos[r] \in Nat /\ u \in Nat
    BY <1>0, Integral
  <2>1. CASE Met(r, u)
    BY <1>3, <2>1 DEF Grouped
  <2>2. CASE ~Met(r, u)
    <3>1. u = pos[r] /\ Joined(r)
      BY <1>3, <2>0, <2>2, Moves DEF Met, IsGather
    <3>. QED
      BY <1>3, <3>1, MetAfterUpdate
  <2>. QED
    BY <2>1, <2>2
<1>4. ASSUME NEW r \in Ranks, NEW q \in Ranks, NEW u \in Calls, NEW v \in Calls,
             v < u, Script[v].op = "update", NeedsGroup(u), Met(r, u)'
      PROVE  Finished(q, v)'
  BY <1>2, <1>3, <1>4
<1>5. \A r \in Ranks : OpeningsUpTo(pos[r])' = OpeningsUpTo(pos'[r]) /\ (LeftOpen(pos[r])' <=> LeftOpen(pos'[r]))
  BY DEF OpeningsUpTo, LeftOpen
<1>6. \A r \in Ranks : prefix'[r] = Cardinality(OpeningsUpTo(pos'[r]))
  BY <1>1
<1>7. \A r \in Ranks : open'[r] <=> (stage'[r] # "idle" \/ LeftOpen(pos'[r]))
  BY <1>1
<1>. QED
  BY <1>4, <1>5, <1>6, <1>7 DEF Grouped

\* What the prefix of a rank counts, and that ranks meet in a call only after all
\* of them are out of the updates before it, whatever fails.
THEOREM GroupsOpenInTurn == SyncSpec => []Grouped
<1>1. SyncTypeOK /\ Placed /\ Grouped /\ [SyncNext]_allVars => Grouped'
  BY GroupedStep
<1>. QED
  BY <1>1, GroupedInit, SyncInductive, PTL DEF SyncSpec

-----------------------------------------------------------------------------
(* The keys in the store, if no barrier times out and no delete fails.     *)

\* A rank has gone on to the next generation only when the others have returned.
Ahead == \A r, q \in Ranks : count[q] < count[r] => at[q] = "out"

LEMMA AheadByGroups ==
    SyncTypeOK /\ BarrierInv /\ Placed /\ InStep /\ Grouped /\ Together => Ahead
<1>. SUFFICES ASSUME SyncTypeOK, BarrierInv, Placed, InStep, Grouped, Together,
                     NEW r \in Ranks, NEW q \in Ranks, count[q] < count[r], at[q] # "out"
              PROVE  FALSE
  BY DEF Ahead
<1>1. stage[q] = "barrier" /\ pos[q] \in Calls /\ Script[pos[q]].op = "update" /\ Passed(q) = pos[q]
  BY PassedFacts DEF Together, Placed, PlacedAt
<1>2. pos[q] \in Nat /\ pos[r] \in Nat /\ Passed(r) \in Nat /\ Passed(r) <= pos[r] /\ Calls \subseteq Nat
  BY PassedFacts, ScriptFacts
<1>3. PICK u \in Calls : pos[q] < u /\ u <= Passed(r) /\ BarrierOf(u)
  <2>. SUFFICES ASSUME \A u \in Calls : ~(pos[q] < u /\ u <= Passed(r) /\ BarrierOf(u)) PROVE FALSE
    OBVIOUS
  <2>0. \A u \in Calls : u <= Passed(r) /\ BarrierOf(u) => u <= pos[q]
    BY <1>2
  <2>1. BarriersUpTo(Passed(r)) \in SUBSET BarriersUpTo(pos[q])
    BY <2>0 DEF BarriersUpTo
  <2>2. IsFiniteSet(BarriersUpTo(pos[q]))
    <3>1. BarriersUpTo(pos[q]) \in SUBSET Calls
      BY DEF BarriersUpTo
    <3>. QED
      BY <3>1, CallsFinite, FS_Subset
  <2>3. /\ Cardinality(BarriersUpTo(Passed(r))) <= Cardinality(BarriersUpTo(pos[q]))
        /\ Cardinality(BarriersUpTo(Passed(r))) \in Nat /\ Cardinality(BarriersUpTo(pos[q])) \in Nat
    BY <2>1, <2>2, <1>2, FS_Subset, BarrierCounts
  <2>. QED
    BY <1>1, <2>3 DEF InStep
<1>4. NeedsGroup(u) /\ Script[u].op = "update"
  BY <1>3 DEF BarrierOf, NeedsGroup
<1>5. Met(r, u)
  <2>1. CASE u < pos[r]
    BY <2>1 DEF Met
  <2>2. CASE u = pos[r]
    <3>1. stage[r] # "gathering"
      BY <1>4, <2>2 DEF Placed, PlacedAt
    <3>2. stage[r] # "joining"
      BY <1>2, <1>3, <2>2 DEF Passed
    <3>. QED
      BY <2>2, <3>1, <3>2 DEF Met
  <2>. QED
    BY <1>2, <1>3, <2>1, <2>2
<1>6. Finished(q, pos[q])
  BY <1>1, <1>3, <1>4, <1>5 DEF Grouped
<1>. QED
  BY <1>1, <1>2, <1>6 DEF Finished

LEMMA FewKeysInit == SyncInit => FewKeys
BY RanksFinite DEF SyncInit, BarrierInit, FewKeys, Retained

LEMMA FewKeysEnter ==
    ASSUME BarrierInv, \A q \in Ranks : at[q] # "raised", FewKeys, Ahead',
           NEW r \in Ranks, Enter(r)
    PROVE  FewKeys'
<1>0. /\ count \in [Ranks -> Nat] /\ 0 \in Ranks /\ Len(trash) \in Nat
      /\ at \in [Ranks -> Inside \cup {"out", "raised", "deleteCounter", "deleteAnnouncement"}]
  BY RanksFinite, Bounds DEF BarrierInv, BarrierTypeOK
<1>1. /\ at[r] = "out" /\ trash' = trash /\ announced' = announced /\ stale' = stale
      /\ count'[r] = count[r] + 1 /\ at'[r] = "entered" /\ counters' = counters \cup {count[r] + 1}
      /\ \A q \in Ranks : q # r => count'[q] = count[q] /\ at'[q] = at[q]
  BY <1>0 DEF Enter
<1>2. ASSUME NEW p \in Ranks, NEW q \in Ranks PROVE count'[p] <= count'[q] + 1
  <2>1. count[q] \in Nat /\ count[p] \in Nat /\ count'[q] >= count[q] /\ count'[q] \in Nat
    BY <1>0, <1>1
  <2>2. CASE p = r
    <3>1. count[q] >= count[r]
      BY <1>1, BarrierInvHolds DEF BarrierHolds, Inside
    <3>. QED
      BY <1>1, <2>1, <2>2, <3>1
  <2>3. CASE p # r
    BY <1>1, <2>1, <2>3 DEF FewKeys
  <2>. QED
    BY <2>2, <2>3
<1>3. \A g : InTrash(g)' <=> InTrash(g)
  BY <1>1 DEF InTrash
<1>4. ASSUME at'[0] \notin Inside, count'[0] # 0 PROVE InTrash(count[0])'
  <2>1. r # 0 /\ count'[0] = count[0] /\ at'[0] = at[0]
    BY <1>0, <1>1, <1>4 DEF Inside
  <2>. QED
    BY <1>3, <1>4, <2>1 DEF FewKeys, InTrash
<1>5. ASSUME at'[0] = "deleteAnnouncement" PROVE stale' \notin counters'
  <2>1. r # 0 /\ at[0] = "deleteAnnouncement"
    BY <1>0, <1>1, <1>5
  <2>2. count[r] > stale /\ stale \notin counters /\ stale \in Nat
    BY <1>0, <2>1, Bounds DEF BarrierInv, BarrierTypeOK, Kept, FewKeys
  <2>3. count[r] + 1 # stale
    BY <1>0, <2>2
  <2>. QED
    BY <1>1, <2>2, <2>3
<1>6. ASSUME NEW g \in counters' \cup announced' PROVE InTrash(g)' \/ OneMore(g)'
  <2>1. CASE g = count[r] + 1 /\ r = 0
    BY <1>1, <2>1 DEF OneMore, Inside
  <2>2. CASE g = count[r] + 1 /\ r # 0
    <3>1. count'[0] = count[0] /\ at'[0] = at[0] /\ count[0] \in Nat /\ count[r] \in Nat
      BY <1>0, <1>1, <2>2
    <3>2. g <= count[0] + 1 /\ count[0] <= g
      BY <1>0, <1>1, <1>2, <2>2, <3>1 DEF FewKeys
    <3>3. CASE g = count[0] + 1
      <4>1. count'[0] < count'[r]
        BY <1>1, <2>2, <3>1, <3>3
      <4>2. at'[0] = "out"
        BY <1>0, <4>1 DEF Ahead
      <4>. QED
        BY <3>1, <3>3, <4>2 DEF OneMore
    <3>4. CASE g = count[0]
      <4>1. CASE at[0] \in Inside
        BY <3>1, <3>4, <4>1 DEF OneMore
      <4>2. CASE at[0] \notin Inside
        <5>1. count[0] # 0
          BY <2>2, <3>1, <3>4
        <5>. QED
          BY <1>3, <3>4, <4>2, <5>1 DEF FewKeys
      <4>. QED
        BY <4>1, <4>2
    <3>. QED
      BY <2>2, <3>1, <3>2, <3>3, <3>4
  <2>3. CASE g \in counters \cup announced
    <3>1. CASE InTrash(g)
      BY <1>3, <3>1
    <3>2. CASE OneMore(g) /\ r # 0
      BY <1>0, <1>1, <3>2 DEF OneMore
    <3>3. CASE OneMore(g) /\ r = 0
      <4>1. g = count[0] + 1
        BY <1>1, <3>3 DEF OneMore, Inside
      <4>. QED
        BY <1>1, <3>3, <4>1 DEF OneMore, Inside
    <3>. QED
      BY <2>3, <3>1, <3>2, <3>3 DEF FewKeys
  <2>. QED
    BY <1>1, <2>1, <2>2, <2>3
<1>7. Len(trash') <= Retained
  BY <1>1 DEF FewKeys
<1>8. FewKeys' <=>
        /\ Len(trash') <= Retained
        /\ \A p, q \in Ranks : count'[p] <= count'[q] + 1
        /\ at'[0] \notin Inside /\ count'[0] # 0 => InTrash(count[0])'
        /\ at'[0] = "deleteAnnouncement" => stale' \notin counters'
        /\ \A g \in counters' \cup announced' : InTrash(g)' \/ OneMore(g)'
  BY DEF FewKeys, Retained, Inside
<1>. QED
  BY <1>2, <1>4, <1>5, <1>6, <1>7, <1>8

LEMMA TailOfThree ==
    ASSUME NEW T, NEW s \in Seq(T), Len(s) = 3
    PROVE  Len(Tail(s)) = 2 /\ Tail(s)[1] = s[2] /\ Tail(s)[2] = s[3]
<1>1. s # <<>>
  OBVIOUS
<1>2. Len(Tail(s)) = Len(s) - 1
  BY <1>1
<1>3. \A i \in 1 .. Len(Tail(s)) : Tail(s)[i] = s[i + 1]
  BY <1>1
<1>. QED
  BY <1>2, <1>3

LEMMA FewKeysInner ==
    ASSUME ~DeleteMayFail, BarrierInv, FewKeys, NEW r \in Ranks, Inner(r)
    PROVE  FewKeys'
<1>0. /\ count \in [Ranks -> Nat] /\ 0 \in Ranks /\ Len(trash) \in Nat /\ trash \in Seq(Gen) /\ DOMAIN at = Ranks
      /\ counters \subseteq Gen /\ announced \subseteq Gen
  BY RanksFinite, Bounds DEF BarrierInv, BarrierTypeOK
<1>1. count' = count
  BY InnerFrame
<1>2. FewKeys' <=>
        /\ Len(trash') <= Retained
        /\ \A p, q \in Ranks : count[p] <= count[q] + 1
        /\ at'[0] \notin Inside /\ count[0] # 0 => InTrash(count[0])'
        /\ at'[0] = "deleteAnnouncement" => stale' \notin counters'
        /\ \A g \in counters' \cup announced' : InTrash(g)' \/ OneMore(g)'
  BY <1>1 DEF FewKeys, Retained, Inside, InTrash
<1>3. \A p, q \in Ranks : count[p] <= count[q] + 1
  BY DEF FewKeys
<1>4. ASSUME counters' \cup announced' = counters \cup announced, trash' = trash, stale' = stale,
             at'[0] = at[0] \/ (at[0] \in Inside /\ at'[0] \in Inside), counters' = counters
      PROVE  FewKeys'
  <2>1. \A g : (InTrash(g)' <=> InTrash(g)) /\ (OneMore(g) => OneMore(g)')
    BY <1>1, <1>4 DEF InTrash, OneMore, Inside
  <2>2. InTrash(count[0])' <=> InTrash(count[0])
    BY <1>1, <1>4 DEF InTrash
  <2>3. /\ Len(trash') <= Retained
        /\ at'[0] \notin Inside /\ count[0] # 0 => InTrash(count[0])'
        /\ at'[0] = "deleteAnnouncement" => stale' \notin counters'
    BY <1>4, <2>2 DEF FewKeys, Inside, Retained
  <2>4. \A g \in counters' \cup announced' : InTrash(g)' \/ OneMore(g)'
    BY <1>4, <2>1 DEF FewKeys
  <2>. QED
    BY <1>2, <1>3, <2>3, <2>4, Zenon
<1>5. CASE ReadTally(r)
  <2>1. counters' = counters /\ announced' = announced /\ trash' = trash /\ stale' = stale
    BY <1>5 DEF ReadTally, BarrierInv, KeysThereWhenUsed, Inside
  <2>2. at'[0] = at[0] \/ (at[0] \in Inside /\ at'[0] \in Inside)
    BY <1>0, <1>5 DEF ReadTally, Inside
  <2>. QED
    BY <1>4, <2>1, <2>2
<1>6. CASE Announce(r)
  <2>1. /\ counters' = counters /\ announced' = announced \cup {count[r]} /\ trash' = trash /\ stale' = stale
        /\ count[r] \in counters
    BY <1>6 DEF Announce, BarrierInv, KeysThereWhenUsed, Inside
  <2>2. at'[0] = at[0] \/ (at[0] \in Inside /\ at'[0] \in Inside)
    BY <1>0, <1>6 DEF Announce, Inside
  <2>. QED
    BY <1>4, <2>1, <2>2
<1>7. CASE Leave(r) /\ r # 0
  <2>1. counters' = counters /\ announced' = announced /\ trash' = trash /\ stale' = stale /\ at'[0] = at[0]
    BY <1>0, <1>7 DEF Leave
  <2>. QED
    BY <1>4, <2>1
<1>8. CASE Leave(r) /\ r = 0
  <2>. DEFINE kept == Append(trash, count[0])
  <2>1. /\ at[0] = "wait" /\ counters' = counters /\ announced' = announced
        /\ IF Len(kept) > 2
           THEN stale' = Head(kept) /\ trash' = Tail(kept) /\ at'[0] = "deleteCounter"
           ELSE trash' = kept /\ at'[0] = "out"
    BY <1>0, <1>8 DEF Leave, Retained
  <2>2. /\ count[0] \in Gen /\ kept \in Seq(Gen) /\ Len(kept) = Len(trash) + 1
        /\ kept[Len(kept)] = count[0] /\ \A i \in 1 .. Len(trash) : kept[i] = trash[i]
    BY <1>0, <2>1 DEF BarrierInv, Counted, Inside
  <2>3. \A g \in counters \cup announced : \E i \in 1 .. Len(kept) : kept[i] = g
    <3>1. \A g \in counters \cup announced : InTrash(g) \/ g = count[0]
      BY <2>1 DEF FewKeys, OneMore
    <3>2. \A i \in 1 .. Len(trash) : i \in 1 .. Len(kept)
      BY <1>0, <2>2
    <3>3. Len(kept) \in 1 .. Len(kept)
      BY <1>0, <2>2
    <3>. QED
      BY <2>2, <3>1, <3>2, <3>3 DEF InTrash
  <2>4. Len(trash) <= 2
    BY DEF FewKeys, Retained
  <2>. HIDE DEF kept
  <2>5. CASE Len(kept) > 2
    <3>1. /\ Len(kept) = 3 /\ stale' = kept[1] /\ trash' = Tail(kept) /\ at'[0] = "deleteCounter"
      BY <1>0, <2>1, <2>2, <2>4, <2>5
    <3>2. Len(trash') = 2 /\ trash'[1] = kept[2] /\ trash'[2] = kept[3]
      <4>1. kept \in Seq(Gen) /\ Len(kept) = 3 /\ trash' = Tail(kept)
        BY <2>2, <3>1, Zenon
      <4>. QED
        BY <4>1, TailOfThree
    <3>3. InTrash(count[0])'
      BY <1>1, <2>2, <3>1, <3>2 DEF InTrash
    <3>4. ASSUME NEW g \in counters \cup announced PROVE InTrash(g)' \/ OneMore(g)'
      <4>1. PICK i \in 1 .. 3 : kept[i] = g
        BY <2>3, <3>1
      <4>2. CASE i = 1
        BY <3>1, <4>1, <4>2 DEF OneMore
      <4>3. CASE i \in {2, 3}
        <5>1. g = trash'[1] \/ g = trash'[2]
          BY <3>2, <4>1, <4>3
        <5>. QED
          BY <3>2, <5>1 DEF InTrash
      <4>. QED
        BY <4>2, <4>3
    <3>. QED
      <4>1. Len(trash') <= Retained /\ at'[0] # "deleteAnnouncement"
        <5>1. Len(trash') <= Retained
          BY <3>2 DEF Retained
        <5>2. at'[0] = "deleteCounter"
          BY <3>1
        <5>. QED
          BY <5>1, <5>2
      <4>2. \A g \in counters' \cup announced' : InTrash(g)' \/ OneMore(g)'
        BY <2>1, <3>4
      <4>. QED
        BY <1>2, <1>3, <3>3, <4>1, <4>2, Zenon
  <2>6. CASE ~(Len(kept) > 2)
    <3>1. trash' = kept /\ at'[0] = "out" /\ Len(kept) <= 2 /\ Len(kept) \in 1 .. Len(kept)
      BY <1>0, <2>1, <2>2, <2>6
    <3>2. InTrash(count[0])'
      BY <1>1, <2>2, <3>1 DEF InTrash
    <3>3. \A g \in counters' \cup announced' : InTrash(g)'
      BY <2>1, <2>3, <3>1 DEF InTrash
    <3>. QED
      BY <1>2, <1>3, <3>1, <3>2, <3>3 DEF Retained
  <2>. QED
    BY <2>5, <2>6
<1>9. CASE DeleteCounter(r)
  <2>1. r = 0 /\ at[0] = "deleteCounter"
    BY <1>9 DEF DeleteCounter, BarrierInv, Kept
  <2>2. /\ counters' = counters \ {stale} /\ announced' = announced /\ trash' = trash /\ stale' = stale
        /\ at'[0] = "deleteAnnouncement"
    BY <1>0, <1>9, <2>1 DEF DeleteCounter
  <2>3. \A g : (InTrash(g)' <=> InTrash(g)) /\ (OneMore(g) => OneMore(g)')
    BY <1>1, <2>1, <2>2 DEF InTrash, OneMore, Inside
  <2>4. InTrash(count[0])' <=> InTrash(count[0])
    BY <1>1, <2>2 DEF InTrash
  <2>. QED
    BY <1>2, <1>3, <2>1, <2>2, <2>3, <2>4 DEF FewKeys, Inside
<1>10. CASE DeleteAnnouncement(r)
  <2>1. r = 0 /\ at[0] = "deleteAnnouncement"
    BY <1>10 DEF DeleteAnnouncement, BarrierInv, Kept
  <2>2. /\ counters' = counters /\ announced' = announced \ {stale} /\ trash' = trash
        /\ at'[0] = "out" /\ stale \notin counters
    BY <1>0, <1>10, <2>1 DEF DeleteAnnouncement, FewKeys
  <2>3. \A g : InTrash(g)' <=> InTrash(g)
    BY <2>2 DEF InTrash
  <2>4. \A g \in counters' \cup announced' : InTrash(g)
    BY <2>1, <2>2 DEF FewKeys, OneMore, Inside
  <2>5. InTrash(count[0])' <=> InTrash(count[0])
    BY <1>1, <2>2 DEF InTrash
  <2>. QED
    BY <1>2, <1>3, <2>1, <2>2, <2>3, <2>4, <2>5 DEF FewKeys, Inside
<1>. QED
  BY <1>5, <1>6, <1>7, <1>8, <1>9, <1>10 DEF Inner

LEMMA FewKeysStep ==
    ASSUME Patient, ~DeleteMayFail, SyncTypeOK, BarrierInv, Awaited, Placed, InStep, Together, FewKeys,
           Ahead', [SyncNext]_allVars
    PROVE  FewKeys'
<1>1. ASSUME UNCHANGED barrierVars PROVE FewKeys'
  BY <1>1 DEF barrierVars, FewKeys, InTrash, OneMore, Inside
<1>2. ASSUME NEW r \in Ranks, GoToBarrier(r) \/ InBarrier(r) PROVE FewKeys'
  BY <1>2, FewKeysEnter, FewKeysInner DEF GoToBarrier, InBarrier, Together
<1>3. ASSUME NEW r \in Ranks,
             Register(r) \/ Unregister(r) \/ Gather(r) \/ Call(r) \/ Bind(r) \/ SkipBarrier(r) \/ Return(r)
      PROVE  UNCHANGED barrierVars
  BY <1>3 DEF Register, Unregister, Gather, Call, Bind, SkipBarrier, Return, Leaves
<1>4. (\E u \in Calls : Collective(u)) \/ AllDone \/ UNCHANGED allVars => UNCHANGED barrierVars
  BY DEF Collective, Gathered, Sized, Loaded, AllDone, allVars
<1>. QED
  BY <1>1, <1>2, <1>3, <1>4, NobodyGivesUp DEF SyncNext, SyncStep

\* A set of three, some of which may be the same.
LEMMA AtMostThree ==
    ASSUME NEW a, NEW b, NEW c, NEW S, S \subseteq {a, b, c}
    PROVE  Cardinality(S) <= 3
<1>1. IsFiniteSet({}) /\ Cardinality({}) = 0
  BY FS_EmptySet
<1>2. IsFiniteSet({a}) /\ Cardinality({a}) = 1
  BY FS_Singleton
<1>3. IsFiniteSet({a} \cup {b}) /\ Cardinality({a} \cup {b}) \in {1, 2}
  BY <1>2, FS_AddElement
<1>4. IsFiniteSet({a} \cup {b} \cup {c}) /\ Cardinality({a} \cup {b} \cup {c}) \in {1, 2, 3}
  BY <1>3, FS_AddElement
<1>5. S \in SUBSET ({a} \cup {b} \cup {c})
  OBVIOUS
<1>6. IsFiniteSet(S) /\ Cardinality(S) <= Cardinality({a} \cup {b} \cup {c})
  BY <1>4, <1>5, FS_Subset
<1>. QED
  <2>1. Cardinality(S) \in Nat
    BY <1>6, FS_CardinalityType
  <2>2. \A n \in {1, 2, 3} : Cardinality(S) <= n => Cardinality(S) <= 3
    BY <2>1
  <2>. QED
    BY <1>4, <1>6, <2>2

LEMMA KeysOfThree == BarrierInv /\ FewKeys => KeysBounded
<1>. SUFFICES ASSUME BarrierInv, FewKeys, \A r \in Ranks : at[r] # "raised"
              PROVE  Cardinality(counters \cup announced) <= 3
  BY DEF KeysBounded
<1>. DEFINE more == IF at[0] \in Inside THEN count[0]
                    ELSE IF at[0] = "out" THEN count[0] + 1 ELSE stale
<1>1. Len(trash) \in Nat /\ Len(trash) <= 2
  BY DEF FewKeys, Retained, BarrierInv, BarrierTypeOK
<1>2. \A g \in counters \cup announced : InTrash(g) \/ g = more
  BY DEF FewKeys, OneMore, Inside
<1>3. \A g : InTrash(g) => g = trash[1] \/ g = trash[2]
  <2>1. \A i \in 1 .. Len(trash) : i = 1 \/ i = 2
    BY <1>1
  <2>. QED
    BY <2>1 DEF InTrash
<1>. HIDE DEF more
<1>4. counters \cup announced \subseteq {trash[1], trash[2], more}
  BY <1>2, <1>3
<1>. QED
  BY <1>4, AtMostThree

\* At most three generations have keys in the store, if no delete fails and, for
\* the reasons above, no barrier times out.
THEOREM FewKeysInStore == Patient /\ RaiseTogether /\ ~DeleteMayFail => (SyncSpec => []KeysBounded)
<1>. SUFFICES ASSUME Patient, RaiseTogether, ~DeleteMayFail PROVE SyncSpec => []KeysBounded
  OBVIOUS
<1>1. /\ SyncTypeOK /\ BarrierInv /\ Awaited /\ Placed /\ InStep /\ Together /\ FewKeys
      /\ Ahead' /\ [SyncNext]_allVars
      => FewKeys'
  BY FewKeysStep
<1>2. SyncSpec => []Ahead
  BY AheadByGroups, GroupsOpenInTurn, TogetherInductive, SyncInductive, InStepInductive, PTL
<1>3. SyncSpec => []FewKeys
  BY <1>1, <1>2, FewKeysInit, TogetherInductive, SyncInductive, InStepInductive, BarrierOfUpdates, PTL DEF SyncSpec
<1>. QED
  BY <1>3, KeysOfThree, SyncInductive, PTL
=============================================================================
