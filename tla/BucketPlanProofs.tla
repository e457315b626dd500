-------------------------- MODULE BucketPlanProofs --------------------------
(***************************************************************************)
(* Proofs about BucketPlan.  Each step of a plan computes one value from   *)
(* those before it, and the values stay: PlanInv says which value there is *)
(* after which step, and the properties are facts about the values.        *)
(***************************************************************************)
EXTENDS BucketPlan, ListProofs

\* A pinned tensor has room, and is of whole units of Align bytes unless it is
\* pinned in place.
Multiple(size) == \E q \in Nat : size = q * Align
Pinned == {t \in [bytes : Nat, item : {i \in 1 .. Align : Align % i = 0}, size : Nat] :
              t.bytes <= t.size /\ (~inplace => Multiple(t.size))}

Buckets == [owner : Nat, size : Nat, ranges : Seq([idx : Nat, offset : Nat, size : Nat]),
            items : Seq(Nat \X Nat)]

\* The buckets of some owners, and the state in which a memory buffer is cut.
Cuts == Seq(Buckets) \ {<<>>}
Cutting == {at \in [cut : Cuts, start : Nat, offset : Nat] : at.start <= at.offset}

PoolsTyped == pools \in Seq(Seq(Seq(Pinned)))

-----------------------------------------------------------------------------
(* Lists that are not empty.                                               *)

\* The last element of a list replaced.
LEMMA UpdateLastFacts ==
    ASSUME NEW T, NEW s \in Seq(T) \ {<<>>}, NEW e \in T
    PROVE  /\ UpdateLast(s, e) \in Seq(T) \ {<<>>} /\ Len(UpdateLast(s, e)) = Len(s)
           /\ Len(s) \in Nat \ {0} /\ Last(s) \in T /\ Last(s) = s[Len(s)]
           /\ \A i \in 1 .. Len(s) : UpdateLast(s, e)[i] = IF i = Len(s) THEN e ELSE s[i]
           /\ Last(UpdateLast(s, e)) = e
<1>1. Len(s) \in Nat \ {0} /\ s \in [1 .. Len(s) -> T]
  OBVIOUS
<1>2. UpdateLast(s, e) = [s EXCEPT ![Len(s)] = e]
  BY DEF UpdateLast, ReplaceAt
<1>3. UpdateLast(s, e) \in [1 .. Len(s) -> T]
  BY <1>1, <1>2
<1>4. UpdateLast(s, e) \in Seq(T) /\ Len(UpdateLast(s, e)) = Len(s)
  BY <1>1, <1>3
<1>5. \A i \in 1 .. Len(s) : UpdateLast(s, e)[i] = IF i = Len(s) THEN e ELSE s[i]
  BY <1>1, <1>2
<1>. DEFINE u == UpdateLast(s, e)
<1>6. UpdateLast(s, e) \in Seq(T) \ {<<>>}
  BY <1>1, <1>4
<1>7. Last(u) = u[Len(u)] /\ Last(s) = s[Len(s)]
  BY DEF Last
<1>8. Last(u) = e
  <2>1. Len(s) \in 1 .. Len(s)
    BY <1>1
  <2>2. u[Len(s)] = e
    BY <1>5, <2>1
  <2>. QED
    BY <1>4, <1>7, <2>2
<1>9. Last(s) \in T
  BY <1>1, <1>7
<1>. QED
  BY <1>1, <1>4, <1>5, <1>6, <1>7, <1>8, <1>9

\* A list made longer.
LEMMA AppendFacts ==
    ASSUME NEW T, NEW s \in Seq(T), NEW e \in T
    PROVE  /\ Append(s, e) \in Seq(T) \ {<<>>} /\ Len(Append(s, e)) = Len(s) + 1 /\ Len(s) \in Nat
           /\ \A i \in 1 .. Len(s) : Append(s, e)[i] = s[i]
           /\ Append(s, e)[Len(s) + 1] = e
           /\ Last(Append(s, e)) = e
BY DEF Last

-----------------------------------------------------------------------------
(* Cutting.                                                                *)

\* A range is added to a bucket.
LEMMA AddRangeFacts ==
    ASSUME NEW bucket \in Buckets, NEW b \in Nat, NEW start \in Nat, NEW end \in Nat, start <= end
    PROVE  /\ AddRange(bucket, b, start, end) \in Buckets
           /\ AddRange(bucket, b, start, end).owner = bucket.owner
           /\ AddRange(bucket, b, start, end).size = bucket.size
           /\ AddRange(bucket, b, start, end).items = bucket.items
           /\ AddRange(bucket, b, start, end).ranges =
                 Append(bucket.ranges, [idx |-> b, offset |-> start, size |-> end - start])
<1>. DEFINE range == [idx |-> b, offset |-> start, size |-> end - start]
            RangeSet == [idx : Nat, offset : Nat, size : Nat]
<1>1. range \in RangeSet
  <2>1. end - start \in Nat
    OBVIOUS
  <2>. QED
    BY <2>1
<1>2. AddRange(bucket, b, start, end) = [bucket EXCEPT !.ranges = Append(@, range)]
  BY DEF AddRange
<1>3. bucket.ranges \in Seq(RangeSet)
  BY DEF Buckets
<1>. HIDE DEF range, RangeSet
<1>4. Append(bucket.ranges, range) \in Seq(RangeSet)
  BY <1>1, <1>3
<1>5. AddRange(bucket, b, start, end) =
         [owner |-> bucket.owner, size |-> bucket.size,
          ranges |-> Append(bucket.ranges, range), items |-> bucket.items]
  BY <1>2 DEF Buckets
<1>. QED
  BY <1>4, <1>5 DEF range, RangeSet, Buckets

\* A new bucket, and one more tensor.
LEMMA EmptyBucketFacts ==
    ASSUME NEW o \in Nat
    PROVE  EmptyBucket(o) \in Buckets
BY DEF EmptyBucket, Buckets

\* A tensor is added to a bucket.
LEMMA AddTensorFacts ==
    ASSUME NEW bucket \in Buckets, NEW size \in Nat, NEW b \in Nat, NEW k \in Nat
    PROVE  AddTensor(bucket, size, <<b, k>>) \in Buckets
<1>1. /\ bucket.owner \in Nat /\ bucket.size + size \in Nat
      /\ bucket.items \in Seq(Nat \X Nat)
      /\ bucket.ranges \in Seq([idx : Nat, offset : Nat, size : Nat])
  BY DEF Buckets
<1>2. Append(bucket.items, <<b, k>>) \in Seq(Nat \X Nat)
  BY <1>1
<1>. QED
  BY <1>1, <1>2 DEF AddTensor, Buckets

\* One tensor: the open bucket is closed when it overflows, and another opened.
LEMMA CutTensorFacts ==
    ASSUME PoolsTyped, NEW o \in 1 .. Len(pools), NEW b \in 1 .. Len(pools[o]),
           NEW k \in 1 .. Len(pools[o][b]), NEW at \in Cutting
    PROVE  /\ CutTensor(o, b, at, k) \in Cutting
           /\ pools[o][b][k] \in Pinned
           /\ Last(at.cut) \in Buckets
           /\ CutTensor(o, b, at, k).offset = at.offset + pools[o][b][k].size
           /\ ~Overflows(Last(at.cut), pools[o][b][k]) =>
                 \E filled \in Buckets :
                    /\ filled = AddTensor(Last(at.cut), pools[o][b][k].size, <<b, k>>)
                    /\ CutTensor(o, b, at, k).start = at.start
                    /\ CutTensor(o, b, at, k).cut = UpdateLast(at.cut, filled)
           /\ Overflows(Last(at.cut), pools[o][b][k]) =>
                 \E filled, closed \in Buckets :
                    /\ filled = AddTensor(EmptyBucket(o), pools[o][b][k].size, <<b, k>>)
                    /\ closed = IF at.offset > at.start
                                THEN AddRange(Last(at.cut), b, at.start, at.offset) ELSE Last(at.cut)
                    /\ CutTensor(o, b, at, k).start = at.offset
                    /\ CutTensor(o, b, at, k).cut = Append(UpdateLast(at.cut, closed), filled)
<1>. DEFINE t == pools[o][b][k]
            last == Last(at.cut)
            closed == IF at.offset > at.start THEN AddRange(last, b, at.start, at.offset) ELSE last
            added == AddTensor(last, t.size, <<b, k>>)
            first == AddTensor(EmptyBucket(o), t.size, <<b, k>>)
<1>1. t \in Pinned /\ o \in Nat /\ b \in Nat /\ k \in Nat /\ t.size \in Nat
  <2>1. o \in Nat /\ pools[o] \in Seq(Seq(Pinned))
    BY DEF PoolsTyped
  <2>2. b \in Nat /\ pools[o][b] \in Seq(Pinned)
    BY <2>1
  <2>3. k \in Nat /\ t \in Pinned
    BY <2>2
  <2>. QED
    BY <2>1, <2>2, <2>3 DEF Pinned
<1>2. /\ at.cut \in Seq(Buckets) \ {<<>>} /\ at.start \in Nat /\ at.offset \in Nat /\ at.start <= at.offset
      /\ last \in Buckets
  <2>1. at.cut \in Seq(Buckets) \ {<<>>} /\ at.start \in Nat /\ at.offset \in Nat /\ at.start <= at.offset
    BY DEF Cutting, Cuts
  <2>. QED
    BY <2>1 DEF Last
<1>3. closed \in Buckets
  BY <1>1, <1>2, AddRangeFacts
<1>. HIDE DEF t, last
<1>4. added \in Buckets
  BY <1>1, <1>2, AddTensorFacts
<1>5. first \in Buckets
  BY <1>1, EmptyBucketFacts, AddTensorFacts
<1>6. ASSUME ~Overflows(last, t)
      PROVE  /\ CutTensor(o, b, at, k) \in Cutting
             /\ CutTensor(o, b, at, k).offset = at.offset + t.size
             /\ CutTensor(o, b, at, k).start = at.start
             /\ CutTensor(o, b, at, k).cut = UpdateLast(at.cut, added)
  <2>1. CutTensor(o, b, at, k) = [cut |-> UpdateLast(at.cut, added), start |-> at.start,
                                  offset |-> at.offset + t.size]
    BY <1>6 DEF CutTensor, t, last
  <2>. HIDE DEF added
  <2>2. UpdateLast(at.cut, added) \in Cuts
    BY <1>2, <1>4, UpdateLastFacts DEF Cuts
  <2>3. CutTensor(o, b, at, k) \in Cutting
    BY <1>1, <1>2, <2>1, <2>2 DEF Cutting
  <2>. QED
    BY <2>1, <2>3
<1>7. ASSUME Overflows(last, t)
      PROVE  /\ CutTensor(o, b, at, k) \in Cutting
             /\ CutTensor(o, b, at, k).offset = at.offset + t.size
             /\ CutTensor(o, b, at, k).start = at.offset
             /\ CutTensor(o, b, at, k).cut = Append(UpdateLast(at.cut, closed), first)
  <2>1. CutTensor(o, b, at, k) = [cut |-> Append(UpdateLast(at.cut, closed), first),
                                  start |-> at.offset, offset |-> at.offset + t.size]
    BY <1>7 DEF CutTensor, t, last
  <2>. HIDE DEF first, closed
  <2>2. Append(UpdateLast(at.cut, closed), first) \in Cuts
    <3>1. UpdateLast(at.cut, closed) \in Seq(Buckets)
      BY <1>2, <1>3, UpdateLastFacts
    <3>. QED
      BY <1>5, <3>1, AppendFacts DEF Cuts
  <2>3. CutTensor(o, b, at, k) \in Cutting
    BY <1>1, <1>2, <2>1, <2>2 DEF Cutting
  <2>. QED
    BY <2>1, <2>3
<1>8. /\ CutTensor(o, b, at, k) \in Cutting
      /\ pools[o][b][k] \in Pinned
      /\ Last(at.cut) \in Buckets
      /\ CutTensor(o, b, at, k).offset = at.offset + pools[o][b][k].size
  BY <1>1, <1>2, <1>6, <1>7 DEF t, last
<1>9. ~Overflows(Last(at.cut), pools[o][b][k]) =>
         \E filled \in Buckets :
            /\ filled = AddTensor(Last(at.cut), pools[o][b][k].size, <<b, k>>)
            /\ CutTensor(o, b, at, k).start = at.start
            /\ CutTensor(o, b, at, k).cut = UpdateLast(at.cut, filled)
  BY <1>4, <1>6 DEF added, t, last
<1>10. Overflows(Last(at.cut), pools[o][b][k]) =>
          \E filled, shut \in Buckets :
             /\ filled = AddTensor(EmptyBucket(o), pools[o][b][k].size, <<b, k>>)
             /\ shut = IF at.offset > at.start
                          THEN AddRange(Last(at.cut), b, at.start, at.offset) ELSE Last(at.cut)
             /\ CutTensor(o, b, at, k).start = at.offset
             /\ CutTensor(o, b, at, k).cut = Append(UpdateLast(at.cut, shut), filled)
  BY <1>3, <1>5, <1>7 DEF closed, first, t, last
<1>. QED
  BY <1>8, <1>9, <1>10

\* A memory buffer is cut one tensor after the other.
LEMMA CutBufferSteps ==
    ASSUME PoolsTyped, NEW o \in 1 .. Len(pools), NEW b \in 1 .. Len(pools[o]), NEW cut \in Cuts
    PROVE  \E at \in [0 .. Len(pools[o][b]) -> Cutting] :
              /\ at[0] = [cut |-> cut, start |-> 0, offset |-> 0]
              /\ \A k \in 1 .. Len(pools[o][b]) : at[k] = CutTensor(o, b, at[k - 1], k)
              /\ CutBuffer(o, cut, b) =
                    UpdateLast(at[Len(pools[o][b])].cut,
                               AddRange(Last(at[Len(pools[o][b])].cut), b,
                                        at[Len(pools[o][b])].start, at[Len(pools[o][b])].offset))
<1>. DEFINE n == Len(pools[o][b])
            base == [cut |-> cut, start |-> 0, offset |-> 0]
            places == [k \in DOMAIN pools[o][b] |-> k]
            iter == CHOOSE g : g = [s \in SUBSET DOMAIN places |->
                       IF s = {} THEN base ELSE CutTensor(o, b, g[s \ {Max(s)}], places[Max(s)])]
            F == [p \in Cutting \X (1 .. n) |-> CutTensor(o, b, p[1], p[2])]
            end == iter[DOMAIN places]
<1>1. CutBuffer(o, cut, b) = UpdateLast(end.cut, AddRange(Last(end.cut), b, end.start, end.offset))
  BY DEF CutBuffer, FoldLeftDomain, FoldLeft, MapThenFoldSet
<1>2. n \in Nat /\ DOMAIN pools[o][b] = 1 .. n
  <2>1. pools[o] \in Seq(Seq(Pinned))
    BY DEF PoolsTyped
  <2>2. pools[o][b] \in Seq(Pinned)
    BY <2>1
  <2>. QED
    BY <2>2
<1>3. DOMAIN places = 1 .. n /\ \A k \in 1 .. n : places[k] = k
  BY <1>2
<1>4. base \in Cutting
  BY DEF Cutting
<1>5. IsFold(n, Cutting, base, F)
  <2>1. F \in [Cutting \X (1 .. n) -> Cutting]
    BY CutTensorFacts
  <2>. QED
    BY <1>2, <1>4, <2>1 DEF IsFold
<1>. HIDE DEF n, base, F, places
<1>6. PICK g : g \in [SUBSET (1 .. n) -> Cutting] /\ Iterates(n, Cutting, base, F, g)
  BY <1>5, FoldExists
<1>7. ASSUME NEW s \in SUBSET (1 .. n), s # {}, NEW x \in Cutting
      PROVE  F[<<x, Max(s)>>] = CutTensor(o, b, x, places[Max(s)])
  <2>1. Max(s) \in 1 .. n
    BY <1>2, <1>7, MaxExists
  <2>. QED
    BY <1>3, <2>1 DEF F
<1>8. g = [s \in SUBSET DOMAIN places |->
             IF s = {} THEN base ELSE CutTensor(o, b, g[s \ {Max(s)}], places[Max(s)])]
  <2>1. ASSUME NEW s \in SUBSET (1 .. n)
        PROVE  g[s] = IF s = {} THEN base ELSE CutTensor(o, b, g[s \ {Max(s)}], places[Max(s)])
    <3>1. g[s \ {Max(s)}] \in Cutting
      BY <1>6
    <3>. QED
      BY <1>6, <1>7, <3>1 DEF Iterates
  <2>. QED
    BY <1>3, <1>6, <2>1
<1>9. iter = [s \in SUBSET DOMAIN places |->
                IF s = {} THEN base ELSE CutTensor(o, b, iter[s \ {Max(s)}], places[Max(s)])]
  BY <1>8
<1>. HIDE DEF iter
<1>10. /\ iter[{}] = base
       /\ \A s \in SUBSET (1 .. n) :
             s # {} => iter[s] = CutTensor(o, b, iter[s \ {Max(s)}], places[Max(s)])
  BY <1>3, <1>9
<1>11. Iterates(n, Cutting, base, F, iter)
  BY <1>7, <1>10 DEF Iterates
<1>12. PICK at : GoesThrough(n, Cutting, base, F, at) /\ at[n] = iter[1 .. n]
  BY <1>5, <1>11, FoldSteps
<1>13. ASSUME NEW k \in 1 .. n PROVE at[k] = CutTensor(o, b, at[k - 1], k)
  <2>1. at[k - 1] \in Cutting
    BY <1>2, <1>12 DEF GoesThrough
  <2>. QED
    BY <1>12, <2>1 DEF F, GoesThrough
<1>14. at[n] = end
  BY <1>3, <1>12
<1>. HIDE DEF end
<1>. QED
  BY <1>1, <1>12, <1>13, <1>14 DEF n, base, GoesThrough

\* A memory buffer cut: the last range is added.
LEMMA CutBufferFacts ==
    ASSUME PoolsTyped, NEW o \in 1 .. Len(pools), NEW b \in 1 .. Len(pools[o]), NEW cut \in Cuts
    PROVE  CutBuffer(o, cut, b) \in Cuts
<1>. DEFINE n == Len(pools[o][b])
<1>1. PICK at \in [0 .. n -> Cutting] :
         CutBuffer(o, cut, b) =
            UpdateLast(at[n].cut, AddRange(Last(at[n].cut), b, at[n].start, at[n].offset))
  BY CutBufferSteps
<1>2. n \in Nat /\ b \in Nat
  <2>1. pools[o] \in Seq(Seq(Pinned))
    BY DEF PoolsTyped
  <2>2. pools[o][b] \in Seq(Pinned)
    BY <2>1
  <2>. QED
    BY <2>2
<1>3. at[n] \in Cutting
  BY <1>2
<1>. HIDE DEF n
<1>4. /\ at[n].cut \in Seq(Buckets) \ {<<>>} /\ at[n].start \in Nat /\ at[n].offset \in Nat
      /\ at[n].start <= at[n].offset
  BY <1>3 DEF Cutting, Cuts
<1>5. Last(at[n].cut) \in Buckets
  BY <1>4 DEF Last
<1>6. AddRange(Last(at[n].cut), b, at[n].start, at[n].offset) \in Buckets
  BY <1>2, <1>4, <1>5, AddRangeFacts
<1>7. UpdateLast(at[n].cut, AddRange(Last(at[n].cut), b, at[n].start, at[n].offset))
         \in Seq(Buckets) \ {<<>>}
  BY <1>4, <1>6, UpdateLastFacts
<1>. QED
  BY <1>1, <1>7 DEF Cuts

\* An owner's memory buffers are cut one after the other.
LEMMA CutOwnerSteps ==
    ASSUME PoolsTyped, NEW o \in 1 .. Len(pools), NEW cut \in Seq(Buckets)
    PROVE  \E at \in [0 .. Len(pools[o]) -> Cuts] :
              /\ at[0] = Append(cut, EmptyBucket(o))
              /\ \A k \in 1 .. Len(pools[o]) : at[k] = CutBuffer(o, at[k - 1], k)
              /\ CutOwner(cut, o) = at[Len(pools[o])]
<1>. DEFINE n == Len(pools[o])
            base == Append(cut, EmptyBucket(o))
            places == [k \in DOMAIN pools[o] |-> k]
            iter == CHOOSE g : g = [s \in SUBSET DOMAIN places |->
                       IF s = {} THEN base ELSE CutBuffer(o, g[s \ {Max(s)}], places[Max(s)])]
            F == [p \in Cuts \X (1 .. n) |-> CutBuffer(o, p[1], p[2])]
<1>1. CutOwner(cut, o) = iter[DOMAIN places]
  BY DEF CutOwner, FoldLeftDomain, FoldLeft, MapThenFoldSet
<1>2. n \in Nat /\ DOMAIN pools[o] = 1 .. n
  <2>1. pools[o] \in Seq(Seq(Pinned))
    BY DEF PoolsTyped
  <2>. QED
    BY <2>1
<1>3. DOMAIN places = 1 .. n /\ \A k \in 1 .. n : places[k] = k
  BY <1>2
<1>4. base \in Cuts
  <2>1. o \in Nat
    BY DEF PoolsTyped
  <2>. QED
    BY <2>1, EmptyBucketFacts, AppendFacts DEF Cuts
<1>5. IsFold(n, Cuts, base, F)
  <2>1. ASSUME NEW x \in Cuts, NEW k \in 1 .. n PROVE CutBuffer(o, x, k) \in Cuts
    BY <2>1, CutBufferFacts
  <2>2. F \in [Cuts \X (1 .. n) -> Cuts]
    BY <2>1
  <2>. QED
    BY <1>2, <1>4, <2>2 DEF IsFold
<1>. HIDE DEF n, base, F, places
<1>6. PICK g : g \in [SUBSET (1 .. n) -> Cuts] /\ Iterates(n, Cuts, base, F, g)
  BY <1>5, FoldExists
<1>7. ASSUME NEW s \in SUBSET (1 .. n), s # {}, NEW x \in Cuts
      PROVE  F[<<x, Max(s)>>] = CutBuffer(o, x, places[Max(s)])
  <2>1. Max(s) \in 1 .. n
    BY <1>2, <1>7, MaxExists
  <2>. QED
    BY <1>3, <2>1 DEF F
<1>8. g = [s \in SUBSET DOMAIN places |->
             IF s = {} THEN base ELSE CutBuffer(o, g[s \ {Max(s)}], places[Max(s)])]
  <2>1. ASSUME NEW s \in SUBSET (1 .. n)
        PROVE  g[s] = IF s = {} THEN base ELSE CutBuffer(o, g[s \ {Max(s)}], places[Max(s)])
    <3>1. g[s \ {Max(s)}] \in Cuts
      BY <1>6
    <3>. QED
      BY <1>6, <1>7, <3>1 DEF Iterates
  <2>. QED
    BY <1>3, <1>6, <2>1
<1>9. iter = [s \in SUBSET DOMAIN places |->
                IF s = {} THEN base ELSE CutBuffer(o, iter[s \ {Max(s)}], places[Max(s)])]
  BY <1>8
<1>. DEFINE result == CutOwner(cut, o)
<1>10. result = iter[DOMAIN places]
  BY <1>1
<1>. HIDE DEF iter, result
<1>11. /\ iter[{}] = base
       /\ \A s \in SUBSET (1 .. n) :
             s # {} => iter[s] = CutBuffer(o, iter[s \ {Max(s)}], places[Max(s)])
  BY <1>3, <1>9
<1>12. Iterates(n, Cuts, base, F, iter)
  BY <1>7, <1>11 DEF Iterates
<1>13. PICK at : GoesThrough(n, Cuts, base, F, at) /\ at[n] = iter[1 .. n]
  BY <1>5, <1>12, FoldSteps
<1>14. ASSUME NEW k \in 1 .. n PROVE at[k] = CutBuffer(o, at[k - 1], k)
  <2>1. at[k - 1] \in Cuts
    BY <1>2, <1>13 DEF GoesThrough
  <2>. QED
    BY <1>13, <2>1 DEF F, GoesThrough
<1>15. result = at[n]
  BY <1>3, <1>10, <1>13
<1>. QED
  BY <1>13, <1>14, <1>15 DEF n, base, result, GoesThrough

\* The owners' memory buffers are cut one owner after the other.
LEMMA CutSteps ==
    ASSUME PoolsTyped
    PROVE  \E at \in [0 .. Len(pools) -> Seq(Buckets)] :
              /\ at[0] = <<>>
              /\ \A k \in 1 .. Len(pools) : at[k] = CutOwner(at[k - 1], k)
              /\ AllBuckets = at[Len(pools)]
<1>. DEFINE n == Len(pools)
            base == <<>>
            places == [k \in DOMAIN pools |-> k]
            iter == CHOOSE g : g = [s \in SUBSET DOMAIN places |->
                       IF s = {} THEN base ELSE CutOwner(g[s \ {Max(s)}], places[Max(s)])]
            F == [p \in Seq(Buckets) \X (1 .. n) |-> CutOwner(p[1], p[2])]
<1>1. AllBuckets = iter[DOMAIN places]
  BY DEF AllBuckets, FoldLeftDomain, FoldLeft, MapThenFoldSet
<1>2. n \in Nat /\ DOMAIN pools = 1 .. n
  BY DEF PoolsTyped
<1>3. DOMAIN places = 1 .. n /\ \A k \in 1 .. n : places[k] = k
  BY <1>2
<1>4. base \in Seq(Buckets)
  OBVIOUS
<1>5. IsFold(n, Seq(Buckets), base, F)
  <2>1. ASSUME NEW x \in Seq(Buckets), NEW k \in 1 .. n PROVE CutOwner(x, k) \in Seq(Buckets)
    <3>1. PICK at \in [0 .. Len(pools[k]) -> Cuts] : CutOwner(x, k) = at[Len(pools[k])]
      BY <2>1, CutOwnerSteps
    <3>2. Len(pools[k]) \in Nat
      <4>1. pools[k] \in Seq(Seq(Pinned))
        BY DEF PoolsTyped
      <4>. QED
        BY <4>1
    <3>3. Cuts \subseteq Seq(Buckets)
      BY DEF Cuts
    <3>4. Len(pools[k]) \in 0 .. Len(pools[k])
      BY <3>2
    <3>. QED
      BY <3>1, <3>3, <3>4
  <2>2. F \in [Seq(Buckets) \X (1 .. n) -> Seq(Buckets)]
    BY <2>1
  <2>. QED
    BY <1>2, <1>4, <2>2 DEF IsFold
<1>. HIDE DEF n, base, F, places
<1>6. PICK g : g \in [SUBSET (1 .. n) -> Seq(Buckets)] /\ Iterates(n, Seq(Buckets), base, F, g)
  BY <1>5, FoldExists
<1>7. ASSUME NEW s \in SUBSET (1 .. n), s # {}, NEW x \in Seq(Buckets)
      PROVE  F[<<x, Max(s)>>] = CutOwner(x, places[Max(s)])
  <2>1. Max(s) \in 1 .. n
    BY <1>2, <1>7, MaxExists
  <2>. QED
    BY <1>3, <2>1 DEF F
<1>8. g = [s \in SUBSET DOMAIN places |->
             IF s = {} THEN base ELSE CutOwner(g[s \ {Max(s)}], places[Max(s)])]
  <2>1. ASSUME NEW s \in SUBSET (1 .. n)
        PROVE  g[s] = IF s = {} THEN base ELSE CutOwner(g[s \ {Max(s)}], places[Max(s)])
    <3>1. g[s \ {Max(s)}] \in Seq(Buckets)
      BY <1>6
    <3>. QED
      BY <1>6, <1>7, <3>1 DEF Iterates
  <2>. QED
    BY <1>3, <1>6, <2>1
<1>9. iter = [s \in SUBSET DOMAIN places |->
                IF s = {} THEN base ELSE CutOwner(iter[s \ {Max(s)}], places[Max(s)])]
  BY <1>8
<1>. DEFINE result == AllBuckets
<1>10. result = iter[DOMAIN places]
  BY <1>1
<1>. HIDE DEF iter, result
<1>11. /\ iter[{}] = base
       /\ \A s \in SUBSET (1 .. n) :
             s # {} => iter[s] = CutOwner(iter[s \ {Max(s)}], places[Max(s)])
  BY <1>3, <1>9
<1>12. Iterates(n, Seq(Buckets), base, F, iter)
  BY <1>7, <1>11 DEF Iterates
<1>13. PICK at : GoesThrough(n, Seq(Buckets), base, F, at) /\ at[n] = iter[1 .. n]
  BY <1>5, <1>12, FoldSteps
<1>14. ASSUME NEW k \in 1 .. n PROVE at[k] = CutOwner(at[k - 1], k)
  <2>1. at[k - 1] \in Seq(Buckets)
    BY <1>2, <1>13 DEF GoesThrough
  <2>. QED
    BY <1>13, <2>1 DEF F, GoesThrough
<1>15. result = at[n]
  BY <1>3, <1>10, <1>13
<1>. QED
  BY <1>13, <1>14, <1>15 DEF n, base, result, GoesThrough

-----------------------------------------------------------------------------
(* Assigning.                                                              *)

DevicesOf == {Device(buckets[i]) : i \in DOMAIN buckets}

\* The buckets by device.
LEMMA OwnerDevicesFacts ==
    ASSUME buckets \in Seq(Buckets)
    PROVE  /\ OwnerDevices \in Seq(DevicesOf)
           /\ Range(OwnerDevices) = DevicesOf
           /\ \A d, e \in 1 .. Len(OwnerDevices) : OwnerDevices[d] = OwnerDevices[e] => d = e
<1>. DEFINE list == [i \in DOMAIN buckets |-> Device(buckets[i])]
<1>1. Len(buckets) \in Nat /\ DOMAIN buckets = 1 .. Len(buckets)
  OBVIOUS
<1>2. list \in [1 .. Len(buckets) -> DevicesOf]
  BY <1>1 DEF DevicesOf
<1>3. list \in Seq(DevicesOf)
  BY <1>1, <1>2
<1>4. Range(list) = DevicesOf
  BY DEF Range, DevicesOf
<1>. HIDE DEF list
<1>5. OwnerDevices = FirstSeen(list)
  BY DEF OwnerDevices, list
<1>6. /\ FirstSeen(list) \in Seq(DevicesOf) /\ Range(FirstSeen(list)) = Range(list)
      /\ \A i, j \in 1 .. Len(FirstSeen(list)) : FirstSeen(list)[i] = FirstSeen(list)[j] => i = j
  BY <1>3, FirstSeenFacts
<1>. QED
  BY <1>4, <1>5, <1>6

\* The buckets of the owners behind one RDMA device.
LEMMA OfDeviceFacts ==
    ASSUME buckets \in Seq(Buckets), NEW d
    PROVE  LET S == {i \in 1 .. Len(buckets) : Device(buckets[i]) = d} IN
           /\ OfDevice(d) \in Seq(Buckets) /\ Len(OfDevice(d)) = Cardinality(S)
           /\ \A c \in 1 .. Len(OfDevice(d)) : OfDevice(d)[c] = buckets[Nth(S, c)]
<1>. DEFINE S == {i \in 1 .. Len(buckets) : Device(buckets[i]) = d}
<1>1. Len(buckets) \in Nat /\ DOMAIN buckets = 1 .. Len(buckets)
  OBVIOUS
<1>2. IsFiniteSet(1 .. Len(buckets)) /\ S \in SUBSET (1 .. Len(buckets)) /\ S \in SUBSET Nat
  BY <1>1, FS_Interval
<1>3. \A i \in S : buckets[i] \in Buckets
  OBVIOUS
<1>4. OfDevice(d) = Picked(buckets, S)
  BY <1>1 DEF OfDevice
<1>. HIDE DEF S
<1>5. IsFiniteSet(S)
  BY <1>2, FS_Subset
<1>6. /\ Picked(buckets, S) \in Seq(Buckets) /\ Len(Picked(buckets, S)) = Cardinality(S)
      /\ \A i \in 1 .. Cardinality(S) : Picked(buckets, S)[i] = buckets[Nth(S, i)]
  BY <1>2, <1>3, <1>5, PickedFacts
<1>. QED
  BY <1>4, <1>6 DEF S

\* Flattened goes through the buckets of each device, a column at a time.
ByDevice(rows, row, col) ==
    /\ Interleaving(Flattened, rows, row, col)
    /\ \A d \in 1 .. Len(rows) : Len(rows[d]) \in Nat
    /\ \A p, q \in 1 .. Len(Flattened) : Device(Flattened[p]) = Device(Flattened[q]) <=> row[p] = row[q]

\* Flattened has every bucket once.
LEMMA FlattenedFacts ==
    ASSUME buckets \in Seq(Buckets)
    PROVE  /\ Flattened \in Seq(Buckets)
           /\ \E pi : /\ Permutes(pi, Len(Flattened), Len(buckets))
                      /\ \A p \in 1 .. Len(Flattened) : Flattened[p] = buckets[pi[p]]
           /\ \E rows, row, col : ByDevice(rows, row, col)
<1>. DEFINE n == Len(buckets)
            keys == OwnerDevices
            key == [i \in 1 .. n |-> Device(buckets[i])]
            rows == [d \in DOMAIN keys |-> OfDevice(keys[d])]
            all == Flattened
<1>1. n \in Nat /\ DOMAIN buckets = 1 .. n /\ \A i \in 1 .. n : buckets[i] \in Buckets
  OBVIOUS
<1>2. /\ keys \in Seq(DevicesOf) /\ Len(keys) \in Nat /\ DOMAIN keys = 1 .. Len(keys)
      /\ Range(keys) = DevicesOf
      /\ \A d, e \in 1 .. Len(keys) : keys[d] = keys[e] => d = e
  BY OwnerDevicesFacts
<1>3. /\ DOMAIN key = 1 .. n /\ \A i \in 1 .. n : key[i] = Device(buckets[i])
      /\ Range(keys) = Range(key)
  <2>1. Range(key) = DevicesOf
    BY <1>1 DEF DevicesOf, Range
  <2>. QED
    BY <1>2, <2>1
<1>4. all = Interleaved(rows)
  BY DEF Flattened
<1>. HIDE DEF keys, all
<1>5. ASSUME NEW d \in 1 .. Len(keys)
      PROVE  /\ rows[d] \in Seq(Buckets)
             /\ Len(rows[d]) = Cardinality(WithKey(key, n, keys[d]))
             /\ \A c \in 1 .. Len(rows[d]) : rows[d][c] = buckets[NthWith(key, n, keys[d], c)]
  <2>. DEFINE S == {i \in 1 .. n : Device(buckets[i]) = keys[d]}
  <2>1. rows[d] = OfDevice(keys[d])
    BY <1>2
  <2>2. /\ OfDevice(keys[d]) \in Seq(Buckets) /\ Len(OfDevice(keys[d])) = Cardinality(S)
        /\ \A c \in 1 .. Len(OfDevice(keys[d])) : OfDevice(keys[d])[c] = buckets[Nth(S, c)]
    BY OfDeviceFacts
  <2>3. S = WithKey(key, n, keys[d])
    BY <1>3 DEF WithKey
  <2>4. \A c : NthWith(key, n, keys[d], c) = Nth(S, c)
    BY <2>3 DEF NthWith
  <2>. HIDE DEF S, rows
  <2>5. Len(rows[d]) = Cardinality(S)
    BY <2>1, <2>2
  <2>. QED
    BY <2>1, <2>2, <2>3, <2>4, <2>5
<1>6. rows \in Seq(Seq(Buckets)) /\ Len(rows) = Len(keys)
  <2>. DEFINE U == Seq(Buckets)
  <2>1. \A d \in 1 .. Len(keys) : rows[d] \in U
    BY <1>5
  <2>2. rows = [d \in 1 .. Len(keys) |-> rows[d]]
    BY <1>2
  <2>. HIDE DEF U, rows
  <2>3. rows \in [1 .. Len(keys) -> U]
    BY <2>1, <2>2
  <2>4. rows \in Seq(U) /\ Len(rows) = Len(keys)
    BY <1>2, <2>3
  <2>. QED
    BY <2>4 DEF U
<1>. HIDE DEF rows, key, n
<1>7. all \in Seq(Buckets) /\ Len(all) \in Nat
  BY <1>4, <1>6, InterleavedFacts
<1>8. PICK row, col : Interleaving(all, rows, row, col)
  BY <1>4, <1>6, InterleavedFacts
<1>. DEFINE pi == Origin(key, n, keys, all, row, col)
<1>9. Permutes(pi, Len(all), n) /\ InTurn(key, keys, row, col, pi, Len(all))
  BY <1>1, <1>2, <1>3, <1>5, <1>6, <1>7, <1>8, GroupsPermute
<1>10. ASSUME NEW p \in 1 .. Len(all) PROVE all[p] = buckets[pi[p]]
  <2>1. row[p] \in 1 .. Len(keys) /\ col[p] \in 1 .. Len(rows[row[p]]) /\ all[p] = rows[row[p]][col[p]]
    BY <1>6, <1>8 DEF Interleaving
  <2>2. pi[p] = NthWith(key, n, keys[row[p]], col[p])
    BY DEF Origin
  <2>. HIDE DEF pi
  <2>3. rows[row[p]][col[p]] = buckets[NthWith(key, n, keys[row[p]], col[p])]
    BY <1>5, <2>1
  <2>. QED
    BY <2>1, <2>2, <2>3
<1>11. \A p \in 1 .. Len(all) : Device(all[p]) = keys[row[p]] /\ row[p] \in 1 .. Len(keys)
  <2>1. \A p \in 1 .. Len(all) : key[pi[p]] = keys[row[p]]
    BY <1>9 DEF InTurn
  <2>2. \A p \in 1 .. Len(all) : pi[p] \in 1 .. n
    BY <1>9 DEF Permutes
  <2>3. \A p \in 1 .. Len(all) : row[p] \in 1 .. Len(keys)
    BY <1>6, <1>8 DEF Interleaving
  <2>. HIDE DEF pi
  <2>. QED
    BY <1>3, <1>10, <2>1, <2>2, <2>3
<1>. HIDE DEF pi
<1>12. ByDevice(rows, row, col)
  <2>1. \A p, q \in 1 .. Len(all) : Device(all[p]) = Device(all[q]) <=> row[p] = row[q]
    BY <1>2, <1>11
  <2>2. \A d \in 1 .. Len(rows) : Len(rows[d]) \in Nat
    BY <1>5, <1>6
  <2>. QED
    BY <1>8, <2>1, <2>2 DEF ByDevice, all
<1>. QED
  BY <1>7, <1>9, <1>10, <1>12 DEF all, n

-----------------------------------------------------------------------------
(* Dealing.                                                                *)

\* Passes over n receivers, of which ix[k] takes the k-th element of a list: a new
\* one begins when all have taken one, or when a row would come twice in a pass.
StartOf(ix, k) == k - ix[k] + 1
InPass(ix, row, k, r) == \E j \in StartOf(ix, k) .. k : row[j] = r
Passes(ix, row, n, K) ==
    /\ ix \in [1 .. K -> 1 .. n]
    /\ K > 0 => ix[1] = 1
    /\ \A k \in 1 .. K - 1 :
          ix[k + 1] = IF ix[k] = n \/ InPass(ix, row, k, row[k + 1]) THEN 1 ELSE ix[k] + 1

\* In a pass the receivers take one after the other, each of another row.
OnePass(ix, row, k) ==
    /\ StartOf(ix, k) \in 1 .. k
    /\ \A j \in StartOf(ix, k) .. k : ix[j] = j - StartOf(ix, k) + 1
    /\ \A i, j \in StartOf(ix, k) .. k : row[i] = row[j] => i = j

LEMMA PassFacts ==
    ASSUME NEW K \in Nat, NEW n \in Nat \ {0}, NEW ix, NEW row, Passes(ix, row, n, K), NEW k \in 1 .. K
    PROVE  OnePass(ix, row, k)
<1>. DEFINE S == {m \in Nat : m + 1 <= K => OnePass(ix, row, m + 1)}
<1>1. \A i \in 1 .. K : ix[i] \in 1 .. n
  BY DEF Passes
<1>2. 0 \in S
  BY DEF Passes, OnePass, StartOf
<1>3. ASSUME NEW m \in S PROVE m + 1 \in S
  <2>. SUFFICES ASSUME (m + 1) + 1 <= K PROVE OnePass(ix, row, (m + 1) + 1)
    OBVIOUS
  <2>. DEFINE q == m + 1
  <2>1. q \in 1 .. K - 1 /\ q \in 1 .. K /\ q + 1 \in 1 .. K /\ OnePass(ix, row, q)
    OBVIOUS
  <2>2. ix[q] \in 1 .. n /\ ix[q + 1] \in 1 .. n
    BY <1>1, <2>1
  <2>. SUFFICES OnePass(ix, row, q + 1)
    OBVIOUS
  <2>. HIDE DEF q
  <2>3. ix[q + 1] = IF ix[q] = n \/ InPass(ix, row, q, row[q + 1]) THEN 1 ELSE ix[q] + 1
    BY <2>1 DEF Passes
  <2>4. CASE ix[q + 1] = 1
    <3>1. StartOf(ix, q + 1) = q + 1 /\ q + 1 \in 1 .. q + 1 /\ q \in Nat
      BY <2>1, <2>4 DEF StartOf
    <3>2. \A j \in q + 1 .. q + 1 : j = q + 1
      BY <3>1
    <3>. QED
      BY <2>4, <3>1, <3>2 DEF OnePass
  <2>5. CASE ix[q + 1] # 1
    <3>1. ix[q + 1] = ix[q] + 1 /\ ~InPass(ix, row, q, row[q + 1])
      BY <2>3, <2>5
    <3>2. StartOf(ix, q + 1) = StartOf(ix, q) /\ StartOf(ix, q) \in 1 .. q
      BY <2>1, <2>2, <3>1 DEF StartOf, OnePass
    <3>. DEFINE s == StartOf(ix, q)
    <3>3. /\ \A j \in s .. q : ix[j] = j - s + 1 /\ row[j] # row[q + 1]
          /\ \A i, j \in s .. q : row[i] = row[j] => i = j
      BY <2>1, <3>1 DEF OnePass, InPass
    <3>4. ix[q + 1] = (q + 1) - s + 1
      BY <2>1, <2>2, <3>1 DEF StartOf
    <3>. HIDE DEF s
    <3>5. \A j \in s .. q + 1 : j \in s .. q \/ j = q + 1
      BY <2>1, <3>2 DEF s
    <3>6. \A j \in s .. q + 1 : ix[j] = j - s + 1
      BY <3>3, <3>4, <3>5
    <3>7. \A i, j \in s .. q + 1 : row[i] = row[j] => i = j
      BY <3>3, <3>5
    <3>8. s \in 1 .. q + 1
      BY <2>1, <3>2 DEF s
    <3>9. StartOf(ix, q + 1) = s
      BY <3>2 DEF s
    <3>. QED
      BY <3>6, <3>7, <3>8, <3>9 DEF OnePass
  <2>. QED
    BY <2>4, <2>5
<1>4. S = Nat
  <2>. HIDE DEF S
  <2>1. S \subseteq Nat
    BY DEF S
  <2>. QED
    BY <1>2, <1>3, <2>1, Induction
<1>5. k - 1 \in Nat /\ (k - 1) + 1 = k
  OBVIOUS
<1>6. \A m \in Nat : m + 1 <= K => OnePass(ix, row, m + 1)
  BY <1>4
<1>7. OnePass(ix, row, (k - 1) + 1)
  BY <1>5, <1>6
<1>. QED
  BY <1>5, <1>7

\* No pass is longer than one before it: once a row has ended a pass, there are not
\* more rows left than the pass had.
LEMMA NoLongerPass ==
    ASSUME NEW all, NEW rows, NEW row, NEW col, Len(all) \in Nat, Interleaving(all, rows, row, col),
           \A d \in 1 .. Len(rows) : Len(rows[d]) \in Nat,
           NEW n \in Nat \ {0}, NEW ix, Passes(ix, row, n, Len(all)),
           NEW s \in 1 .. Len(all), ix[s] = 1, NEW k \in 1 .. Len(all), s < StartOf(ix, k)
    PROVE  s + ix[k] - 1 \in 1 .. k - 1 /\ ix[s + ix[k] - 1] = ix[k]
<1>. DEFINE K == Len(all)
            e == ix[k]
            t == StartOf(ix, k)
            S == {a \in Nat : a < e => ix[s + a] = a + 1}
<1>1. e \in 1 .. n /\ t = k - e + 1
  BY DEF Passes, StartOf
<1>2. /\ t \in 1 .. k /\ ix[t] = 1
      /\ \A i, j \in t .. k : row[i] = row[j] => i = j
  <2>1. OnePass(ix, row, k)
    BY PassFacts
  <2>2. t \in 1 .. k /\ ix[t] = t - t + 1
    BY <2>1 DEF OnePass
  <2>. QED
    BY <2>1, <2>2 DEF OnePass
<1>3. s < t
  OBVIOUS
<1>. HIDE DEF e, t
<1>4. 0 \in S
  BY <1>1
<1>5. ASSUME NEW a \in S PROVE a + 1 \in S
  <2>. SUFFICES ASSUME a + 1 < e PROVE ix[s + (a + 1)] = (a + 1) + 1
    OBVIOUS
  <2>. DEFINE q == s + a
  <2>1. a \in Nat /\ ix[q] = a + 1 /\ q \in 1 .. K - 1 /\ q \in 1 .. K /\ q + 1 \in 1 .. K /\ s + (a + 1) = q + 1
    BY <1>1, <1>3
  <2>2. StartOf(ix, q) = s /\ s \in 1 .. q
    BY <2>1 DEF StartOf
  <2>3. \A j \in s .. q : ix[j] = j - s + 1
    <3>1. OnePass(ix, row, q)
      BY <2>1, PassFacts
    <3>. QED
      BY <2>2, <3>1 DEF OnePass
  <2>4. q + 1 <= t
    <3>1. t \notin s + 1 .. q
      BY <1>2, <2>1, <2>3
    <3>. QED
      BY <1>2, <1>3, <2>1, <3>1
  <2>5. ~InPass(ix, row, q, row[q + 1])
    <3>. SUFFICES ASSUME NEW j \in s .. q, row[j] = row[q + 1] PROVE FALSE
      BY <2>2 DEF InPass
    <3>1. j \in 1 .. K /\ j < q + 1 /\ t \in 1 .. K /\ t <= k
      BY <1>2, <2>1
    <3>2. k - t + 1 <= (q + 1) - j
      BY <1>2, <2>1, <2>4, <3>1, FewLists
    <3>. QED
      BY <1>1, <2>1, <3>2
  <2>6. ix[q + 1] = IF ix[q] = n \/ InPass(ix, row, q, row[q + 1]) THEN 1 ELSE ix[q] + 1
    BY <2>1 DEF Passes
  <2>7. ix[q] # n
    BY <1>1, <2>1
  <2>. QED
    BY <2>1, <2>5, <2>6, <2>7
<1>6. S = Nat
  <2>. HIDE DEF S
  <2>1. S \subseteq Nat
    BY DEF S
  <2>. QED
    BY <1>4, <1>5, <2>1, Induction
<1>7. e - 1 \in Nat /\ e - 1 < e /\ s + (e - 1) = s + e - 1 /\ (e - 1) + 1 = e
  BY <1>1
<1>8. ix[s + e - 1] = e
  BY <1>6, <1>7
<1>9. s + e - 1 \in 1 .. k - 1
  BY <1>1, <1>3
<1>. QED
  BY <1>8, <1>9 DEF e

\* How many elements a receiver has taken when it has taken the k-th.
Taken(ix, k) == Cardinality({m \in 1 .. k : ix[m] = ix[k]})

\* Who takes in a later pass has taken more.
LEMMA TakenGrows ==
    ASSUME NEW all, NEW rows, NEW row, NEW col, Len(all) \in Nat, Interleaving(all, rows, row, col),
           \A d \in 1 .. Len(rows) : Len(rows[d]) \in Nat,
           NEW n \in Nat \ {0}, NEW ix, Passes(ix, row, n, Len(all)),
           NEW j \in 1 .. Len(all), NEW k \in 1 .. Len(all), j < StartOf(ix, k)
    PROVE  Taken(ix, j) # Taken(ix, k)
<1>. DEFINE d == ix[j]
            e == ix[k]
            A == {m \in 1 .. j : ix[m] = d}
            B == {m \in 1 .. k : ix[m] = e}
            f == [m \in A |-> m - d + e]
<1>1. d \in 1 .. n /\ e \in 1 .. n /\ StartOf(ix, k) \in 1 .. k
  <2>1. OnePass(ix, row, k)
    BY PassFacts
  <2>. QED
    BY <2>1 DEF Passes, OnePass
<1>2. ASSUME NEW m \in A PROVE f[m] \in B \ {k}
  <2>. DEFINE s == m - d + 1
  <2>1. m \in 1 .. Len(all) /\ ix[m] = d /\ m <= j
    OBVIOUS
  <2>2. OnePass(ix, row, m) /\ StartOf(ix, m) = s
    BY <2>1, PassFacts DEF StartOf
  <2>3. s \in 1 .. m
    BY <2>2 DEF OnePass
  <2>4. ix[s] = s - s + 1
    BY <2>2, <2>3 DEF OnePass
  <2>5. s \in 1 .. Len(all) /\ ix[s] = 1 /\ s < StartOf(ix, k)
    <3>1. s \in Nat /\ s - s + 1 = 1
      BY <2>3
    <3>2. ix[s] = 1
      BY <2>4, <3>1
    <3>3. s <= m /\ m <= j /\ m \in Nat /\ StartOf(ix, k) \in Nat
      BY <1>1, <2>1, <2>3
    <3>. HIDE DEF s
    <3>4. s < StartOf(ix, k) /\ s \in 1 .. Len(all)
      BY <2>1, <2>3, <3>3
    <3>. QED
      BY <3>2, <3>4
  <2>. HIDE DEF s
  <2>6. s + ix[k] - 1 \in 1 .. k - 1 /\ ix[s + ix[k] - 1] = ix[k]
    BY <2>5, NoLongerPass
  <2>7. f[m] = s + ix[k] - 1
    BY <1>1, <2>1 DEF s
  <2>. QED
    BY <2>6, <2>7
<1>3. IsFiniteSet(1 .. j) /\ IsFiniteSet(1 .. k)
  BY FS_Interval
<1>4. IsFiniteSet(A) /\ IsFiniteSet(B) /\ k \in B
  <2>1. A \subseteq 1 .. j /\ B \subseteq 1 .. k /\ k \in B
    OBVIOUS
  <2>. HIDE DEF A, B
  <2>. QED
    BY <1>3, <2>1, FS_Subset
<1>5. f \in Injection(A, B \ {k})
  <2>1. f \in [A -> B \ {k}]
    BY <1>2
  <2>2. \A m, l \in A : f[m] = f[l] => m = l
    BY <1>1
  <2>. HIDE DEF f, A, B
  <2>. QED
    BY <2>1, <2>2 DEF Injection, IsInjective
<1>6. Taken(ix, j) = Cardinality(A) /\ Taken(ix, k) = Cardinality(B)
  BY DEF Taken
<1>. HIDE DEF f, A, B
<1>7. IsFiniteSet(B \ {k}) /\ Cardinality(B \ {k}) = Cardinality(B) - 1 /\ Cardinality(B) \in Nat
  BY <1>4, FS_RemoveElement, FS_CardinalityType
<1>8. Cardinality(A) <= Cardinality(B \ {k}) /\ Cardinality(A) \in Nat
  BY <1>4, <1>5, <1>7, FS_Injection, FS_CardinalityType
<1>. QED
  BY <1>6, <1>7, <1>8

\* No two receivers take the same row as their c-th.
LEMMA RowsApart ==
    ASSUME NEW all, NEW rows, NEW row, NEW col, Len(all) \in Nat, Interleaving(all, rows, row, col),
           \A d \in 1 .. Len(rows) : Len(rows[d]) \in Nat,
           NEW n \in Nat \ {0}, NEW ix, Passes(ix, row, n, Len(all)),
           NEW j \in 1 .. Len(all), NEW k \in 1 .. Len(all), row[j] = row[k], Taken(ix, j) = Taken(ix, k)
    PROVE  j = k
<1>1. ASSUME NEW i \in 1 .. Len(all), NEW l \in 1 .. Len(all), row[i] = row[l], Taken(ix, i) = Taken(ix, l)
      PROVE  ~(i < l)
  <2>. SUFFICES ASSUME i < l PROVE FALSE
    OBVIOUS
  <2>1. OnePass(ix, row, l)
    BY PassFacts
  <2>2. StartOf(ix, l) \in Int
    BY <2>1 DEF OnePass
  <2>3. ~(i < StartOf(ix, l))
    BY <1>1, TakenGrows
  <2>4. i \in StartOf(ix, l) .. l /\ l \in StartOf(ix, l) .. l
    BY <2>2, <2>3
  <2>. QED
    BY <1>1, <2>1, <2>4 DEF OnePass
<1>. QED
  BY <1>1

\* What is dealt out, and the state of dealing.
Receiving == {ReceiverList[i] : i \in Nat}
Parcels == [receiver : Receiving, bucket : Buckets]
Dealing == [dealt : Seq(Parcels), busy : SUBSET {Device(b) : b \in Buckets}, next : Nat \ {0}]

\* One more bucket is dealt out.
LEMMA DealFacts ==
    ASSUME NEW at \in Dealing, NEW bucket \in Buckets
    PROVE  /\ Deal(ReceiverList, at, bucket) \in Dealing
           /\ \E r \in Receiving :
                 Deal(ReceiverList, at, bucket).dealt = Append(at.dealt, [receiver |-> r, bucket |-> bucket])
<1>. DEFINE again == at.next > Len(ReceiverList) \/ Device(bucket) \in at.busy
            i == IF again THEN 1 ELSE at.next
            parcel == [receiver |-> ReceiverList[i], bucket |-> bucket]
            busy == (IF again THEN {} ELSE at.busy) \cup {Device(bucket)}
            V == {Device(b) : b \in Buckets}
<1>1. at.dealt \in Seq(Parcels) /\ at.busy \in SUBSET V /\ at.next \in Nat \ {0}
  BY DEF Dealing
<1>2. i \in Nat \ {0} /\ i + 1 \in Nat \ {0}
  BY <1>1
<1>3. ReceiverList[i] \in Receiving
  BY <1>2 DEF Receiving
<1>4. busy \in SUBSET V
  BY <1>1
<1>5. Deal(ReceiverList, at, bucket) = [dealt |-> Append(at.dealt, parcel), busy |-> busy, next |-> i + 1]
  BY DEF Deal
<1>6. parcel \in Parcels
  BY <1>3 DEF Parcels
<1>7. Append(at.dealt, parcel) \in Seq(Parcels)
  BY <1>1, <1>6
<1>. HIDE DEF i, again, busy, V
<1>8. Deal(ReceiverList, at, bucket) \in Dealing
  BY <1>2, <1>4, <1>5, <1>7 DEF Dealing, V
<1>. QED
  BY <1>3, <1>5, <1>8

\* The buckets are dealt out one after the other.
LEMMA DealSteps ==
    ASSUME Flattened \in Seq(Buckets)
    PROVE  \E at \in [0 .. Len(Flattened) -> Dealing] :
              /\ at[0] = [dealt |-> <<>>, busy |-> {}, next |-> 1]
              /\ \A k \in 1 .. Len(Flattened) : at[k] = Deal(ReceiverList, at[k - 1], Flattened[k])
              /\ Dealt = at[Len(Flattened)].dealt
<1>. DEFINE n == Len(Flattened)
            base == [dealt |-> <<>>, busy |-> {}, next |-> 1]
            places == Flattened
            iter == CHOOSE g : g = [s \in SUBSET DOMAIN places |->
                       IF s = {} THEN base ELSE Deal(ReceiverList, g[s \ {Max(s)}], places[Max(s)])]
            F == [p \in Dealing \X (1 .. n) |-> Deal(ReceiverList, p[1], Flattened[p[2]])]
<1>1. Dealt = iter[DOMAIN places].dealt
  BY DEF Dealt, FoldLeftDomain, FoldLeft, MapThenFoldSet
<1>2. n \in Nat /\ DOMAIN Flattened = 1 .. n
  OBVIOUS
<1>3. DOMAIN places = 1 .. n /\ \A k \in 1 .. n : places[k] = Flattened[k]
  BY <1>2
<1>4. base \in Dealing
  BY DEF Dealing
<1>5. IsFold(n, Dealing, base, F)
  <2>1. ASSUME NEW x \in Dealing, NEW k \in 1 .. n PROVE Deal(ReceiverList, x, Flattened[k]) \in Dealing
    <3>1. Flattened[k] \in Buckets
      BY <1>2
    <3>. QED
      BY <2>1, <3>1, DealFacts
  <2>2. F \in [Dealing \X (1 .. n) -> Dealing]
    BY <2>1
  <2>. QED
    BY <1>2, <1>4, <2>2 DEF IsFold
<1>. HIDE DEF n, base, F, places
<1>6. PICK g : g \in [SUBSET (1 .. n) -> Dealing] /\ Iterates(n, Dealing, base, F, g)
  BY <1>5, FoldExists
<1>7. ASSUME NEW s \in SUBSET (1 .. n), s # {}, NEW x \in Dealing
      PROVE  F[<<x, Max(s)>>] = Deal(ReceiverList, x, places[Max(s)])
  <2>1. Max(s) \in 1 .. n
    BY <1>2, <1>7, MaxExists
  <2>. QED
    BY <1>3, <2>1 DEF F
<1>8. g = [s \in SUBSET DOMAIN places |->
             IF s = {} THEN base ELSE Deal(ReceiverList, g[s \ {Max(s)}], places[Max(s)])]
  <2>1. ASSUME NEW s \in SUBSET (1 .. n)
        PROVE  g[s] = IF s = {} THEN base ELSE Deal(ReceiverList, g[s \ {Max(s)}], places[Max(s)])
    <3>1. g[s \ {Max(s)}] \in Dealing
      BY <1>6
    <3>. QED
      BY <1>6, <1>7, <3>1 DEF Iterates
  <2>. QED
    BY <1>3, <1>6, <2>1
<1>9. iter = [s \in SUBSET DOMAIN places |->
                IF s = {} THEN base ELSE Deal(ReceiverList, iter[s \ {Max(s)}], places[Max(s)])]
  BY <1>8
<1>. DEFINE result == Dealt
<1>10. result = iter[DOMAIN places].dealt
  BY <1>1
<1>. HIDE DEF iter, result
<1>11. /\ iter[{}] = base
       /\ \A s \in SUBSET (1 .. n) :
             s # {} => iter[s] = Deal(ReceiverList, iter[s \ {Max(s)}], places[Max(s)])
  BY <1>3, <1>9
<1>12. Iterates(n, Dealing, base, F, iter)
  BY <1>7, <1>11 DEF Iterates
<1>13. PICK at : GoesThrough(n, Dealing, base, F, at) /\ at[n] = iter[1 .. n]
  BY <1>5, <1>12, FoldSteps
<1>14. ASSUME NEW k \in 1 .. n PROVE at[k] = Deal(ReceiverList, at[k - 1], Flattened[k])
  <2>1. at[k - 1] \in Dealing
    BY <1>2, <1>13 DEF GoesThrough
  <2>. QED
    BY <1>13, <2>1 DEF F, GoesThrough
<1>15. result = at[n].dealt
  BY <1>3, <1>10, <1>13
<1>. QED
  BY <1>13, <1>14, <1>15 DEF n, base, result, GoesThrough

\* Dealing keeps the buckets in their order.
LEMMA DealtFacts ==
    ASSUME Flattened \in Seq(Buckets)
    PROVE  /\ Dealt \in Seq(Parcels) /\ Len(Dealt) = Len(Flattened)
           /\ \A i \in 1 .. Len(Flattened) : Dealt[i].bucket = Flattened[i]
<1>. DEFINE n == Len(Flattened)
<1>1. n \in Nat /\ \A k \in 1 .. n : Flattened[k] \in Buckets
  OBVIOUS
<1>2. PICK at \in [0 .. n -> Dealing] :
         /\ at[0] = [dealt |-> <<>>, busy |-> {}, next |-> 1]
         /\ \A k \in 1 .. n : at[k] = Deal(ReceiverList, at[k - 1], Flattened[k])
         /\ Dealt = at[n].dealt
  BY DealSteps
<1>. HIDE DEF n
<1>. DEFINE Kept(m) == /\ Len(at[m].dealt) = m
                       /\ \A i \in 1 .. m : at[m].dealt[i].bucket = Flattened[i]
            S == {m \in Nat : m <= n => Kept(m)}
<1>3. 0 \in S
  BY <1>2
<1>4. ASSUME NEW m \in S PROVE m + 1 \in S
  <2>. SUFFICES ASSUME m + 1 <= n PROVE Kept(m + 1)
    OBVIOUS
  <2>1. m \in Nat /\ m + 1 \in 1 .. n /\ (m + 1) - 1 = m /\ m \in 0 .. n /\ Kept(m)
    BY <1>1
  <2>2. at[m] \in Dealing /\ Flattened[m + 1] \in Buckets
    BY <1>1, <2>1
  <2>3. at[m + 1] = Deal(ReceiverList, at[m], Flattened[m + 1])
    BY <1>2, <2>1
  <2>4. PICK r \in Receiving :
          Deal(ReceiverList, at[m], Flattened[m + 1]).dealt =
             Append(at[m].dealt, [receiver |-> r, bucket |-> Flattened[m + 1]])
    BY <2>2, DealFacts
  <2>. DEFINE parcel == [receiver |-> r, bucket |-> Flattened[m + 1]]
              before == at[m].dealt
  <2>5. parcel \in Parcels /\ parcel.bucket = Flattened[m + 1] /\ before \in Seq(Parcels) /\ Len(before) = m
    BY <2>1, <2>2 DEF Parcels, Dealing
  <2>6. at[m + 1].dealt = Append(before, parcel)
    BY <2>3, <2>4
  <2>. HIDE DEF parcel, before
  <2>7. /\ Len(Append(before, parcel)) = m + 1 /\ Append(before, parcel)[m + 1] = parcel
        /\ \A i \in 1 .. m : Append(before, parcel)[i] = before[i]
    BY <2>5
  <2>8. \A i \in 1 .. m : before[i].bucket = Flattened[i]
    BY <2>1 DEF before
  <2>9. \A i \in 1 .. m + 1 : i \in 1 .. m \/ i = m + 1
    BY <2>1
  <2>. QED
    BY <2>5, <2>6, <2>7, <2>8, <2>9
<1>5. S = Nat
  <2>. HIDE DEF S
  <2>1. S \subseteq Nat
    BY DEF S
  <2>. QED
    BY <1>3, <1>4, <2>1, Induction
<1>6. Kept(n)
  BY <1>1, <1>5
<1>7. at[n].dealt \in Seq(Parcels)
  <2>1. at[n] \in Dealing
    BY <1>1
  <2>. QED
    BY <2>1 DEF Dealing
<1>. QED
  BY <1>2, <1>6, <1>7 DEF n

\* What Deal does with one bucket.
LEMMA DealStep ==
    ASSUME NEW at \in Dealing, NEW bucket \in Buckets, NEW n, n = Len(ReceiverList), n \in Nat
    PROVE  LET again == at.next > n \/ Device(bucket) \in at.busy
               i == IF again THEN 1 ELSE at.next
           IN /\ Deal(ReceiverList, at, bucket).next = i + 1
              /\ Deal(ReceiverList, at, bucket).busy = (IF again THEN {} ELSE at.busy) \cup {Device(bucket)}
              /\ Deal(ReceiverList, at, bucket).dealt =
                    Append(at.dealt, [receiver |-> ReceiverList[i], bucket |-> bucket])
<1>. QED
  BY DEF Deal

\* Dealing is by passes over the receivers.
LEMMA DealtInPasses ==
    ASSUME Flattened \in Seq(Buckets), NEW rows, NEW row, NEW col, ByDevice(rows, row, col),
           Len(ReceiverList) \in Nat \ {0}
    PROVE  \E ix : /\ Passes(ix, row, Len(ReceiverList), Len(Flattened))
                   /\ \A k \in 1 .. Len(Flattened) : Dealt[k].receiver = ReceiverList[ix[k]]
<1>. DEFINE K == Len(Flattened)
            n == Len(ReceiverList)
            D(j) == Device(Flattened[j])
            R(i) == ReceiverList[i]
<1>1. K \in Nat /\ n \in Nat \ {0} /\ \A k \in 1 .. K : Flattened[k] \in Buckets
  OBVIOUS
<1>2. PICK at \in [0 .. K -> Dealing] :
         /\ at[0] = [dealt |-> <<>>, busy |-> {}, next |-> 1]
         /\ \A k \in 1 .. K : at[k] = Deal(ReceiverList, at[k - 1], Flattened[k])
         /\ Dealt = at[K].dealt
  BY DealSteps
<1>. DEFINE ix == [k \in 1 .. K |-> at[k].next - 1]
            Again(m) == at[m].next > n \/ D(m + 1) \in at[m].busy
<1>3. ASSUME NEW m \in 0 .. K - 1
      PROVE  /\ at[m].next \in Nat \ {0} /\ at[m].dealt \in Seq(Parcels)
             /\ at[m + 1].dealt \in Seq(Parcels)
             /\ at[m + 1].next = (IF Again(m) THEN 1 ELSE at[m].next) + 1
             /\ at[m + 1].busy = (IF Again(m) THEN {} ELSE at[m].busy) \cup {D(m + 1)}
             /\ at[m + 1].dealt = Append(at[m].dealt, [receiver |-> R(IF Again(m) THEN 1 ELSE at[m].next),
                                                       bucket |-> Flattened[m + 1]])
  <2>1. m \in 0 .. K /\ m + 1 \in 0 .. K /\ m + 1 \in 1 .. K /\ (m + 1) - 1 = m
    BY <1>1
  <2>2. at[m] \in Dealing /\ at[m + 1] \in Dealing
    BY <1>2, <2>1
  <2>3. at[m + 1] = Deal(ReceiverList, at[m], Flattened[m + 1]) /\ Flattened[m + 1] \in Buckets
    BY <1>1, <1>2, <2>1
  <2>4. /\ at[m].next \in Nat \ {0} /\ at[m].dealt \in Seq(Parcels) /\ at[m + 1].dealt \in Seq(Parcels)
    BY <2>2 DEF Dealing
  <2>5. /\ Deal(ReceiverList, at[m], Flattened[m + 1]).next = (IF Again(m) THEN 1 ELSE at[m].next) + 1
        /\ Deal(ReceiverList, at[m], Flattened[m + 1]).busy = (IF Again(m) THEN {} ELSE at[m].busy) \cup {D(m + 1)}
        /\ Deal(ReceiverList, at[m], Flattened[m + 1]).dealt =
              Append(at[m].dealt, [receiver |-> R(IF Again(m) THEN 1 ELSE at[m].next),
                                   bucket |-> Flattened[m + 1]])
    BY <1>1, <2>2, <2>3, DealStep
  <2>. HIDE DEF Again, D, R
  <2>. QED
    BY <2>3, <2>4, <2>5
<1>. DEFINE Known(m) ==
              /\ ix[m] \in 1 .. n /\ StartOf(ix, m) \in 1 .. m
              /\ at[m].next = ix[m] + 1
              /\ at[m].busy = {D(j) : j \in StartOf(ix, m) .. m}
              /\ Len(at[m].dealt) = m
              /\ \A i \in 1 .. m : at[m].dealt[i].receiver = R(ix[i])
            S == {m \in Nat : m + 1 <= K => Known(m + 1)}
<1>4. K > 0 => Known(1) /\ ix[1] = 1
  <2>. SUFFICES ASSUME K > 0 PROVE Known(1) /\ ix[1] = 1
    OBVIOUS
  <2>1. 0 \in 0 .. K - 1 /\ 0 + 1 = 1 /\ 1 \in 1 .. K
    BY <1>1
  <2>2. at[0].next = 1 /\ at[0].busy = {} /\ at[0].dealt = <<>>
    BY <1>2
  <2>3. ~Again(0)
    BY <1>1, <2>2
  <2>. DEFINE parcel == [receiver |-> R(1), bucket |-> Flattened[1]]
  <2>4. at[1].next = 2 /\ at[1].busy = {D(1)} /\ at[1].dealt = Append(<<>>, parcel)
    <3>1. /\ at[0 + 1].next = (IF Again(0) THEN 1 ELSE at[0].next) + 1
          /\ at[0 + 1].busy = (IF Again(0) THEN {} ELSE at[0].busy) \cup {D(0 + 1)}
          /\ at[0 + 1].dealt = Append(at[0].dealt, [receiver |-> R(IF Again(0) THEN 1 ELSE at[0].next),
                                                   bucket |-> Flattened[0 + 1]])
      BY <1>3, <2>1
    <3>. HIDE DEF Again
    <3>. QED
      BY <2>1, <2>2, <2>3, <3>1
  <2>5. ix[1] = 1
    BY <2>1, <2>4
  <2>6. Len(Append(<<>>, parcel)) = 1 /\ Append(<<>>, parcel)[1] = parcel
    OBVIOUS
  <2>. HIDE DEF ix, parcel, D
  <2>7. StartOf(ix, 1) = 1
    BY <2>5 DEF StartOf
  <2>8. \A j \in 1 .. 1 : j = 1
    OBVIOUS
  <2>9. {D(j) : j \in 1 .. 1} = {D(1)}
    BY <2>8
  <2>10. \A i \in 1 .. 1 : at[1].dealt[i].receiver = R(ix[i])
    BY <2>4, <2>5, <2>6, <2>8 DEF parcel
  <2>. QED
    BY <1>1, <2>4, <2>5, <2>6, <2>7, <2>9, <2>10
<1>5. ASSUME NEW m \in 1 .. K - 1, Known(m)
      PROVE  /\ Known(m + 1)
             /\ ix[m + 1] = IF ix[m] = n \/ InPass(ix, row, m, row[m + 1]) THEN 1 ELSE ix[m] + 1
  <2>1. m \in 0 .. K - 1 /\ m \in Nat /\ m \in 1 .. K /\ m + 1 \in 1 .. K
    BY <1>1
  <2>2. ix[m + 1] = at[m + 1].next - 1
    BY <2>1
  <2>3. StartOf(ix, m) \in 1 .. m /\ ix[m] \in 1 .. n /\ at[m].next = ix[m] + 1 /\ at[m].busy = {D(j) : j \in StartOf(ix, m) .. m}
        /\ Len(at[m].dealt) = m /\ \A i \in 1 .. m : at[m].dealt[i].receiver = R(ix[i])
    BY <1>5
  <2>4. at[m].next > n <=> ix[m] = n
    BY <1>1, <2>3
  <2>5. D(m + 1) \in at[m].busy <=> InPass(ix, row, m, row[m + 1])
    <3>1. \A j \in StartOf(ix, m) .. m : j \in 1 .. K
      BY <2>1, <2>3
    <3>2. \A j \in StartOf(ix, m) .. m : D(m + 1) = D(j) <=> row[j] = row[m + 1]
      BY <2>1, <3>1 DEF ByDevice
    <3>. HIDE DEF D, ix
    <3>. QED
      BY <2>3, <3>2 DEF InPass
  <2>. DEFINE i == IF Again(m) THEN 1 ELSE at[m].next
              before == at[m].dealt
              parcel == [receiver |-> R(i), bucket |-> Flattened[m + 1]]
  <2>6. Again(m) <=> ix[m] = n \/ InPass(ix, row, m, row[m + 1])
    BY <2>4, <2>5
  <2>7. /\ at[m + 1].next = i + 1 /\ at[m + 1].dealt = Append(before, parcel) /\ before \in Seq(Parcels)
        /\ at[m + 1].busy = (IF Again(m) THEN {} ELSE at[m].busy) \cup {D(m + 1)}
    <3>. HIDE DEF Again, D, R
    <3>. QED
      BY <1>3, <2>1
  <2>. HIDE DEF Again, D, R, ix
  <2>8. /\ ix[m + 1] = i /\ i \in 1 .. n
        /\ i = IF ix[m] = n \/ InPass(ix, row, m, row[m + 1]) THEN 1 ELSE ix[m] + 1
    BY <1>1, <2>2, <2>3, <2>4, <2>6, <2>7
  <2>9. at[m + 1].busy = {D(j) : j \in StartOf(ix, m + 1) .. m + 1} /\ StartOf(ix, m + 1) \in 1 .. m + 1
    <3>1. CASE Again(m)
      <4>1. StartOf(ix, m + 1) = m + 1
        BY <2>1, <2>8, <3>1 DEF StartOf
      <4>2. \A j \in m + 1 .. m + 1 : j = m + 1
        BY <2>1
      <4>3. m + 1 \in m + 1 .. m + 1 /\ m + 1 \in 1 .. m + 1
        BY <2>1
      <4>. QED
        BY <2>7, <3>1, <4>1, <4>2, <4>3
    <3>2. CASE ~Again(m)
      <4>1. StartOf(ix, m + 1) = StartOf(ix, m)
        BY <2>1, <2>3, <2>8, <3>2 DEF StartOf
      <4>2. \A j : j \in StartOf(ix, m) .. m + 1 <=> j \in StartOf(ix, m) .. m \/ j = m + 1
        BY <2>1, <2>3
      <4>3. StartOf(ix, m) \in 1 .. m + 1
        BY <2>1, <2>3
      <4>. QED
        BY <2>3, <2>7, <3>2, <4>1, <4>2, <4>3
    <3>. QED
      BY <3>1, <3>2
  <2>. HIDE DEF i, before, parcel
  <2>10. Len(before) = m
    BY <2>3 DEF before
  <2>. DEFINE later == Append(before, parcel)
  <2>11. /\ Len(later) = m + 1 /\ later[m + 1] = parcel /\ \A l \in 1 .. m : later[l] = before[l]
    <3>1. parcel \in Parcels
      <4>1. i \in Nat /\ Flattened[m + 1] \in Buckets
        BY <1>1, <2>1, <2>8
      <4>. QED
        BY <4>1 DEF parcel, Parcels, Receiving, R
    <3>. QED
      BY <2>1, <2>7, <2>10, <3>1
  <2>12. at[m + 1].dealt = later /\ parcel.receiver = R(i) /\ \A l \in 1 .. m : before[l].receiver = R(ix[l])
    BY <2>3, <2>7 DEF before, parcel
  <2>. HIDE DEF later
  <2>13. \A l \in 1 .. m + 1 : at[m + 1].dealt[l].receiver = R(ix[l])
    <3>1. \A l \in 1 .. m + 1 : l \in 1 .. m \/ l = m + 1
      BY <2>1
    <3>. QED
      BY <2>8, <2>11, <2>12, <3>1
  <2>. QED
    BY <2>7, <2>8, <2>9, <2>11, <2>12, <2>13
<1>. HIDE DEF Known
<1>6. 0 \in S
  BY <1>1, <1>4
<1>7. ASSUME NEW m \in S PROVE m + 1 \in S
  <2>. SUFFICES ASSUME (m + 1) + 1 <= K PROVE Known((m + 1) + 1)
    OBVIOUS
  <2>1. m + 1 \in 1 .. K - 1 /\ Known(m + 1)
    BY <1>1
  <2>. QED
    BY <1>5, <2>1
<1>8. S = Nat
  <2>. HIDE DEF S
  <2>1. S \subseteq Nat
    BY DEF S
  <2>. QED
    BY <1>6, <1>7, <2>1, Induction
<1>9. \A k \in 1 .. K : Known(k)
  <2>. SUFFICES ASSUME NEW k \in 1 .. K PROVE Known(k)
    OBVIOUS
  <2>1. \A m \in Nat : m + 1 <= K => Known(m + 1)
    BY <1>8
  <2>2. k - 1 \in Nat /\ (k - 1) + 1 = k /\ k <= K
    BY <1>1
  <2>. QED
    BY <2>1, <2>2
<1>10. Passes(ix, row, n, K)
  <2>1. ix \in [1 .. K -> 1 .. n]
    <3>1. \A k \in 1 .. K : ix[k] \in 1 .. n
      BY <1>9 DEF Known
    <3>2. ix = [k \in 1 .. K |-> ix[k]]
      OBVIOUS
    <3>. HIDE DEF ix
    <3>. QED
      BY <3>1, <3>2
  <2>2. \A m \in 1 .. K - 1 :
           ix[m + 1] = IF ix[m] = n \/ InPass(ix, row, m, row[m + 1]) THEN 1 ELSE ix[m] + 1
    <3>1. \A m \in 1 .. K - 1 : m \in 1 .. K
      BY <1>1
    <3>. QED
      BY <1>5, <1>9, <3>1
  <2>. HIDE DEF ix, K, n
  <2>. QED
    BY <1>4, <2>1, <2>2 DEF Passes
<1>11. \A k \in 1 .. K : Dealt[k].receiver = R(ix[k])
  <2>. SUFFICES ASSUME NEW k \in 1 .. K PROVE Dealt[k].receiver = R(ix[k])
    OBVIOUS
  <2>1. K \in 1 .. K
    BY <1>1
  <2>2. \A i \in 1 .. K : at[K].dealt[i].receiver = R(ix[i])
    BY <1>9, <2>1 DEF Known
  <2>. HIDE DEF K, ix, R
  <2>. QED
    BY <1>2, <2>2
<1>. HIDE DEF ix
<1>. QED
  BY <1>10, <1>11

\* Which of its receiver's buckets, from 1, is at one place of a plan.
TurnOf(list, p) == Cardinality({m \in 1 .. p : list[m].receiver = list[p].receiver})

\* Each target rank is behind one of the local devices, and none behind two.
LocalReady ==
    /\ local \in Seq(SUBSET Nat)
    /\ \A d, e \in 1 .. Len(local) : \A r \in local[d] : r \in local[e] => d = e
    /\ \A r \in topo.ranks : \E d \in 1 .. Len(local) : r \in local[d]

\* There is a receiver as soon as there is something to send, each is a target
\* rank, and no two are the same.
LEMMA ReceiverListFacts ==
    ASSUME LocalReady, topo.ranks # {}, buckets \in Seq(Buckets), buckets # <<>>
    PROVE  /\ Len(ReceiverList) \in Nat \ {0}
           /\ \A i \in 1 .. Len(ReceiverList) : ReceiverList[i] \in topo.ranks
           /\ \A i, j \in 1 .. Len(ReceiverList) : ReceiverList[i] = ReceiverList[j] => i = j
<1>. DEFINE list == [d \in DOMAIN local |-> local[d] \cap topo.ranks]
            S == {d \in DOMAIN local : local[d] \cap topo.ranks # {}}
            targets == Picked(list, S)
            U == (SUBSET Nat) \ {{}}
            n == MinOf(Len(targets), Len(OwnerDevices))
            Least(T) == CHOOSE r \in T : \A q \in T : r <= q
            L == ReceiverList
<1>1. Len(local) \in Nat /\ DOMAIN local = 1 .. Len(local) /\ \A d \in 1 .. Len(local) : local[d] \in SUBSET Nat
  BY DEF LocalReady
<1>2. S \in SUBSET (1 .. Len(local)) /\ S \in SUBSET Nat /\ IsFiniteSet(1 .. Len(local)) /\ S # {}
  <2>1. IsFiniteSet(1 .. Len(local))
    BY <1>1, FS_Interval
  <2>2. PICK r \in topo.ranks : TRUE
    OBVIOUS
  <2>3. PICK d \in 1 .. Len(local) : r \in local[d]
    BY <2>2 DEF LocalReady
  <2>4. d \in S
    BY <1>1, <2>2, <2>3
  <2>. QED
    BY <1>1, <2>1, <2>4
<1>3. \A d \in S : list[d] \in U /\ list[d] = local[d] \cap topo.ranks
  BY <1>1
<1>. HIDE DEF S, U, list
<1>4. IsFiniteSet(S) /\ Cardinality(S) \in Nat /\ Cardinality(S) # 0
  BY <1>2, FS_Subset, FS_CardinalityType, FS_EmptySet
<1>5. /\ targets \in Seq(U) /\ Len(targets) = Cardinality(S)
      /\ \A i \in 1 .. Cardinality(S) : Nth(S, i) \in S /\ targets[i] = list[Nth(S, i)]
      /\ \A i, j \in 1 .. Cardinality(S) : Nth(S, i) = Nth(S, j) => i = j
  <2>1. \A d \in S : list[d] \in U
    BY <1>3
  <2>2. targets = Picked(list, S)
    OBVIOUS
  <2>. HIDE DEF targets
  <2>3. S \in SUBSET Nat /\ IsFiniteSet(S)
    BY <1>2, <1>4
  <2>4. Picked(list, S) \in Seq(U)
    BY <2>1, <2>3, PickedFacts
  <2>7. Len(Picked(list, S)) = Cardinality(S)
    BY <1>4 DEF Picked
  <2>6. \A i \in 1 .. Cardinality(S) : Nth(S, i) \in S /\ Picked(list, S)[i] = list[Nth(S, i)]
    BY <1>4, <2>3, NthFacts DEF Picked
  <2>5. \A i, j \in 1 .. Cardinality(S) : Nth(S, i) = Nth(S, j) => i = j
    BY <2>3, NthFacts
  <2>. QED
    BY <2>2, <2>4, <2>5, <2>6, <2>7
<1>6. ReceiverList = [d \in 1 .. n |-> Least(targets[d])]
  BY DEF ReceiverList, list, S
<1>. HIDE DEF targets
<1>7. Len(OwnerDevices) \in Nat \ {0}
  <2>. DEFINE devices == OwnerDevices
  <2>1. devices \in Seq(DevicesOf) /\ Range(devices) = DevicesOf
    BY OwnerDevicesFacts
  <2>. HIDE DEF devices
  <2>2. 1 \in DOMAIN buckets
    OBVIOUS
  <2>3. DevicesOf # {}
    BY <2>2 DEF DevicesOf
  <2>4. Len(devices) \in Nat /\ DOMAIN devices = 1 .. Len(devices)
    BY <2>1
  <2>5. Len(devices) # 0
    BY <2>1, <2>3, <2>4 DEF Range
  <2>. QED
    BY <2>4, <2>5 DEF devices
<1>8. n \in Nat \ {0} /\ n <= Cardinality(S)
  BY <1>4, <1>5, <1>7 DEF MinOf
<1>. HIDE DEF n
<1>9. Len(ReceiverList) = n /\ \A i \in 1 .. n : ReceiverList[i] = Least(targets[i])
  BY <1>6, <1>8
<1>10. ASSUME NEW i \in 1 .. n
       PROVE  /\ Nth(S, i) \in 1 .. Len(local)
              /\ ReceiverList[i] \in local[Nth(S, i)] /\ ReceiverList[i] \in topo.ranks
  <2>. DEFINE T == targets[i]
  <2>1. i \in 1 .. Cardinality(S)
    BY <1>4, <1>8
  <2>2. Nth(S, i) \in S /\ T = local[Nth(S, i)] \cap topo.ranks /\ T \in U
    BY <1>3, <1>5, <2>1
  <2>. HIDE DEF T
  <2>3. \E r \in T : \A q \in T : r <= q
    BY <2>2, LeastExists DEF U
  <2>4. Least(T) \in T
    BY <2>3
  <2>5. ReceiverList[i] = Least(T)
    BY <1>9 DEF T
  <2>6. ReceiverList[i] \in local[Nth(S, i)] /\ ReceiverList[i] \in topo.ranks
    BY <2>2, <2>4, <2>5
  <2>7. Nth(S, i) \in 1 .. Len(local)
    BY <1>2, <2>2
  <2>. QED
    BY <2>6, <2>7
<1>11. ASSUME NEW i \in 1 .. n, NEW j \in 1 .. n, ReceiverList[i] = ReceiverList[j]
       PROVE  i = j
  <2>1. Nth(S, i) = Nth(S, j)
    BY <1>10, <1>11 DEF LocalReady
  <2>2. i \in 1 .. Cardinality(S) /\ j \in 1 .. Cardinality(S)
    BY <1>4, <1>8
  <2>. QED
    BY <1>5, <2>1, <2>2
<1>. QED
  BY <1>8, <1>9, <1>10, <1>11

\* The buckets that receivers take as their c-th are of different devices.
Apart(list) ==
    /\ \A p \in 1 .. Len(list) : list[p].receiver \in topo.ranks
    /\ \A p, q \in 1 .. Len(list) :
          Device(list[p].bucket) = Device(list[q].bucket) /\ TurnOf(list, p) = TurnOf(list, q) => p = q

\* What is dealt out to the receivers is.
LEMMA DealtApart ==
    ASSUME LocalReady, topo.ranks # {}, buckets \in Seq(Buckets)
    PROVE  Apart(Dealt)
<1>. DEFINE K == Len(Flattened)
            n == Len(ReceiverList)
<1>1. Flattened \in Seq(Buckets)
  BY FlattenedFacts
<1>2. K \in Nat /\ Len(Dealt) = K /\ \A k \in 1 .. K : Dealt[k].bucket = Flattened[k]
  BY <1>1, DealtFacts
<1>3. CASE buckets = <<>>
  <2>1. PICK pi : Permutes(pi, K, Len(buckets))
    BY FlattenedFacts
  <2>2. K = 0
    BY <1>2, <1>3, <2>1 DEF Permutes
  <2>. QED
    BY <1>2, <2>2 DEF Apart
<1>4. CASE buckets # <<>>
  <2>1. /\ n \in Nat \ {0}
        /\ \A i \in 1 .. n : ReceiverList[i] \in topo.ranks
        /\ \A i, j \in 1 .. n : ReceiverList[i] = ReceiverList[j] => i = j
    BY <1>4, ReceiverListFacts
  <2>2. PICK rows, row, col : ByDevice(rows, row, col)
    BY FlattenedFacts
  <2>3. PICK ix : Passes(ix, row, n, K) /\ \A k \in 1 .. K : Dealt[k].receiver = ReceiverList[ix[k]]
    BY <1>1, <2>1, <2>2, DealtInPasses
  <2>4. \A k \in 1 .. K : ix[k] \in 1 .. n
    BY <2>3 DEF Passes
  <2>5. \A k \in 1 .. K : Dealt[k].receiver \in topo.ranks
    BY <2>1, <2>3, <2>4
  <2>6. ASSUME NEW k \in 1 .. K PROVE TurnOf(Dealt, k) = Taken(ix, k)
    <3>1. \A m \in 1 .. k : m \in 1 .. K
      BY <1>2
    <3>2. \A m \in 1 .. k : Dealt[m].receiver = Dealt[k].receiver <=> ix[m] = ix[k]
      BY <2>1, <2>3, <2>4, <3>1
    <3>3. {m \in 1 .. k : Dealt[m].receiver = Dealt[k].receiver} = {m \in 1 .. k : ix[m] = ix[k]}
      BY <3>2
    <3>. QED
      BY <3>3 DEF TurnOf, Taken
  <2>7. ASSUME NEW p \in 1 .. K, NEW q \in 1 .. K,
               Device(Dealt[p].bucket) = Device(Dealt[q].bucket), TurnOf(Dealt, p) = TurnOf(Dealt, q)
        PROVE  p = q
    <3>1. row[p] = row[q]
      BY <1>2, <2>2, <2>7 DEF ByDevice
    <3>2. Taken(ix, p) = Taken(ix, q)
      BY <2>6, <2>7
    <3>3. Interleaving(Flattened, rows, row, col) /\ \A d \in 1 .. Len(rows) : Len(rows[d]) \in Nat
      BY <2>2 DEF ByDevice
    <3>. QED
      BY <1>2, <2>1, <2>3, <3>1, <3>2, <3>3, RowsApart
  <2>. QED
    BY <1>2, <2>5, <2>7 DEF Apart
<1>. QED
  BY <1>3, <1>4

\* The plan has every bucket once.
LEMMA AssignedFacts ==
    ASSUME buckets \in Seq(Buckets)
    PROVE  /\ \E R : Assigned \in Seq([receiver : R, bucket : Buckets])
           /\ \E pi : /\ Permutes(pi, Len(Assigned), Len(buckets))
                      /\ \A p \in 1 .. Len(Assigned) : Assigned[p].bucket = buckets[pi[p]]
<1>. DEFINE n == Len(buckets)
<1>1. n \in Nat /\ DOMAIN buckets = 1 .. n /\ \A i \in 1 .. n : buckets[i] \in Buckets
  OBVIOUS
<1>2. CASE topo.ranks = {}
  <2>. DEFINE R == {owners[buckets[i].owner] : i \in 1 .. n}
              P == [receiver : R, bucket : Buckets]
              list == [i \in 1 .. n |-> [receiver |-> owners[buckets[i].owner], bucket |-> buckets[i]]]
              pi == [p \in 1 .. n |-> p]
  <2>1. Assigned = list
    BY <1>1, <1>2 DEF Assigned
  <2>2. \A i \in 1 .. n : list[i] \in P /\ list[i].bucket = buckets[i]
    BY <1>1
  <2>3. list \in [1 .. n -> P]
    BY <2>2
  <2>. HIDE DEF list, P
  <2>4. list \in Seq(P) /\ Len(list) = n
    BY <1>1, <2>3
  <2>5. Permutes(pi, n, n) /\ \A p \in 1 .. n : list[p].bucket = buckets[pi[p]]
    BY <2>2 DEF Permutes
  <2>. HIDE DEF pi, R
  <2>. QED
    BY <2>1, <2>4, <2>5 DEF P
<1>3. CASE topo.ranks # {}
  <2>1. Assigned = Dealt
    BY <1>3 DEF Assigned
  <2>2. PICK pi : /\ Permutes(pi, Len(Flattened), n)
                  /\ \A p \in 1 .. Len(Flattened) : Flattened[p] = buckets[pi[p]]
    BY FlattenedFacts
  <2>3. /\ Dealt \in Seq(Parcels) /\ Len(Dealt) = Len(Flattened)
        /\ \A i \in 1 .. Len(Flattened) : Dealt[i].bucket = Flattened[i]
    BY FlattenedFacts, DealtFacts
  <2>4. Permutes(pi, Len(Assigned), n) /\ \A p \in 1 .. Len(Assigned) : Assigned[p].bucket = buckets[pi[p]]
    BY <2>1, <2>2, <2>3
  <2>5. Assigned \in Seq([receiver : Receiving, bucket : Buckets])
    BY <2>1, <2>3 DEF Parcels
  <2>. QED
    BY <2>4, <2>5
<1>. QED
  BY <1>2, <1>3

-----------------------------------------------------------------------------
(* The order.                                                              *)

\* A plan has receivers and buckets.
LEMMA ElementsOfPlan ==
    ASSUME NEW R, NEW list \in Seq([receiver : R, bucket : Buckets])
    PROVE  /\ Len(list) \in Nat /\ DOMAIN list = 1 .. Len(list)
           /\ \A i \in 1 .. Len(list) : /\ list[i] \in [receiver : R, bucket : Buckets]
                                        /\ list[i].receiver \in R /\ list[i].bucket \in Buckets
<1>. DEFINE P == [receiver : R, bucket : Buckets]
<1>1. \A e \in P : e.receiver \in R /\ e.bucket \in Buckets
  OBVIOUS
<1>. HIDE DEF P
<1>2. Len(list) \in Nat /\ DOMAIN list = 1 .. Len(list) /\ \A i \in 1 .. Len(list) : list[i] \in P
  <2>1. list \in Seq(P)
    BY DEF P
  <2>. QED
    BY <2>1
<1>. QED
  BY <1>1, <1>2 DEF P

\* Who receives.
LEMMA ReceiversFacts ==
    ASSUME NEW R, plan \in Seq([receiver : R, bucket : Buckets])
    PROVE  /\ Receivers \in Seq(R)
           /\ Range(Receivers) = {plan[i].receiver : i \in 1 .. Len(plan)}
           /\ \A d, e \in 1 .. Len(Receivers) : Receivers[d] = Receivers[e] => d = e
<1>. DEFINE list == [i \in DOMAIN plan |-> plan[i].receiver]
<1>1. Len(plan) \in Nat /\ DOMAIN plan = 1 .. Len(plan) /\ \A i \in 1 .. Len(plan) : plan[i].receiver \in R
  BY ElementsOfPlan
<1>2. list \in [1 .. Len(plan) -> R]
  BY <1>1
<1>3. list \in Seq(R)
  BY <1>1, <1>2
<1>4. Range(list) = {plan[i].receiver : i \in 1 .. Len(plan)}
  BY <1>1 DEF Range
<1>5. Receivers = FirstSeen(list)
  BY DEF Receivers
<1>. HIDE DEF list
<1>6. /\ FirstSeen(list) \in Seq(R) /\ Range(FirstSeen(list)) = Range(list)
      /\ \A i, j \in 1 .. Len(FirstSeen(list)) : FirstSeen(list)[i] = FirstSeen(list)[j] => i = j
  BY <1>3, FirstSeenFacts
<1>. QED
  BY <1>4, <1>5, <1>6

\* What a rank sends: some of the plan, each from its own place.
LEMMA OwnBucketsFacts ==
    ASSUME NEW R, plan \in Seq([receiver : R, bucket : Buckets]), NEW r
    PROVE  LET S == {i \in 1 .. Len(plan) : plan[i].receiver = r} IN
           /\ OwnBuckets(r) \in Seq([receiver : R, bucket : Buckets])
           /\ Len(OwnBuckets(r)) = Cardinality(S)
           /\ \A c \in 1 .. Len(OwnBuckets(r)) :
                 Nth(S, c) \in S /\ OwnBuckets(r)[c] = plan[Nth(S, c)]
<1>. DEFINE S == {i \in 1 .. Len(plan) : plan[i].receiver = r}
            P == [receiver : R, bucket : Buckets]
<1>1. Len(plan) \in Nat /\ DOMAIN plan = 1 .. Len(plan)
  OBVIOUS
<1>2. IsFiniteSet(1 .. Len(plan)) /\ S \in SUBSET (1 .. Len(plan)) /\ S \in SUBSET Nat
  BY <1>1, FS_Interval
<1>3. \A i \in S : plan[i] \in P
  BY ElementsOfPlan
<1>4. OwnBuckets(r) = Picked(plan, S)
  BY <1>1 DEF OwnBuckets
<1>. HIDE DEF S, P
<1>5. IsFiniteSet(S)
  BY <1>2, FS_Subset
<1>6. /\ Picked(plan, S) \in Seq(P) /\ Len(Picked(plan, S)) = Cardinality(S)
      /\ \A i \in 1 .. Cardinality(S) : Nth(S, i) \in S /\ Picked(plan, S)[i] = plan[Nth(S, i)]
  BY <1>2, <1>3, <1>5, PickedFacts
<1>. QED
  BY <1>4, <1>6 DEF S, P

\* The order has all of the plan, each once; its rounds follow one another, and a
\* rank sends once in each of them, up to its last.
LEMMA SendOrderFacts ==
    ASSUME NEW R, plan \in Seq([receiver : R, bucket : Buckets])
    PROVE  /\ SendOrder \in Seq([receiver : R, round : Nat, bucket : Buckets])
           /\ \E pi : /\ Permutes(pi, Len(SendOrder), Len(plan))
                      /\ \A p \in 1 .. Len(SendOrder) : /\ SendOrder[p].receiver = plan[pi[p]].receiver
                                                        /\ SendOrder[p].bucket = plan[pi[p]].bucket
                                                        /\ SendOrder[p].round + 1 = TurnOf(plan, pi[p])
           /\ \A p \in 1 .. Len(SendOrder) - 1 :
                 SendOrder[p + 1].round \in {SendOrder[p].round, SendOrder[p].round + 1}
           /\ \A p, q \in 1 .. Len(SendOrder) :
                 /\ SendOrder[p].receiver = SendOrder[q].receiver
                 /\ SendOrder[p].round = SendOrder[q].round
                 => p = q
           /\ \A p \in 1 .. Len(SendOrder) : SendOrder[p].round > 0 =>
                 \E q \in 1 .. Len(SendOrder) : /\ SendOrder[q].receiver = SendOrder[p].receiver
                                                /\ SendOrder[q].round = SendOrder[p].round - 1
<1>. DEFINE n == Len(plan)
            keys == Receivers
            key == [i \in 1 .. n |-> plan[i].receiver]
            rows == [d \in DOMAIN keys |-> Turns(keys[d])]
            all == SendOrder
            Sent == [receiver : R, round : Nat, bucket : Buckets]
<1>1. /\ n \in Nat /\ DOMAIN plan = 1 .. n
      /\ \A i \in 1 .. n : plan[i].receiver \in R /\ plan[i].bucket \in Buckets
  BY ElementsOfPlan
<1>2. /\ keys \in Seq(R) /\ Len(keys) \in Nat /\ DOMAIN keys = 1 .. Len(keys)
      /\ Range(keys) = {plan[i].receiver : i \in 1 .. n}
      /\ \A d, e \in 1 .. Len(keys) : keys[d] = keys[e] => d = e
  <2>1. /\ keys \in Seq(R) /\ Range(keys) = {plan[i].receiver : i \in 1 .. n}
        /\ \A d, e \in 1 .. Len(keys) : keys[d] = keys[e] => d = e
    BY ReceiversFacts
  <2>. HIDE DEF keys
  <2>. QED
    BY <2>1
<1>3. /\ DOMAIN key = 1 .. n /\ \A i \in 1 .. n : key[i] = plan[i].receiver
      /\ Range(keys) = Range(key)
  <2>1. Range(key) = {plan[i].receiver : i \in 1 .. n}
    BY DEF Range
  <2>. QED
    BY <1>2, <2>1
<1>4. all = Interleaved(rows)
  BY DEF SendOrder
<1>. HIDE DEF keys, all
<1>5. ASSUME NEW d \in 1 .. Len(keys)
      PROVE  /\ rows[d] \in Seq(Sent)
             /\ Len(rows[d]) = Cardinality(WithKey(key, n, keys[d]))
             /\ \A c \in 1 .. Len(rows[d]) :
                   /\ NthWith(key, n, keys[d], c) \in 1 .. n
                   /\ plan[NthWith(key, n, keys[d], c)].receiver = keys[d]
                   /\ rows[d][c].receiver = keys[d] /\ rows[d][c].round = c - 1
                   /\ rows[d][c].bucket = plan[NthWith(key, n, keys[d], c)].bucket
  <2>. DEFINE S == {i \in 1 .. n : plan[i].receiver = keys[d]}
              own == OwnBuckets(keys[d])
  <2>1. rows[d] = Turns(keys[d])
    BY <1>2
  <2>2. /\ own \in Seq([receiver : R, bucket : Buckets]) /\ Len(own) = Cardinality(S)
        /\ \A c \in 1 .. Len(own) : Nth(S, c) \in S /\ own[c] = plan[Nth(S, c)]
    BY OwnBucketsFacts
  <2>3. /\ S = WithKey(key, n, keys[d]) /\ S \subseteq 1 .. n
        /\ \A i \in S : plan[i].receiver = keys[d]
    BY <1>3 DEF WithKey
  <2>4. \A c : NthWith(key, n, keys[d], c) = Nth(S, c)
    BY <2>3 DEF NthWith
  <2>5. Turns(keys[d]) = [i \in DOMAIN own |-> [receiver |-> keys[d], round |-> i - 1, bucket |-> own[i].bucket]]
    BY DEF Turns
  <2>6. keys[d] \in R
    BY <1>2
  <2>. HIDE DEF S, rows, own
  <2>7. Len(own) \in Nat /\ DOMAIN own = 1 .. Len(own) /\ \A c \in 1 .. Len(own) : own[c].bucket \in Buckets
    BY <2>2, ElementsOfPlan
  <2>. DEFINE Turn(i) == [receiver |-> keys[d], round |-> i - 1, bucket |-> own[i].bucket]
  <2>8. \A i \in 1 .. Len(own) : Turn(i) \in Sent
    BY <2>6, <2>7
  <2>9. rows[d] = [i \in 1 .. Len(own) |-> Turn(i)]
    BY <2>1, <2>5, <2>7
  <2>. HIDE DEF Sent
  <2>10. rows[d] \in [1 .. Len(own) -> Sent]
    BY <2>8, <2>9
  <2>11. rows[d] \in Seq(Sent) /\ Len(rows[d]) = Len(own)
    BY <2>7, <2>10
  <2>12. \A c \in 1 .. Len(own) :
            /\ rows[d][c].receiver = keys[d] /\ rows[d][c].round = c - 1
            /\ rows[d][c].bucket = own[c].bucket
    BY <2>9
  <2>. QED
    BY <2>2, <2>3, <2>4, <2>11, <2>12 DEF own
<1>. HIDE DEF Sent
<1>6. rows \in Seq(Seq(Sent)) /\ Len(rows) = Len(keys)
  <2>. DEFINE U == Seq(Sent)
  <2>1. \A d \in 1 .. Len(keys) : rows[d] \in U
    BY <1>5
  <2>2. rows = [d \in 1 .. Len(keys) |-> rows[d]]
    BY <1>2
  <2>. HIDE DEF U, rows
  <2>3. rows \in [1 .. Len(keys) -> U]
    BY <2>1, <2>2
  <2>4. rows \in Seq(U) /\ Len(rows) = Len(keys)
    BY <1>2, <2>3
  <2>. QED
    BY <2>4 DEF U
<1>. HIDE DEF rows, key, n
<1>7. all \in Seq(Sent) /\ Len(all) \in Nat
  BY <1>4, <1>6, InterleavedFacts
<1>8. PICK row, col : Interleaving(all, rows, row, col)
  BY <1>4, <1>6, InterleavedFacts
<1>. DEFINE pi == Origin(key, n, keys, all, row, col)
<1>9. Permutes(pi, Len(all), n) /\ InTurn(key, keys, row, col, pi, Len(all))
  BY <1>1, <1>2, <1>3, <1>5, <1>6, <1>7, <1>8, GroupsPermute
<1>10. ASSUME NEW p \in 1 .. Len(all)
       PROVE  /\ row[p] \in 1 .. Len(keys) /\ col[p] \in Nat
              /\ all[p].receiver = keys[row[p]] /\ all[p].round = col[p] - 1
              /\ all[p].receiver = plan[pi[p]].receiver /\ all[p].bucket = plan[pi[p]].bucket
  <2>1. /\ row[p] \in 1 .. Len(keys) /\ col[p] \in 1 .. Len(rows[row[p]]) /\ all[p] = rows[row[p]][col[p]]
        /\ col[p] \in Nat
    BY <1>6, <1>8 DEF Interleaving
  <2>2. pi[p] = NthWith(key, n, keys[row[p]], col[p])
    BY DEF Origin
  <2>. HIDE DEF pi
  <2>4. LET d == row[p]
            c == col[p] IN
        /\ plan[NthWith(key, n, keys[d], c)].receiver = keys[d]
        /\ rows[d][c].receiver = keys[d] /\ rows[d][c].round = c - 1
        /\ rows[d][c].bucket = plan[NthWith(key, n, keys[d], c)].bucket
    BY <1>5, <2>1
  <2>5. plan[pi[p]].receiver = keys[row[p]]
    BY <2>2, <2>4
  <2>6. (col[p] - 1) + 1 = col[p]
    BY <2>1
  <2>. QED
    BY <2>1, <2>2, <2>4, <2>5, <2>6
<1>. HIDE DEF pi
<1>11. ASSUME NEW p \in 1 .. Len(all) PROVE all[p].round + 1 = TurnOf(plan, pi[p])
  <2>1. pi[p] \in 1 .. n /\ Cardinality({i \in 1 .. pi[p] : key[i] = key[pi[p]]}) = col[p]
    BY <1>9 DEF Permutes, InTurn
  <2>2. {i \in 1 .. pi[p] : key[i] = key[pi[p]]}
           = {m \in 1 .. pi[p] : plan[m].receiver = plan[pi[p]].receiver}
    <3>1. \A m \in 1 .. pi[p] : m \in 1 .. n
      BY <1>1, <2>1
    <3>2. \A m \in 1 .. pi[p] : key[m] = key[pi[p]] <=> plan[m].receiver = plan[pi[p]].receiver
      BY <1>3, <2>1, <3>1
    <3>. QED
      BY <3>2
  <2>3. all[p].round = col[p] - 1 /\ col[p] \in Nat
    BY <1>10
  <2>4. TurnOf(plan, pi[p]) = Cardinality({m \in 1 .. pi[p] : plan[m].receiver = plan[pi[p]].receiver})
    BY DEF TurnOf
  <2>5. TurnOf(plan, pi[p]) = col[p]
    BY <2>1, <2>2, <2>4
  <2>. QED
    BY <2>3, <2>5
<1>12. ASSUME NEW p \in 1 .. Len(all) - 1
       PROVE  all[p + 1].round \in {all[p].round, all[p].round + 1}
  <2>1. \A d \in 1 .. Len(rows) : Len(rows[d]) \in Nat
    BY <1>6
  <2>2. p \in 1 .. Len(all) /\ p + 1 \in 1 .. Len(all)
    BY <1>7
  <2>3. col[p + 1] \in {col[p], col[p] + 1}
    BY <1>7, <1>8, <2>1, ColumnsFollow
  <2>4. all[p].round = col[p] - 1 /\ all[p + 1].round = col[p + 1] - 1 /\ col[p] \in Nat /\ col[p + 1] \in Nat
    BY <1>10, <2>2
  <2>. QED
    BY <2>3, <2>4
<1>13. ASSUME NEW p \in 1 .. Len(all), NEW q \in 1 .. Len(all),
              all[p].receiver = all[q].receiver, all[p].round = all[q].round
       PROVE  p = q
  <2>1. row[p] = row[q]
    BY <1>2, <1>10, <1>13
  <2>2. col[p] = col[q]
    BY <1>10, <1>13
  <2>. QED
    BY <1>7, <1>8, <2>1, <2>2, InterleavedOnce
<1>14. ASSUME NEW p \in 1 .. Len(all), all[p].round > 0
       PROVE  \E q \in 1 .. Len(all) :
                 all[q].receiver = all[p].receiver /\ all[q].round = all[p].round - 1
  <2>1. /\ row[p] \in 1 .. Len(rows) /\ col[p] \in 1 .. Len(rows[row[p]]) /\ col[p] \in Nat
        /\ Len(rows[row[p]]) \in Nat
    BY <1>6, <1>8 DEF Interleaving
  <2>2. all[p].round = col[p] - 1 /\ all[p].receiver = keys[row[p]]
    BY <1>10
  <2>3. col[p] - 1 \in 1 .. Len(rows[row[p]])
    BY <1>14, <2>1, <2>2
  <2>4. PICK q \in 1 .. Len(all) : row[q] = row[p] /\ col[q] = col[p] - 1
    BY <1>8, <2>1, <2>3 DEF Interleaving
  <2>5. all[q].round = col[q] - 1 /\ all[q].receiver = keys[row[q]]
    BY <1>10
  <2>. QED
    BY <2>2, <2>4, <2>5
<1>15. /\ Permutes(pi, Len(all), n)
       /\ \A p \in 1 .. Len(all) :
             /\ all[p].receiver = plan[pi[p]].receiver /\ all[p].bucket = plan[pi[p]].bucket
             /\ all[p].round + 1 = TurnOf(plan, pi[p])
  BY <1>9, <1>10, <1>11
<1>16. \A p \in 1 .. Len(all) - 1 : all[p + 1].round \in {all[p].round, all[p].round + 1}
  BY <1>12
<1>17. \A p, q \in 1 .. Len(all) :
          all[p].receiver = all[q].receiver /\ all[p].round = all[q].round => p = q
  BY <1>13
<1>18. \A p \in 1 .. Len(all) : all[p].round > 0 =>
          \E q \in 1 .. Len(all) :
             all[q].receiver = all[p].receiver /\ all[q].round = all[p].round - 1
  BY <1>14
<1>. QED
  BY <1>7, <1>15, <1>16, <1>17, <1>18, Zenon DEF all, n, Sent

-----------------------------------------------------------------------------
(* Starting.                                                               *)

\* Every rank has a place, and reaches what it reaches.
Reached == \E V : rdma.here \in Seq(V) /\ DOMAIN rdma.here = RanksOn(topo.here)

\* A parameter server finds out where each rank is reached.
LEMMA NewParameterServerFacts ==
    ASSUME Len(topo.here) * topo.here[1].gpus \in Nat, NewParameterServer, step' # "failed"
    PROVE  Reached'
<1>. DEFINE N == Len(topo.here) * topo.here[1].gpus
            at(r) == ReachedAt(r - 1, topo.here)
            V == {at(r) : r \in 1 .. N}
<1>1. rdma'.here = [r \in 1 .. N |-> at(r)] /\ topo' = topo
  <2>1. rdma' = [here |-> [r \in RanksOn(topo.here) |-> ReachedAt(r - 1, topo.here)],
                 there |-> [r \in RanksOn(topo.there) |-> ReachedAt(r - 1, topo.there)]]
    BY DEF NewParameterServer
  <2>2. rdma'.here = [r \in RanksOn(topo.here) |-> ReachedAt(r - 1, topo.here)]
    BY <2>1
  <2>3. topo' = topo
    BY DEF NewParameterServer, input
  <2>. QED
    BY <2>2, <2>3 DEF RanksOn
<1>2. N \in Nat
  OBVIOUS
<1>3. \A r \in 1 .. N : at(r) \in V
  OBVIOUS
<1>4. RanksOn(topo.here) = 1 .. N
  BY DEF RanksOn
<1>. HIDE DEF N, at, V
<1>5. rdma'.here \in [1 .. N -> V]
  BY <1>1, <1>3
<1>6. rdma'.here \in Seq(V) /\ DOMAIN rdma'.here = 1 .. N
  BY <1>2, <1>5
<1>7. RanksOn(topo.here)' = 1 .. N
  BY <1>1, <1>4 DEF RanksOn
<1>. QED
  BY <1>6, <1>7 DEF Reached

-----------------------------------------------------------------------------
(* Pinning.                                                                *)

Loaded ==
    /\ files \in Seq(Seq(Seq(Tensor))) /\ free \in Nat
    /\ Len(topo.here) * topo.here[1].gpus \in Nat
    /\ topo.ranks \subseteq {r - 1 : r \in RanksOn(topo.here)}

\* A size is rounded up to a multiple of Align.
LEMMA AlignSizeFacts ==
    ASSUME NEW bytes \in Nat
    PROVE  AlignSize(bytes) \in Nat /\ bytes <= AlignSize(bytes) /\ Multiple(AlignSize(bytes))
<1>1. Align \in Nat \ {0}
  BY PlanAssumption
<1>2. bytes + Align - 1 \in Nat
  BY <1>1
<1>. DEFINE x == bytes + Align - 1
            y == x \div Align
<1>. HIDE DEF x
<1>3. x \in Nat /\ y \in Nat /\ x < Align * y + Align
  BY <1>1, <1>2 DEF x
<1>4. y * Align \in Nat /\ y * Align = Align * y
  BY <1>1, <1>3
<1>5. bytes <= y * Align
  BY <1>1, <1>3, <1>4 DEF x
<1>6. AlignSize(bytes) = y * Align
  BY DEF AlignSize, x
<1>. QED
  BY <1>3, <1>4, <1>5, <1>6 DEF Multiple

\* The memory buffers tensors are put in.
Pools == Seq(Seq(Pinned)) \ {<<>>}

\* A tensor is put in the last memory buffer or in a new one.
LEMMA PutFacts ==
    ASSUME NEW pool \in Pools, NEW t \in Pinned
    PROVE  /\ Append(pool, <<t>>) \in Pools
           /\ UpdateLast(pool, Append(Last(pool), t)) \in Pools
<1>. DEFINE T == Seq(Pinned)
<1>1. pool \in Seq(T) \ {<<>>} /\ <<t>> \in T
  BY DEF Pools
<1>. HIDE DEF T
<1>2. Append(pool, <<t>>) \in Seq(T) \ {<<>>}
  BY <1>1
<1>3. Last(pool) \in T
  BY <1>1, UpdateLastFacts
<1>4. Append(Last(pool), t) \in T
  BY <1>3 DEF T
<1>5. UpdateLast(pool, Append(Last(pool), t)) \in Seq(T) \ {<<>>}
  BY <1>1, <1>4, UpdateLastFacts
<1>. QED
  BY <1>2, <1>5 DEF T, Pools

\* NormalPin's tensors, its limit, and one more tensor.
ToPin(owned) ==
    [k \in DOMAIN FlattenSeq(owned) |->
        WithSize(FlattenSeq(owned)[k], AlignSize(FlattenSeq(owned)[k].bytes))]
LimitOf(owned) == MaxOf(<<PinLimit, MaxOf(Sizes(ToPin(owned)))>>)
Put(owned, pool, t) ==
    IF SumOf(Sizes(Last(pool))) + t.size > LimitOf(owned)
    THEN Append(pool, <<t>>)
    ELSE UpdateLast(pool, Append(Last(pool), t))

\* Files have tensors, of which those to pin are made.
LEMMA ToPinFacts ==
    ASSUME NEW owned \in Seq(Seq(Tensor))
    PROVE  ToPin(owned) \in Seq(Pinned)
<1>1. FlattenSeq(owned) \in Seq(Tensor)
  BY FlattenPlaces
<1>. DEFINE flat == FlattenSeq(owned)
<1>. HIDE DEF flat
<1>2. Len(flat) \in Nat /\ DOMAIN flat = 1 .. Len(flat) /\ \A k \in 1 .. Len(flat) : flat[k] \in Tensor
  BY <1>1 DEF flat
<1>3. \A k \in 1 .. Len(flat) : WithSize(flat[k], AlignSize(flat[k].bytes)) \in Pinned
  BY <1>2, AlignSizeFacts DEF WithSize, Pinned, Tensor
<1>4. ToPin(owned) = [k \in 1 .. Len(flat) |-> WithSize(flat[k], AlignSize(flat[k].bytes))]
  BY <1>2 DEF ToPin, flat
<1>5. ToPin(owned) \in [1 .. Len(flat) -> Pinned]
  BY <1>3, <1>4
<1>. QED
  BY <1>2, <1>5

\* Tensors are put in memory buffers one after the other.
LEMMA NormalPinSteps ==
    ASSUME NEW owned \in Seq(Seq(Tensor))
    PROVE  \E at \in [0 .. Len(ToPin(owned)) -> Pools] :
              /\ at[0] = << <<>> >>
              /\ \A k \in 1 .. Len(ToPin(owned)) : at[k] = Put(owned, at[k - 1], ToPin(owned)[k])
              /\ NormalPin(owned) = at[Len(ToPin(owned))]
<1>. DEFINE n == Len(ToPin(owned))
            base == << <<>> >>
            places == ToPin(owned)
            iter == CHOOSE g : g = [s \in SUBSET DOMAIN places |->
                       IF s = {} THEN base ELSE Put(owned, g[s \ {Max(s)}], places[Max(s)])]
            F == [p \in Pools \X (1 .. n) |-> Put(owned, p[1], ToPin(owned)[p[2]])]
<1>1. NormalPin(owned) = iter[DOMAIN places]
  BY DEF NormalPin, Put, ToPin, LimitOf, FoldLeftDomain, FoldLeft, MapThenFoldSet
<1>2. n \in Nat /\ DOMAIN ToPin(owned) = 1 .. n
  BY ToPinFacts
<1>3. DOMAIN places = 1 .. n /\ \A k \in 1 .. n : places[k] = ToPin(owned)[k]
  BY <1>2
<1>4. base \in Pools
  BY DEF Pools
<1>5. IsFold(n, Pools, base, F)
  <2>1. ASSUME NEW x \in Pools, NEW k \in 1 .. n PROVE Put(owned, x, ToPin(owned)[k]) \in Pools
    <3>1. ToPin(owned)[k] \in Pinned
      BY <1>2, ToPinFacts
    <3>. QED
      BY <2>1, <3>1, PutFacts DEF Put
  <2>2. F \in [Pools \X (1 .. n) -> Pools]
    BY <2>1
  <2>. QED
    BY <1>2, <1>4, <2>2 DEF IsFold
<1>. HIDE DEF n, base, F, places
<1>6. PICK g : g \in [SUBSET (1 .. n) -> Pools] /\ Iterates(n, Pools, base, F, g)
  BY <1>5, FoldExists
<1>7. ASSUME NEW s \in SUBSET (1 .. n), s # {}, NEW x \in Pools
      PROVE  F[<<x, Max(s)>>] = Put(owned, x, places[Max(s)])
  <2>1. Max(s) \in 1 .. n
    BY <1>2, <1>7, MaxExists
  <2>. QED
    BY <1>3, <2>1 DEF F
<1>8. g = [s \in SUBSET DOMAIN places |->
             IF s = {} THEN base ELSE Put(owned, g[s \ {Max(s)}], places[Max(s)])]
  <2>1. ASSUME NEW s \in SUBSET (1 .. n)
        PROVE  g[s] = IF s = {} THEN base ELSE Put(owned, g[s \ {Max(s)}], places[Max(s)])
    <3>1. g[s \ {Max(s)}] \in Pools
      BY <1>6
    <3>. QED
      BY <1>6, <1>7, <3>1 DEF Iterates
  <2>. QED
    BY <1>3, <1>6, <2>1
<1>9. iter = [s \in SUBSET DOMAIN places |->
                IF s = {} THEN base ELSE Put(owned, iter[s \ {Max(s)}], places[Max(s)])]
  BY <1>8
<1>. DEFINE result == NormalPin(owned)
<1>10. result = iter[DOMAIN places]
  BY <1>1
<1>. HIDE DEF iter, result
<1>11. /\ iter[{}] = base
       /\ \A s \in SUBSET (1 .. n) :
             s # {} => iter[s] = Put(owned, iter[s \ {Max(s)}], places[Max(s)])
  BY <1>3, <1>9
<1>12. Iterates(n, Pools, base, F, iter)
  BY <1>7, <1>11 DEF Iterates
<1>13. PICK at : GoesThrough(n, Pools, base, F, at) /\ at[n] = iter[1 .. n]
  BY <1>5, <1>12, FoldSteps
<1>14. ASSUME NEW k \in 1 .. n PROVE at[k] = Put(owned, at[k - 1], ToPin(owned)[k])
  <2>1. at[k - 1] \in Pools
    BY <1>2, <1>13 DEF GoesThrough
  <2>. QED
    BY <1>13, <2>1 DEF F, GoesThrough
<1>15. result = at[n]
  BY <1>3, <1>10, <1>13
<1>. QED
  BY <1>13, <1>14, <1>15 DEF n, base, result, GoesThrough

\* A checkpoint in memory buffers.
LEMMA PinFacts ==
    ASSUME NEW owned \in Seq(Seq(Tensor))
    PROVE  NormalPin(owned) \in Seq(Seq(Pinned)) /\ (inplace => InplacePin(owned) \in Seq(Seq(Pinned)))
<1>1. NormalPin(owned) \in Seq(Seq(Pinned))
  <2>1. PICK at \in [0 .. Len(ToPin(owned)) -> Pools] : NormalPin(owned) = at[Len(ToPin(owned))]
    BY NormalPinSteps
  <2>2. Len(ToPin(owned)) \in Nat
    BY ToPinFacts
  <2>. QED
    BY <2>1, <2>2 DEF Pools
<1>2. ASSUME inplace PROVE InplacePin(owned) \in Seq(Seq(Pinned))
  <2>. DEFINE pool(f) == [k \in DOMAIN owned[f] |-> WithSize(owned[f][k], owned[f][k].bytes)]
              U == Seq(Pinned)
  <2>1. ASSUME NEW f \in 1 .. Len(owned) PROVE pool(f) \in U
    <3>1. owned[f] \in Seq(Tensor)
      OBVIOUS
    <3>2. \A x \in Tensor : WithSize(x, x.bytes) \in Pinned
      BY <1>2 DEF WithSize, Pinned, Tensor
    <3>. DEFINE file == owned[f]
                list == [k \in DOMAIN file |-> WithSize(file[k], file[k].bytes)]
    <3>3. pool(f) = list /\ file \in Seq(Tensor)
      BY <3>1
    <3>. HIDE DEF file, pool
    <3>4. Len(file) \in Nat /\ DOMAIN file = 1 .. Len(file) /\ \A k \in 1 .. Len(file) : file[k] \in Tensor
      BY <3>3
    <3>5. list \in [1 .. Len(file) -> Pinned]
      BY <3>2, <3>4
    <3>6. list \in Seq(Pinned)
      BY <3>4, <3>5
    <3>. QED
      BY <3>3, <3>6
  <2>2. InplacePin(owned) = [f \in 1 .. Len(owned) |-> pool(f)]
    BY DEF InplacePin
  <2>. HIDE DEF pool, U
  <2>. DEFINE n == Len(owned)
              inPlace == InplacePin(owned)
  <2>3. inPlace \in [1 .. n -> U] /\ n \in Nat
    BY <2>1, <2>2
  <2>. HIDE DEF n, inPlace
  <2>4. inPlace \in Seq(U)
    BY ONLY <2>3
  <2>. QED
    BY <2>4 DEF U, inPlace
<1>. QED
  BY <1>1, <1>2

\* What a rank has pinned.
LEMMA RegisterCheckpointFacts ==
    ASSUME Loaded, RegisterCheckpoint
    PROVE  PoolsTyped'
<1>. DEFINE pinned(r) == IF files[r] = <<>> THEN <<>>
                         ELSE IF inplace THEN InplacePin(files[r]) ELSE NormalPin(files[r])
            U == Seq(Seq(Pinned))
<1>1. Len(files) \in Nat /\ DOMAIN files = 1 .. Len(files) /\ \A r \in 1 .. Len(files) : files[r] \in Seq(Seq(Tensor))
  BY DEF Loaded
<1>2. \A r \in 1 .. Len(files) : pinned(r) \in U
  BY <1>1, PinFacts
<1>3. pools' = [r \in 1 .. Len(files) |-> pinned(r)]
  BY <1>1 DEF RegisterCheckpoint
<1>. HIDE DEF pinned, U
<1>4. pools' \in [1 .. Len(files) -> U]
  BY <1>2, <1>3
<1>5. pools' \in Seq(U)
  BY <1>1, <1>4
<1>6. Pinned' = Pinned
  BY DEF RegisterCheckpoint, input, Pinned, Multiple
<1>. QED
  BY <1>5, <1>6 DEF U, PoolsTyped

-----------------------------------------------------------------------------
(* Gathering.                                                              *)

\* What is left of the memory buffers when ranks without any are left out.
LEMMA GatherMetasFacts ==
    ASSUME PoolsTyped, GatherMetas
    PROVE  PoolsTyped'
<1>. DEFINE S == {r \in DOMAIN pools : pools[r] # <<>>}
            own == InOrder(S)
            U == Seq(Seq(Pinned))
<1>1. Len(pools) \in Nat /\ DOMAIN pools = 1 .. Len(pools) /\ \A r \in 1 .. Len(pools) : pools[r] \in U
  BY DEF PoolsTyped
<1>2. S \in SUBSET Nat /\ IsFiniteSet(S) /\ S \subseteq 1 .. Len(pools)
  <2>1. S \subseteq 1 .. Len(pools) /\ IsFiniteSet(1 .. Len(pools))
    BY <1>1, FS_Interval
  <2>. QED
    BY <2>1, FS_Subset
<1>3. pools' = [o \in DOMAIN own |-> pools[own[o]]]
  BY DEF GatherMetas
<1>. HIDE DEF S, U
<1>4. own \in Seq(S) /\ Len(own) \in Nat
  BY <1>2, InOrderFacts
<1>. HIDE DEF own
<1>5. ASSUME NEW o \in 1 .. Len(own) PROVE pools[own[o]] \in U
  <2>1. own[o] \in S
    BY <1>4
  <2>. QED
    BY <1>1, <1>2, <2>1
<1>6. DOMAIN own = 1 .. Len(own)
  BY <1>4
<1>7. pools' \in [1 .. Len(own) -> U]
  BY <1>3, <1>5, <1>6
<1>8. pools' \in Seq(U)
  BY <1>4, <1>7
<1>9. Pinned' = Pinned
  BY DEF GatherMetas, input, Pinned, Multiple
<1>. QED
  BY <1>8, <1>9 DEF U, PoolsTyped

\* The local devices share out the ranks.
LEMMA GatheredLocal ==
    ASSUME Reached, topo.ranks \subseteq {r - 1 : r \in RanksOn(topo.here)}, GatherMetas
    PROVE  LocalReady'
<1>1. PICK V : rdma.here \in Seq(V) /\ DOMAIN rdma.here = RanksOn(topo.here)
  BY DEF Reached
<1>. DEFINE here == rdma.here
            devices == FirstSeen(here)
            behind(d) == {r - 1 : r \in {r \in DOMAIN here : here[r] = devices[d]}}
<1>2. here \in Seq(V) /\ DOMAIN here = 1 .. Len(here) /\ Len(here) \in Nat
  BY <1>1
<1>3. local' = [d \in DOMAIN devices |-> behind(d)] /\ topo' = topo
  BY DEF GatherMetas, input
<1>. HIDE DEF here
<1>4. /\ devices \in Seq(V) /\ Range(devices) = Range(here)
      /\ \A i, j \in 1 .. Len(devices) : devices[i] = devices[j] => i = j
  BY <1>2, FirstSeenFacts
<1>. HIDE DEF devices
<1>5. Len(devices) \in Nat /\ DOMAIN devices = 1 .. Len(devices)
  BY <1>4
<1>6. \A d : \A q : q \in behind(d) <=> \E r \in 1 .. Len(here) : here[r] = devices[d] /\ q = r - 1
  BY <1>2
<1>7. \A d : behind(d) \in SUBSET Nat
  <2>. SUFFICES ASSUME NEW d, NEW q \in behind(d) PROVE q \in Nat
    OBVIOUS
  <2>1. PICK r \in 1 .. Len(here) : q = r - 1
    BY <1>6
  <2>. QED
    BY <1>2, <2>1
<1>. HIDE DEF behind
<1>8. local' \in Seq(SUBSET Nat) /\ Len(local') = Len(devices)
  <2>1. local' \in [1 .. Len(devices) -> SUBSET Nat]
    BY <1>3, <1>5, <1>7
  <2>. QED
    BY <1>5, <2>1
<1>9. \A d \in 1 .. Len(devices) : local'[d] = behind(d)
  BY <1>3, <1>5
<1>10. ASSUME NEW d \in 1 .. Len(devices), NEW e \in 1 .. Len(devices), NEW q, q \in behind(d), q \in behind(e)
       PROVE  d = e
  <2>1. PICK r \in 1 .. Len(here) : here[r] = devices[d] /\ q = r - 1
    BY <1>6, <1>10
  <2>2. PICK s \in 1 .. Len(here) : here[s] = devices[e] /\ q = s - 1
    BY <1>6, <1>10
  <2>3. r = s
    BY <1>2, <2>1, <2>2
  <2>. QED
    BY <1>4, <2>1, <2>2, <2>3
<1>11. ASSUME NEW q \in topo.ranks PROVE \E d \in 1 .. Len(devices) : q \in behind(d)
  <2>1. PICK r \in 1 .. Len(here) : q = r - 1
    BY <1>1, <1>2 DEF here
  <2>2. here[r] \in Range(devices)
    BY <1>2, <1>4, <2>1 DEF Range
  <2>3. PICK d \in 1 .. Len(devices) : devices[d] = here[r]
    BY <1>5, <2>2 DEF Range
  <2>. QED
    BY <1>6, <2>1, <2>3
<1>. QED
  BY <1>3, <1>8, <1>9, <1>10, <1>11 DEF LocalReady

-----------------------------------------------------------------------------
(* Sizing.                                                                 *)

\* A number is what is left when it is divided, and a multiple.
LEMMA DivFacts ==
    ASSUME NEW x \in Nat, NEW d \in Nat \ {0}
    PROVE  /\ x \div d \in Nat /\ x % d \in 0 .. d - 1
           /\ x = (x \div d) * d + (x % d)
<1>1. x \div d \in Nat
  OBVIOUS
<1>2. x % d \in 0 .. d - 1
  OBVIOUS
<1>3. x % d = x - (x \div d) * d
  OBVIOUS
<1>. DEFINE q == x \div d
            r == x % d
<1>. HIDE DEF q, r
<1>4. q \in Nat /\ r \in Nat /\ r = x - q * d
  BY <1>1, <1>2, <1>3 DEF q, r
<1>5. x = q * d + r
  <2>1. q * d \in Nat
    BY <1>4
  <2>. QED
    BY <1>4, <2>1
<1>6. x = (x \div d) * d + (x % d)
  BY <1>5 DEF q, r
<1>. QED
  BY <1>1, <1>2, <1>6

\* A number that is divided without a rest is a multiple.
LEMMA DivExact ==
    ASSUME NEW x \in Nat, NEW d \in Nat \ {0}, x % d = 0
    PROVE  x \div d \in Nat /\ x = (x \div d) * d
<1>. DEFINE q == x \div d
            r == x % d
<1>1. q \in Nat /\ r = 0 /\ x = q * d + r
  BY DivFacts
<1>. HIDE DEF q, r
<1>2. q * d \in Nat
  BY <1>1
<1>3. x = q * d
  BY <1>1, <1>2
<1>. QED
  BY <1>1, <1>3 DEF q

\* No tensor is larger than a bucket, the buffers fit in the free memory, and the
\* second half of the double buffer begins at a multiple of Align if the limit is one
\* and nothing is pinned in place.
SizesFit ==
    /\ sizing.size \in Nat /\ sizing.h2d \in BOOLEAN
    /\ (IF sizing.h2d THEN 3 ELSE 2) * sizing.size <= free
    /\ ~inplace /\ MaxBucket % Align = 0 => Multiple(sizing.size)
    /\ \A o \in 1 .. Len(pools) : \A b \in 1 .. Len(pools[o]) : \A k \in 1 .. Len(pools[o][b]) :
          pools[o][b][k].size <= sizing.size

\* What a number of buffers may take of the free memory.
LEMMA ShareFacts ==
    ASSUME Loaded, NEW k \in {2, 3}
    PROVE  Share(k) \in Nat /\ k * Share(k) <= free /\ Multiple(Share(k))
<1>1. Align \in Nat \ {0} /\ free \in Nat
  BY PlanAssumption DEF Loaded
<1>2. k * Align \in Nat \ {0}
  BY <1>1
<1>. DEFINE m == k * Align
            q == free \div m
<1>. HIDE DEF m
<1>3. q \in Nat /\ m * q <= free
  BY <1>1, <1>2 DEF m
<1>. HIDE DEF q
<1>4. q * Align \in Nat
  BY <1>1, <1>3
<1>5. k * (q * Align) = m * q
  BY <1>1, <1>3 DEF m
<1>. QED
  BY <1>3, <1>4, <1>5 DEF Share, Multiple, q, m

\* The largest of a list of multiples of Align is one.
LEMMA MaxOfMultiples ==
    ASSUME NEW list \in Seq(Nat), \A i \in 1 .. Len(list) : Multiple(list[i])
    PROVE  Multiple(MaxOf(list))
<1>1. Multiple(0)
  BY PlanAssumption, 0 * Align = 0 DEF Multiple
<1>2. MaxOf(list) = 0 \/ \E i \in 1 .. Len(list) : MaxOf(list) = list[i]
  BY MaxOfFacts
<1>. QED
  BY <1>1, <1>2

\* The largest tensor.
Largest == MaxOf([o \in DOMAIN pools |-> MaxOf(Sizes(FlattenSeq(pools[o])))])

\* No tensor is larger than the largest.
LEMMA LargestFacts ==
    ASSUME PoolsTyped
    PROVE  /\ Largest \in Nat
           /\ \A o \in 1 .. Len(pools) : \A b \in 1 .. Len(pools[o]) : \A k \in 1 .. Len(pools[o][b]) :
                 pools[o][b][k].size <= Largest
           /\ ~inplace => Multiple(Largest)
<1>. DEFINE largest(o) == MaxOf(Sizes(FlattenSeq(pools[o])))
            list == [o \in DOMAIN pools |-> largest(o)]
<1>1. Len(pools) \in Nat /\ DOMAIN pools = 1 .. Len(pools) /\ \A o \in 1 .. Len(pools) : pools[o] \in Seq(Seq(Pinned))
  BY DEF PoolsTyped
<1>2. ASSUME NEW o \in 1 .. Len(pools)
      PROVE  /\ largest(o) \in Nat
             /\ \A b \in 1 .. Len(pools[o]) : \A k \in 1 .. Len(pools[o][b]) :
                   pools[o][b][k].size <= largest(o)
             /\ ~inplace => Multiple(largest(o))
  <2>. DEFINE flat == FlattenSeq(pools[o])
              sizes == Sizes(flat)
  <2>1. pools[o] \in Seq(Seq(Pinned))
    BY <1>1
  <2>2. PICK at, off : flat \in Seq(Pinned) /\ Placing(flat, pools[o], at, off)
    BY <2>1, FlattenPlaces
  <2>. HIDE DEF flat
  <2>3. /\ Len(flat) \in Nat /\ DOMAIN flat = 1 .. Len(flat)
        /\ \A p \in 1 .. Len(flat) : flat[p].size \in Nat /\ (~inplace => Multiple(flat[p].size))
    <3>1. \A t \in Pinned : t.size \in Nat /\ (~inplace => Multiple(t.size))
      BY DEF Pinned
    <3>2. \A p \in 1 .. Len(flat) : flat[p] \in Pinned
      BY <2>2
    <3>. QED
      BY <2>2, <3>1, <3>2
  <2>4. sizes = [p \in 1 .. Len(flat) |-> flat[p].size]
    BY <2>3 DEF Sizes
  <2>. HIDE DEF sizes
  <2>5. sizes \in [1 .. Len(flat) -> Nat]
    BY <2>3, <2>4
  <2>6. sizes \in Seq(Nat) /\ Len(sizes) = Len(flat)
    BY <2>3, <2>5
  <2>7. MaxOf(sizes) \in Nat /\ \A p \in 1 .. Len(flat) : sizes[p] <= MaxOf(sizes)
    BY <2>6, MaxOfFacts
  <2>8. ASSUME NEW b \in 1 .. Len(pools[o]), NEW k \in 1 .. Len(pools[o][b])
        PROVE  pools[o][b][k].size <= MaxOf(sizes)
    <3>1. PICK p \in 1 .. Len(flat) : at[p] = b /\ off[p] = k
      BY <2>2 DEF Placing
    <3>2. flat[p] = pools[o][b][k]
      BY <2>2, <3>1 DEF Placing
    <3>. QED
      BY <2>4, <2>7, <3>1, <3>2
  <2>9. ~inplace => Multiple(MaxOf(sizes))
    <3>. SUFFICES ASSUME ~inplace PROVE Multiple(MaxOf(sizes))
      OBVIOUS
    <3>1. \A p \in 1 .. Len(sizes) : Multiple(sizes[p])
      BY <2>3, <2>4, <2>6
    <3>. QED
      BY <2>6, <3>1, MaxOfMultiples
  <2>. QED
    BY <2>7, <2>8, <2>9 DEF sizes, flat
<1>3. Largest = MaxOf(list)
  BY DEF Largest
<1>. HIDE DEF largest
<1>4. list \in [1 .. Len(pools) -> Nat]
  BY <1>1, <1>2
<1>5. list \in Seq(Nat) /\ Len(list) = Len(pools)
  BY <1>1, <1>4
<1>6. \A o \in 1 .. Len(pools) : list[o] = largest(o)
  BY <1>1
<1>. HIDE DEF list
<1>7. MaxOf(list) \in Nat /\ \A o \in 1 .. Len(pools) : largest(o) <= MaxOf(list)
  BY <1>5, <1>6, MaxOfFacts
<1>8. ASSUME NEW o \in 1 .. Len(pools), NEW b \in 1 .. Len(pools[o]), NEW k \in 1 .. Len(pools[o][b])
      PROVE  pools[o][b][k].size <= MaxOf(list)
  <2>1. pools[o][b][k].size <= largest(o) /\ largest(o) \in Nat /\ largest(o) <= MaxOf(list)
    BY <1>2, <1>7
  <2>2. pools[o][b][k].size \in Nat
    <3>1. pools[o][b] \in Seq(Pinned)
      BY <1>1
    <3>2. pools[o][b][k] \in Pinned
      BY <3>1
    <3>. QED
      BY <3>2 DEF Pinned
  <2>. QED
    BY <1>7, <2>1, <2>2
<1>9. ASSUME ~inplace PROVE Multiple(MaxOf(list))
  <2>1. \A o \in 1 .. Len(list) : Multiple(list[o])
    BY <1>2, <1>5, <1>6, <1>9
  <2>. QED
    BY <1>5, <2>1, MaxOfMultiples
<1>. QED
  BY <1>3, <1>7, <1>8, <1>9

\* Buffers of the size that is found fit, and hold every tensor.
LEMMA DetectBucketSizeFacts ==
    ASSUME Loaded, PoolsTyped, DetectBucketSize, step' = "sized"
    PROVE  SizesFit'
<1>. DEFINE h2d == Largest <= Share(3)
            room == IF h2d THEN Share(3) ELSE Share(2)
            most == MaxOf(<<MaxBucket, Largest>>)
<1>1. /\ sizing' = [size |-> MinOf(most, room), h2d |-> h2d]
      /\ Largest <= room /\ pools' = pools /\ free' = free
  BY DEF DetectBucketSize, Largest, input
<1>2. Largest \in Nat /\ room \in Nat /\ (IF h2d THEN 3 ELSE 2) * room <= free /\ free \in Nat
  BY LargestFacts, ShareFacts DEF Loaded
<1>3. /\ most \in Nat /\ Largest <= most
      /\ ~inplace /\ MaxBucket % Align = 0 => Multiple(most)
  <2>. DEFINE list == <<MaxBucket, Largest>>
  <2>1. list \in Seq(Nat) /\ Len(list) = 2 /\ list[1] = MaxBucket /\ list[2] = Largest
    BY <1>2, PlanAssumption
  <2>. HIDE DEF list
  <2>2. MaxOf(list) \in Nat /\ list[2] <= MaxOf(list)
    BY <2>1, MaxOfFacts
  <2>3. ASSUME ~inplace, MaxBucket % Align = 0 PROVE Multiple(MaxOf(list))
    <3>1. Multiple(MaxBucket)
      BY <2>3, PlanAssumption, DivExact DEF Multiple
    <3>2. \A i \in 1 .. Len(list) : Multiple(list[i])
      BY <2>1, <2>3, <3>1, LargestFacts
    <3>. QED
      BY <2>1, <3>2, MaxOfMultiples
  <2>. QED
    BY <2>1, <2>2, <2>3 DEF list
<1>0. Multiple(room)
  BY ShareFacts
<1>. HIDE DEF most, room, h2d
<1>. DEFINE size == MinOf(most, room)
<1>4. size \in Nat /\ size <= room /\ Largest <= size
  BY <1>1, <1>2, <1>3 DEF MinOf
<1>. HIDE DEF size
<1>5. (IF h2d THEN 3 ELSE 2) * size <= free
  BY <1>2, <1>4
<1>6. h2d \in BOOLEAN
  BY DEF h2d
<1>7. ASSUME NEW o \in 1 .. Len(pools), NEW b \in 1 .. Len(pools[o]), NEW k \in 1 .. Len(pools[o][b])
      PROVE  pools[o][b][k].size <= size
  <2>1. pools[o][b][k].size <= Largest
    BY LargestFacts
  <2>2. pools[o][b][k].size \in Nat
    <3>1. pools[o][b] \in Seq(Pinned)
      BY DEF PoolsTyped
    <3>2. pools[o][b][k] \in Pinned
      BY <3>1
    <3>. QED
      BY <3>2 DEF Pinned
  <2>. QED
    BY <1>2, <1>4, <2>1, <2>2
<1>8. sizing'.size = size /\ sizing'.h2d = h2d
  BY <1>1 DEF size
<1>9. ~inplace /\ MaxBucket % Align = 0 => Multiple(size)
  BY <1>0, <1>3 DEF MinOf, size
<1>10. inplace' = inplace /\ \A x : Multiple(x)' <=> Multiple(x)
  BY DEF DetectBucketSize, input, Multiple
<1>. QED
  BY <1>1, <1>4, <1>5, <1>6, <1>7, <1>8, <1>9, <1>10 DEF SizesFit

-----------------------------------------------------------------------------
(* The size of the buckets.                                                *)

Fit(cut) == \A n \in 1 .. Len(cut) : cut[n].size <= sizing.size

\* The open bucket.
LEMMA LastFacts ==
    ASSUME NEW cut \in Cuts
    PROVE  Len(cut) \in Nat \ {0} /\ Last(cut) = cut[Len(cut)] /\ Last(cut) \in Buckets
BY DEF Cuts, Last

\* A bucket that fits is added, or takes the place of the last.
LEMMA FitFacts ==
    ASSUME NEW cut \in Cuts, Fit(cut), NEW bucket \in Buckets, bucket.size <= sizing.size
    PROVE  Fit(UpdateLast(cut, bucket)) /\ Fit(Append(cut, bucket))
<1>1. /\ Len(UpdateLast(cut, bucket)) = Len(cut) /\ Len(cut) \in Nat \ {0}
      /\ \A i \in 1 .. Len(cut) : UpdateLast(cut, bucket)[i] = IF i = Len(cut) THEN bucket ELSE cut[i]
  BY UpdateLastFacts DEF Cuts
<1>2. /\ Len(Append(cut, bucket)) = Len(cut) + 1 /\ Append(cut, bucket)[Len(cut) + 1] = bucket
      /\ \A i \in 1 .. Len(cut) : Append(cut, bucket)[i] = cut[i]
  BY AppendFacts DEF Cuts
<1>3. \A i \in 1 .. Len(cut) + 1 : i \in 1 .. Len(cut) \/ i = Len(cut) + 1
  BY <1>1
<1>. QED
  BY <1>1, <1>2, <1>3 DEF Fit

\* A tensor that would make the last bucket too large goes into one of its own.
LEMMA CutTensorFits ==
    ASSUME PoolsTyped, SizesFit, NEW o \in 1 .. Len(pools), NEW b \in 1 .. Len(pools[o]),
           NEW k \in 1 .. Len(pools[o][b]), NEW at \in Cutting, Fit(at.cut)
    PROVE  Fit(CutTensor(o, b, at, k).cut)
<1>. DEFINE t == pools[o][b][k]
            last == Last(at.cut)
            next == CutTensor(o, b, at, k).cut
<1>1. at.cut \in Cuts /\ at.start \in Nat /\ at.offset \in Nat /\ at.start <= at.offset
  BY DEF Cutting
<1>2. last \in Buckets /\ last.size <= sizing.size
  <2>1. /\ Len(at.cut) \in Nat \ {0} /\ last = at.cut[Len(at.cut)] /\ last \in Buckets
    BY <1>1, LastFacts
  <2>. QED
    BY <2>1 DEF Fit
<1>3. t.size \in Nat /\ t.size <= sizing.size /\ sizing.size \in Nat /\ last.size \in Nat
  <2>1. t \in Pinned
    BY CutTensorFacts
  <2>. QED
    BY <1>2, <2>1 DEF SizesFit, Pinned, Buckets
<1>4. CASE ~Overflows(last, t)
  <2>1. PICK filled \in Buckets : filled = AddTensor(last, t.size, <<b, k>>) /\ next = UpdateLast(at.cut, filled)
    BY <1>4, CutTensorFacts
  <2>2. filled.size = last.size + t.size
    BY <2>1 DEF AddTensor
  <2>3. filled.size <= sizing.size
    BY <1>3, <1>4, <2>2 DEF Overflows
  <2>. QED
    BY <1>1, <2>1, <2>3, FitFacts
<1>5. CASE Overflows(last, t)
  <2>1. PICK filled \in Buckets, closed \in Buckets :
           /\ filled = AddTensor(EmptyBucket(o), t.size, <<b, k>>)
           /\ closed = IF at.offset > at.start THEN AddRange(last, b, at.start, at.offset) ELSE last
           /\ next = Append(UpdateLast(at.cut, closed), filled)
    BY <1>5, CutTensorFacts
  <2>2. filled.size <= sizing.size
    BY <1>3, <2>1 DEF AddTensor, EmptyBucket
  <2>3. b \in Nat
    BY DEF PoolsTyped
  <2>4. closed.size = last.size
    <3>. HIDE DEF last
    <3>1. CASE at.offset > at.start
      BY <1>2, <2>1, <3>1 DEF AddRange, Buckets
    <3>. QED
      BY <2>1, <3>1
  <2>5. Fit(UpdateLast(at.cut, closed))
    BY <1>1, <1>2, <2>4, FitFacts
  <2>6. UpdateLast(at.cut, closed) \in Cuts
    BY <1>1, UpdateLastFacts DEF Cuts
  <2>. QED
    BY <2>1, <2>2, <2>5, <2>6, FitFacts
<1>. QED
  BY <1>4, <1>5

\* So do the buckets of a memory buffer ...
LEMMA CutBufferFits ==
    ASSUME PoolsTyped, SizesFit, NEW o \in 1 .. Len(pools), NEW b \in 1 .. Len(pools[o]),
           NEW cut \in Cuts, Fit(cut)
    PROVE  Fit(CutBuffer(o, cut, b))
<1>. DEFINE n == Len(pools[o][b])
<1>1. PICK at \in [0 .. n -> Cutting] :
         /\ at[0] = [cut |-> cut, start |-> 0, offset |-> 0]
         /\ \A k \in 1 .. n : at[k] = CutTensor(o, b, at[k - 1], k)
         /\ CutBuffer(o, cut, b) =
               UpdateLast(at[n].cut, AddRange(Last(at[n].cut), b, at[n].start, at[n].offset))
  BY CutBufferSteps
<1>2. n \in Nat /\ b \in Nat
  <2>1. pools[o] \in Seq(Seq(Pinned))
    BY DEF PoolsTyped
  <2>2. pools[o][b] \in Seq(Pinned)
    BY <2>1
  <2>. QED
    BY <2>2
<1>. DEFINE S == {m \in Nat : m <= n => Fit(at[m].cut)}
<1>3. 0 \in S
  BY <1>1
<1>4. ASSUME NEW m \in S PROVE m + 1 \in S
  <2>. SUFFICES ASSUME m + 1 <= n PROVE Fit(at[m + 1].cut)
    OBVIOUS
  <2>1. m \in 0 .. n /\ m + 1 \in 1 .. n /\ (m + 1) - 1 = m /\ Fit(at[m].cut)
    BY <1>2
  <2>2. at[m] \in Cutting /\ at[m + 1] = CutTensor(o, b, at[m], m + 1)
    BY <1>1, <2>1
  <2>. QED
    BY <2>1, <2>2, CutTensorFits
<1>. HIDE DEF n
<1>5. Fit(at[n].cut) /\ at[n] \in Cutting
  <2>. HIDE DEF S
  <2>1. S = Nat
    <3>1. S \subseteq Nat
      BY DEF S
    <3>. QED
      BY <1>3, <1>4, <3>1, Induction
  <2>. QED
    BY <1>2, <2>1 DEF S
<1>6. /\ at[n].cut \in Cuts /\ at[n].start \in Nat /\ at[n].offset \in Nat /\ at[n].start <= at[n].offset
  BY <1>5 DEF Cutting
<1>. DEFINE last == Last(at[n].cut)
<1>7. last \in Buckets /\ last.size <= sizing.size
  <2>1. /\ Len(at[n].cut) \in Nat \ {0} /\ last = at[n].cut[Len(at[n].cut)] /\ last \in Buckets
    BY <1>6, LastFacts
  <2>. QED
    BY <1>5, <2>1 DEF Fit
<1>. DEFINE closed == AddRange(last, b, at[n].start, at[n].offset)
<1>8. closed \in Buckets /\ closed.size = last.size
  <2>. HIDE DEF last
  <2>1. closed \in Buckets
    BY <1>2, <1>6, <1>7, AddRangeFacts
  <2>2. closed.size = last.size
    BY <1>7 DEF AddRange, Buckets
  <2>. QED
    BY <2>1, <2>2
<1>. QED
  BY <1>1, <1>5, <1>6, <1>7, <1>8, FitFacts DEF n

\* ... of an owner ...
LEMMA CutOwnerFits ==
    ASSUME PoolsTyped, SizesFit, NEW o \in 1 .. Len(pools), NEW cut \in Seq(Buckets), Fit(cut)
    PROVE  Fit(CutOwner(cut, o))
<1>. DEFINE n == Len(pools[o])
<1>1. PICK at \in [0 .. n -> Cuts] :
         /\ at[0] = Append(cut, EmptyBucket(o))
         /\ \A b \in 1 .. n : at[b] = CutBuffer(o, at[b - 1], b)
         /\ CutOwner(cut, o) = at[n]
  BY CutOwnerSteps
<1>2. n \in Nat /\ o \in Nat
  BY DEF PoolsTyped
<1>. DEFINE S == {m \in Nat : m <= n => Fit(at[m])}
<1>3. Fit(Append(cut, EmptyBucket(o)))
  <2>1. EmptyBucket(o) \in Buckets
    BY <1>2, EmptyBucketFacts
  <2>2. EmptyBucket(o).size <= sizing.size
    BY DEF EmptyBucket, SizesFit
  <2>. DEFINE empty == EmptyBucket(o)
  <2>. HIDE DEF empty
  <2>3. /\ Len(Append(cut, empty)) = Len(cut) + 1 /\ Append(cut, empty)[Len(cut) + 1] = empty
        /\ Len(cut) \in Nat /\ \A i \in 1 .. Len(cut) : Append(cut, empty)[i] = cut[i]
    BY <2>1, AppendFacts DEF empty
  <2>4. \A i \in 1 .. Len(cut) + 1 : i \in 1 .. Len(cut) \/ i = Len(cut) + 1
    BY <2>3
  <2>. QED
    BY <2>2, <2>3, <2>4 DEF Fit, empty
<1>4. 0 \in S
  BY <1>1, <1>3
<1>5. ASSUME NEW m \in S PROVE m + 1 \in S
  <2>. SUFFICES ASSUME m + 1 <= n PROVE Fit(at[m + 1])
    OBVIOUS
  <2>1. m \in 0 .. n /\ m + 1 \in 1 .. n /\ (m + 1) - 1 = m /\ Fit(at[m])
    BY <1>2
  <2>2. at[m] \in Cuts /\ at[m + 1] = CutBuffer(o, at[m], m + 1)
    BY <1>1, <2>1
  <2>. QED
    BY <2>1, <2>2, CutBufferFits
<1>. HIDE DEF S
<1>6. S = Nat
  <2>1. S \subseteq Nat
    BY DEF S
  <2>. QED
    BY <1>4, <1>5, <2>1, Induction
<1>7. n \in S
  BY <1>2, <1>6
<1>. QED
  BY <1>1, <1>7 DEF S

\* ... and all of them.
LEMMA AllBucketsFit ==
    ASSUME PoolsTyped, SizesFit
    PROVE  AllBuckets \in Seq(Buckets) /\ Fit(AllBuckets)
<1>. DEFINE n == Len(pools)
<1>1. PICK at \in [0 .. n -> Seq(Buckets)] :
         /\ at[0] = <<>>
         /\ \A o \in 1 .. n : at[o] = CutOwner(at[o - 1], o)
         /\ AllBuckets = at[n]
  BY CutSteps
<1>2. n \in Nat
  BY DEF PoolsTyped
<1>. DEFINE S == {m \in Nat : m <= n => Fit(at[m])}
<1>3. 0 \in S
  BY <1>1 DEF Fit
<1>4. ASSUME NEW m \in S PROVE m + 1 \in S
  <2>. SUFFICES ASSUME m + 1 <= n PROVE Fit(at[m + 1])
    OBVIOUS
  <2>1. m \in 0 .. n /\ m + 1 \in 1 .. n /\ (m + 1) - 1 = m /\ Fit(at[m])
    BY <1>2
  <2>2. at[m] \in Seq(Buckets) /\ at[m + 1] = CutOwner(at[m], m + 1)
    BY <1>1, <2>1
  <2>. QED
    BY <2>1, <2>2, CutOwnerFits
<1>. HIDE DEF S
<1>5. S = Nat
  <2>1. S \subseteq Nat
    BY DEF S
  <2>. QED
    BY <1>3, <1>4, <2>1, Induction
<1>. QED
  BY <1>1, <1>2, <1>5 DEF S

-----------------------------------------------------------------------------
(* What the buckets have of the tensors.                                   *)

IsTensor(x, y, z) == x \in 1 .. Len(pools) /\ y \in 1 .. Len(pools[x]) /\ z \in 1 .. Len(pools[x][y])

Precedes(x, y, z, o, b, k) == x < o \/ (x = o /\ (y < b \/ (y = b /\ z < k)))

\* A bucket has a tensor.
Held(cut, x, y, z) ==
    \E n \in 1 .. Len(cut) : \E i \in 1 .. Len(cut[n].items) :
        cut[n].owner = x /\ cut[n].items[i] = <<y, z>>

\* The buckets have the tensors before one of them, each once, and nothing else.
HasAll(cut, o, b, k) ==
    \A x, y, z \in Nat : IsTensor(x, y, z) /\ Precedes(x, y, z, o, b, k) => Held(cut, x, y, z)
HasOnly(cut, o, b, k) ==
    \A n \in 1 .. Len(cut) : \A i \in 1 .. Len(cut[n].items) :
        /\ IsTensor(cut[n].owner, cut[n].items[i][1], cut[n].items[i][2])
        /\ Precedes(cut[n].owner, cut[n].items[i][1], cut[n].items[i][2], o, b, k)
HasOnce(cut) ==
    \A m, n \in 1 .. Len(cut) : \A i \in 1 .. Len(cut[m].items) : \A j \in 1 .. Len(cut[n].items) :
        cut[m].owner = cut[n].owner /\ cut[m].items[i] = cut[n].items[j] => m = n /\ i = j
HasBefore(cut, o, b, k) == HasAll(cut, o, b, k) /\ HasOnly(cut, o, b, k) /\ HasOnce(cut)

\* The items of some buckets are those of others, where they were, ...
Keeps(cut, longer) ==
    \A n \in 1 .. Len(cut) : /\ n \in 1 .. Len(longer) /\ longer[n].owner = cut[n].owner
                             /\ \A i \in 1 .. Len(cut[n].items) : /\ i \in 1 .. Len(longer[n].items)
                                                                  /\ longer[n].items[i] = cut[n].items[i]

\* ... and nothing is new but what a bucket has at one place.
NoOther(cut, longer, N, I) ==
    \A n \in 1 .. Len(longer) : \A i \in 1 .. Len(longer[n].items) :
        (n = N /\ i = I) \/ (n \in 1 .. Len(cut) /\ i \in 1 .. Len(cut[n].items))

\* What a bucket has, a longer list has.
LEMMA KeepsHeld ==
    ASSUME NEW cut, NEW longer, Keeps(cut, longer), NEW x, NEW y, NEW z, Held(cut, x, y, z)
    PROVE  Held(longer, x, y, z)
<1>1. PICK n \in 1 .. Len(cut) : \E i \in 1 .. Len(cut[n].items) :
         cut[n].owner = x /\ cut[n].items[i] = <<y, z>>
  BY DEF Held
<1>2. PICK i \in 1 .. Len(cut[n].items) : cut[n].owner = x /\ cut[n].items[i] = <<y, z>>
  BY <1>1
<1>3. /\ n \in 1 .. Len(longer) /\ i \in 1 .. Len(longer[n].items)
      /\ longer[n].owner = x /\ longer[n].items[i] = <<y, z>>
  BY <1>2 DEF Keeps
<1>. QED
  BY <1>3 DEF Held

\* One more tensor.
LEMMA OneMoreTensor ==
    ASSUME NEW cut, NEW longer, NEW o \in Nat, NEW b \in Nat, NEW k \in Nat,
           HasBefore(cut, o, b, k), IsTensor(o, b, k), Keeps(cut, longer),
           NEW N \in 1 .. Len(longer), NEW I \in 1 .. Len(longer[N].items),
           NoOther(cut, longer, N, I), longer[N].owner = o, longer[N].items[I] = <<b, k>>
    PROVE  HasBefore(longer, o, b, k + 1)
<1>1. ASSUME NEW x \in Nat, NEW y \in Nat, NEW z \in Nat, Precedes(x, y, z, o, b, k + 1)
      PROVE  Precedes(x, y, z, o, b, k) \/ (x = o /\ y = b /\ z = k)
  BY <1>1 DEF Precedes
<1>2. ASSUME NEW x, NEW y, NEW z \in Int, Precedes(x, y, z, o, b, k)
      PROVE  Precedes(x, y, z, o, b, k + 1)
  BY <1>2 DEF Precedes
<1>3. HasAll(longer, o, b, k + 1)
  <2>1. ASSUME NEW x \in Nat, NEW y \in Nat, NEW z \in Nat,
               IsTensor(x, y, z), Precedes(x, y, z, o, b, k + 1)
        PROVE  Held(longer, x, y, z)
    <3>1. CASE Precedes(x, y, z, o, b, k)
      <4>1. Held(cut, x, y, z)
        BY <2>1, <3>1 DEF HasBefore, HasAll
      <4>. QED
        BY <4>1, KeepsHeld
    <3>2. CASE x = o /\ y = b /\ z = k
      BY <3>2 DEF Held
    <3>. QED
      BY <1>1, <2>1, <3>1, <3>2
  <2>. QED
    BY <2>1 DEF HasAll
<1>4. ASSUME NEW n \in 1 .. Len(cut), NEW i \in 1 .. Len(cut[n].items)
      PROVE  /\ n \in 1 .. Len(longer) /\ i \in 1 .. Len(longer[n].items)
             /\ longer[n].owner = cut[n].owner /\ longer[n].items[i] = cut[n].items[i]
             /\ IsTensor(cut[n].owner, cut[n].items[i][1], cut[n].items[i][2])
             /\ Precedes(cut[n].owner, cut[n].items[i][1], cut[n].items[i][2], o, b, k)
  BY DEF HasBefore, HasOnly, Keeps
<1>5. ASSUME NEW n \in 1 .. Len(longer), NEW i \in 1 .. Len(longer[n].items)
      PROVE  (n = N /\ i = I) \/ (n \in 1 .. Len(cut) /\ i \in 1 .. Len(cut[n].items))
  BY DEF NoOther
<1>6. HasOnly(longer, o, b, k + 1)
  <2>1. ASSUME NEW n \in 1 .. Len(longer), NEW i \in 1 .. Len(longer[n].items)
        PROVE  /\ IsTensor(longer[n].owner, longer[n].items[i][1], longer[n].items[i][2])
               /\ Precedes(longer[n].owner, longer[n].items[i][1], longer[n].items[i][2], o, b, k + 1)
    <3>1. CASE n = N /\ i = I
      <4>1. Precedes(o, b, k, o, b, k + 1)
        BY DEF Precedes
      <4>2. longer[n].owner = o /\ longer[n].items[i][1] = b /\ longer[n].items[i][2] = k
        BY <3>1
      <4>. QED
        BY <4>1, <4>2
    <3>2. CASE n \in 1 .. Len(cut) /\ i \in 1 .. Len(cut[n].items)
      <4>. DEFINE x == cut[n].owner
                  y == cut[n].items[i][1]
                  z == cut[n].items[i][2]
      <4>1. IsTensor(x, y, z) /\ Precedes(x, y, z, o, b, k)
        BY <1>4, <3>2
      <4>2. longer[n].owner = x /\ longer[n].items[i][1] = y /\ longer[n].items[i][2] = z
        BY <1>4, <3>2
      <4>. HIDE DEF x, y, z
      <4>3. z \in Int
        BY <4>1 DEF IsTensor
      <4>4. Precedes(x, y, z, o, b, k + 1)
        BY <1>2, <4>1, <4>3
      <4>. QED
        BY <4>1, <4>2, <4>4
    <3>. QED
      BY <1>5, <3>1, <3>2
  <2>. QED
    BY <2>1 DEF HasOnly
<1>7. ASSUME NEW n \in 1 .. Len(cut), NEW i \in 1 .. Len(cut[n].items),
             cut[n].owner = o, cut[n].items[i] = <<b, k>>
      PROVE  FALSE
  <2>1. Precedes(o, b, k, o, b, k)
    <3>1. cut[n].items[i][1] = b /\ cut[n].items[i][2] = k
      BY <1>7
    <3>. QED
      BY <1>4, <1>7, <3>1
  <2>. QED
    BY <2>1 DEF Precedes
<1>8. HasOnce(longer)
  <2>1. ASSUME NEW m \in 1 .. Len(longer), NEW n \in 1 .. Len(longer),
               NEW i \in 1 .. Len(longer[m].items), NEW j \in 1 .. Len(longer[n].items),
               longer[m].owner = longer[n].owner, longer[m].items[i] = longer[n].items[j]
        PROVE  m = n /\ i = j
    <3>1. (m = N /\ i = I) \/ (m \in 1 .. Len(cut) /\ i \in 1 .. Len(cut[m].items))
      BY <1>5
    <3>2. (n = N /\ j = I) \/ (n \in 1 .. Len(cut) /\ j \in 1 .. Len(cut[n].items))
      BY <1>5
    <3>3. CASE m = N /\ i = I /\ ~(n = N /\ j = I)
      <4>1. n \in 1 .. Len(cut) /\ j \in 1 .. Len(cut[n].items)
        BY <3>2, <3>3
      <4>2. longer[n].owner = cut[n].owner /\ longer[n].items[j] = cut[n].items[j]
        BY <1>4, <4>1
      <4>3. cut[n].owner = o /\ cut[n].items[j] = <<b, k>>
        BY <2>1, <3>3, <4>2
      <4>. QED
        BY <1>7, <4>1, <4>3
    <3>4. CASE n = N /\ j = I /\ ~(m = N /\ i = I)
      <4>1. m \in 1 .. Len(cut) /\ i \in 1 .. Len(cut[m].items)
        BY <3>1, <3>4
      <4>2. longer[m].owner = cut[m].owner /\ longer[m].items[i] = cut[m].items[i]
        BY <1>4, <4>1
      <4>3. cut[m].owner = o /\ cut[m].items[i] = <<b, k>>
        BY <2>1, <3>4, <4>2
      <4>. QED
        BY <1>7, <4>1, <4>3
    <3>5. CASE /\ m \in 1 .. Len(cut) /\ i \in 1 .. Len(cut[m].items)
               /\ n \in 1 .. Len(cut) /\ j \in 1 .. Len(cut[n].items)
      <4>1. longer[m].owner = cut[m].owner /\ longer[m].items[i] = cut[m].items[i]
        BY <1>4, <3>5
      <4>2. longer[n].owner = cut[n].owner /\ longer[n].items[j] = cut[n].items[j]
        BY <1>4, <3>5
      <4>3. cut[m].owner = cut[n].owner /\ cut[m].items[i] = cut[n].items[j]
        BY <2>1, <4>1, <4>2
      <4>. QED
        BY <3>5, <4>3 DEF HasBefore, HasOnce
    <3>. QED
      BY <3>1, <3>2, <3>3, <3>4, <3>5
  <2>. QED
    BY <2>1 DEF HasOnce
<1>. QED
  BY <1>3, <1>6, <1>8 DEF HasBefore

\* The same items, before another place with no tensor in between.
LEMMA SameTensors ==
    ASSUME NEW cut, NEW longer, NEW o, NEW b, NEW k, NEW p, NEW q, NEW r,
           HasBefore(cut, o, b, k), Keeps(cut, longer), NoOther(cut, longer, 0, 0),
           \A x, y, z \in Nat : IsTensor(x, y, z) => (Precedes(x, y, z, o, b, k) <=> Precedes(x, y, z, p, q, r))
    PROVE  HasBefore(longer, p, q, r)
<1>1. HasAll(longer, p, q, r)
  <2>1. ASSUME NEW x \in Nat, NEW y \in Nat, NEW z \in Nat,
               IsTensor(x, y, z), Precedes(x, y, z, p, q, r)
        PROVE  Held(longer, x, y, z)
    <3>1. Held(cut, x, y, z)
      BY <2>1 DEF HasBefore, HasAll
    <3>. QED
      BY <3>1, KeepsHeld
  <2>. QED
    BY <2>1 DEF HasAll
<1>2. ASSUME NEW n \in 1 .. Len(longer), NEW i \in 1 .. Len(longer[n].items)
      PROVE  /\ n \in 1 .. Len(cut) /\ i \in 1 .. Len(cut[n].items)
             /\ longer[n].owner = cut[n].owner /\ longer[n].items[i] = cut[n].items[i]
  <2>1. n \in 1 .. Len(cut) /\ i \in 1 .. Len(cut[n].items)
    BY DEF NoOther
  <2>. QED
    BY <2>1 DEF Keeps
<1>3. HasOnly(longer, p, q, r)
  <2>1. ASSUME NEW n \in 1 .. Len(longer), NEW i \in 1 .. Len(longer[n].items)
        PROVE  /\ IsTensor(longer[n].owner, longer[n].items[i][1], longer[n].items[i][2])
               /\ Precedes(longer[n].owner, longer[n].items[i][1], longer[n].items[i][2], p, q, r)
    <3>. DEFINE x == longer[n].owner
                y == longer[n].items[i][1]
                z == longer[n].items[i][2]
    <3>1. IsTensor(x, y, z) /\ Precedes(x, y, z, o, b, k)
      BY <1>2 DEF HasBefore, HasOnly
    <3>. HIDE DEF x, y, z
    <3>2. x \in Nat /\ y \in Nat /\ z \in Nat
      BY <3>1 DEF IsTensor
    <3>3. Precedes(x, y, z, p, q, r)
      BY <3>1, <3>2
    <3>. QED
      BY <3>1, <3>3 DEF x, y, z
  <2>. QED
    BY <2>1 DEF HasOnly
<1>4. HasOnce(longer)
  <2>1. ASSUME NEW m \in 1 .. Len(longer), NEW n \in 1 .. Len(longer),
               NEW i \in 1 .. Len(longer[m].items), NEW j \in 1 .. Len(longer[n].items),
               longer[m].owner = longer[n].owner, longer[m].items[i] = longer[n].items[j]
        PROVE  m = n /\ i = j
    <3>1. /\ m \in 1 .. Len(cut) /\ i \in 1 .. Len(cut[m].items)
          /\ longer[m].owner = cut[m].owner /\ longer[m].items[i] = cut[m].items[i]
      BY <1>2
    <3>2. /\ n \in 1 .. Len(cut) /\ j \in 1 .. Len(cut[n].items)
          /\ longer[n].owner = cut[n].owner /\ longer[n].items[j] = cut[n].items[j]
      BY <1>2
    <3>3. cut[m].owner = cut[n].owner /\ cut[m].items[i] = cut[n].items[j]
      BY <2>1, <3>1, <3>2
    <3>. QED
      BY <3>1, <3>2, <3>3 DEF HasBefore, HasOnce
  <2>. QED
    BY <2>1 DEF HasOnce
<1>. QED
  BY <1>1, <1>3, <1>4 DEF HasBefore

\* The last bucket replaced by one with the same items, ...
LEMMA ReplacedKeeps ==
    ASSUME NEW cut \in Cuts, NEW bucket \in Buckets,
           bucket.owner = Last(cut).owner, bucket.items = Last(cut).items
    PROVE  Keeps(cut, UpdateLast(cut, bucket)) /\ NoOther(cut, UpdateLast(cut, bucket), 0, 0)
<1>1. /\ Len(UpdateLast(cut, bucket)) = Len(cut) /\ Len(cut) \in Nat \ {0} /\ Last(cut) = cut[Len(cut)]
      /\ \A i \in 1 .. Len(cut) : UpdateLast(cut, bucket)[i] = IF i = Len(cut) THEN bucket ELSE cut[i]
  BY UpdateLastFacts DEF Cuts
<1>. DEFINE u == UpdateLast(cut, bucket)
<1>. HIDE DEF u
<1>2. \A n \in 1 .. Len(cut) : u[n].owner = cut[n].owner /\ u[n].items = cut[n].items
  BY <1>1 DEF u
<1>3. Len(u) = Len(cut)
  BY <1>1 DEF u
<1>. QED
  BY <1>2, <1>3 DEF Keeps, NoOther, u

\* ... or by one with one item more, ...
Grown(cut, longer, N, I, owner, item) ==
    /\ Keeps(cut, longer) /\ NoOther(cut, longer, N, I)
    /\ N \in 1 .. Len(longer) /\ I \in 1 .. Len(longer[N].items)
    /\ longer[N].owner = owner /\ longer[N].items[I] = item

LEMMA ExtendedKeeps ==
    ASSUME NEW cut \in Cuts, NEW bucket \in Buckets, NEW item,
           bucket.owner = Last(cut).owner, bucket.items = Append(Last(cut).items, item)
    PROVE  Grown(cut, UpdateLast(cut, bucket), Len(cut), Len(Last(cut).items) + 1, Last(cut).owner, item)
<1>. DEFINE last == Last(cut)
            L == Len(cut)
            K == Len(last.items)
            u == UpdateLast(cut, bucket)
<1>1. /\ Len(u) = L /\ L \in Nat \ {0} /\ last = cut[L] /\ last \in Buckets
      /\ \A i \in 1 .. L : u[i] = IF i = L THEN bucket ELSE cut[i]
  BY UpdateLastFacts DEF Cuts
<1>2. last.items \in Seq(Nat \X Nat)
  BY <1>1 DEF Buckets
<1>3. /\ K \in Nat /\ Len(bucket.items) = K + 1 /\ bucket.items[K + 1] = item
      /\ \A i \in 1 .. K : bucket.items[i] = last.items[i]
  BY <1>2
<1>. HIDE DEF u, last, K, L
<1>4. u[L] = bucket /\ \A n \in 1 .. L : n # L => u[n] = cut[n]
  BY <1>1
<1>5. Keeps(cut, u)
  <2>1. ASSUME NEW n \in 1 .. L, NEW i \in 1 .. Len(cut[n].items)
        PROVE  /\ n \in 1 .. Len(u) /\ u[n].owner = cut[n].owner
               /\ i \in 1 .. Len(u[n].items) /\ u[n].items[i] = cut[n].items[i]
    <3>1. CASE n = L
      <4>1. i \in 1 .. K /\ cut[n] = last /\ u[n] = bucket
        BY <1>1, <1>4, <3>1 DEF K
      <4>2. i \in 1 .. K + 1
        BY <1>3, <4>1
      <4>. QED
        BY <1>1, <1>3, <4>1, <4>2 DEF last
    <3>2. CASE n # L
      BY <1>1, <1>4, <3>2
    <3>. QED
      BY <3>1, <3>2
  <2>2. \A n \in 1 .. L : n \in 1 .. Len(u) /\ u[n].owner = cut[n].owner
    BY <1>1, <1>4 DEF last
  <2>. QED
    BY <2>1, <2>2 DEF Keeps, L
<1>6. NoOther(cut, u, L, K + 1)
  <2>1. ASSUME NEW n \in 1 .. Len(u), NEW i \in 1 .. Len(u[n].items)
        PROVE  (n = L /\ i = K + 1) \/ (n \in 1 .. L /\ i \in 1 .. Len(cut[n].items))
    <3>1. CASE n = L
      <4>1. i \in 1 .. K + 1 /\ cut[n] = last
        BY <1>1, <1>3, <1>4, <3>1
      <4>2. i = K + 1 \/ i \in 1 .. K
        BY <1>3, <4>1
      <4>. QED
        BY <1>1, <3>1, <4>1, <4>2 DEF K
    <3>2. CASE n # L
      BY <1>1, <1>4, <3>2
    <3>. QED
      BY <3>1, <3>2
  <2>. QED
    BY <2>1 DEF NoOther, L
<1>7. L \in 1 .. Len(u) /\ K + 1 \in 1 .. Len(u[L].items) /\ u[L].owner = last.owner /\ u[L].items[K + 1] = item
  <2>1. L \in 1 .. Len(u) /\ K + 1 \in 1 .. K + 1
    BY <1>1, <1>3
  <2>2. Len(u[L].items) = K + 1 /\ u[L].items[K + 1] = item
    BY <1>3, <1>4
  <2>3. u[L].owner = last.owner
    BY <1>4 DEF last
  <2>. QED
    BY <2>1, <2>2, <2>3
<1>. QED
  BY <1>5, <1>6, <1>7 DEF Grown, L, K, u, last

\* ... or followed by another that has one item or none.
LEMMA AppendedKeeps ==
    ASSUME NEW cut \in Seq(Buckets), NEW bucket \in Buckets
    PROVE  LET u == Append(cut, bucket) IN
           /\ Keeps(cut, u) /\ Len(cut) + 1 \in 1 .. Len(u) /\ u[Len(cut) + 1] = bucket
           /\ Len(bucket.items) = 0 => NoOther(cut, u, 0, 0)
           /\ Len(bucket.items) = 1 => NoOther(cut, u, Len(cut) + 1, 1)
<1>. DEFINE u == Append(cut, bucket)
            L == Len(cut)
<1>1. /\ L \in Nat /\ Len(u) = L + 1 /\ u[L + 1] = bucket
      /\ \A i \in 1 .. L : u[i] = cut[i]
  BY AppendFacts
<1>. HIDE DEF u, L
<1>2. Keeps(cut, u)
  <2>1. \A n \in 1 .. L : n \in 1 .. Len(u) /\ u[n] = cut[n]
    BY <1>1
  <2>. QED
    BY <2>1 DEF Keeps, L
<1>3. \A n \in 1 .. Len(u) : n \in 1 .. L \/ n = L + 1
  BY <1>1
<1>4. ASSUME Len(bucket.items) = 0 PROVE NoOther(cut, u, 0, 0)
  <2>1. ASSUME NEW n \in 1 .. Len(u), NEW i \in 1 .. Len(u[n].items)
        PROVE  n \in 1 .. L /\ i \in 1 .. Len(cut[n].items)
    <3>1. n # L + 1
      BY <1>1, <1>4
    <3>2. n \in 1 .. L
      BY <1>3, <3>1
    <3>. QED
      BY <1>1, <3>2
  <2>. QED
    BY <2>1 DEF NoOther, L
<1>5. ASSUME Len(bucket.items) = 1 PROVE NoOther(cut, u, L + 1, 1)
  <2>1. ASSUME NEW n \in 1 .. Len(u), NEW i \in 1 .. Len(u[n].items)
        PROVE  (n = L + 1 /\ i = 1) \/ (n \in 1 .. L /\ i \in 1 .. Len(cut[n].items))
    <3>1. CASE n = L + 1
      <4>1. u[n] = bucket
        BY <1>1, <3>1
      <4>2. i \in 1 .. 1
        BY <1>5, <4>1
      <4>. QED
        BY <3>1, <4>2
    <3>2. CASE n \in 1 .. L
      BY <1>1, <3>2
    <3>. QED
      BY <1>3, <3>1, <3>2
  <2>. QED
    BY <2>1 DEF NoOther, L
<1>6. L + 1 \in 1 .. Len(u)
  BY <1>1
<1>. QED
  BY <1>1, <1>2, <1>4, <1>5, <1>6 DEF u, L

\* The tensor goes into the last bucket or into one of its own.
LEMMA CutTensorHas ==
    ASSUME PoolsTyped, NEW o \in 1 .. Len(pools), NEW b \in 1 .. Len(pools[o]),
           NEW k \in 1 .. Len(pools[o][b]), NEW at \in Cutting,
           HasBefore(at.cut, o, b, k), Last(at.cut).owner = o
    PROVE  /\ HasBefore(CutTensor(o, b, at, k).cut, o, b, k + 1)
           /\ Last(CutTensor(o, b, at, k).cut).owner = o
<1>. DEFINE t == pools[o][b][k]
            last == Last(at.cut)
            next == CutTensor(o, b, at, k).cut
<1>1. at.cut \in Cuts /\ at.start \in Nat /\ at.offset \in Nat /\ at.start <= at.offset
  BY DEF Cutting
<1>2. /\ last \in Buckets /\ Len(at.cut) \in Nat \ {0}
  BY <1>1, LastFacts
<1>3. o \in Nat /\ b \in Nat /\ k \in Nat /\ IsTensor(o, b, k)
  BY DEF PoolsTyped, IsTensor
<1>4. CASE ~Overflows(last, t)
  <2>1. PICK filled \in Buckets : filled = AddTensor(last, t.size, <<b, k>>) /\ next = UpdateLast(at.cut, filled)
    BY <1>4, CutTensorFacts
  <2>2. filled.owner = last.owner /\ filled.items = Append(last.items, <<b, k>>)
    BY <2>1 DEF AddTensor
  <2>. DEFINE cut == at.cut
              item == <<b, k>>
              N == Len(cut)
              I == Len(Last(cut).items) + 1
  <2>. HIDE DEF next, item, cut
  <2>3. /\ cut \in Cuts /\ filled.owner = Last(cut).owner /\ filled.items = Append(Last(cut).items, item)
        /\ next = UpdateLast(cut, filled)
    BY <1>1, <2>1, <2>2 DEF cut, item
  <2>4. Grown(cut, next, N, I, Last(cut).owner, item)
    BY <2>3, ExtendedKeeps
  <2>. HIDE DEF N, I
  <2>5. HasBefore(next, o, b, k + 1)
    BY <1>3, <2>4, OneMoreTensor DEF Grown, cut, item
  <2>6. Last(next) = filled
    BY <1>1, <2>1, UpdateLastFacts DEF Cuts
  <2>. QED
    BY <2>2, <2>5, <2>6 DEF next
<1>5. CASE Overflows(last, t)
  <2>1. PICK filled \in Buckets, closed \in Buckets :
           /\ filled = AddTensor(EmptyBucket(o), t.size, <<b, k>>)
           /\ closed = IF at.offset > at.start THEN AddRange(last, b, at.start, at.offset) ELSE last
           /\ next = Append(UpdateLast(at.cut, closed), filled)
    BY <1>5, CutTensorFacts
  <2>2. filled.owner = o /\ Len(filled.items) = 1 /\ filled.items[1] = <<b, k>>
    BY <2>1 DEF AddTensor, EmptyBucket
  <2>3. closed.owner = last.owner /\ closed.items = last.items
    <3>. HIDE DEF last
    <3>1. CASE at.offset > at.start
      BY <1>2, <2>1, <3>1 DEF AddRange, Buckets
    <3>. QED
      BY <2>1, <3>1
  <2>. DEFINE mid == UpdateLast(at.cut, closed)
              N == Len(mid) + 1
  <2>4. Keeps(at.cut, mid) /\ NoOther(at.cut, mid, 0, 0)
    BY <1>1, <2>3, ReplacedKeeps
  <2>5. mid \in Seq(Buckets)
    BY <1>1, UpdateLastFacts DEF Cuts
  <2>6. next = Append(mid, filled)
    BY <2>1
  <2>. HIDE DEF mid, next
  <2>7. HasBefore(mid, o, b, k)
    BY <2>4, SameTensors
  <2>8. /\ Keeps(mid, next) /\ N \in 1 .. Len(next) /\ next[N] = filled /\ NoOther(mid, next, N, 1)
    BY <2>2, <2>5, <2>6, AppendedKeeps
  <2>9. HasBefore(next, o, b, k + 1)
    <3>. HIDE DEF N
    <3>1. 1 \in 1 .. Len(next[N].items) /\ next[N].owner = o /\ next[N].items[1] = <<b, k>>
      BY <2>2, <2>8
    <3>. QED
      BY <1>3, <2>7, <2>8, <3>1, OneMoreTensor
  <2>10. Last(next) = filled
    BY <2>5, <2>6, AppendFacts
  <2>. QED
    BY <2>2, <2>9, <2>10 DEF next
<1>. QED
  BY <1>4, <1>5

\* A memory buffer: its tensors, and those before it.
LEMMA CutBufferHas ==
    ASSUME PoolsTyped, NEW o \in 1 .. Len(pools), NEW b \in 1 .. Len(pools[o]), NEW cut \in Cuts,
           HasBefore(cut, o, b, 1), Last(cut).owner = o
    PROVE  HasBefore(CutBuffer(o, cut, b), o, b + 1, 1) /\ Last(CutBuffer(o, cut, b)).owner = o
<1>. DEFINE n == Len(pools[o][b])
<1>1. PICK at \in [0 .. n -> Cutting] :
         /\ at[0] = [cut |-> cut, start |-> 0, offset |-> 0]
         /\ \A k \in 1 .. n : at[k] = CutTensor(o, b, at[k - 1], k)
         /\ CutBuffer(o, cut, b) =
               UpdateLast(at[n].cut, AddRange(Last(at[n].cut), b, at[n].start, at[n].offset))
  BY CutBufferSteps
<1>2. n \in Nat /\ b \in Nat /\ o \in Nat
  <2>1. pools[o] \in Seq(Seq(Pinned)) /\ o \in Nat
    BY DEF PoolsTyped
  <2>2. pools[o][b] \in Seq(Pinned)
    BY <2>1
  <2>. QED
    BY <2>1, <2>2
<1>. DEFINE Done(m) == HasBefore(at[m].cut, o, b, m + 1) /\ Last(at[m].cut).owner = o
            S == {m \in Nat : m <= n => Done(m)}
<1>3. 0 \in S
  BY <1>1
<1>4. ASSUME NEW m \in S PROVE m + 1 \in S
  <2>. SUFFICES ASSUME m + 1 <= n PROVE Done(m + 1)
    OBVIOUS
  <2>1. m \in 0 .. n /\ m + 1 \in 1 .. n /\ (m + 1) - 1 = m /\ Done(m)
    BY <1>2
  <2>2. at[m] \in Cutting /\ at[m + 1] = CutTensor(o, b, at[m], m + 1)
    BY <1>1, <2>1
  <2>3. HasBefore(at[m].cut, o, b, m + 1) /\ Last(at[m].cut).owner = o
    BY <2>1
  <2>. DEFINE next == CutTensor(o, b, at[m], m + 1)
  <2>4. HasBefore(next.cut, o, b, (m + 1) + 1) /\ Last(next.cut).owner = o
    BY <2>1, <2>2, <2>3, CutTensorHas
  <2>. QED
    BY <2>2, <2>4
<1>5. n \in S
  <2>. HIDE DEF S
  <2>1. S = Nat
    <3>1. S \subseteq Nat
      BY DEF S
    <3>. QED
      BY <1>3, <1>4, <3>1, Induction
  <2>. QED
    BY <1>2, <2>1
<1>6. Done(n) /\ at[n] \in Cutting
  BY <1>2, <1>5
<1>7. /\ at[n].cut \in Cuts /\ at[n].start \in Nat /\ at[n].offset \in Nat /\ at[n].start <= at[n].offset
  BY <1>6 DEF Cutting
<1>. DEFINE last == Last(at[n].cut)
            closed == AddRange(last, b, at[n].start, at[n].offset)
            next == CutBuffer(o, cut, b)
<1>8. last \in Buckets
  BY <1>7, LastFacts
<1>9. closed \in Buckets /\ closed.owner = last.owner /\ closed.items = last.items
  <2>. HIDE DEF last
  <2>1. closed \in Buckets
    BY <1>2, <1>7, <1>8, AddRangeFacts
  <2>2. closed.owner = last.owner /\ closed.items = last.items
    BY <1>8 DEF AddRange, Buckets
  <2>. QED
    BY <2>1, <2>2
<1>10. next = UpdateLast(at[n].cut, closed)
  BY <1>1
<1>. HIDE DEF closed, next
<1>11. Keeps(at[n].cut, next) /\ NoOther(at[n].cut, next, 0, 0)
  BY <1>7, <1>9, <1>10, ReplacedKeeps
<1>12. \A x, y, z \in Nat : IsTensor(x, y, z) => (Precedes(x, y, z, o, b, n + 1) <=> Precedes(x, y, z, o, b + 1, 1))
  BY <1>2 DEF IsTensor, Precedes
<1>13. HasBefore(next, o, b + 1, 1)
  <2>. HIDE DEF n
  <2>. QED
    BY <1>6, <1>11, <1>12, SameTensors
<1>14. Last(next) = closed
  <2>1. at[n].cut \in Seq(Buckets) \ {<<>>} /\ closed \in Buckets
    BY <1>7, <1>9 DEF Cuts
  <2>2. Last(UpdateLast(at[n].cut, closed)) = closed
    BY <2>1, UpdateLastFacts
  <2>. QED
    BY <1>10, <2>2
<1>. QED
  BY <1>6, <1>9, <1>13, <1>14 DEF next

\* An owner: all its tensors, and those of the owners before it.
LEMMA CutOwnerHas ==
    ASSUME PoolsTyped, NEW o \in 1 .. Len(pools), NEW cut \in Seq(Buckets), HasBefore(cut, o, 1, 1)
    PROVE  HasBefore(CutOwner(cut, o), o + 1, 1, 1)
<1>. DEFINE n == Len(pools[o])
<1>1. PICK at \in [0 .. n -> Cuts] :
         /\ at[0] = Append(cut, EmptyBucket(o))
         /\ \A b \in 1 .. n : at[b] = CutBuffer(o, at[b - 1], b)
         /\ CutOwner(cut, o) = at[n]
  BY CutOwnerSteps
<1>2. n \in Nat /\ o \in Nat
  BY DEF PoolsTyped
<1>. DEFINE Done(m) == HasBefore(at[m], o, m + 1, 1) /\ Last(at[m]).owner = o
            S == {m \in Nat : m <= n => Done(m)}
<1>3. Done(0)
  <2>. DEFINE empty == EmptyBucket(o)
              u == Append(cut, empty)
  <2>1. empty \in Buckets /\ empty.owner = o /\ Len(empty.items) = 0
    BY <1>2, EmptyBucketFacts DEF EmptyBucket
  <2>. HIDE DEF empty
  <2>2. Keeps(cut, u) /\ NoOther(cut, u, 0, 0) /\ Last(u) = empty
    BY <2>1, AppendedKeeps, AppendFacts
  <2>3. at[0] = u
    BY <1>1 DEF empty
  <2>. HIDE DEF u
  <2>4. HasBefore(u, o, 1, 1)
    BY <2>2, SameTensors
  <2>. QED
    BY <2>1, <2>2, <2>3, <2>4
<1>4. ASSUME NEW m \in S PROVE m + 1 \in S
  <2>. SUFFICES ASSUME m + 1 <= n PROVE Done(m + 1)
    OBVIOUS
  <2>1. m \in 0 .. n /\ m + 1 \in 1 .. n /\ (m + 1) - 1 = m /\ Done(m)
    BY <1>2
  <2>2. at[m] \in Cuts /\ at[m + 1] = CutBuffer(o, at[m], m + 1)
    BY <1>1, <2>1
  <2>. QED
    BY <2>1, <2>2, CutBufferHas
<1>5. n \in S
  <2>1. 0 \in S
    BY <1>3
  <2>. HIDE DEF S
  <2>2. S = Nat
    <3>1. S \subseteq Nat
      BY DEF S
    <3>. QED
      BY <1>4, <2>1, <3>1, Induction
  <2>. QED
    BY <1>2, <2>2
<1>6. Done(n)
  BY <1>2, <1>5
<1>7. \A x, y, z \in Nat : IsTensor(x, y, z) => (Precedes(x, y, z, o, n + 1, 1) <=> Precedes(x, y, z, o + 1, 1, 1))
  BY <1>2 DEF IsTensor, Precedes
<1>. DEFINE next == CutOwner(cut, o)
<1>8. HasBefore(next, o, n + 1, 1)
  BY <1>1, <1>6
<1>. HIDE DEF next, n
<1>9. Keeps(next, next) /\ NoOther(next, next, 0, 0)
  BY DEF Keeps, NoOther
<1>10. HasBefore(next, o + 1, 1, 1)
  BY <1>7, <1>8, <1>9, SameTensors
<1>. QED
  BY <1>10 DEF next

\* The buckets have every tensor once, and nothing else.
LEMMA AllBucketsHave ==
    ASSUME PoolsTyped
    PROVE  HasBefore(AllBuckets, Len(pools) + 1, 1, 1)
<1>. DEFINE n == Len(pools)
<1>1. PICK at \in [0 .. n -> Seq(Buckets)] :
         /\ at[0] = <<>>
         /\ \A o \in 1 .. n : at[o] = CutOwner(at[o - 1], o)
         /\ AllBuckets = at[n]
  BY CutSteps
<1>2. n \in Nat
  BY DEF PoolsTyped
<1>. DEFINE S == {m \in Nat : m <= n => HasBefore(at[m], m + 1, 1, 1)}
<1>3. HasBefore(<<>>, 1, 1, 1)
  <2>1. \A x, y, z \in Nat : IsTensor(x, y, z) => ~Precedes(x, y, z, 1, 1, 1)
    <3>1. ASSUME NEW x \in Nat, NEW y \in Nat, NEW z \in Nat, IsTensor(x, y, z) PROVE ~Precedes(x, y, z, 1, 1, 1)
      BY <3>1 DEF IsTensor, Precedes
    <3>. QED
      BY <3>1
  <2>2. Len(<<>>) = 0
    OBVIOUS
  <2>. QED
    BY <2>1, <2>2 DEF HasBefore, HasAll, HasOnly, HasOnce
<1>4. 0 \in S
  BY <1>1, <1>3
<1>5. ASSUME NEW m \in S PROVE m + 1 \in S
  <2>. SUFFICES ASSUME m + 1 <= n PROVE HasBefore(at[m + 1], (m + 1) + 1, 1, 1)
    OBVIOUS
  <2>1. m \in 0 .. n /\ m + 1 \in 1 .. n /\ (m + 1) - 1 = m /\ HasBefore(at[m], m + 1, 1, 1)
    BY <1>2
  <2>2. at[m] \in Seq(Buckets) /\ at[m + 1] = CutOwner(at[m], m + 1)
    BY <1>1, <2>1
  <2>. QED
    BY <2>1, <2>2, CutOwnerHas
<1>. HIDE DEF S
<1>6. S = Nat
  <2>1. S \subseteq Nat
    BY DEF S
  <2>. QED
    BY <1>4, <1>5, <2>1, Induction
<1>. QED
  BY <1>1, <1>2, <1>6 DEF S

-----------------------------------------------------------------------------
(* Where the tensors are.                                                  *)

\* A tensor starts in its memory buffer where the one before it ends.
LEMMA PinnedAtFacts ==
    ASSUME PoolsTyped, NEW o, NEW b, NEW k, IsTensor(o, b, k)
    PROVE  /\ PinnedAt(o, <<b, 1>>) = 0
           /\ PinnedAt(o, <<b, k>>) \in Nat
           /\ PinnedAt(o, <<b, k + 1>>) = PinnedAt(o, <<b, k>>) + pools[o][b][k].size
<1>. DEFINE buffer == pools[o][b]
            n == Len(buffer)
            before(m) == Sizes(SubSeq(buffer, 1, m))
<1>1. n \in Nat /\ k \in 1 .. n /\ buffer \in Seq(Pinned) /\ \A i \in 1 .. n : buffer[i].size \in Nat
  <2>1. pools[o] \in Seq(Seq(Pinned))
    BY DEF PoolsTyped, IsTensor
  <2>2. buffer \in Seq(Pinned)
    BY <2>1 DEF IsTensor
  <2>3. n \in Nat /\ k \in 1 .. n /\ \A i \in 1 .. n : buffer[i] \in Pinned
    BY <2>2 DEF IsTensor
  <2>4. \A t \in Pinned : t.size \in Nat
    BY DEF Pinned
  <2>. QED
    BY <2>2, <2>3, <2>4
<1>2. \A j : PinnedAt(o, <<b, j>>) = SumOf(before(j - 1))
  BY DEF PinnedAt
<1>. HIDE DEF buffer, n
<1>3. ASSUME NEW m \in 0 .. n
      PROVE  before(m) \in Seq(Nat) /\ Len(before(m)) = m /\ \A i \in 1 .. m : before(m)[i] = buffer[i].size
  <2>1. LET front == SubSeq(buffer, 1, m)
        IN DOMAIN front = 1 .. m /\ \A i \in 1 .. m : front[i] = buffer[i]
    BY <1>1 DEF n
  <2>2. before(m) = [i \in 1 .. m |-> buffer[i].size]
    BY <2>1 DEF Sizes
  <2>3. \A i \in 1 .. m : buffer[i].size \in Nat
    BY <1>1
  <2>4. m \in Nat
    BY <1>1
  <2>. HIDE DEF before
  <2>. QED
    BY <2>2, <2>3, <2>4
<1>. HIDE DEF before
<1>4. k - 1 \in 0 .. n /\ k \in 0 .. n /\ 0 \in 0 .. n /\ (k + 1) - 1 = k /\ 1 - 1 = 0 /\ (k - 1) + 1 = k
  BY <1>1
<1>5. SumOf(before(0)) = 0
  BY <1>3, <1>4, SumFacts
<1>6. SumOf(before(k - 1)) \in Nat
  BY <1>3, <1>4, SumFacts
<1>7. SumOf(before(k)) = SumOf(before(k - 1)) + buffer[k].size
  <2>. DEFINE less == before(k - 1)
              more == before(k)
  <2>1. /\ less \in Seq(Nat) /\ more \in Seq(Nat) /\ Len(less) = k - 1 /\ Len(more) = k
        /\ more[k] = buffer[k].size /\ \A i \in 1 .. k - 1 : more[i] = less[i]
    <3>1. less \in Seq(Nat) /\ Len(less) = k - 1 /\ \A i \in 1 .. k - 1 : less[i] = buffer[i].size
      BY <1>3, <1>4
    <3>2. more \in Seq(Nat) /\ Len(more) = k /\ \A i \in 1 .. k : more[i] = buffer[i].size
      BY <1>3, <1>4
    <3>3. k \in 1 .. k /\ \A i \in 1 .. k - 1 : i \in 1 .. k
      BY <1>1
    <3>. QED
      BY <3>1, <3>2, <3>3
  <2>. HIDE DEF less, more
  <2>2. SumOf(more) = SumOf(less) + more[Len(less) + 1]
    BY <1>4, <2>1, SumFacts
  <2>. QED
    BY <1>4, <2>1, <2>2 DEF less, more
<1>. QED
  BY <1>2, <1>4, <1>5, <1>6, <1>7 DEF buffer

\* The tensors of a bucket are tensors of its owner.
HasTensors(bucket) ==
    \A i \in 1 .. Len(bucket.items) : IsTensor(bucket.owner, bucket.items[i][1], bucket.items[i][2])

\* A bucket begins with those of another.
Extends(longer, bucket) ==
    /\ longer.owner = bucket.owner
    /\ \A i \in 1 .. Len(bucket.items) : longer.items[i] = bucket.items[i]

\* The worker finds a tensor where the one before it ends.
LEMMA OffsetFacts ==
    ASSUME PoolsTyped, NEW bucket \in Buckets, HasTensors(bucket)
    PROVE  /\ OffsetOf(bucket, 1) = 0
           /\ \A i \in 1 .. Len(bucket.items) + 1 : OffsetOf(bucket, i) \in Nat
           /\ \A i \in 1 .. Len(bucket.items) :
                 /\ TensorAt(bucket.owner, bucket.items[i]) \in Pinned
                 /\ TensorAt(bucket.owner, bucket.items[i]).size \in Nat
                 /\ OffsetOf(bucket, i + 1) = OffsetOf(bucket, i) + TensorAt(bucket.owner, bucket.items[i]).size
           /\ \A longer : Extends(longer, bucket) =>
                 \A i \in 1 .. Len(bucket.items) + 1 : OffsetOf(longer, i) = OffsetOf(bucket, i)
<1>. DEFINE n == Len(bucket.items)
            size(i) == TensorAt(bucket.owner, bucket.items[i]).size
            before(m) == [i \in 1 .. m |-> size(i)]
<1>1. n \in Nat
  BY DEF Buckets
<1>2. ASSUME NEW i \in 1 .. n
      PROVE  TensorAt(bucket.owner, bucket.items[i]) \in Pinned /\ size(i) \in Nat
  <2>. DEFINE o == bucket.owner
              b == bucket.items[i][1]
              k == bucket.items[i][2]
  <2>1. IsTensor(o, b, k)
    BY DEF HasTensors
  <2>. HIDE DEF o, b, k
  <2>2. pools[o] \in Seq(Seq(Pinned))
    BY <2>1 DEF PoolsTyped, IsTensor
  <2>3. pools[o][b] \in Seq(Pinned)
    BY <2>1, <2>2 DEF IsTensor
  <2>4. pools[o][b][k] \in Pinned
    BY <2>1, <2>3 DEF IsTensor
  <2>5. TensorAt(bucket.owner, bucket.items[i]) = pools[o][b][k]
    BY DEF TensorAt, o, b, k
  <2>. QED
    BY <2>4, <2>5 DEF Pinned
<1>3. ASSUME NEW i \in 1 .. n + 1 PROVE OffsetOf(bucket, i) = SumOf(before(i - 1))
  BY DEF OffsetOf
<1>4. ASSUME NEW longer, Extends(longer, bucket), NEW i \in 1 .. n + 1
      PROVE  OffsetOf(longer, i) = OffsetOf(bucket, i)
  <2>1. \A j \in 1 .. i - 1 : j \in 1 .. n
    BY <1>1
  <2>2. \A j \in 1 .. i - 1 : TensorAt(longer.owner, longer.items[j]).size = size(j)
    BY <1>4, <2>1 DEF Extends
  <2>3. [j \in 1 .. i - 1 |-> TensorAt(longer.owner, longer.items[j]).size] = before(i - 1)
    BY <2>2
  <2>. HIDE DEF before
  <2>. QED
    BY <1>3, <2>3 DEF OffsetOf
<1>. HIDE DEF size, n
<1>5. ASSUME NEW m \in 0 .. n
      PROVE  before(m) \in Seq(Nat) /\ Len(before(m)) = m /\ \A i \in 1 .. m : before(m)[i] = size(i)
  BY <1>1, <1>2
<1>. HIDE DEF before
<1>6. OffsetOf(bucket, 1) = 0
  <2>1. 1 \in 1 .. n + 1 /\ 1 - 1 = 0 /\ 0 \in 0 .. n
    BY <1>1
  <2>. QED
    BY <1>3, <1>5, <2>1, SumFacts
<1>7. ASSUME NEW i \in 1 .. n + 1 PROVE OffsetOf(bucket, i) \in Nat
  <2>1. i - 1 \in 0 .. n
    BY <1>1
  <2>. QED
    BY <1>3, <1>5, <2>1, SumFacts
<1>8. ASSUME NEW i \in 1 .. n PROVE OffsetOf(bucket, i + 1) = OffsetOf(bucket, i) + size(i)
  <2>. DEFINE less == before(i - 1)
              more == before(i)
  <2>1. i - 1 \in 0 .. n /\ i \in 0 .. n /\ (i - 1) + 1 = i /\ (i + 1) - 1 = i /\ i \in 1 .. n + 1 /\ i + 1 \in 1 .. n + 1
    BY <1>1
  <2>2. /\ less \in Seq(Nat) /\ more \in Seq(Nat) /\ Len(less) = i - 1 /\ Len(more) = i
        /\ more[i] = size(i) /\ \A j \in 1 .. i - 1 : more[j] = less[j]
    <3>1. less \in Seq(Nat) /\ Len(less) = i - 1 /\ \A j \in 1 .. i - 1 : less[j] = size(j)
      BY <1>5, <2>1
    <3>2. more \in Seq(Nat) /\ Len(more) = i /\ \A j \in 1 .. i : more[j] = size(j)
      BY <1>5, <2>1
    <3>3. i \in 1 .. i /\ \A j \in 1 .. i - 1 : j \in 1 .. i
      BY <1>1
    <3>. QED
      BY <3>1, <3>2, <3>3
  <2>3. OffsetOf(bucket, i) = SumOf(less) /\ OffsetOf(bucket, i + 1) = SumOf(more)
    BY <1>3, <2>1
  <2>. HIDE DEF less, more
  <2>4. SumOf(more) = SumOf(less) + more[Len(less) + 1]
    BY <2>1, <2>2, SumFacts
  <2>. QED
    BY <2>1, <2>2, <2>3, <2>4
<1>. QED
  BY <1>2, <1>4, <1>6, <1>7, <1>8 DEF size, n

\* Bytes that follow one another in a memory buffer.
Run(b, start, length) == [x \in 1 .. length |-> <<b, start + x - 1>>]

\* What a range adds to a bucket; a tensor adds nothing, but to a range.
LEMMA BytesFacts ==
    ASSUME NEW bucket \in Buckets
    PROVE  /\ Bytes(bucket) \in Seq(Nat \X Nat)
           /\ Len(bucket.ranges) = 0 => Bytes(bucket) = <<>>
           /\ \A other : other.ranges = bucket.ranges => Bytes(other) = Bytes(bucket)
           /\ \A b, start, end \in Nat : start <= end =>
                 Bytes(AddRange(bucket, b, start, end)) = Bytes(bucket) \o Run(b, start, end - start)
<1>. DEFINE T == Nat \X Nat
            part(range) == [x \in 1 .. range.size |-> <<range.idx, range.offset + x - 1>>]
            parts(list) == [i \in DOMAIN list |-> part(list[i])]
            RangeSet == [idx : Nat, offset : Nat, size : Nat]
<1>1. \A any : Bytes(any) = FlattenSeq(parts(any.ranges))
  BY DEF Bytes
<1>2. ASSUME NEW range \in RangeSet PROVE part(range) \in Seq(T)
  <2>1. range.size \in Nat /\ range.idx \in Nat /\ range.offset \in Nat
    OBVIOUS
  <2>2. \A x \in 1 .. range.size : range.offset + x - 1 \in Nat
    BY <2>1
  <2>3. part(range) \in [1 .. range.size -> T]
    BY <2>1, <2>2
  <2>. HIDE DEF part, T
  <2>. QED
    BY <2>1, <2>3
<1>. HIDE DEF T, part
<1>. DEFINE Ranges == Seq(RangeSet)
<1>3. ASSUME NEW list \in Ranges
      PROVE  /\ parts(list) \in Seq(Seq(T)) /\ Len(parts(list)) = Len(list) /\ Len(list) \in Nat
             /\ \A i \in 1 .. Len(list) : parts(list)[i] = part(list[i])
  <2>1. Len(list) \in Nat /\ DOMAIN list = 1 .. Len(list) /\ \A i \in 1 .. Len(list) : list[i] \in RangeSet
    <3>. HIDE DEF RangeSet
    <3>. QED
      OBVIOUS
  <2>. DEFINE U == Seq(T)
  <2>2. \A i \in 1 .. Len(list) : part(list[i]) \in U
    BY <1>2, <2>1
  <2>. HIDE DEF U, RangeSet
  <2>3. parts(list) \in [1 .. Len(list) -> U]
    BY <2>1, <2>2
  <2>4. \A i \in 1 .. Len(list) : parts(list)[i] = part(list[i])
    BY <2>1
  <2>. HIDE DEF parts
  <2>5. parts(list) \in Seq(U) /\ Len(parts(list)) = Len(list)
    BY <2>1, <2>3
  <2>. QED
    BY <2>1, <2>4, <2>5 DEF U
<1>4. bucket.ranges \in Seq(RangeSet)
  BY DEF Buckets
<1>. DEFINE list == bucket.ranges
<1>. HIDE DEF parts, RangeSet
<1>5. Bytes(bucket) \in Seq(T)
  BY <1>1, <1>3, <1>4, FlattenPlaces
<1>6. Len(bucket.ranges) = 0 => Bytes(bucket) = <<>>
  BY <1>1, <1>3, <1>4, FlattenFacts
<1>7. ASSUME NEW b \in Nat, NEW start \in Nat, NEW end \in Nat, start <= end
      PROVE  Bytes(AddRange(bucket, b, start, end)) = Bytes(bucket) \o Run(b, start, end - start)
  <2>. DEFINE range == [idx |-> b, offset |-> start, size |-> end - start]
              longer == AddRange(bucket, b, start, end)
              less == parts(bucket.ranges)
              more == parts(longer.ranges)
  <2>1. range \in RangeSet
    <3>1. end - start \in Nat
      BY <1>7
    <3>. QED
      BY <3>1 DEF RangeSet
  <2>2. longer.ranges = Append(bucket.ranges, range)
    BY <1>7, AddRangeFacts
  <2>3. part(range) = Run(b, start, end - start)
    BY DEF part, Run
  <2>. HIDE DEF range, longer
  <2>4. /\ longer.ranges \in Seq(RangeSet) /\ Len(longer.ranges) = Len(bucket.ranges) + 1
        /\ \A i \in 1 .. Len(bucket.ranges) : longer.ranges[i] = bucket.ranges[i]
        /\ longer.ranges[Len(bucket.ranges) + 1] = range /\ Len(bucket.ranges) \in Nat
    BY <1>4, <2>1, <2>2, AppendFacts
  <2>5. /\ less \in Seq(Seq(T)) /\ more \in Seq(Seq(T)) /\ Len(more) = Len(less) + 1
        /\ \A i \in 1 .. Len(less) : more[i] = less[i]
        /\ more[Len(less) + 1] = part(range)
    <3>1. /\ less \in Seq(Seq(T)) /\ Len(less) = Len(bucket.ranges)
          /\ \A i \in 1 .. Len(bucket.ranges) : less[i] = part(bucket.ranges[i])
      BY <1>3, <1>4
    <3>2. /\ more \in Seq(Seq(T)) /\ Len(more) = Len(longer.ranges)
          /\ \A i \in 1 .. Len(longer.ranges) : more[i] = part(longer.ranges[i])
      BY <1>3, <2>4
    <3>3. \A i \in 1 .. Len(bucket.ranges) : i \in 1 .. Len(longer.ranges)
      BY <2>4
    <3>4. Len(bucket.ranges) + 1 \in 1 .. Len(longer.ranges)
      BY <2>4
    <3>. HIDE DEF less, more
    <3>. QED
      BY <2>4, <3>1, <3>2, <3>3, <3>4
  <2>6. Bytes(bucket) = FlattenSeq(less) /\ Bytes(longer) = FlattenSeq(more)
    BY <1>1
  <2>. HIDE DEF less, more
  <2>7. FlattenSeq(more) = FlattenSeq(less) \o more[Len(less) + 1]
    BY <2>5, FlattenFacts
  <2>. QED
    BY <2>3, <2>5, <2>6, <2>7 DEF longer
<1>. QED
  BY <1>1, <1>5, <1>6, <1>7 DEF T

\* The worker finds the bytes of the bucket's tensors where the items say they are.
Laid(bucket) ==
    /\ HasTensors(bucket)
    /\ Len(Bytes(bucket)) = bucket.size
    /\ OffsetOf(bucket, Len(bucket.items) + 1) = bucket.size
    /\ ~inplace => \A i \in 1 .. Len(bucket.items) + 1 : Multiple(OffsetOf(bucket, i))
    /\ \A i \in 1 .. Len(bucket.items) : \A x \in Nat :
          x < TensorAt(bucket.owner, bucket.items[i]).size =>
             /\ OffsetOf(bucket, i) + x + 1 \in 1 .. bucket.size
             /\ Bytes(bucket)[OffsetOf(bucket, i) + x + 1] =
                   <<bucket.items[i][1], PinnedAt(bucket.owner, bucket.items[i]) + x>>

\* An empty bucket is, and one with the same contents as another that is.
LEMMA EmptyLaid ==
    ASSUME PoolsTyped, NEW o \in Nat
    PROVE  Laid(EmptyBucket(o))
<1>. DEFINE empty == EmptyBucket(o)
<1>1. /\ empty \in Buckets /\ Len(empty.items) = 0 /\ Len(empty.ranges) = 0 /\ empty.size = 0
  BY EmptyBucketFacts DEF EmptyBucket
<1>. HIDE DEF empty
<1>2. HasTensors(empty)
  BY <1>1 DEF HasTensors
<1>3. OffsetOf(empty, 1) = 0
  BY <1>1, <1>2, OffsetFacts
<1>4. Bytes(empty) = <<>>
  BY <1>1, BytesFacts
<1>5. Multiple(0)
  BY PlanAssumption, 0 * Align = 0 DEF Multiple
<1>. QED
  BY <1>1, <1>2, <1>3, <1>4, <1>5 DEF Laid, empty

LEMMA SameLaid ==
    ASSUME PoolsTyped, NEW bucket \in Buckets, Laid(bucket), NEW other, Bytes(other) = Bytes(bucket),
           other.owner = bucket.owner, other.items = bucket.items, other.size = bucket.size
    PROVE  Laid(other)
<1>1. HasTensors(bucket) /\ HasTensors(other)
  BY DEF Laid, HasTensors
<1>2. \A i \in 1 .. Len(bucket.items) + 1 : OffsetOf(other, i) = OffsetOf(bucket, i)
  BY <1>1, OffsetFacts DEF Extends
<1>3. Len(bucket.items) + 1 \in 1 .. Len(bucket.items) + 1 /\ \A i \in 1 .. Len(bucket.items) : i \in 1 .. Len(bucket.items) + 1
  BY DEF Buckets
<1>. QED
  BY <1>1, <1>2, <1>3 DEF Laid

\* A tensor is sent after those of the bucket: the run of its bytes goes to their end.
LEMMA OneMoreLaid ==
    ASSUME PoolsTyped, NEW bucket \in Buckets, Laid(bucket), NEW longer \in Buckets,
           NEW b \in Nat, NEW k \in Nat, IsTensor(bucket.owner, b, k),
           longer.owner = bucket.owner, longer.items = Append(bucket.items, <<b, k>>),
           longer.size = bucket.size + pools[bucket.owner][b][k].size,
           Bytes(longer) = Bytes(bucket)
                              \o Run(b, PinnedAt(bucket.owner, <<b, k>>), pools[bucket.owner][b][k].size)
    PROVE  Laid(longer)
<1>. DEFINE n == Len(bucket.items)
            o == bucket.owner
            t == pools[o][b][k]
            start == PinnedAt(o, <<b, k>>)
            run == Run(b, start, t.size)
            T == Nat \X Nat
            item == <<b, k>>
<1>1. /\ n \in Nat /\ bucket.size \in Nat /\ bucket.items \in Seq(T) /\ item \in T
      /\ Len(longer.items) = n + 1 /\ longer.items[n + 1] = item
      /\ \A i \in 1 .. n : longer.items[i] = bucket.items[i]
  <2>1. bucket.items \in Seq(T) /\ item \in T /\ bucket.size \in Nat
    BY DEF Buckets
  <2>. HIDE DEF T, item
  <2>. QED
    BY <2>1, AppendFacts DEF item
<1>. HIDE DEF n
<1>2. HasTensors(bucket) /\ HasTensors(longer)
  <2>1. ASSUME NEW i \in 1 .. n + 1 PROVE IsTensor(longer.owner, longer.items[i][1], longer.items[i][2])
    <3>1. CASE i \in 1 .. n
      BY <1>1, <3>1 DEF Laid, HasTensors, n
    <3>2. CASE i = n + 1
      BY <1>1, <3>2
    <3>. QED
      BY <1>1, <3>1, <3>2
  <2>. QED
    BY <1>1, <2>1 DEF Laid, HasTensors
<1>3. /\ \A i \in 1 .. n + 1 : OffsetOf(bucket, i) \in Nat
      /\ \A i \in 1 .. n : TensorAt(o, bucket.items[i]).size \in Nat
  BY <1>2, OffsetFacts DEF n
<1>4. \A i \in 1 .. n + 1 : OffsetOf(longer, i) = OffsetOf(bucket, i)
  BY <1>1, <1>2, OffsetFacts DEF n, Extends
<1>5. TensorAt(longer.owner, longer.items[n + 1]) = t
  <2>1. TensorAt(longer.owner, <<b, k>>) = t
    BY DEF TensorAt
  <2>2. longer.items[n + 1] = <<b, k>>
    BY <1>1
  <2>. QED
    BY <2>1, <2>2
<1>6. /\ t \in Pinned /\ t.size \in Nat
      /\ OffsetOf(longer, (n + 1) + 1) = OffsetOf(longer, n + 1) + t.size
  <2>1. Len(longer.items) = n + 1 /\ n \in Nat
    BY <1>1
  <2>2. n + 1 \in 1 .. Len(longer.items)
    BY <2>1
  <2>3. /\ TensorAt(longer.owner, longer.items[n + 1]) \in Pinned
        /\ TensorAt(longer.owner, longer.items[n + 1]).size \in Nat
        /\ OffsetOf(longer, (n + 1) + 1) =
              OffsetOf(longer, n + 1) + TensorAt(longer.owner, longer.items[n + 1]).size
    BY <1>2, <2>2, OffsetFacts
  <2>. QED
    BY <1>5, <2>3
<1>7. start \in Nat
  BY PinnedAtFacts
<1>8. OffsetOf(bucket, n + 1) = bucket.size /\ Len(Bytes(bucket)) = bucket.size
  BY DEF Laid, n
<1>. HIDE DEF t, start
<1>9. /\ run \in Seq(T) /\ Len(run) = t.size
      /\ \A x \in Nat : x < t.size => x + 1 \in 1 .. t.size /\ run[x + 1] = <<b, start + x>>
  <2>1. \A x \in 1 .. t.size : start + x - 1 \in Nat
    BY <1>6, <1>7
  <2>2. run \in [1 .. t.size -> T]
    BY <2>1 DEF Run
  <2>3. ASSUME NEW x \in Nat, x < t.size PROVE x + 1 \in 1 .. t.size /\ run[x + 1] = <<b, start + x>>
    <3>1. x + 1 \in 1 .. t.size /\ start + (x + 1) - 1 = start + x
      BY <1>6, <1>7, <2>3
    <3>. QED
      BY <3>1 DEF Run
  <2>. DEFINE size == t.size
  <2>4. size \in Nat /\ run \in [1 .. size -> T]
    BY <1>6, <2>2
  <2>. HIDE DEF run, T, size
  <2>5. run \in Seq(T) /\ Len(run) = size
    BY <2>4
  <2>. USE DEF size
  <2>. QED
    BY <2>3, <2>5
<1>. HIDE DEF run
<1>10. Bytes(bucket) \in Seq(T) /\ Bytes(longer) = Bytes(bucket) \o run
  BY BytesFacts DEF t, start, run
<1>11. /\ Len(Bytes(longer)) = bucket.size + t.size
       /\ \A i \in 1 .. bucket.size : Bytes(longer)[i] = Bytes(bucket)[i]
       /\ \A i \in 1 .. t.size : Bytes(longer)[bucket.size + i] = run[i]
  <2>. DEFINE old == Bytes(bucket)
              new == Bytes(longer)
  <2>1. old \in Seq(T) /\ new = old \o run /\ Len(old) = bucket.size
    BY <1>8, <1>10
  <2>. HIDE DEF old, new, T
  <2>2. old \in Seq(T) /\ run \in Seq(T) /\ Len(run) = t.size
    BY <1>9, <2>1
  <2>3. Len(old \o run) = Len(old) + Len(run)
    BY <2>2, ConcatFacts
  <2>4. \A i \in 1 .. Len(old) : (old \o run)[i] = old[i]
    BY <2>2, ConcatFacts
  <2>5. \A i \in 1 .. Len(run) : (old \o run)[Len(old) + i] = run[i]
    BY <2>2, ConcatFacts
  <2>. QED
    BY <2>1, <2>2, <2>3, <2>4, <2>5 DEF old, new
<1>12. longer.size = bucket.size + t.size
  BY DEF t
<1>13. ASSUME NEW i \in 1 .. n + 1, NEW x \in Nat, x < TensorAt(longer.owner, longer.items[i]).size
       PROVE  /\ OffsetOf(longer, i) + x + 1 \in 1 .. longer.size
              /\ Bytes(longer)[OffsetOf(longer, i) + x + 1] =
                    <<longer.items[i][1], PinnedAt(longer.owner, longer.items[i]) + x>>
  <2>1. CASE i \in 1 .. n
    <3>1. longer.items[i] = bucket.items[i]
      BY <1>1, <2>1
    <3>2. /\ OffsetOf(bucket, i) + x + 1 \in 1 .. bucket.size
          /\ Bytes(bucket)[OffsetOf(bucket, i) + x + 1] =
                <<bucket.items[i][1], PinnedAt(bucket.owner, bucket.items[i]) + x>>
      BY <1>13, <2>1, <3>1 DEF Laid, n
    <3>3. \A j \in 1 .. bucket.size : j \in 1 .. bucket.size + t.size
      <4>1. bucket.size \in Nat /\ t.size \in Nat
        BY <1>1, <1>6
      <4>. QED
        BY <4>1
    <3>. QED
      BY <1>4, <1>11, <1>12, <3>1, <3>2, <3>3
  <2>2. CASE i = n + 1
    <3>1. x < t.size
      BY <1>5, <1>13, <2>2
    <3>2. x + 1 \in 1 .. t.size /\ run[x + 1] = <<b, start + x>>
      BY <1>9, <3>1
    <3>3. OffsetOf(longer, i) = bucket.size
      BY <1>4, <1>8, <2>2
    <3>4. bucket.size + x + 1 = bucket.size + (x + 1) /\ bucket.size + x + 1 \in 1 .. bucket.size + t.size
      BY <1>1, <1>6, <3>1
    <3>5. Bytes(longer)[bucket.size + (x + 1)] = <<b, start + x>>
      BY <1>11, <3>2
    <3>6. longer.items[i] = <<b, k>>
      BY <1>1, <2>2
    <3>7. longer.items[i][1] = b /\ PinnedAt(longer.owner, longer.items[i]) = start
      <4>1. longer.items[i][1] = b
        <5>1. <<b, k>>[1] = b
          OBVIOUS
        <5>. QED
          BY <3>6, <5>1
      <4>2. PinnedAt(longer.owner, <<b, k>>) = start
        BY DEF start
      <4>. QED
        BY <3>6, <4>1, <4>2
    <3>. QED
      BY <1>12, <3>3, <3>4, <3>5, <3>7
  <2>3. n \in Nat
    BY <1>1
  <2>4. i \in 1 .. n \/ i = n + 1
    BY <2>3
  <2>. QED
    BY <2>1, <2>2, <2>4
<1>14. ASSUME ~inplace, NEW i \in 1 .. (n + 1) + 1 PROVE Multiple(OffsetOf(longer, i))
  <2>1. \A j \in 1 .. n + 1 : Multiple(OffsetOf(bucket, j))
    BY <1>14 DEF Laid, n
  <2>2. CASE i \in 1 .. n + 1
    BY <1>4, <2>1, <2>2
  <2>3. CASE i = (n + 1) + 1
    <3>1. n + 1 \in 1 .. n + 1
      BY <1>1
    <3>2. PICK q \in Nat : OffsetOf(bucket, n + 1) = q * Align
      BY <2>1, <3>1 DEF Multiple
    <3>3. PICK r \in Nat : t.size = r * Align
      BY <1>6, <1>14 DEF Pinned, Multiple
    <3>4. OffsetOf(longer, i) = q * Align + r * Align
      BY <1>4, <1>6, <2>3, <3>1, <3>2, <3>3
    <3>5. q * Align + r * Align = (q + r) * Align
      BY PlanAssumption
    <3>6. q + r \in Nat
      OBVIOUS
    <3>. QED
      BY <3>4, <3>5, <3>6 DEF Multiple
  <2>4. n \in Nat
    BY <1>1
  <2>5. i \in 1 .. n + 1 \/ i = (n + 1) + 1
    BY <2>4
  <2>. QED
    BY <2>2, <2>3, <2>5
<1>15. OffsetOf(longer, (n + 1) + 1) = longer.size
  <2>1. n + 1 \in 1 .. n + 1
    BY <1>1
  <2>. QED
    BY <1>4, <1>6, <1>8, <1>12, <2>1
<1>. QED
  BY <1>1, <1>2, <1>11, <1>12, <1>13, <1>14, <1>15 DEF Laid

-----------------------------------------------------------------------------
(* The buckets as they are cut.                                            *)

\* A run of bytes is a list; an empty one adds nothing.
LEMMA RunFacts ==
    ASSUME NEW b \in Nat, NEW from \in Nat, NEW n \in Nat
    PROVE  /\ Run(b, from, n) \in Seq(Nat \X Nat) /\ Len(Run(b, from, n)) = n
           /\ \A x \in 1 .. n : Run(b, from, n)[x] = <<b, from + x - 1>>
<1>. DEFINE T == Nat \X Nat
            run == Run(b, from, n)
<1>1. \A x \in 1 .. n : from + x - 1 \in Nat
  OBVIOUS
<1>2. run \in [1 .. n -> T]
  BY <1>1 DEF Run
<1>3. \A x \in 1 .. n : run[x] = <<b, from + x - 1>>
  BY DEF Run
<1>. HIDE DEF run, T
<1>4. run \in Seq(T) /\ Len(run) = n
  BY <1>2
<1>. QED
  BY <1>3, <1>4 DEF run, T

LEMMA EmptyRun ==
    ASSUME NEW b \in Nat, NEW from \in Nat, NEW s \in Seq(Nat \X Nat)
    PROVE  s \o Run(b, from, 0) = s
<1>. DEFINE T == Nat \X Nat
            run == Run(b, from, 0)
<1>1. run \in Seq(T) /\ Len(run) = 0
  BY RunFacts
<1>2. s \in Seq(T)
  OBVIOUS
<1>. HIDE DEF run, T
<1>3. s \o run = s
  BY <1>1, <1>2
<1>. QED
  BY <1>3 DEF run

\* One run after another.
Joined(s, b, start, length, more) ==
    s \o Run(b, start, length + more) = (s \o Run(b, start, length)) \o Run(b, start + length, more)

LEMMA RunsJoin ==
    ASSUME NEW b \in Nat, NEW start \in Nat, NEW length \in Nat, NEW more \in Nat, NEW s \in Seq(Nat \X Nat)
    PROVE  Joined(s, b, start, length, more)
<1>. DEFINE T == Nat \X Nat
<1>. HIDE DEF T
<1>. DEFINE all == Run(b, start, length + more)
            front == Run(b, start, length)
            back == Run(b, start + length, more)
            both == front \o back
<1>1. length + more \in Nat /\ start + length \in Nat
  OBVIOUS
<1>2. /\ all \in Seq(T) /\ Len(all) = length + more
      /\ \A x \in 1 .. length + more : all[x] = <<b, start + x - 1>>
  BY <1>1, RunFacts DEF T
<1>3. /\ front \in Seq(T) /\ Len(front) = length
      /\ \A x \in 1 .. length : front[x] = <<b, start + x - 1>>
  BY RunFacts DEF T
<1>4. /\ back \in Seq(T) /\ Len(back) = more
      /\ \A x \in 1 .. more : back[x] = <<b, (start + length) + x - 1>>
  BY <1>1, RunFacts DEF T
<1>. HIDE DEF all, front, back
<1>5. both \in Seq(T) /\ Len(both) = Len(front) + Len(back)
  BY <1>3, <1>4, ConcatPlaces
<1>6. \A i \in 1 .. Len(front) + Len(back) :
         both[i] = IF i <= Len(front) THEN front[i] ELSE back[i - Len(front)]
  BY <1>3, <1>4, ConcatPlaces
<1>. HIDE DEF both
<1>7. ASSUME NEW x \in 1 .. length + more PROVE both[x] = all[x]
  <2>1. CASE x <= length
    <3>1. x \in 1 .. length
      BY <2>1
    <3>2. both[x] = front[x]
      BY <1>3, <1>4, <1>6, <2>1
    <3>. QED
      BY <1>2, <1>3, <3>1, <3>2
  <2>2. CASE x > length
    <3>1. x - length \in 1 .. more /\ ~(x <= length) /\ (start + length) + (x - length) - 1 = start + x - 1
      BY <2>2
    <3>2. both[x] = back[x - length]
      BY <1>3, <1>4, <1>6, <3>1
    <3>3. back[x - length] = <<b, (start + length) + (x - length) - 1>>
      BY <1>4, <3>1
    <3>. QED
      BY <1>2, <3>1, <3>2, <3>3
  <2>. QED
    BY <2>1, <2>2
<1>8. all = both
  <2>1. Len(all) = Len(both) /\ Len(all) = length + more
    BY <1>2, <1>3, <1>4, <1>5
  <2>. QED
    BY <1>2, <1>5, <1>7, <2>1, SameList
<1>9. s \in Seq(T)
  BY DEF T
<1>10. s \o both = (s \o front) \o back
  <2>1. front \in Seq(T) /\ back \in Seq(T)
    BY <1>3, <1>4
  <2>2. s \o (front \o back) = (s \o front) \o back
    BY <1>9, <2>1, ConcatAssoc
  <2>. QED
    BY <2>2 DEF both
<1>. QED
  BY <1>8, <1>10 DEF Joined, all, front, back

\* The open bucket, with the range that is still to be added to it.
Open(at, b) == AddRange(Last(at.cut), b, at.start, at.offset)

AllLaid(cut) == \A n \in 1 .. Len(cut) : Laid(cut[n])

\* Before the k-th tensor of a memory buffer, the buckets are laid out.
CutLaid(at, o, b, k) ==
    /\ Last(at.cut).owner = o
    /\ IsTensor(o, b, k) => at.offset = PinnedAt(o, <<b, k>>)
    /\ \A n \in 1 .. Len(at.cut) - 1 : Laid(at.cut[n])
    /\ Laid(Open(at, b))

\* What the open bucket is.
LEMMA OpenFacts ==
    ASSUME NEW at \in Cutting, NEW b \in Nat
    PROVE  /\ Open(at, b) \in Buckets /\ Last(at.cut) \in Buckets
           /\ Open(at, b).owner = Last(at.cut).owner /\ Open(at, b).items = Last(at.cut).items
           /\ Open(at, b).size = Last(at.cut).size
           /\ Bytes(Last(at.cut)) \in Seq(Nat \X Nat)
           /\ Bytes(Open(at, b)) = Bytes(Last(at.cut)) \o Run(b, at.start, at.offset - at.start)
<1>1. at.cut \in Cuts /\ at.start \in Nat /\ at.offset \in Nat /\ at.start <= at.offset
  BY DEF Cutting
<1>2. Last(at.cut) \in Buckets
  BY <1>1, LastFacts
<1>. DEFINE last == Last(at.cut)
            start == at.start
            end == at.offset
<1>. HIDE DEF last, start, end
<1>3. last \in Buckets /\ start \in Nat /\ end \in Nat /\ start <= end
  BY <1>1, <1>2 DEF last, start, end
<1>4. /\ AddRange(last, b, start, end) \in Buckets
      /\ AddRange(last, b, start, end).owner = last.owner
      /\ AddRange(last, b, start, end).size = last.size
      /\ AddRange(last, b, start, end).items = last.items
  <2>1. AddRange(last, b, start, end) \in Buckets
    BY <1>3, AddRangeFacts
  <2>2. AddRange(last, b, start, end).owner = last.owner
    BY <1>3, AddRangeFacts
  <2>3. AddRange(last, b, start, end).size = last.size
    BY <1>3, AddRangeFacts
  <2>4. AddRange(last, b, start, end).items = last.items
    BY <1>3, AddRangeFacts
  <2>. QED
    BY <2>1, <2>2, <2>3, <2>4
<1>5. /\ Bytes(last) \in Seq(Nat \X Nat)
      /\ Bytes(AddRange(last, b, start, end)) = Bytes(last) \o Run(b, start, end - start)
  BY <1>3, BytesFacts
<1>. QED
  BY <1>3, <1>4, <1>5 DEF Open, last, start, end

\* The tensor goes into the open bucket, or it is closed and another opened.
LEMMA CutTensorLaid ==
    ASSUME PoolsTyped, NEW o \in 1 .. Len(pools), NEW b \in 1 .. Len(pools[o]),
           NEW k \in 1 .. Len(pools[o][b]), NEW at \in Cutting, CutLaid(at, o, b, k)
    PROVE  CutLaid(CutTensor(o, b, at, k), o, b, k + 1)
<1>. DEFINE t == pools[o][b][k]
            last == Last(at.cut)
            next == CutTensor(o, b, at, k)
            view == Open(at, b)
            view2 == Open(next, b)
            item == <<b, k>>
<1>1. at.cut \in Cuts /\ at.start \in Nat /\ at.offset \in Nat /\ at.start <= at.offset
  BY DEF Cutting
<1>2. o \in Nat /\ b \in Nat /\ k \in Nat /\ IsTensor(o, b, k)
  BY DEF PoolsTyped, IsTensor
<1>3. /\ next \in Cutting /\ t \in Pinned /\ last \in Buckets
      /\ next.offset = at.offset + t.size
  BY CutTensorFacts
<1>4. t.size \in Nat
  BY <1>3 DEF Pinned
<1>5. last.owner = o /\ at.offset = PinnedAt(o, item) /\ Laid(view)
      /\ \A n \in 1 .. Len(at.cut) - 1 : Laid(at.cut[n])
  BY <1>2 DEF CutLaid
<1>6. IsTensor(o, b, k + 1) => next.offset = PinnedAt(o, <<b, k + 1>>)
  <2>1. PinnedAt(o, <<b, k + 1>>) = PinnedAt(o, <<b, k>>) + pools[o][b][k].size
    BY <1>2, PinnedAtFacts
  <2>. QED
    BY <1>3, <1>5, <2>1
<1>7. /\ view \in Buckets /\ view.owner = o /\ view.items = last.items /\ view.size = last.size
      /\ Bytes(last) \in Seq(Nat \X Nat)
      /\ Bytes(view) = Bytes(last) \o Run(b, at.start, at.offset - at.start)
  BY <1>2, <1>5, OpenFacts
<1>8. /\ view2 \in Buckets /\ view2.owner = Last(next.cut).owner /\ view2.items = Last(next.cut).items
      /\ view2.size = Last(next.cut).size
      /\ Bytes(view2) = Bytes(Last(next.cut)) \o Run(b, next.start, next.offset - next.start)
  BY <1>2, <1>3, OpenFacts
<1>9. at.cut \in Seq(Buckets) \ {<<>>} /\ Len(at.cut) \in Nat \ {0}
  BY <1>1, LastFacts DEF Cuts
<1>. HIDE DEF view, view2, next
<1>10. CASE ~Overflows(last, t)
  <2>1. PICK filled \in Buckets : /\ filled = AddTensor(last, t.size, item)
                                  /\ next.start = at.start
                                  /\ next.cut = UpdateLast(at.cut, filled)
    BY <1>10, CutTensorFacts DEF next
  <2>2. /\ filled.owner = o /\ filled.items = Append(last.items, item) /\ filled.ranges = last.ranges
        /\ filled.size = last.size + t.size
    BY <1>5, <2>1 DEF AddTensor
  <2>3. /\ Len(next.cut) = Len(at.cut) /\ Last(next.cut) = filled
        /\ \A n \in 1 .. Len(at.cut) : next.cut[n] = IF n = Len(at.cut) THEN filled ELSE at.cut[n]
    <3>. DEFINE list == at.cut
    <3>1. list \in Seq(Buckets) \ {<<>>}
      BY <1>9
    <3>. HIDE DEF list
    <3>2. Len(UpdateLast(list, filled)) = Len(list) /\ Last(UpdateLast(list, filled)) = filled
      BY <3>1, UpdateLastFacts
    <3>3. \A n \in 1 .. Len(list) : UpdateLast(list, filled)[n] = IF n = Len(list) THEN filled ELSE list[n]
      BY <3>1, UpdateLastFacts
    <3>. QED
      BY <2>1, <3>2, <3>3 DEF list
  <2>4. Bytes(filled) = Bytes(last)
    BY <1>3, <2>2, BytesFacts
  <2>5. Bytes(view2) = Bytes(view) \o Run(b, at.offset, t.size)
    <3>. DEFINE old == Bytes(last)
                length == at.offset - at.start
    <3>1. length \in Nat /\ at.start + length = at.offset
      BY <1>1
    <3>2. next.offset - next.start = length + t.size
      BY <1>1, <1>3, <1>4, <2>1
    <3>3. old \in Seq(Nat \X Nat)
      BY <1>7
    <3>. HIDE DEF old, length
    <3>4. old \o Run(b, at.start, length + t.size) = (old \o Run(b, at.start, length)) \o Run(b, at.start + length, t.size)
      <4>. DEFINE start == at.start
                  more == t.size
      <4>1. start \in Nat /\ more \in Nat
        BY <1>1, <1>4
      <4>. HIDE DEF start, more
      <4>2. Joined(old, b, start, length, more)
        BY <1>2, <3>1, <3>3, <4>1, RunsJoin
      <4>3. old \o Run(b, start, length + more) = (old \o Run(b, start, length)) \o Run(b, start + length, more)
        BY <4>2 DEF Joined
      <4>. QED
        BY <4>3 DEF start, more
    <3>. QED
      BY <1>7, <1>8, <2>1, <2>3, <2>4, <3>1, <3>2, <3>4 DEF old, length
  <2>6. Laid(view2)
    <3>1. /\ view2.owner = view.owner /\ view2.items = Append(view.items, item)
          /\ view2.size = view.size + t.size
      BY <1>7, <1>8, <2>2, <2>3
    <3>. QED
      BY <1>2, <1>5, <1>7, <1>8, <2>5, <3>1, OneMoreLaid
  <2>7. ASSUME NEW n \in 1 .. Len(next.cut) - 1 PROVE Laid(next.cut[n])
    <3>1. n \in 1 .. Len(at.cut) /\ n # Len(at.cut) /\ n \in 1 .. Len(at.cut) - 1
      BY <1>9, <2>3
    <3>. QED
      BY <1>5, <2>3, <3>1
  <2>. QED
    BY <1>6, <2>2, <2>3, <2>6, <2>7 DEF CutLaid, next, view2
<1>11. CASE Overflows(last, t)
  <2>1. PICK filled \in Buckets, closed \in Buckets :
           /\ filled = AddTensor(EmptyBucket(o), t.size, item)
           /\ closed = IF at.offset > at.start THEN AddRange(last, b, at.start, at.offset) ELSE last
           /\ next.start = at.offset
           /\ next.cut = Append(UpdateLast(at.cut, closed), filled)
    BY <1>11, CutTensorFacts DEF next
  <2>. DEFINE empty == EmptyBucket(o)
  <2>2. /\ empty \in Buckets /\ empty.owner = o /\ empty.items = <<>> /\ empty.ranges = <<>> /\ empty.size = 0
    BY <1>2, EmptyBucketFacts DEF EmptyBucket
  <2>3. /\ filled.owner = o /\ filled.items = Append(empty.items, item) /\ filled.ranges = empty.ranges
        /\ filled.size = empty.size + t.size
    BY <2>1, <2>2 DEF AddTensor
  <2>. HIDE DEF empty
  <2>4. Laid(closed)
    <3>1. CASE at.offset > at.start
      BY <1>5, <2>1, <3>1 DEF view, Open
    <3>2. CASE ~(at.offset > at.start)
      <4>1. closed = last /\ at.offset - at.start = 0
        BY <1>1, <2>1, <3>2
      <4>2. Bytes(last) = Bytes(view)
        BY <1>1, <1>2, <1>7, <4>1, EmptyRun
      <4>. QED
        BY <1>5, <1>7, <4>1, <4>2, SameLaid
    <3>. QED
      BY <3>1, <3>2
  <2>5. /\ Len(next.cut) = Len(at.cut) + 1 /\ Last(next.cut) = filled
        /\ \A n \in 1 .. Len(at.cut) : next.cut[n] = IF n = Len(at.cut) THEN closed ELSE at.cut[n]
    <3>. DEFINE mid == UpdateLast(at.cut, closed)
    <3>1. /\ mid \in Seq(Buckets) /\ Len(mid) = Len(at.cut)
          /\ \A n \in 1 .. Len(at.cut) : mid[n] = IF n = Len(at.cut) THEN closed ELSE at.cut[n]
      <4>. DEFINE list == at.cut
      <4>1. list \in Seq(Buckets) \ {<<>>}
        BY <1>9
      <4>. HIDE DEF list
      <4>2. UpdateLast(list, closed) \in Seq(Buckets) /\ Len(UpdateLast(list, closed)) = Len(list)
        BY <4>1, UpdateLastFacts
      <4>3. \A n \in 1 .. Len(list) : UpdateLast(list, closed)[n] = IF n = Len(list) THEN closed ELSE list[n]
        BY <4>1, UpdateLastFacts
      <4>. QED
        BY <4>2, <4>3 DEF list
    <3>2. next.cut = Append(mid, filled)
      BY <2>1
    <3>. HIDE DEF mid
    <3>3. /\ Len(next.cut) = Len(mid) + 1 /\ Last(next.cut) = filled
          /\ \A n \in 1 .. Len(mid) : next.cut[n] = mid[n]
      BY <3>1, <3>2, AppendFacts
    <3>. QED
      BY <3>1, <3>3
  <2>6. Bytes(view2) = Bytes(empty) \o Run(b, at.offset, t.size)
    <3>1. Bytes(filled) = Bytes(empty)
      BY <2>2, <2>3, BytesFacts
    <3>2. next.offset - next.start = t.size
      BY <1>1, <1>3, <1>4, <2>1
    <3>. QED
      BY <1>8, <2>1, <2>5, <3>1, <3>2
  <2>7. Laid(view2)
    <3>1. /\ view2.owner = empty.owner /\ view2.items = Append(empty.items, item)
          /\ view2.size = empty.size + t.size
      BY <1>8, <2>2, <2>3, <2>5
    <3>2. Laid(empty)
      BY <1>2, EmptyLaid DEF empty
    <3>3. IsTensor(empty.owner, b, k)
      BY <1>2, <2>2
    <3>. QED
      BY <1>2, <1>5, <1>8, <2>2, <2>6, <3>1, <3>2, <3>3, OneMoreLaid
  <2>8. ASSUME NEW n \in 1 .. Len(next.cut) - 1 PROVE Laid(next.cut[n])
    <3>1. n \in 1 .. Len(at.cut)
      BY <1>9, <2>5
    <3>2. CASE n = Len(at.cut)
      BY <2>4, <2>5, <3>1, <3>2
    <3>3. CASE n # Len(at.cut)
      <4>1. n \in 1 .. Len(at.cut) - 1
        BY <1>9, <3>1, <3>3
      <4>. QED
        BY <1>5, <2>5, <3>1, <3>3, <4>1
    <3>. QED
      BY <3>2, <3>3
  <2>. QED
    BY <1>6, <2>3, <2>5, <2>7, <2>8 DEF CutLaid, next, view2
<1>. QED
  BY <1>10, <1>11

\* A memory buffer: the last range is added.
LEMMA CutBufferLaid ==
    ASSUME PoolsTyped, NEW o \in 1 .. Len(pools), NEW b \in 1 .. Len(pools[o]), NEW cut \in Cuts,
           AllLaid(cut), Last(cut).owner = o
    PROVE  AllLaid(CutBuffer(o, cut, b)) /\ Last(CutBuffer(o, cut, b)).owner = o
<1>. DEFINE n == Len(pools[o][b])
<1>1. PICK at \in [0 .. n -> Cutting] :
         /\ at[0] = [cut |-> cut, start |-> 0, offset |-> 0]
         /\ \A k \in 1 .. n : at[k] = CutTensor(o, b, at[k - 1], k)
         /\ CutBuffer(o, cut, b) =
               UpdateLast(at[n].cut, AddRange(Last(at[n].cut), b, at[n].start, at[n].offset))
  BY CutBufferSteps
<1>2. n \in Nat /\ b \in Nat /\ o \in Nat
  <2>1. pools[o] \in Seq(Seq(Pinned)) /\ o \in Nat
    BY DEF PoolsTyped
  <2>2. pools[o][b] \in Seq(Pinned)
    BY <2>1
  <2>. QED
    BY <2>1, <2>2
<1>. DEFINE Done(m) == CutLaid(at[m], o, b, m + 1)
            S == {m \in Nat : m <= n => Done(m)}
<1>3. 0 \in S
  <2>. DEFINE first == at[0]
  <2>1. first \in Cutting /\ first.cut = cut /\ first.start = 0 /\ first.offset = 0
    BY <1>1, <1>2
  <2>. HIDE DEF first
  <2>2. Last(cut) = cut[Len(cut)] /\ Len(cut) \in Nat \ {0}
    BY LastFacts
  <2>3. Laid(Last(cut)) /\ \A m \in 1 .. Len(cut) - 1 : Laid(cut[m])
    <3>1. Len(cut) \in 1 .. Len(cut) /\ \A m \in 1 .. Len(cut) - 1 : m \in 1 .. Len(cut)
      BY <2>2
    <3>. QED
      BY <2>2, <3>1 DEF AllLaid
  <2>4. /\ Open(first, b) \in Buckets /\ Last(cut) \in Buckets
        /\ Open(first, b).owner = Last(cut).owner /\ Open(first, b).items = Last(cut).items
        /\ Open(first, b).size = Last(cut).size
        /\ Bytes(Last(cut)) \in Seq(Nat \X Nat)
        /\ Bytes(Open(first, b)) = Bytes(Last(cut)) \o Run(b, first.start, first.offset - first.start)
    BY <1>2, <2>1, OpenFacts
  <2>5. first.offset - first.start = 0 /\ first.start \in Nat
    BY <2>1
  <2>6. Bytes(Open(first, b)) = Bytes(Last(cut))
    BY <1>2, <2>4, <2>5, EmptyRun
  <2>7. Laid(Open(first, b))
    BY <2>3, <2>4, <2>6, SameLaid
  <2>8. IsTensor(o, b, 1) => PinnedAt(o, <<b, 1>>) = 0
    BY PinnedAtFacts
  <2>9. CutLaid(first, o, b, 1)
    BY <2>1, <2>3, <2>7, <2>8 DEF CutLaid
  <2>. QED
    BY <2>9 DEF first
<1>4. ASSUME NEW m \in S PROVE m + 1 \in S
  <2>. SUFFICES ASSUME m + 1 <= n PROVE Done(m + 1)
    OBVIOUS
  <2>1. m \in 0 .. n /\ m + 1 \in 1 .. n /\ (m + 1) - 1 = m /\ Done(m)
    BY <1>2
  <2>2. at[m] \in Cutting /\ at[m + 1] = CutTensor(o, b, at[m], m + 1)
    BY <1>1, <2>1
  <2>3. CutLaid(CutTensor(o, b, at[m], m + 1), o, b, (m + 1) + 1)
    BY <2>1, <2>2, CutTensorLaid
  <2>. QED
    BY <2>2, <2>3
<1>5. n \in S
  <2>. HIDE DEF S
  <2>1. S = Nat
    <3>1. S \subseteq Nat
      BY DEF S
    <3>. QED
      BY <1>3, <1>4, <3>1, Induction
  <2>. QED
    BY <1>2, <2>1
<1>. DEFINE end == at[n]
<1>6. CutLaid(end, o, b, n + 1) /\ end \in Cutting /\ CutBuffer(o, cut, b) = UpdateLast(end.cut, Open(end, b))
  BY <1>1, <1>2, <1>5 DEF Open
<1>. HIDE DEF end, n
<1>. DEFINE list == end.cut
            view == Open(end, b)
<1>7. list \in Seq(Buckets) \ {<<>>}
  BY <1>6 DEF Cutting, Cuts
<1>8. view \in Buckets /\ view.owner = o /\ Laid(view) /\ \A m \in 1 .. Len(list) - 1 : Laid(list[m])
  BY <1>2, <1>6, OpenFacts DEF CutLaid
<1>9. CutBuffer(o, cut, b) = UpdateLast(list, view)
  BY <1>6
<1>. HIDE DEF list, view
<1>10. /\ Len(UpdateLast(list, view)) = Len(list) /\ Len(list) \in Nat \ {0}
       /\ Last(UpdateLast(list, view)) = view
  BY <1>7, <1>8, UpdateLastFacts
<1>11. \A i \in 1 .. Len(list) : UpdateLast(list, view)[i] = IF i = Len(list) THEN view ELSE list[i]
  BY <1>7, <1>8, UpdateLastFacts
<1>12. \A i \in 1 .. Len(list) : i = Len(list) \/ i \in 1 .. Len(list) - 1
  BY <1>10
<1>. QED
  BY <1>8, <1>9, <1>10, <1>11, <1>12 DEF AllLaid

\* An owner: a bucket is opened, and its memory buffers are cut.
LEMMA CutOwnerLaid ==
    ASSUME PoolsTyped, NEW o \in 1 .. Len(pools), NEW cut \in Seq(Buckets), AllLaid(cut)
    PROVE  AllLaid(CutOwner(cut, o))
<1>. DEFINE n == Len(pools[o])
<1>1. PICK at \in [0 .. n -> Cuts] :
         /\ at[0] = Append(cut, EmptyBucket(o))
         /\ \A b \in 1 .. n : at[b] = CutBuffer(o, at[b - 1], b)
         /\ CutOwner(cut, o) = at[n]
  BY CutOwnerSteps
<1>2. n \in Nat /\ o \in Nat
  <2>1. pools[o] \in Seq(Seq(Pinned)) /\ o \in Nat
    BY DEF PoolsTyped
  <2>. QED
    BY <2>1
<1>. DEFINE Done(list) == AllLaid(list) /\ Last(list).owner = o
            S == {m \in Nat : m <= n => Done(at[m])}
<1>3. 0 \in S
  <2>. DEFINE empty == EmptyBucket(o)
  <2>1. empty \in Buckets /\ empty.owner = o /\ Laid(empty)
    BY <1>2, EmptyBucketFacts, EmptyLaid DEF EmptyBucket
  <2>. HIDE DEF empty
  <2>2. /\ Len(Append(cut, empty)) = Len(cut) + 1 /\ Len(cut) \in Nat
        /\ Append(cut, empty)[Len(cut) + 1] = empty /\ Last(Append(cut, empty)) = empty
        /\ \A i \in 1 .. Len(cut) : Append(cut, empty)[i] = cut[i]
    BY <2>1, AppendFacts
  <2>3. ASSUME NEW i \in 1 .. Len(Append(cut, empty)) PROVE Laid(Append(cut, empty)[i])
    <3>1. CASE i \in 1 .. Len(cut)
      BY <2>2, <3>1 DEF AllLaid
    <3>2. CASE i = Len(cut) + 1
      BY <2>1, <2>2, <3>2
    <3>3. Len(Append(cut, empty)) = Len(cut) + 1 /\ Len(cut) \in Nat
      BY <2>2
    <3>4. i \in 1 .. Len(cut) \/ i = Len(cut) + 1
      BY <3>3
    <3>. QED
      BY <3>1, <3>2, <3>4
  <2>4. Done(Append(cut, empty))
    BY <2>1, <2>2, <2>3 DEF AllLaid
  <2>. QED
    BY <1>1, <2>4 DEF empty
<1>4. ASSUME NEW m \in S PROVE m + 1 \in S
  <2>. SUFFICES ASSUME m + 1 <= n PROVE Done(at[m + 1])
    OBVIOUS
  <2>1. m \in 0 .. n /\ m + 1 \in 1 .. n /\ (m + 1) - 1 = m /\ Done(at[m])
    BY <1>2
  <2>2. at[m] \in Cuts /\ at[m + 1] = CutBuffer(o, at[m], m + 1)
    BY <1>1, <2>1
  <2>3. Done(CutBuffer(o, at[m], m + 1))
    BY <2>1, <2>2, CutBufferLaid
  <2>. QED
    BY <2>2, <2>3
<1>5. n \in S
  <2>. HIDE DEF S
  <2>1. S = Nat
    <3>1. S \subseteq Nat
      BY DEF S
    <3>. QED
      BY <1>3, <1>4, <3>1, Induction
  <2>. QED
    BY <1>2, <2>1
<1>. QED
  BY <1>1, <1>2, <1>5

\* The buckets of all owners.
LEMMA AllBucketsLaid ==
    ASSUME PoolsTyped
    PROVE  AllBuckets \in Seq(Buckets) /\ AllLaid(AllBuckets)
<1>. DEFINE n == Len(pools)
<1>1. PICK at \in [0 .. n -> Seq(Buckets)] :
         /\ at[0] = <<>>
         /\ \A o \in 1 .. n : at[o] = CutOwner(at[o - 1], o)
         /\ AllBuckets = at[n]
  BY CutSteps
<1>2. n \in Nat
  BY DEF PoolsTyped
<1>. DEFINE S == {m \in Nat : m <= n => AllLaid(at[m])}
<1>3. 0 \in S
  BY <1>1 DEF AllLaid
<1>4. ASSUME NEW m \in S PROVE m + 1 \in S
  <2>. SUFFICES ASSUME m + 1 <= n PROVE AllLaid(at[m + 1])
    OBVIOUS
  <2>1. m \in 0 .. n /\ m + 1 \in 1 .. n /\ (m + 1) - 1 = m /\ AllLaid(at[m])
    BY <1>2
  <2>2. at[m] \in Seq(Buckets) /\ at[m + 1] = CutOwner(at[m], m + 1)
    BY <1>1, <2>1
  <2>3. AllLaid(CutOwner(at[m], m + 1))
    BY <2>1, <2>2, CutOwnerLaid
  <2>. QED
    BY <2>2, <2>3
<1>. HIDE DEF S
<1>5. S = Nat
  <2>1. S \subseteq Nat
    BY DEF S
  <2>. QED
    BY <1>3, <1>4, <2>1, Induction
<1>6. AllBuckets \in Seq(Buckets)
  BY <1>1, <1>2
<1>. QED
  BY <1>1, <1>2, <1>5, <1>6 DEF S

\* An address that is a multiple of _ALIGN_SIZE is one of what an element takes.
LEMMA MultipleFacts ==
    ASSUME NEW q \in Nat, NEW a \in Nat \ {0}, NEW i \in 1 .. a, a % i = 0
    PROVE  (q * a) % i = 0
<1>1. a = (a \div i) * i
  OBVIOUS
<1>2. a \div i \in Nat
  OBVIOUS
<1>. DEFINE m == a \div i
<1>. HIDE DEF m
<1>3. PICK k \in Nat : k = q * m
  BY <1>2 DEF m
<1>4. q * a = k * i
  <2>1. q * (m * i) = (q * m) * i
    BY <1>2 DEF m
  <2>. QED
    BY <1>1, <1>3, <2>1 DEF m
<1>5. (k * i) % i = 0
  BY <1>3
<1>. QED
  BY <1>4, <1>5

\* What is laid out is what the worker reads.
LaidOut ==
    \/ buckets = <<>>
    \/ PoolsTyped /\ buckets \in Seq(Buckets) /\ AllLaid(buckets)

-----------------------------------------------------------------------------
(* The invariant.                                                          *)

\* The buckets are of the size found, and have every tensor once.
BucketsReady ==
    /\ buckets \in Seq(Buckets) /\ Fit(buckets)
    /\ HasBefore(buckets, Len(pools) + 1, 1, 1)

\* The plan has every bucket once.
PlanComplete ==
    /\ \E R : plan \in Seq([receiver : R, bucket : Buckets])
    /\ \E pi : /\ Permutes(pi, Len(plan), Len(buckets))
               /\ \A p \in 1 .. Len(plan) : plan[p].bucket = buckets[pi[p]]

\* With target ranks the plan is dealt out to them.
PlanDealt == topo.ranks # {} => Apart(plan)

\* The order has all of the plan once.
OrderComplete ==
    /\ \E R : order \in Seq([receiver : R, round : Nat, bucket : Buckets])
    /\ \E pi : /\ Permutes(pi, Len(order), Len(plan))
               /\ \A p \in 1 .. Len(order) : /\ order[p].receiver = plan[pi[p]].receiver
                                             /\ order[p].bucket = plan[pi[p]].bucket
                                             /\ order[p].round + 1 = TurnOf(plan, pi[p])

PlanInv ==
    /\ Loaded
    /\ step \in {"new", "loaded", "pinned", "gathered", "sized", "cut", "assigned", "ready", "failed"}
    /\ step \in {"loaded", "pinned"} => Reached
    /\ step \in {"pinned", "gathered", "sized", "cut", "assigned", "ready"} => PoolsTyped
    /\ step \in {"gathered", "sized", "cut", "assigned", "ready"} => LocalReady
    /\ step \in {"sized", "cut", "assigned", "ready"} => SizesFit
    /\ step \in {"new", "loaded", "pinned", "gathered", "sized"} => buckets = <<>>
    /\ step \in {"cut", "assigned", "ready"} => BucketsReady
    /\ step \in {"assigned", "ready"} => PlanComplete /\ PlanDealt
    /\ step = "ready" => OrderComplete
    /\ LaidOut
    /\ PipelineReady

\* The buckets of the next state have the tensors they have now.
LEMMA HasBeforeNext ==
    ASSUME pools' = pools, NEW CONSTANT cut, buckets' = cut, NEW CONSTANT o, o = Len(pools) + 1,
           HasBefore(cut, o, 1, 1)
    PROVE  HasBefore(buckets, Len(pools) + 1, 1, 1)'
<1>1. \A x, y, z : IsTensor(x, y, z)' <=> IsTensor(x, y, z)
  BY DEF IsTensor
<1>2. \A x, y, z : Held(buckets, x, y, z)' <=> Held(cut, x, y, z)
  BY DEF Held
<1>3. HasAll(buckets, Len(pools) + 1, 1, 1)'
  <2>1. \A x, y, z \in Nat : IsTensor(x, y, z) /\ Precedes(x, y, z, o, 1, 1) => Held(cut, x, y, z)
    BY DEF HasBefore, HasAll
  <2>2. \A x, y, z \in Nat : IsTensor(x, y, z)' /\ Precedes(x, y, z, o, 1, 1) => Held(buckets, x, y, z)'
    BY <1>1, <1>2, <2>1
  <2>. QED
    BY <2>2 DEF HasAll, Precedes
<1>4. HasOnly(buckets, Len(pools) + 1, 1, 1)'
  <2>1. ASSUME NEW n \in 1 .. Len(cut), NEW i \in 1 .. Len(cut[n].items)
        PROVE  /\ IsTensor(cut[n].owner, cut[n].items[i][1], cut[n].items[i][2])'
               /\ Precedes(cut[n].owner, cut[n].items[i][1], cut[n].items[i][2], o, 1, 1)
    <3>1. /\ IsTensor(cut[n].owner, cut[n].items[i][1], cut[n].items[i][2])
          /\ Precedes(cut[n].owner, cut[n].items[i][1], cut[n].items[i][2], o, 1, 1)
      BY DEF HasBefore, HasOnly
    <3>. QED
      BY <1>1, <3>1
  <2>. QED
    BY <2>1 DEF HasOnly, Precedes
<1>5. HasOnce(buckets)'
  BY DEF HasBefore, HasOnce
<1>. QED
  BY <1>3, <1>4, <1>5 DEF HasBefore

\* Buckets stay laid out as long as the memory buffers stay.
LEMMA LaidNext ==
    ASSUME pools' = pools, inplace' = inplace, NEW CONSTANT cut, buckets' = cut, AllLaid(cut)
    PROVE  AllLaid(buckets)'
<1>1. \A x, y, z : IsTensor(x, y, z)' <=> IsTensor(x, y, z)
  BY DEF IsTensor
<1>2. \A o, item : TensorAt(o, item)' = TensorAt(o, item) /\ PinnedAt(o, item)' = PinnedAt(o, item)
  BY DEF TensorAt, PinnedAt
<1>3. \A bucket, i : OffsetOf(bucket, i)' = OffsetOf(bucket, i)
  BY <1>2 DEF OffsetOf
<1>4. ASSUME NEW CONSTANT bucket, Laid(bucket) PROVE Laid(bucket)'
  BY <1>1, <1>2, <1>3, <1>4 DEF Laid, HasTensors
<1>. QED
  BY <1>4 DEF AllLaid

\* A value that stays has the property it had.
LEMMA StillSo ==
    /\ Loaded /\ UNCHANGED input => Loaded'
    /\ PoolsTyped /\ UNCHANGED <<input, pools>> => PoolsTyped'
    /\ SizesFit /\ UNCHANGED <<input, pools, sizing>> => SizesFit'
    /\ BucketsReady /\ UNCHANGED <<pools, sizing, buckets>> => BucketsReady'
    /\ PlanComplete /\ UNCHANGED <<buckets, plan>> => PlanComplete'
    /\ Reached /\ UNCHANGED <<input, rdma>> => Reached'
    /\ LocalReady /\ UNCHANGED <<input, metas>> => LocalReady'
    /\ PlanDealt /\ UNCHANGED <<input, metas, plan>> => PlanDealt'
    /\ OrderComplete /\ UNCHANGED <<plan, order>> => OrderComplete'
    /\ PipelineReady /\ UNCHANGED <<step, order>> => PipelineReady'
    /\ LaidOut /\ UNCHANGED <<input, pools, buckets>> => LaidOut'
    /\ buckets = <<>> /\ UNCHANGED buckets => LaidOut'
<1>1. Loaded /\ UNCHANGED input => Loaded'
  BY DEF Loaded, RanksOn, input
<1>2. PoolsTyped /\ UNCHANGED <<input, pools>> => PoolsTyped'
  BY DEF PoolsTyped, Pinned, Multiple, input
<1>3. SizesFit /\ UNCHANGED <<input, pools, sizing>> => SizesFit'
  <2>. SUFFICES ASSUME SizesFit, UNCHANGED <<input, pools, sizing>> PROVE SizesFit'
    OBVIOUS
  <2>1. free' = free /\ inplace' = inplace /\ pools' = pools /\ sizing' = sizing
    BY DEF input
  <2>2. Multiple(sizing.size)' <=> Multiple(sizing.size)
    BY <2>1 DEF Multiple
  <2>. QED
    BY <2>1, <2>2 DEF SizesFit
<1>4. BucketsReady /\ UNCHANGED <<pools, sizing, buckets>> => BucketsReady'
  <2>. SUFFICES ASSUME BucketsReady, UNCHANGED <<pools, sizing, buckets>> PROVE BucketsReady'
    OBVIOUS
  <2>1. HasBefore(buckets, Len(pools) + 1, 1, 1)'
    BY HasBeforeNext DEF BucketsReady
  <2>. QED
    BY <2>1 DEF BucketsReady, Fit
<1>5. PlanComplete /\ UNCHANGED <<buckets, plan>> => PlanComplete'
  BY DEF PlanComplete
<1>6. OrderComplete /\ UNCHANGED <<plan, order>> => OrderComplete'
  <2>. SUFFICES ASSUME OrderComplete, plan' = plan, order' = order PROVE OrderComplete'
    OBVIOUS
  <2>1. \E R : order' \in Seq([receiver : R, round : Nat, bucket : Buckets])
    BY DEF OrderComplete
  <2>2. PICK pi : /\ Permutes(pi, Len(order), Len(plan))
                  /\ \A p \in 1 .. Len(order) : /\ order[p].receiver = plan[pi[p]].receiver
                                                /\ order[p].bucket = plan[pi[p]].bucket
                                                /\ order[p].round + 1 = TurnOf(plan, pi[p])
    BY DEF OrderComplete
  <2>3. /\ Permutes(pi, Len(order'), Len(plan'))
        /\ \A p \in 1 .. Len(order') : /\ order'[p].receiver = plan'[pi[p]].receiver
                                       /\ order'[p].bucket = plan'[pi[p]].bucket
                                       /\ order'[p].round + 1 = TurnOf(plan', pi[p])
    BY <2>2
  <2>. QED
    BY <2>1, <2>3 DEF OrderComplete, TurnOf
<1>7. PipelineReady /\ UNCHANGED <<step, order>> => PipelineReady'
  BY DEF PipelineReady
<1>8. Reached /\ UNCHANGED <<input, rdma>> => Reached'
  BY DEF Reached, RanksOn, input
<1>9. LocalReady /\ UNCHANGED <<input, metas>> => LocalReady'
  BY DEF LocalReady, input, metas
<1>10. PlanDealt /\ UNCHANGED <<input, metas, plan>> => PlanDealt'
  <2>. SUFFICES ASSUME PlanDealt, UNCHANGED <<input, metas, plan>> PROVE PlanDealt'
    OBVIOUS
  <2>1. topo' = topo /\ device' = device /\ plan' = plan
    BY DEF input, metas
  <2>2. \A b : Device(b)' = Device(b)
    BY <2>1 DEF Device
  <2>. QED
    BY <2>1, <2>2 DEF PlanDealt, Apart, TurnOf
<1>11. LaidOut /\ UNCHANGED <<input, pools, buckets>> => LaidOut'
  <2>. SUFFICES ASSUME PoolsTyped, buckets \in Seq(Buckets), AllLaid(buckets),
                       UNCHANGED <<input, pools, buckets>>
                PROVE  LaidOut'
    BY DEF LaidOut
  <2>1. pools' = pools /\ inplace' = inplace /\ buckets' = buckets /\ PoolsTyped'
    BY <1>2 DEF input
  <2>2. AllLaid(buckets)'
    BY <2>1, LaidNext
  <2>. QED
    BY <2>1, <2>2 DEF LaidOut
<1>12. buckets = <<>> /\ UNCHANGED buckets => LaidOut'
  BY DEF LaidOut
<1>. QED
  BY <1>1, <1>2, <1>3, <1>4, <1>5, <1>6, <1>7, <1>8, <1>9, <1>10, <1>11, <1>12

\* What a plan begins with.
LEMMA InitInv ==
    Init => PlanInv
<1>. SUFFICES ASSUME Init PROVE PlanInv
  OBVIOUS
<1>1. step = "new" /\ buckets = <<>>
  BY DEF Init
<1>2. Loaded
  <2>1. PICK d \in Deployments : files = d.files /\ free = d.free /\ topo = d.topo
    BY DEF Init
  <2>. QED
    BY <2>1, PlanAssumption DEF Loaded
<1>. QED
  BY <1>1, <1>2 DEF PlanInv, PipelineReady, LaidOut

\* The order is made.
LEMMA ArrangeFacts ==
    ASSUME PlanComplete, Arrange
    PROVE  OrderComplete' /\ PipelineReady'
<1>1. order' = SendOrder /\ step' = "ready" /\ plan' = plan /\ buckets' = buckets
  BY DEF Arrange
<1>2. PICK R : plan \in Seq([receiver : R, bucket : Buckets])
  BY DEF PlanComplete
<1>. DEFINE O == SendOrder
<1>3. /\ O \in Seq([receiver : R, round : Nat, bucket : Buckets])
      /\ \E pi : /\ Permutes(pi, Len(O), Len(plan))
                 /\ \A p \in 1 .. Len(O) : /\ O[p].receiver = plan[pi[p]].receiver
                                           /\ O[p].bucket = plan[pi[p]].bucket
                                           /\ O[p].round + 1 = TurnOf(plan, pi[p])
      /\ \A p \in 1 .. Len(O) - 1 : O[p + 1].round \in {O[p].round, O[p].round + 1}
      /\ \A p, q \in 1 .. Len(O) :
                 /\ O[p].receiver = O[q].receiver
                 /\ O[p].round = O[q].round
                 => p = q
      /\ \A p \in 1 .. Len(O) : O[p].round > 0 =>
            \E q \in 1 .. Len(O) : O[q].receiver = O[p].receiver /\ O[q].round = O[p].round - 1
  BY <1>2, SendOrderFacts
<1>4. order' = O /\ plan' = plan /\ buckets' = buckets
  BY <1>1
<1>. HIDE DEF O
<1>5. OrderComplete'
  BY <1>3, <1>4 DEF OrderComplete
<1>6. PipelineReady'
  <2>1. DOMAIN O = 1 .. Len(O)
    BY <1>3
  <2>. QED
    BY <1>3, <1>4, <2>1 DEF PipelineReady
<1>. QED
  BY <1>5, <1>6

\* Each step computes what is claimed after it, and leaves the values before it.
LEMMA NextInv ==
    PlanInv /\ [Next]_vars => PlanInv'
<1>. SUFFICES ASSUME PlanInv, [Next]_vars PROVE PlanInv'
  OBVIOUS
<1>. USE DEF PlanInv
<1>1. CASE NewParameterServer
  <2>1. /\ step = "new" /\ step' \in {"loaded", "failed"} /\ UNCHANGED input
        /\ buckets' = buckets
    BY <1>1 DEF NewParameterServer
  <2>2. PipelineReady'
    BY <2>1 DEF PipelineReady
  <2>3. Loaded'
    BY <2>1, StillSo
  <2>4. step' = "loaded" => Reached'
    BY <1>1, <2>1, NewParameterServerFacts DEF Loaded
  <2>5. LaidOut'
    BY <2>1, StillSo
  <2>. QED
    BY <2>1, <2>2, <2>3, <2>4, <2>5
<1>2. CASE RegisterCheckpoint
  <2>1. /\ step = "loaded" /\ step' \in {"pinned", "failed"} /\ UNCHANGED <<input, rdma>>
        /\ buckets' = buckets
    BY <1>2 DEF RegisterCheckpoint
  <2>2. PoolsTyped'
    BY <1>2, RegisterCheckpointFacts
  <2>3. PipelineReady'
    BY <2>1 DEF PipelineReady
  <2>4. Loaded' /\ Reached'
    BY <2>1, StillSo
  <2>5. LaidOut'
    BY <2>1, StillSo
  <2>. QED
    BY <2>1, <2>2, <2>3, <2>4, <2>5
<1>3. CASE GatherMetas
  <2>1. /\ step = "pinned" /\ step' \in {"gathered", "failed"} /\ UNCHANGED input
        /\ buckets' = buckets
    BY <1>3 DEF GatherMetas
  <2>2. PoolsTyped'
    BY <1>3, <2>1, GatherMetasFacts
  <2>3. PipelineReady'
    BY <2>1 DEF PipelineReady
  <2>4. Loaded'
    BY <2>1, StillSo
  <2>5. LocalReady'
    BY <1>3, <2>1, GatheredLocal DEF Loaded
  <2>6. LaidOut'
    BY <2>1, StillSo
  <2>. QED
    BY <2>1, <2>2, <2>3, <2>4, <2>5, <2>6
<1>4. CASE DetectBucketSize
  <2>1. /\ step = "gathered" /\ step' \in {"sized", "failed"} /\ UNCHANGED <<input, pools, metas>>
        /\ buckets' = buckets
    BY <1>4 DEF DetectBucketSize
  <2>2. step' = "sized" => SizesFit'
    BY <1>4, <2>1, DetectBucketSizeFacts
  <2>3. PipelineReady'
    BY <2>1 DEF PipelineReady
  <2>4. Loaded' /\ PoolsTyped' /\ LocalReady'
    BY <2>1, StillSo
  <2>5. LaidOut'
    BY <2>1, StillSo
  <2>. QED
    BY <2>1, <2>2, <2>3, <2>4, <2>5
<1>5. CASE GenH2DBuckets
  <2>1. /\ step = "sized" /\ step' \in {"cut", "failed"} /\ UNCHANGED <<input, pools, metas, sizing>>
        /\ buckets' = AllBuckets
    BY <1>5 DEF GenH2DBuckets
  <2>2. BucketsReady'
    <3>. DEFINE cut == AllBuckets
    <3>1. cut \in Seq(Buckets) /\ Fit(cut) /\ HasBefore(cut, Len(pools) + 1, 1, 1)
      BY <2>1, AllBucketsFit, AllBucketsHave
    <3>2. buckets' = cut /\ pools' = pools /\ sizing' = sizing
      BY <2>1
    <3>. HIDE DEF cut
    <3>3. HasBefore(buckets, Len(pools) + 1, 1, 1)'
      BY <3>1, <3>2, HasBeforeNext
    <3>. QED
      BY <3>1, <3>2, <3>3 DEF BucketsReady, Fit
  <2>3. PipelineReady'
    BY <2>1 DEF PipelineReady
  <2>4. Loaded' /\ PoolsTyped' /\ LocalReady' /\ SizesFit'
    BY <2>1, StillSo
  <2>5. LaidOut'
    <3>1. buckets' \in Seq(Buckets) /\ AllLaid(buckets)'
      <4>. DEFINE cut == AllBuckets
      <4>1. cut \in Seq(Buckets) /\ AllLaid(cut)
        BY <2>1, AllBucketsLaid
      <4>2. buckets' = cut /\ pools' = pools /\ inplace' = inplace
        BY <2>1 DEF input
      <4>. HIDE DEF cut
      <4>. QED
        BY <4>1, <4>2, LaidNext
    <3>. QED
      BY <2>4, <3>1 DEF LaidOut
  <2>. QED
    BY <2>1, <2>2, <2>3, <2>4, <2>5
<1>6. CASE AssignReceiverRanks
  <2>1. /\ step = "cut" /\ step' = "assigned" /\ UNCHANGED <<input, pools, metas, sizing, buckets>>
        /\ plan' = Assigned
    BY <1>6 DEF AssignReceiverRanks
  <2>2. PlanComplete'
    <3>. DEFINE P == Assigned
    <3>1. /\ \E R : P \in Seq([receiver : R, bucket : Buckets])
          /\ \E pi : /\ Permutes(pi, Len(P), Len(buckets))
                     /\ \A p \in 1 .. Len(P) : P[p].bucket = buckets[pi[p]]
      BY <2>1, AssignedFacts DEF BucketsReady
    <3>2. plan' = P /\ buckets' = buckets
      BY <2>1
    <3>. HIDE DEF P
    <3>. QED
      BY <3>1, <3>2 DEF PlanComplete
  <2>3. PipelineReady'
    BY <2>1 DEF PipelineReady
  <2>4. Loaded' /\ PoolsTyped' /\ LocalReady' /\ SizesFit' /\ BucketsReady' /\ LaidOut'
    BY <2>1, StillSo
  <2>5. PlanDealt'
    <3>. SUFFICES ASSUME topo.ranks # {} PROVE Apart(plan)'
      BY <2>1 DEF PlanDealt, input
    <3>. DEFINE P == Assigned
    <3>1. Apart(Dealt)
      BY <2>1, DealtApart DEF BucketsReady
    <3>2. P = Dealt
      BY DEF Assigned
    <3>3. Apart(P)
      BY <3>1, <3>2
    <3>4. plan' = P /\ topo' = topo /\ device' = device
      BY <2>1 DEF input, metas
    <3>. HIDE DEF P
    <3>5. \A b : Device(b)' = Device(b)
      BY <3>4 DEF Device
    <3>. QED
      BY <3>3, <3>4, <3>5 DEF Apart, TurnOf
  <2>. QED
    BY <2>1, <2>2, <2>3, <2>4, <2>5
<1>7. CASE Arrange
  <2>1. step = "assigned" /\ step' = "ready" /\ UNCHANGED <<input, pools, metas, sizing, buckets, plan>>
    BY <1>7 DEF Arrange
  <2>2. OrderComplete' /\ PipelineReady'
    BY <1>7, <2>1, ArrangeFacts
  <2>3. Loaded' /\ PoolsTyped' /\ LocalReady' /\ SizesFit' /\ BucketsReady' /\ PlanComplete' /\ PlanDealt' /\ LaidOut'
    BY <2>1, StillSo
  <2>. QED
    BY <2>1, <2>2, <2>3
<1>8. CASE UNCHANGED vars
  <2>1. UNCHANGED <<input, step, rdma, pools, metas, sizing, buckets, plan, order>>
    BY <1>8 DEF vars
  <2>. QED
    BY <2>1, StillSo
<1>. QED
  BY <1>1, <1>2, <1>3, <1>4, <1>5, <1>6, <1>7, <1>8 DEF Next, Finished

\* The order has every bucket once.
LEMMA OrderHasBuckets ==
    ASSUME PlanComplete, OrderComplete
    PROVE  \E rho : /\ Permutes(rho, Len(order), Len(buckets))
                    /\ \A n \in 1 .. Len(order) : order[n].bucket = buckets[rho[n]]
<1>. DEFINE N == Len(order)
<1>1. PICK pi : /\ Permutes(pi, N, Len(plan))
                /\ \A n \in 1 .. N : order[n].bucket = plan[pi[n]].bucket
  BY DEF OrderComplete
<1>2. PICK sigma : /\ Permutes(sigma, Len(plan), Len(buckets))
                   /\ \A n \in 1 .. Len(plan) : plan[n].bucket = buckets[sigma[n]]
  BY DEF PlanComplete
<1>. DEFINE rho == [n \in 1 .. N |-> sigma[pi[n]]]
<1>3. \A n \in 1 .. N : pi[n] \in 1 .. Len(plan) /\ rho[n] = sigma[pi[n]] /\ rho[n] \in 1 .. Len(buckets)
  BY <1>1, <1>2 DEF Permutes
<1>4. rho \in [1 .. N -> 1 .. Len(buckets)]
  BY <1>3
<1>. HIDE DEF rho
<1>5. \A i, j \in 1 .. N : rho[i] = rho[j] => i = j
  BY <1>1, <1>2, <1>3 DEF Permutes
<1>6. ASSUME NEW k \in 1 .. Len(buckets) PROVE \E i \in 1 .. N : rho[i] = k
  <2>1. PICK j \in 1 .. Len(plan) : sigma[j] = k
    BY <1>2 DEF Permutes
  <2>2. PICK i \in 1 .. N : pi[i] = j
    BY <1>1 DEF Permutes
  <2>. QED
    BY <1>3, <2>1, <2>2
<1>7. Permutes(rho, N, Len(buckets))
  BY <1>4, <1>5, <1>6 DEF Permutes
<1>8. \A n \in 1 .. N : order[n].bucket = buckets[rho[n]]
  BY <1>1, <1>2, <1>3
<1>. QED
  BY <1>7, <1>8

\* Where a bucket of tensors that are not pinned in place lies in the double buffer,
\* their addresses are multiples of Align, if the limit is.
LEMMA SentAligned ==
    ASSUME SizesFit, ~inplace, MaxBucket % Align = 0,
           NEW bucket \in Buckets, Laid(bucket), NEW i \in 1 .. Len(bucket.items), NEW g \in Nat
    PROVE  Multiple(SentAt(g, bucket, i))
<1>1. Align \in Nat \ {0}
  BY PlanAssumption
<1>2. PICK m \in Nat : sizing.size = m * Align
  BY DEF SizesFit, Multiple
<1>3. Len(bucket.items) \in Nat
  BY DEF Buckets
<1>4. PICK q \in Nat : OffsetOf(bucket, i) = q * Align
  <2>1. i \in 1 .. Len(bucket.items) + 1
    BY <1>3
  <2>2. Multiple(OffsetOf(bucket, i))
    BY <2>1 DEF Laid
  <2>. QED
    BY <2>2 DEF Multiple
<1>5. g % 2 = 0 \/ g % 2 = 1
  OBVIOUS
<1>6. Start(g) = 0 \/ Start(g) = m * Align
  BY <1>1, <1>2, <1>5 DEF Start
<1>7. SentAt(g, bucket, i) = q * Align \/ SentAt(g, bucket, i) = m * Align + q * Align
  BY <1>1, <1>4, <1>6 DEF SentAt
<1>8. m * Align + q * Align = (m + q) * Align
  BY <1>1
<1>. QED
  BY <1>7, <1>8 DEF Multiple

\* Buckets that are laid out are what the worker reads, in either half.
LEMMA LaidFaithful ==
    ASSUME LaidOut,
           step = "ready" => PoolsTyped /\ SizesFit /\ BucketsReady /\ PlanComplete /\ OrderComplete
    PROVE  LayoutFaithful
<1>1. ASSUME NEW n \in DOMAIN buckets
      PROVE  PoolsTyped /\ buckets[n] \in Buckets /\ Laid(buckets[n])
  BY DEF LaidOut, AllLaid
<1>2. \A n \in DOMAIN buckets : Len(Bytes(buckets[n])) = buckets[n].size
  BY <1>1 DEF Laid
<1>3. ASSUME step = "ready", NEW n \in DOMAIN order, NEW i \in DOMAIN order[n].bucket.items
      PROVE  LET bucket == order[n].bucket
                 t == bucket.items[i]
                 at == SentAt(n - 1, bucket, i) IN
             /\ \A x \in 0 .. TensorAt(bucket.owner, t).bytes - 1 :
                   BufferAt(n - 1, bucket, at + x) = <<t[1], PinnedAt(bucket.owner, t) + x>>
             /\ ~inplace /\ MaxBucket % Align = 0 => at % TensorAt(bucket.owner, t).item = 0
  <2>. DEFINE bucket == order[n].bucket
              t == TensorAt(bucket.owner, bucket.items[i])
              at == SentAt(n - 1, bucket, i)
  <2>1. n \in Nat \ {0} /\ \E k \in DOMAIN buckets : bucket = buckets[k]
    <3>1. PICK rho : /\ Permutes(rho, Len(order), Len(buckets))
                     /\ \A k \in 1 .. Len(order) : order[k].bucket = buckets[rho[k]]
      BY <1>3, OrderHasBuckets
    <3>2. DOMAIN order = 1 .. Len(order) /\ DOMAIN buckets = 1 .. Len(buckets)
      BY <1>3 DEF OrderComplete, BucketsReady
    <3>. QED
      BY <1>3, <3>1, <3>2 DEF Permutes
  <2>2. PoolsTyped /\ bucket \in Buckets /\ Laid(bucket)
    BY <1>1, <2>1
  <2>3. i \in 1 .. Len(bucket.items) /\ Len(bucket.items) \in Nat
    BY <1>3, <2>2 DEF Buckets
  <2>. HIDE DEF bucket
  <2>4. t \in Pinned /\ OffsetOf(bucket, i) \in Nat
    <3>1. HasTensors(bucket) /\ i \in 1 .. Len(bucket.items) + 1
      BY <2>2, <2>3 DEF Laid
    <3>. QED
      BY <2>2, <2>3, <3>1, OffsetFacts
  <2>5. Start(n - 1) \in Nat
    <3>1. (n - 1) % 2 \in 0 .. 1 /\ sizing.size \in Nat
      BY <1>3, <2>1 DEF SizesFit
    <3>. QED
      BY <3>1 DEF Start
  <2>. HIDE DEF t
  <2>6. /\ t.bytes \in Nat /\ t.size \in Nat /\ t.bytes <= t.size
        /\ t.item \in 1 .. Align /\ Align % t.item = 0
    BY <2>4 DEF Pinned, Tensor
  <2>7. ASSUME NEW x \in 0 .. t.bytes - 1
        PROVE  BufferAt(n - 1, bucket, at + x) =
                  <<bucket.items[i][1], PinnedAt(bucket.owner, bucket.items[i]) + x>>
    <3>1. x \in Nat /\ x < t.size
      BY <2>6
    <3>2. (at + x) - Start(n - 1) + 1 = OffsetOf(bucket, i) + x + 1
      BY <2>4, <2>5, <3>1 DEF SentAt
    <3>3. Bytes(bucket)[OffsetOf(bucket, i) + x + 1] =
             <<bucket.items[i][1], PinnedAt(bucket.owner, bucket.items[i]) + x>>
      BY <2>2, <2>3, <3>1 DEF Laid, t
    <3>. QED
      BY <3>2, <3>3 DEF BufferAt
  <2>8. ASSUME ~inplace, MaxBucket % Align = 0 PROVE at % t.item = 0
    <3>. DEFINE item == t.item
    <3>1. PICK q \in Nat : at = q * Align
      <4>1. n - 1 \in Nat
        BY <2>1
      <4>2. Multiple(SentAt(n - 1, bucket, i))
        BY <1>3, <2>2, <2>3, <2>8, <4>1, SentAligned
      <4>. QED
        BY <4>2 DEF Multiple
    <3>2. Align \in Nat \ {0} /\ item \in 1 .. Align /\ Align % item = 0
      BY <2>6, PlanAssumption
    <3>. HIDE DEF item, at
    <3>3. (q * Align) % item = 0
      BY <3>2, MultipleFacts
    <3>. QED
      BY <3>1, <3>3 DEF item
  <2>. QED
    BY <2>7, <2>8 DEF t, bucket
<1>. QED
  BY <1>2, <1>3 DEF LayoutFaithful

\* Every tensor is sent once, for a plan and an order that have every bucket once.
LEMMA EveryTensorSent ==
    ASSUME PoolsTyped, BucketsReady, PlanComplete, OrderComplete
    PROVE  /\ \A t \in Tensors : Quantify(Places, LAMBDA p : SentIn(p) = t) = 1
           /\ \A p \in Places : SentIn(p) \in Tensors
<1>. DEFINE N == Len(order)
<1>1. PICK rho : /\ Permutes(rho, N, Len(buckets))
                 /\ \A n \in 1 .. N : order[n].bucket = buckets[rho[n]]
  BY OrderHasBuckets
<1>2. ASSUME NEW n \in 1 .. N
      PROVE  /\ rho[n] \in 1 .. Len(buckets) /\ order[n].bucket = buckets[rho[n]]
             /\ DOMAIN order[n].bucket.items = 1 .. Len(buckets[rho[n]].items)
  <2>1. rho[n] \in 1 .. Len(buckets) /\ order[n].bucket = buckets[rho[n]]
    BY <1>1 DEF Permutes
  <2>2. buckets[rho[n]] \in Buckets
    BY <2>1 DEF BucketsReady
  <2>3. buckets[rho[n]].items \in Seq(Nat \X Nat)
    BY <2>2 DEF Buckets
  <2>. QED
    BY <2>1, <2>3
<1>3. DOMAIN order = 1 .. N
  BY DEF OrderComplete
<1>4. ASSUME NEW n \in 1 .. N, NEW i \in 1 .. Len(buckets[rho[n]].items)
      PROVE  <<n, i>> \in Places
  BY <1>2, <1>3 DEF Places
<1>5. ASSUME NEW p \in Places
      PROVE  \E n \in 1 .. N : \E i \in 1 .. Len(buckets[rho[n]].items) :
                p = <<n, i>> /\ SentIn(p) = <<buckets[rho[n]].owner, buckets[rho[n]].items[i][1],
                                              buckets[rho[n]].items[i][2]>>
  <2>1. PICK n \in 1 .. N : \E i \in DOMAIN order[n].bucket.items : p = <<n, i>>
    BY <1>3 DEF Places
  <2>2. PICK i \in DOMAIN order[n].bucket.items : p = <<n, i>>
    BY <2>1
  <2>3. p[1] = n /\ p[2] = i
    BY <2>2
  <2>4. SentIn(p) = <<buckets[rho[n]].owner, buckets[rho[n]].items[i][1], buckets[rho[n]].items[i][2]>>
    BY <1>2, <2>3 DEF SentIn
  <2>. QED
    BY <1>2, <2>2, <2>4
<1>6. ASSUME NEW x, NEW y, NEW z, IsTensor(x, y, z)
      PROVE  <<x, y, z>> \in Tensors
  <2>1. /\ x \in DOMAIN pools /\ y \in DOMAIN pools[x] /\ z \in DOMAIN pools[x][y]
    <3>1. x \in DOMAIN pools /\ pools[x] \in Seq(Seq(Pinned))
      BY <1>6 DEF IsTensor, PoolsTyped
    <3>2. y \in DOMAIN pools[x] /\ pools[x][y] \in Seq(Pinned)
      BY <1>6, <3>1 DEF IsTensor
    <3>. QED
      BY <1>6, <3>1, <3>2 DEF IsTensor
  <2>. QED
    BY <2>1 DEF Tensors
<1>7. ASSUME NEW t \in Tensors
      PROVE  \E x, y, z \in Nat : t = <<x, y, z>> /\ IsTensor(x, y, z)
  <2>1. PICK x \in DOMAIN pools : t \in UNION {{<<x, b, k>> : k \in DOMAIN pools[x][b]} : b \in DOMAIN pools[x]}
    BY DEF Tensors
  <2>2. PICK y \in DOMAIN pools[x] : t \in {<<x, y, k>> : k \in DOMAIN pools[x][y]}
    BY <2>1
  <2>3. PICK z \in DOMAIN pools[x][y] : t = <<x, y, z>>
    BY <2>2
  <2>4. x \in 1 .. Len(pools) /\ x \in Nat /\ pools[x] \in Seq(Seq(Pinned))
    BY DEF PoolsTyped
  <2>5. y \in 1 .. Len(pools[x]) /\ y \in Nat /\ pools[x][y] \in Seq(Pinned)
    BY <2>4
  <2>6. z \in 1 .. Len(pools[x][y]) /\ z \in Nat
    BY <2>5
  <2>. QED
    BY <2>3, <2>4, <2>5, <2>6 DEF IsTensor
<1>. DEFINE at(n, i) == <<buckets[rho[n]].owner, buckets[rho[n]].items[i][1], buckets[rho[n]].items[i][2]>>
<1>8. ASSUME NEW p \in Places PROVE SentIn(p) \in Tensors
  <2>1. PICK n \in 1 .. N : \E i \in 1 .. Len(buckets[rho[n]].items) : p = <<n, i>> /\ SentIn(p) = at(n, i)
    BY <1>5
  <2>2. PICK i \in 1 .. Len(buckets[rho[n]].items) : p = <<n, i>> /\ SentIn(p) = at(n, i)
    BY <2>1
  <2>3. IsTensor(buckets[rho[n]].owner, buckets[rho[n]].items[i][1], buckets[rho[n]].items[i][2])
    <3>1. rho[n] \in 1 .. Len(buckets)
      BY <1>2
    <3>. QED
      BY <3>1 DEF BucketsReady, HasBefore, HasOnly
  <2>. QED
    BY <1>6, <2>2, <2>3
<1>9. ASSUME NEW t \in Tensors
      PROVE  Quantify(Places, LAMBDA p : SentIn(p) = t) = 1
  <2>1. PICK x \in Nat, y \in Nat, z \in Nat : t = <<x, y, z>> /\ IsTensor(x, y, z)
    BY <1>7
  <2>2. Precedes(x, y, z, Len(pools) + 1, 1, 1)
    BY <2>1 DEF Precedes, IsTensor, PoolsTyped
  <2>3. Held(buckets, x, y, z)
    BY <2>1, <2>2 DEF BucketsReady, HasBefore, HasAll
  <2>4. PICK m \in 1 .. Len(buckets) :
           \E i \in 1 .. Len(buckets[m].items) : buckets[m].owner = x /\ buckets[m].items[i] = <<y, z>>
    BY <2>3 DEF Held
  <2>5. PICK i \in 1 .. Len(buckets[m].items) : buckets[m].owner = x /\ buckets[m].items[i] = <<y, z>>
    BY <2>4
  <2>6. PICK n \in 1 .. N : rho[n] = m
    BY <1>1 DEF Permutes
  <2>7. <<n, i>> \in Places /\ SentIn(<<n, i>>) = t
    <3>1. <<n, i>> \in Places
      BY <1>4, <2>5, <2>6
    <3>2. buckets[rho[n]].items[i][1] = y /\ buckets[rho[n]].items[i][2] = z /\ buckets[rho[n]].owner = x
      BY <2>5, <2>6
    <3>3. SentIn(<<n, i>>) = at(n, i)
      BY <1>2 DEF SentIn
    <3>. QED
      BY <2>1, <3>1, <3>2, <3>3
  <2>8. ASSUME NEW p \in Places, SentIn(p) = t PROVE p = <<n, i>>
    <3>1. PICK n2 \in 1 .. N :
             \E i2 \in 1 .. Len(buckets[rho[n2]].items) : p = <<n2, i2>> /\ SentIn(p) = at(n2, i2)
      BY <1>5
    <3>2. PICK i2 \in 1 .. Len(buckets[rho[n2]].items) : p = <<n2, i2>> /\ SentIn(p) = at(n2, i2)
      BY <3>1
    <3>3. rho[n2] \in 1 .. Len(buckets)
      BY <1>2
    <3>4. at(n2, i2) = <<x, y, z>>
      BY <2>1, <2>8, <3>2
    <3>5. /\ buckets[rho[n2]].owner = x /\ buckets[rho[n2]].items[i2][1] = y
          /\ buckets[rho[n2]].items[i2][2] = z
      BY ONLY <3>4
    <3>6. buckets[rho[n2]].items[i2] \in Nat \X Nat
      <4>1. buckets[rho[n2]] \in Buckets
        BY <3>3 DEF BucketsReady
      <4>. DEFINE items == buckets[rho[n2]].items
      <4>2. items \in Seq(Nat \X Nat)
        BY <4>1 DEF Buckets
      <4>3. i2 \in 1 .. Len(items)
        OBVIOUS
      <4>. HIDE DEF items
      <4>4. items[i2] \in Nat \X Nat
        BY <4>2, <4>3
      <4>. QED
        BY <4>4 DEF items
    <3>7. buckets[rho[n2]].items[i2] = <<y, z>>
      <4>. DEFINE item == buckets[rho[n2]].items[i2]
      <4>1. item \in Nat \X Nat /\ item[1] = y /\ item[2] = z
        BY <3>5, <3>6
      <4>. HIDE DEF item
      <4>2. item = <<y, z>>
        BY <4>1
      <4>. QED
        BY <4>2 DEF item
    <3>8. rho[n2] = m /\ i2 = i
      <4>1. HasOnce(buckets)
        BY DEF BucketsReady, HasBefore
      <4>2. buckets[rho[n2]].owner = buckets[m].owner /\ buckets[rho[n2]].items[i2] = buckets[m].items[i]
        BY <2>5, <3>5, <3>7
      <4>. DEFINE l == rho[n2]
      <4>3. /\ l \in 1 .. Len(buckets) /\ i2 \in 1 .. Len(buckets[l].items)
            /\ buckets[l].owner = buckets[m].owner /\ buckets[l].items[i2] = buckets[m].items[i]
        BY <3>3, <4>2
      <4>. HIDE DEF l
      <4>4. l = m /\ i2 = i
        BY <4>1, <4>3 DEF HasOnce
      <4>. QED
        BY <4>4 DEF l
    <3>9. n2 = n
      BY <1>1, <2>6, <3>8 DEF Permutes
    <3>. QED
      BY <3>2, <3>8, <3>9
  <2>9. {p \in Places : SentIn(p) = t} = {<<n, i>>}
    BY <2>7, <2>8
  <2>10. Quantify(Places, LAMBDA p : SentIn(p) = t) = Cardinality({p \in Places : SentIn(p) = t})
    BY DEF Quantify
  <2>. QED
    BY <2>9, <2>10, FS_Singleton
<1>. QED
  BY <1>8, <1>9

-----------------------------------------------------------------------------
(* The RDMA devices of a host.                                             *)

DeviceName == Nat \X Nat

\* A list that names no device twice.
NamedOnce(list) == list \in Seq(DeviceName) /\ \A i, j \in 1 .. Len(list) : list[i] = list[j] => i = j

\* The places of devices tell them apart, and are all taken.
LEMMA PlacesOfDevices ==
    ASSUME NEW found \in SUBSET DeviceName, IsFiniteSet(found)
    PROVE  /\ Cardinality(found) \in Nat
           /\ \A i \in 1 .. Cardinality(found) : \E d \in found : PlaceOf(d, found) = i
<1>. DEFINE upTo(d) == {e \in found : e = d \/ Before(e, d)}
            n == Cardinality(found)
            f == [d \in found |-> PlaceOf(d, found)]
<1>1. n \in Nat
  BY FS_CardinalityType
<1>2. \A d : PlaceOf(d, found) = Cardinality(upTo(d))
  BY DEF PlaceOf
<1>3. \A d \in found : d[1] \in Nat /\ d[2] \in Nat /\ d = <<d[1], d[2]>>
  BY DEF DeviceName
<1>4. ASSUME NEW d \in found PROVE IsFiniteSet(upTo(d)) /\ PlaceOf(d, found) \in 1 .. n
  <2>1. upTo(d) \in SUBSET found /\ d \in upTo(d)
    OBVIOUS
  <2>2. IsFiniteSet(upTo(d)) /\ Cardinality(upTo(d)) <= n
    BY <2>1, FS_Subset
  <2>3. Cardinality(upTo(d)) \in Nat /\ Cardinality(upTo(d)) # 0
    BY <2>1, <2>2, FS_CardinalityType, FS_EmptySet
  <2>4. PlaceOf(d, found) = Cardinality(upTo(d))
    BY <1>2
  <2>. HIDE DEF upTo
  <2>. QED
    BY <1>1, <2>2, <2>3, <2>4
<1>5. ASSUME NEW d \in found, NEW e \in found, Before(d, e)
      PROVE  PlaceOf(d, found) # PlaceOf(e, found)
  <2>1. \A c \in found : Before(c, d) => Before(c, e)
    BY <1>3, <1>5 DEF Before
  <2>2. e # d /\ ~Before(e, d)
    BY <1>3, <1>5 DEF Before
  <2>3. upTo(d) \in SUBSET upTo(e) /\ e \in upTo(e) /\ e \notin upTo(d)
    BY <1>5, <2>1, <2>2
  <2>4. IsFiniteSet(upTo(e))
    BY <1>4
  <2>. HIDE DEF upTo
  <2>5. Cardinality(upTo(e)) # Cardinality(upTo(d))
    BY <2>3, <2>4, FS_Subset
  <2>. QED
    BY <1>2, <2>5
<1>6. ASSUME NEW d \in found, NEW e \in found, PlaceOf(d, found) = PlaceOf(e, found)
      PROVE  d = e
  <2>1. Before(d, e) \/ Before(e, d) \/ d = e
    <3>1. d[1] < e[1] \/ e[1] < d[1] \/ d[1] = e[1]
      BY <1>3
    <3>2. d[2] < e[2] \/ e[2] < d[2] \/ d[2] = e[2]
      BY <1>3
    <3>3. d[1] = e[1] /\ d[2] = e[2] => d = e
      BY <1>3
    <3>. QED
      BY <3>1, <3>2, <3>3 DEF Before
  <2>. QED
    BY <1>5, <1>6, <2>1
<1>. HIDE DEF n
<1>7. f \in Injection(found, 1 .. n)
  BY <1>4, <1>6 DEF Injection, IsInjective
<1>8. IsFiniteSet(1 .. n) /\ Cardinality(1 .. n) = n
  BY <1>1, FS_Interval
<1>9. f \in Surjection(found, 1 .. n)
  BY <1>7, <1>8, FS_Injection DEF n
<1>10. \A i \in 1 .. n : \E d \in found : PlaceOf(d, found) = i
  BY <1>9 DEF Surjection
<1>. QED
  BY <1>1, <1>10 DEF n

\* A set by name names none of them twice.
LEMMA ByNameFacts ==
    ASSUME NEW found \in SUBSET DeviceName, IsFiniteSet(found)
    PROVE  NamedOnce(ByName(found))
<1>. DEFINE n == Cardinality(found)
            list == ByName(found)
<1>1. n \in Nat /\ \A i \in 1 .. n : \E d \in found : PlaceOf(d, found) = i
  BY PlacesOfDevices
<1>2. list = [i \in 1 .. n |-> CHOOSE d \in found : PlaceOf(d, found) = i]
  BY DEF ByName
<1>. HIDE DEF n, list
<1>3. \A i \in 1 .. n : list[i] \in found /\ PlaceOf(list[i], found) = i
  BY <1>1, <1>2
<1>4. list \in [1 .. n -> DeviceName]
  BY <1>2, <1>3
<1>5. list \in Seq(DeviceName) /\ Len(list) = n
  BY <1>1, <1>4
<1>. QED
  BY <1>3, <1>5 DEF NamedOnce, list

\* The first devices of a list.
LEMMA FirstOfFacts ==
    ASSUME NEW list, NamedOnce(list)
    PROVE  NamedOnce(FirstOf(list))
<1>. DEFINE m == Min({MaxHCAs, Len(list)})
            front == SubSeq(list, 1, m)
<1>1. list \in Seq(DeviceName) /\ Len(list) \in Nat
  BY DEF NamedOnce
<1>2. m \in Nat /\ m <= Len(list)
  <2>. DEFINE l == Len(list)
  <2>1. \E x \in {MaxHCAs, l} : \A y \in {MaxHCAs, l} : x <= y
    BY <1>1 DEF MaxHCAs
  <2>2. m \in {MaxHCAs, l} /\ \A y \in {MaxHCAs, l} : m <= y
    BY <2>1 DEF Min
  <2>. QED
    BY <1>1, <2>2 DEF MaxHCAs
<1>. HIDE DEF m
<1>3. front \in Seq(DeviceName) /\ Len(front) = m /\ \A i \in 1 .. m : front[i] = list[i]
  <2>. HIDE DEF DeviceName
  <2>. QED
    BY <1>1, <1>2
<1>4. \A i \in 1 .. m : i \in 1 .. Len(list)
  BY <1>1, <1>2
<1>5. FirstOf(list) = front
  BY DEF FirstOf, m
<1>. HIDE DEF front
<1>. QED
  BY <1>3, <1>4, <1>5 DEF NamedOnce

\* NCCL_IB_HCA picks devices of the host.
LEMMA ParsedFacts ==
    ASSUME NEW hca, NEW available, NamedOnce(available)
    PROVE  NamedOnce(ParseNCCL_IB_HCA(hca, available))
<1>. DEFINE n == Len(available)
            found == UNION {Matches(token, hca, available) : token \in ToSet(hca.tokens)}
            resolved == ResolveDeviceSpecs(hca, available)
            S == {i \in DOMAIN available : ~Contains(resolved, available[i])}
            others == Picked(available, S)
<1>1. /\ n \in Nat /\ DOMAIN available = 1 .. n /\ available \in [1 .. n -> DeviceName]
      /\ \A i, j \in 1 .. n : available[i] = available[j] => i = j
  <2>. HIDE DEF DeviceName
  <2>. QED
    BY DEF NamedOnce
<1>2. ToSet(available) \in SUBSET DeviceName /\ IsFiniteSet(ToSet(available))
  <2>1. ToSet(available) = {available[i] : i \in 1 .. n}
    BY <1>1 DEF ToSet
  <2>. HIDE DEF n, DeviceName
  <2>2. available \in Surjection(1 .. n, ToSet(available))
    <3>1. available \in [1 .. n -> ToSet(available)]
      BY <1>1, <2>1
    <3>2. \A d \in ToSet(available) : \E i \in 1 .. n : available[i] = d
      BY <2>1
    <3>. QED
      BY <3>1, <3>2 DEF Surjection
  <2>3. IsFiniteSet(1 .. n)
    BY <1>1, FS_Interval
  <2>4. IsFiniteSet(ToSet(available))
    BY <2>2, <2>3, FS_Surjection
  <2>. QED
    BY <1>1, <2>1, <2>4
<1>3. \A token : Matches(token, hca, available) \subseteq ToSet(available)
  <2>1. \A token : Contains(available, token) => token \in ToSet(available)
    BY <1>1 DEF Contains, ToSet
  <2>. QED
    BY <2>1 DEF Matches
<1>4. NamedOnce(resolved)
  <2>1. found \in SUBSET ToSet(available)
    BY <1>3
  <2>. HIDE DEF found
  <2>2. found \in SUBSET DeviceName /\ IsFiniteSet(found)
    BY <1>2, <2>1, FS_Subset
  <2>3. resolved = ByName(found)
    BY DEF ResolveDeviceSpecs, found
  <2>. QED
    BY <2>2, <2>3, ByNameFacts
<1>5. NamedOnce(others)
  <2>1. S \in SUBSET Nat /\ IsFiniteSet(S) /\ S \subseteq 1 .. n
    <3>1. S \in SUBSET (1 .. n)
      BY <1>1
    <3>2. IsFiniteSet(1 .. n) /\ 1 .. n \subseteq Nat
      BY <1>1, FS_Interval
    <3>. HIDE DEF S, n
    <3>. QED
      BY <3>1, <3>2, FS_Subset
  <2>. HIDE DEF S
  <2>2. \A i \in S : available[i] \in DeviceName
    BY <1>1, <2>1
  <2>3. /\ others \in Seq(DeviceName) /\ Len(others) = Cardinality(S)
        /\ \A i \in 1 .. Cardinality(S) : Nth(S, i) \in S /\ others[i] = available[Nth(S, i)]
        /\ \A i, j \in 1 .. Cardinality(S) : Nth(S, i) = Nth(S, j) => i = j
    <3>. HIDE DEF DeviceName, n
    <3>1. others \in Seq(DeviceName) /\ Len(others) = Cardinality(S)
      <4>1. S \in SUBSET Nat /\ IsFiniteSet(S)
        BY <2>1
      <4>2. Picked(available, S) \in Seq(DeviceName)
        BY <2>2, <4>1, PickedFacts
      <4>3. Cardinality(S) \in Nat
        BY <4>1, FS_CardinalityType
      <4>4. Len(Picked(available, S)) = Cardinality(S)
        BY <4>3 DEF Picked
      <4>. QED
        BY <4>2, <4>4
    <3>2. \A i \in 1 .. Cardinality(S) : Nth(S, i) \in S /\ others[i] = available[Nth(S, i)]
      <4>1. \A i \in 1 .. Cardinality(S) : Nth(S, i) \in S
        BY <2>1, NthFacts
      <4>2. \A i \in 1 .. Cardinality(S) : others[i] = available[Nth(S, i)]
        BY DEF Picked
      <4>. QED
        BY <4>1, <4>2
    <3>3. \A i, j \in 1 .. Cardinality(S) : Nth(S, i) = Nth(S, j) => i = j
      BY <2>1, NthFacts
    <3>. QED
      BY <3>1, <3>2, <3>3
  <2>. HIDE DEF others, n
  <2>4. ASSUME NEW i \in 1 .. Cardinality(S), NEW j \in 1 .. Cardinality(S), others[i] = others[j] PROVE i = j
    <3>1. Nth(S, i) \in 1 .. n /\ Nth(S, j) \in 1 .. n /\ available[Nth(S, i)] = available[Nth(S, j)]
      BY <2>1, <2>3, <2>4
    <3>2. Nth(S, i) = Nth(S, j)
      BY <1>1, <3>1
    <3>. QED
      BY <2>3, <3>2
  <2>. QED
    BY <2>3, <2>4 DEF NamedOnce
<1>. HIDE DEF resolved, others
<1>6. ParseNCCL_IB_HCA(hca, available) =
         IF hca.tokens = <<>> THEN FirstOf(available)
         ELSE FirstOf(IF hca.exclude THEN others ELSE resolved)
  BY DEF ParseNCCL_IB_HCA, others, resolved
<1>. QED
  BY <1>4, <1>5, <1>6, FirstOfFacts

\* The devices a host uses.
LEMMA GetRdmaDevicesFacts ==
    ASSUME NEW host, NamedOnce(host.available), NamedOnce(host.chosen)
    PROVE  NamedOnce(GetRdmaDevices(host))
<1>1. NamedOnce(ParseNCCL_IB_HCA(host.hca, host.available))
  BY ParsedFacts
<1>. QED
  BY <1>1 DEF GetRdmaDevices

-----------------------------------------------------------------------------
(* The ranks of an RDMA device.                                            *)

\* A greater multiple is greater by one more at least.
LEMMA MultiplesApart ==
    ASSUME NEW a \in Nat, NEW b \in Nat, NEW d \in Nat, a < b
    PROVE  a * d + d <= b * d
<1>1. PICK c \in Nat : b = a + 1 + c
  <2>1. b - a - 1 \in Nat /\ b = a + 1 + (b - a - 1)
    OBVIOUS
  <2>. QED
    BY <2>1
<1>2. (a + 1 + c) * d = a * d + d + c * d
  OBVIOUS
<1>3. c * d \in Nat /\ a * d \in Nat
  OBVIOUS
<1>. QED
  BY <1>1, <1>2, <1>3

\* Which numbers a division takes to q.
LEMMA DivIs ==
    ASSUME NEW x \in Nat, NEW d \in Nat \ {0}, NEW q \in Nat
    PROVE  x \div d = q <=> (q * d <= x /\ x < q * d + d)
<1>. DEFINE p == x \div d
            r == x % d
<1>1. p \in Nat /\ r \in 0 .. d - 1 /\ x = p * d + r
  BY DivFacts
<1>. HIDE DEF p, r
<1>2. p * d \in Nat /\ q * d \in Nat
  BY <1>1
<1>3. p < q \/ q < p \/ p = q
  BY <1>1
<1>4. CASE p < q
  <2>1. p * d + d <= q * d
    BY <1>1, <1>4, MultiplesApart
  <2>. QED
    BY <1>1, <1>2, <1>4, <2>1 DEF p
<1>5. CASE q < p
  <2>1. q * d + d <= p * d
    BY <1>1, <1>5, MultiplesApart
  <2>. QED
    BY <1>1, <1>2, <1>5, <2>1 DEF p
<1>6. CASE p = q
  BY <1>1, <1>2, <1>6 DEF p
<1>. QED
  BY <1>3, <1>4, <1>5, <1>6

\* How many ranks of a host a device serves, and the first of them.
RanksEach(g, L) == IF L <= g THEN g \div L ELSE 1
FirstServed(j, g, L) == IF L <= g THEN (j - 1) * (g \div L) ELSE (j - 1) \div (L \div g)

LEMMA ServedFacts ==
    ASSUME NEW g \in Nat \ {0}, NEW devices, NamedOnce(devices), CanAssign(g, devices),
           NEW j \in 1 .. Len(devices)
    PROVE  /\ RanksEach(g, Len(devices)) \in 1 .. g
           /\ FirstServed(j, g, Len(devices)) \in Nat
           /\ FirstServed(j, g, Len(devices)) + RanksEach(g, Len(devices)) <= g
           /\ \A l \in 0 .. g - 1 :
                 Contains(MyRdmaDevice(l, g, devices), devices[j]) <=>
                    /\ FirstServed(j, g, Len(devices)) <= l
                    /\ l < FirstServed(j, g, Len(devices)) + RanksEach(g, Len(devices))
<1>. DEFINE L == Len(devices)
<1>1. L \in Nat \ {0} /\ j \in 1 .. L /\ j - 1 \in Nat /\ g \in Nat \ {0} /\ devices \in Seq(DeviceName)
      /\ \A a, b \in 1 .. L : devices[a] = devices[b] => a = b
  <2>. HIDE DEF DeviceName
  <2>. QED
    BY DEF NamedOnce
<1>. HIDE DEF L
<1>2. CASE L <= g
  <2>. DEFINE w == g \div L
  <2>1. g % L = 0
    BY <1>2 DEF CanAssign, L
  <2>2. w \in Nat /\ g = w * L
    BY <1>1, <2>1, DivExact
  <2>. HIDE DEF w
  <2>3. w \in 1 .. g
    <3>1. w # 0
      BY <1>1, <2>2
    <3>2. w <= w * L
      <4>1. 0 < L
        BY <1>1
      <4>2. 0 * w + w <= L * w
        BY <1>1, <2>2, <4>1, MultiplesApart
      <4>3. L * w = w * L /\ 0 * w = 0 /\ w \in Nat /\ w * L \in Nat
        BY <1>1, <2>2
      <4>. QED
        BY <4>2, <4>3
    <3>. QED
      BY <1>1, <2>2, <3>1, <3>2
  <2>4. (j - 1) * w \in Nat /\ (j - 1) * w + w <= g
    <3>1. j - 1 < L
      BY <1>1
    <3>2. (j - 1) * w + w <= L * w
      BY <1>1, <2>2, <3>1, MultiplesApart
    <3>3. L * w = g /\ (j - 1) * w \in Nat
      BY <1>1, <2>2
    <3>. QED
      BY <3>2, <3>3
  <2>5. ASSUME NEW l \in 0 .. g - 1
        PROVE  Contains(MyRdmaDevice(l, g, devices), devices[j]) <=> (j - 1) * w <= l /\ l < (j - 1) * w + w
    <3>. DEFINE k == l \div w
    <3>1. l \in Nat /\ w \in Nat \ {0}
      BY <2>3
    <3>2. k \in Nat /\ (k = j - 1 <=> (j - 1) * w <= l /\ l < (j - 1) * w + w)
      BY <1>1, <3>1, DivFacts, DivIs
    <3>3. k * w <= l
      BY <3>1, DivIs, DivFacts
    <3>. HIDE DEF k
    <3>4. k < L
      <4>1. CASE L <= k
        <5>1. L = k \/ L < k
          BY <1>1, <3>2, <4>1
        <5>2. L * w <= k * w
          <6>1. CASE L = k
            BY <1>1, <2>2, <6>1
          <6>2. CASE L < k
            <7>1. L * w + w <= k * w
              BY <1>1, <2>2, <3>2, <6>2, MultiplesApart
            <7>2. L * w \in Nat /\ k * w \in Nat /\ w \in Nat
              BY <1>1, <2>2, <3>2
            <7>. QED
              BY <7>1, <7>2
          <6>. QED
            BY <5>1, <6>1, <6>2
        <5>3. L * w = g /\ k * w \in Nat
          BY <1>1, <2>2, <3>2
        <5>. QED
          BY <1>1, <3>1, <3>3, <5>2, <5>3
      <4>. QED
        BY <1>1, <3>2, <4>1
    <3>5. 1 + k \in 1 .. L
      BY <1>1, <3>2, <3>4
    <3>6. MyRdmaDevice(l, g, devices) = <<devices[1 + k]>>
      BY <1>2 DEF MyRdmaDevice, k, w, L
    <3>7. Contains(<<devices[1 + k]>>, devices[j]) <=> devices[1 + k] = devices[j]
      BY DEF Contains
    <3>8. devices[1 + k] = devices[j] <=> 1 + k = j
      BY <1>1, <3>5
    <3>9. 1 + k = j <=> k = j - 1
      BY <1>1, <3>2
    <3>. QED
      BY <3>2, <3>6, <3>7, <3>8, <3>9
  <2>6. RanksEach(g, L) = w /\ FirstServed(j, g, L) = (j - 1) * w
    BY <1>2 DEF RanksEach, FirstServed, w
  <2>. QED
    BY <2>3, <2>4, <2>5, <2>6 DEF L
<1>3. CASE ~(L <= g)
  <2>. DEFINE own == L \div g
              f == (j - 1) \div own
  <2>1. L % g = 0
    BY <1>3 DEF CanAssign, L
  <2>2. own \in Nat /\ L = own * g
    BY <1>1, <2>1, DivExact
  <2>3. own # 0
    BY <1>1, <2>2
  <2>4. /\ f \in Nat
        /\ f * own <= j - 1
        /\ \A l \in Nat : f = l <=> (l * own <= j - 1 /\ j - 1 < l * own + own)
    <3>1. own \in Nat \ {0} /\ j - 1 \in Nat
      BY <1>1, <2>2, <2>3
    <3>. HIDE DEF own
    <3>2. f \in Nat
      BY <3>1, DivFacts
    <3>3. ASSUME NEW l \in Nat PROVE f = l <=> (l * own <= j - 1 /\ j - 1 < l * own + own)
      BY <3>1, DivIs
    <3>. HIDE DEF f
    <3>4. f * own <= j - 1
      BY <3>2, <3>3
    <3>. QED
      BY <3>2, <3>3, <3>4
  <2>. HIDE DEF own, f
  <2>5. ASSUME NEW l \in Nat, l < g PROVE l * own \in Nat /\ l * own + own <= L
    <3>1. l * own + own <= g * own
      BY <1>1, <2>2, <2>5, MultiplesApart
    <3>2. g * own = L /\ l * own \in Nat
      BY <1>1, <2>2
    <3>. QED
      BY <3>1, <3>2
  <2>6. f < g
    <3>1. CASE g <= f
      <4>1. g = f \/ g < f
        BY <1>1, <2>4, <3>1
      <4>2. g * own <= f * own
        <5>1. CASE g = f
          BY <1>1, <2>2, <5>1
        <5>2. CASE g < f
          <6>1. g * own + own <= f * own
            BY <1>1, <2>2, <2>4, <5>2, MultiplesApart
          <6>2. g * own \in Nat /\ f * own \in Nat /\ own \in Nat
            BY <1>1, <2>2, <2>4
          <6>. QED
            BY <6>1, <6>2
        <5>. QED
          BY <4>1, <5>1, <5>2
      <4>3. g * own = L /\ f * own \in Nat
        BY <1>1, <2>2, <2>4
      <4>. QED
        BY <1>1, <2>4, <4>2, <4>3
    <3>. QED
      BY <1>1, <2>4, <3>1
  <2>7. ASSUME NEW l \in 0 .. g - 1
        PROVE  Contains(MyRdmaDevice(l, g, devices), devices[j]) <=> f <= l /\ l < f + 1
    <3>. DEFINE from == l * own
                mine == SubSeq(devices, 1 + from, from + own)
    <3>1. l \in Nat /\ l < g
      BY <1>1
    <3>2. from \in Nat /\ from + own <= L
      BY <2>5, <3>1
    <3>3. (l + 1) * own = from + own
      BY <2>2, <3>1
    <3>4. MyRdmaDevice(l, g, devices) = mine
      <4>1. MyRdmaDevice(l, g, devices) = SubSeq(devices, 1 + l * own, (l + 1) * own)
        BY <1>3 DEF MyRdmaDevice, own, L
      <4>. QED
        BY <3>3, <4>1
    <3>. HIDE DEF from
    <3>5. Len(mine) = own /\ \A i \in 1 .. own : mine[i] = devices[from + i]
      <4>. DEFINE to == from + own
      <4>1. to \in Nat /\ to <= Len(devices) /\ 1 + from \in Nat \ {0} /\ to - (1 + from) + 1 = own
        BY <2>2, <3>2 DEF L
      <4>2. \A i \in 1 .. own : (1 + from) + i - 1 = from + i
        BY <3>2
      <4>. HIDE DEF to
      <4>3. Len(SubSeq(devices, 1 + from, to)) = own
        BY <1>1, <2>2, <4>1
      <4>4. \A i \in 1 .. own : SubSeq(devices, 1 + from, to)[i] = devices[(1 + from) + i - 1]
        BY <1>1, <2>2, <4>1
      <4>. QED
        BY <4>2, <4>3, <4>4 DEF to
    <3>. HIDE DEF mine
    <3>6. \A i \in 1 .. own : from + i \in 1 .. L
      BY <1>1, <2>2, <3>2
    <3>7. Contains(mine, devices[j]) <=> \E i \in 1 .. own : from + i = j
      BY <1>1, <3>5, <3>6 DEF Contains
    <3>8. (\E i \in 1 .. own : from + i = j) <=> (from <= j - 1 /\ j - 1 < from + own)
      <4>1. from <= j - 1 /\ j - 1 < from + own => j - from \in 1 .. own /\ from + (j - from) = j
        BY <1>1, <2>2, <3>2
      <4>2. \A i \in 1 .. own : from + i = j => from <= j - 1 /\ j - 1 < from + own
        BY <1>1, <2>2, <3>2
      <4>. QED
        BY <4>1, <4>2
    <3>9. f = l <=> (from <= j - 1 /\ j - 1 < from + own)
      BY <2>4, <3>1 DEF from
    <3>10. f = l <=> (f <= l /\ l < f + 1)
      BY <2>4, <3>1
    <3>. QED
      BY <3>4, <3>7, <3>8, <3>9, <3>10
  <2>8. RanksEach(g, L) = 1 /\ FirstServed(j, g, L) = f
    BY <1>3 DEF RanksEach, FirstServed, f, own
  <2>9. 1 \in 1 .. g /\ f + 1 <= g
    BY <1>1, <2>4, <2>6
  <2>. QED
    BY <2>4, <2>7, <2>8, <2>9 DEF L
<1>. QED
  BY <1>2, <1>3

\* The host of a rank, and its place there.
LEMMA RankPlace ==
    ASSUME NEW g \in Nat \ {0}, NEW h \in Nat, NEW q \in Nat
    PROVE  /\ q \div g \in Nat /\ h * g \in Nat
           /\ q \div g = h <=> (h * g <= q /\ q < h * g + g)
           /\ h * g <= q /\ q < h * g + g => q % g = q - h * g
<1>1. q \div g \in Nat /\ q = (q \div g) * g + (q % g) /\ q % g \in Nat
  BY DivFacts
<1>2. q \div g = h <=> (h * g <= q /\ q < h * g + g)
  BY DivIs
<1>3. h * g \in Nat
  OBVIOUS
<1>. DEFINE d == q \div g
            m == q % g
<1>. HIDE DEF d, m
<1>4. d \in Nat /\ q = d * g + m /\ m \in Nat /\ (d = h <=> (h * g <= q /\ q < h * g + g))
  BY <1>1, <1>2 DEF d, m
<1>5. d = h => m = q - h * g
  BY <1>3, <1>4
<1>. QED
  BY <1>3, <1>4, <1>5 DEF d, m

\* The first N ranks that are reached on the host of that name by device d.
Holders(here, N, name, d) == {r \in 1 .. N : here[r][2] = name /\ Contains(here[r][1], d)}

\* The first N ranks announce how they are reached.
Announced(here, N, hosts) == \A r \in 1 .. N : here[r] = ReachedAt(r - 1, hosts)

\* Of the ranks that are reached as computed, those of a host that have one of its
\* devices follow one another.
LEMMA DeviceServes ==
    ASSUME NEW hosts, HostsSound(hosts), NEW h \in 1 .. Len(hosts), Len(hosts) \in Nat,
           NEW g \in Nat \ {0}, g = hosts[1].gpus, NEW devices, devices = GetRdmaDevices(hosts[h]),
           NamedOnce(devices), CanAssign(g, devices), NEW j \in 1 .. Len(devices),
           NEW N, N = Len(hosts) * g,
           NEW here, Announced(here, N, hosts)
    PROVE  Cardinality(Holders(here, N, hosts[h].name, devices[j])) = RanksEach(g, Len(devices))
<1>. DEFINE n == RanksEach(g, Len(devices))
            first == FirstServed(j, g, Len(devices))
            base == (h - 1) * g
            Has(r) == here[r][2] = hosts[h].name /\ Contains(here[r][1], devices[j])
<1>1. /\ n \in 1 .. g /\ first \in Nat /\ first + n <= g
      /\ \A l \in 0 .. g - 1 :
            Contains(MyRdmaDevice(l, g, devices), devices[j]) <=> first <= l /\ l < first + n
  BY ServedFacts
<1>. HIDE DEF n, first
<1>2. N \in Nat /\ base \in Nat /\ base + g <= N /\ h - 1 \in Nat
  <2>1. h - 1 \in Nat /\ h - 1 < Len(hosts)
    OBVIOUS
  <2>2. base + g <= N
    BY <2>1, MultiplesApart
  <2>3. base \in Nat
    BY <2>1
  <2>4. N \in Nat
    OBVIOUS
  <2>. QED
    BY <2>1, <2>2, <2>3, <2>4
<1>3. /\ \A i, k \in 1 .. Len(hosts) : hosts[i].name = hosts[k].name => i = k
      /\ \A i \in 1 .. Len(hosts) : hosts[i].gpus = g
  BY DEF HostsSound
<1>4. ASSUME NEW r \in 1 .. N
      PROVE  Has(r) <=> base + first <= r - 1 /\ r - 1 < base + first + n
  <2>. DEFINE q == r - 1
              k == q \div g
  <2>1. q \in Nat /\ q < N
    BY <1>2
  <2>. HIDE DEF q
  <2>2. k \in Nat /\ (k = h - 1 <=> base <= q /\ q < base + g)
        /\ (base <= q /\ q < base + g => q % g = q - base)
    <3>1. h - 1 \in Nat /\ q \in Nat
      BY <1>2, <2>1
    <3>2. k \in Nat
      BY <3>1, RankPlace
    <3>3. k = h - 1 <=> base <= q /\ q < base + g
      BY <3>1, RankPlace
    <3>4. base <= q /\ q < base + g => q % g = q - base
      BY <3>1, RankPlace
    <3>. QED
      BY <3>2, <3>3, <3>4
  <2>3. k < Len(hosts)
    <3>. DEFINE H == Len(hosts)
    <3>1. H \in Nat /\ H * g = N
      OBVIOUS
    <3>2. k * g <= q
      BY <2>1, RankPlace
    <3>. HIDE DEF k, H
    <3>3. CASE H <= k
      <4>1. H = k \/ H < k
        BY <2>2, <3>1, <3>3
      <4>2. H * g <= k * g
        <5>1. CASE H = k
          BY <3>1, <5>1, <1>2
        <5>2. CASE H < k
          <6>1. k \in Nat
            BY <2>2
          <6>2. H * g + g <= k * g
            BY <3>1, <5>2, <6>1, MultiplesApart
          <6>3. k * g \in Nat
            BY <6>1
          <6>4. H * g \in Nat
            BY <3>1
          <6>. QED
            BY <6>2, <6>3, <6>4
        <5>. QED
          BY <4>1, <5>1, <5>2
      <4>3. k \in Nat
        BY <2>2
      <4>4. k * g \in Nat
        BY <4>3
      <4>5. N \in Nat
        BY <1>2
      <4>6. q < k * g
        <5>1. N <= k * g
          BY <3>1, <4>2
        <5>. QED
          BY <2>1, <4>4, <4>5, <5>1
      <4>. QED
        BY <2>1, <3>2, <4>4, <4>6
    <3>. QED
      BY <2>2, <3>1, <3>3 DEF H
  <2>4. 1 + k \in 1 .. Len(hosts)
    <3>. HIDE DEF k
    <3>. QED
      BY <2>2, <2>3
  <2>5. HostOf(q, hosts) = hosts[1 + k]
    BY DEF HostOf
  <2>6. here[r] = <<MyRdmaDevice(q % g, g, GetRdmaDevices(hosts[1 + k])), hosts[1 + k].name>>
    <3>1. here[r] = ReachedAt(q, hosts)
      BY DEF q, Announced
    <3>2. hosts[1 + k].gpus = g
      BY <1>3, <2>4
    <3>. HIDE DEF k
    <3>. QED
      BY <2>5, <3>1, <3>2 DEF ReachedAt
  <2>. HIDE DEF k
  <2>7. here[r][2] = hosts[h].name <=> k = h - 1
    <3>1. here[r][2] = hosts[1 + k].name
      BY <2>6
    <3>2. hosts[1 + k].name = hosts[h].name <=> 1 + k = h
      BY <1>3, <2>4
    <3>3. 1 + k = h <=> k = h - 1
      BY <1>2, <2>2
    <3>. QED
      BY <3>1, <3>2, <3>3
  <2>8. ASSUME k = h - 1
        PROVE  Contains(here[r][1], devices[j]) <=> first <= q - base /\ q - base < first + n
    <3>1. 1 + k = h
      BY <1>2, <2>8
    <3>2. here[r][1] = MyRdmaDevice(q - base, g, devices)
      BY <2>2, <2>6, <2>8, <3>1
    <3>3. base <= q /\ q < base + g
      BY <2>2, <2>8
    <3>4. q - base \in 0 .. g - 1
      <4>1. base \in Nat /\ q \in Nat
        BY <1>2, <2>1
      <4>. HIDE DEF base
      <4>. QED
        BY <3>3, <4>1
    <3>. QED
      BY <1>1, <3>2, <3>4
  <2>9. base + first <= q /\ q < base + first + n <=>
           /\ base <= q /\ q < base + g
           /\ first <= q - base /\ q - base < first + n
    <3>1. base \in Nat /\ q \in Nat
      BY <1>2, <2>1
    <3>2. n \in Nat /\ first \in Nat /\ first + n <= g
      BY <1>1
    <3>. HIDE DEF base
    <3>. QED
      BY <3>1, <3>2
  <2>10. Has(r) <=> base + first <= q /\ q < base + first + n
    BY <2>2, <2>7, <2>8, <2>9
  <2>. QED
    BY <2>10 DEF q
<1>. HIDE DEF base, Has
<1>5. {r \in 1 .. N : Has(r)} = base + first + 1 .. base + first + n
  <2>1. \A r \in 1 .. N : Has(r) <=> r \in base + first + 1 .. base + first + n
    <3>1. n \in Nat /\ first \in Nat /\ base \in Nat /\ N \in Nat
      BY <1>1, <1>2
    <3>. QED
      BY <1>4, <3>1
  <2>2. base + first + 1 .. base + first + n \subseteq 1 .. N
    BY <1>1, <1>2
  <2>. QED
    BY <2>1, <2>2
<1>6. Cardinality(base + first + 1 .. base + first + n) = n
  <2>. DEFINE a == base + first + 1
              b == base + first + n
  <2>1. a \in Int /\ b \in Int /\ ~(a > b) /\ b - a + 1 = n
    BY <1>1, <1>2
  <2>. HIDE DEF a, b
  <2>2. Cardinality(a .. b) = n
    BY <2>1, FS_Interval
  <2>. QED
    BY <2>2 DEF a, b
<1>7. {r \in 1 .. N : Has(r)} = Holders(here, N, hosts[h].name, devices[j])
  BY DEF Has, Holders
<1>. QED
  BY <1>5, <1>6, <1>7 DEF n

\* What the ranks know of their devices.
DevicesInv ==
    /\ topo \in {d.topo : d \in Deployments}
    /\ rdma.here # <<>> =>
          /\ rdma.here = [r \in RanksOn(topo.here) |-> ReachedAt(r - 1, topo.here)]
          /\ \A host \in ToSet(topo.here) : CanAssign(host.gpus, GetRdmaDevices(host))

LEMMA DevicesInitInv ==
    Init => DevicesInv
BY DEF Init, DevicesInv

LEMMA DevicesNextInv ==
    DevicesInv /\ [Next]_vars => DevicesInv'
<1>. SUFFICES ASSUME DevicesInv, [Next]_vars PROVE DevicesInv'
  OBVIOUS
<1>1. CASE NewParameterServer
  <2>1. topo' = topo
    BY <1>1 DEF NewParameterServer, input
  <2>2. CASE rdma' = rdma
    BY <2>1, <2>2 DEF DevicesInv, RanksOn
  <2>3. CASE rdma' # rdma
    <3>1. /\ rdma' = [here |-> [r \in RanksOn(topo.here) |-> ReachedAt(r - 1, topo.here)],
                      there |-> [r \in RanksOn(topo.there) |-> ReachedAt(r - 1, topo.there)]]
          /\ \A host \in ToSet(topo.here) \cup ToSet(topo.there) : CanAssign(host.gpus, GetRdmaDevices(host))
      BY <1>1, <2>3 DEF NewParameterServer
    <3>2. rdma'.here = [r \in RanksOn(topo.here) |-> ReachedAt(r - 1, topo.here)]
      BY <3>1
    <3>. QED
      BY <2>1, <3>1, <3>2 DEF DevicesInv, RanksOn
  <2>. QED
    BY <2>2, <2>3
<1>2. CASE RegisterCheckpoint \/ GatherMetas \/ DetectBucketSize \/ GenH2DBuckets \/ AssignReceiverRanks
           \/ Arrange \/ Finished \/ UNCHANGED vars
  <2>1. topo' = topo /\ rdma' = rdma
    BY <1>2 DEF RegisterCheckpoint, GatherMetas, DetectBucketSize, GenH2DBuckets, AssignReceiverRanks,
                Arrange, Finished, vars, input
  <2>. QED
    BY <2>1 DEF DevicesInv, RanksOn
<1>. QED
  BY <1>1, <1>2 DEF Next

LEMMA DevicesServe ==
    ASSUME ChosenOnce, DevicesInv
    PROVE  DevicesEven
<1>. SUFFICES ASSUME rdma.here # <<>>, NEW host \in ToSet(topo.here)
              PROVE  \E n \in 1 .. host.gpus : \A d \in ToSet(GetRdmaDevices(host)) :
                        Quantify(DOMAIN rdma.here, LAMBDA r : /\ rdma.here[r][2] = host.name
                                                               /\ Contains(rdma.here[r][1], d)) = n
  BY DEF DevicesEven
<1>. DEFINE hosts == topo.here
            devices == GetRdmaDevices(host)
            here == rdma.here
            g == hosts[1].gpus
<1>1. PICK dep \in Deployments : hosts = dep.topo.here
  BY DEF DevicesInv
<1>2. HostsSound(hosts) /\ Len(hosts) * g \in Nat
  BY <1>1, HostAssumption, PlanAssumption
<1>3. PICK h \in DOMAIN hosts : host = hosts[h]
  BY DEF ToSet
<1>4. DOMAIN hosts = 1 .. Len(hosts) /\ h \in 1 .. Len(hosts)
  BY <1>2, <1>3 DEF HostsSound
<1>5. Len(hosts) \in Nat
  BY <1>4
<1>6. /\ host.gpus = g /\ g \in Nat \ {0}
      /\ host.available \in Seq(Nat \X Nat) /\ IsInjective(host.available) /\ host.chosen \in Seq(Nat \X Nat)
      /\ IsInjective(host.chosen)
  BY <1>1, <1>2, <1>3 DEF HostsSound, ChosenOnce
<1>7. NamedOnce(devices)
  <2>1. \A list \in Seq(Nat \X Nat) : IsInjective(list) => NamedOnce(list)
    <3>. DEFINE T == Nat \X Nat
    <3>1. \A list \in Seq(T) : DOMAIN list = 1 .. Len(list)
      <4>. HIDE DEF T
      <4>. QED
        OBVIOUS
    <3>. QED
      BY <3>1 DEF NamedOnce, IsInjective, DeviceName
  <2>2. NamedOnce(host.available) /\ NamedOnce(host.chosen)
    BY <1>6, <2>1
  <2>. QED
    BY <2>2, GetRdmaDevicesFacts
<1>8. here = [r \in 1 .. Len(hosts) * g |-> ReachedAt(r - 1, hosts)] /\ CanAssign(g, devices)
  BY <1>6 DEF DevicesInv, RanksOn
<1>. HIDE DEF hosts, devices, here, g
<1>. DEFINE n == RanksEach(g, Len(devices))
            N == Len(hosts) * g
            Has(r, d) == here[r][2] = host.name /\ Contains(here[r][1], d)
<1>9. ASSUME NEW d \in ToSet(devices) PROVE Cardinality({r \in 1 .. N : Has(r, d)}) = n
  <2>1. PICK j \in DOMAIN devices : d = devices[j]
    BY DEF ToSet
  <2>2. j \in 1 .. Len(devices)
    BY <1>7 DEF NamedOnce
  <2>3. devices = GetRdmaDevices(hosts[h])
    BY <1>3 DEF devices
  <2>4. /\ HostsSound(hosts) /\ g = hosts[1].gpus /\ CanAssign(g, devices)
        /\ N = Len(hosts) * g /\ Announced(here, N, hosts)
    BY <1>2, <1>8 DEF g, Announced
  <2>5. g \in Nat \ {0} /\ h \in 1 .. Len(hosts)
    BY <1>4, <1>6
  <2>. HIDE DEF N
  <2>6. Cardinality(Holders(here, N, hosts[h].name, devices[j])) = RanksEach(g, Len(devices))
    BY <1>5, <1>7, <2>2, <2>3, <2>4, <2>5, DeviceServes
  <2>. QED
    BY <1>3, <2>1, <2>6 DEF Holders
<1>10. n \in 1 .. g
  <2>1. Len(devices) \in Nat /\ devices # <<>>
    BY <1>7, <1>8 DEF NamedOnce, CanAssign
  <2>2. 1 \in 1 .. Len(devices)
    BY <1>7, <2>1 DEF NamedOnce
  <2>. QED
    BY <1>6, <1>7, <1>8, <2>2, ServedFacts
<1>11. DOMAIN here = 1 .. N
  BY <1>8
<1>12. \A d : Quantify(1 .. N, LAMBDA r : Has(r, d)) = Cardinality({r \in 1 .. N : Has(r, d)})
  BY DEF Quantify
<1>13. \A d \in ToSet(devices) : Quantify(DOMAIN here, LAMBDA r : Has(r, d)) = n
  BY <1>9, <1>11, <1>12
<1>. HIDE DEF n
<1>. QED
  BY <1>6, <1>10, <1>13 DEF here, devices

-----------------------------------------------------------------------------
(* The theorems.                                                           *)

\* The values of a plan are as claimed, from pinning (register_checkpoint) to the
\* loops of _update_per_bucket.
THEOREM PlanInductive == Spec => []PlanInv
<1>. QED
  BY InitInv, NextInv, PTL DEF Spec

\* Whatever the tensors, the devices and the target ranks, the order is one that
\* the loops of _update_per_bucket can work with: no receiver sends twice in a
\* round or skips one before its last.
THEOREM PipelineAlwaysReady == Spec => []PipelineReady
<1>1. PlanInv => PipelineReady
  BY DEF PlanInv
<1>. QED
  BY <1>1, PlanInductive, PTL

\* The buffers of an update fit in what _detect_bucket_size found free, and each
\* bucket of _gen_h2d_buckets in the buffers.
THEOREM MemoryAlwaysFits == Spec => []MemoryFits
<1>1. ASSUME PlanInv PROVE MemoryFits
  <2>. SUFFICES ASSUME step \in {"sized", "cut", "assigned", "ready"}
                PROVE  /\ (IF sizing.h2d THEN 3 ELSE 2) * sizing.size <= free
                       /\ \A n \in DOMAIN buckets : buckets[n].size <= sizing.size
    BY DEF MemoryFits
  <2>1. (IF sizing.h2d THEN 3 ELSE 2) * sizing.size <= free
    BY <1>1 DEF PlanInv, SizesFit
  <2>2. CASE step = "sized"
    BY <1>1, <2>1, <2>2 DEF PlanInv
  <2>3. CASE step \in {"cut", "assigned", "ready"}
    <3>1. buckets \in Seq(Buckets) /\ Fit(buckets)
      BY <1>1, <2>3 DEF PlanInv, BucketsReady
    <3>2. DOMAIN buckets = 1 .. Len(buckets)
      BY <3>1
    <3>. QED
      BY <2>1, <3>1, <3>2 DEF Fit
  <2>. QED
    BY <2>2, <2>3
<1>. QED
  BY <1>1, PlanInductive, PTL

\* Whatever the tensors, the devices and the target ranks, an update sends every
\* tensor once and nothing else: cutting, assigning and the loops of
\* _update_per_bucket lose nothing and repeat nothing.
THEOREM EveryTensorIsSentOnce == Spec => []EveryTensorOnce
<1>1. PlanInv => EveryTensorOnce
  BY EveryTensorSent DEF PlanInv, EveryTensorOnce
<1>. QED
  BY <1>1, PlanInductive, PTL

\* Whatever the tensors, the devices and the target ranks, only target ranks
\* receive, and no two of a round of _update_per_bucket read from the same RDMA
\* device: every pass of _assign_receiver_ranks is a round.
THEOREM SendersAlwaysDistinct == Spec => []SendersDistinct
<1>1. ASSUME PlanInv PROVE SendersDistinct
  <2>. SUFFICES ASSUME step = "ready", topo.ranks # {}
                PROVE  /\ \A n \in DOMAIN order : order[n].receiver \in topo.ranks
                       /\ \A m, n \in DOMAIN order :
                             /\ order[m].round = order[n].round
                             /\ Device(order[m].bucket) = Device(order[n].bucket)
                             => m = n
    BY DEF SendersDistinct
  <2>1. Apart(plan) /\ OrderComplete
    BY <1>1 DEF PlanInv, PlanDealt
  <2>2. PICK pi : /\ Permutes(pi, Len(order), Len(plan))
                  /\ \A p \in 1 .. Len(order) : /\ order[p].receiver = plan[pi[p]].receiver
                                                /\ order[p].bucket = plan[pi[p]].bucket
                                                /\ order[p].round + 1 = TurnOf(plan, pi[p])
    BY <2>1 DEF OrderComplete
  <2>3. DOMAIN order = 1 .. Len(order) /\ \A p \in 1 .. Len(order) : pi[p] \in 1 .. Len(plan)
    BY <2>1, <2>2 DEF OrderComplete, Permutes
  <2>4. \A n \in DOMAIN order : order[n].receiver \in topo.ranks
    BY <2>1, <2>2, <2>3 DEF Apart
  <2>5. ASSUME NEW m \in 1 .. Len(order), NEW n \in 1 .. Len(order),
               order[m].round = order[n].round,
               Device(order[m].bucket) = Device(order[n].bucket)
        PROVE  m = n
    <3>1. TurnOf(plan, pi[m]) = TurnOf(plan, pi[n])
      BY <2>2, <2>5
    <3>2. Device(plan[pi[m]].bucket) = Device(plan[pi[n]].bucket)
      BY <2>2, <2>5
    <3>3. pi[m] = pi[n]
      BY <2>1, <2>3, <3>1, <3>2 DEF Apart
    <3>. QED
      BY <2>2, <3>3 DEF Permutes
  <2>. QED
    BY <2>3, <2>4, <2>5
<1>. QED
  BY <1>1, PlanInductive, PTL

\* Whatever the tensors, pinned in place or not, the worker reads each one from
\* where the metadata of its bucket says it is in the double buffer, as the very
\* bytes its owner has pinned: the ranges and the items of _gen_h2d_buckets agree.
\* The address is one its element type allows, in either half, if nothing is pinned
\* in place and PS_MAX_BUCKET_SIZE_GB is a multiple of the alignment.
THEOREM LayoutAlwaysFaithful == Spec => []LayoutFaithful
<1>1. PlanInv => LayoutFaithful
  BY LaidFaithful DEF PlanInv
<1>. QED
  BY <1>1, PlanInductive, PTL

\* Whatever the hosts, what NCCL_IB_HCA says of their devices, and a list in
\* PS_P2P_STORE_RDMA_DEVICES that names none twice: on every host each RDMA device
\* in use serves as many ranks as any other (_get_my_rdma_device).
THEOREM DevicesAlwaysEven == ChosenOnce => (Spec => []DevicesEven)
<1>. SUFFICES ASSUME ChosenOnce PROVE Spec => []DevicesEven
  OBVIOUS
<1>1. DevicesInv => DevicesEven
  BY DevicesServe
<1>. QED
  BY <1>1, DevicesInitInv, DevicesNextInv, PTL DEF Spec
=============================================================================
