----------------------- MODULE CheckpointLoadingProofs -----------------------
(***************************************************************************)
(* What holds of the loading of checkpoints for any files and any number   *)
(* of ranks: LoadingInv is inductive, and ShardsInPlace and EveryFileOnce  *)
(* follow.                                                                 *)
(***************************************************************************)
EXTENDS CheckpointLoading, ListProofs

-----------------------------------------------------------------------------
(* Numbers.                                                                *)

LEMMA MaxOfTwo ==
    ASSUME NEW a \in Int, NEW b \in Int
    PROVE  Max({a, b}) = IF a >= b THEN a ELSE b
BY DEF Max

LEMMA MinOfTwo ==
    ASSUME NEW a \in Int, NEW b \in Int
    PROVE  Min({a, b}) = IF a <= b THEN a ELSE b
BY DEF Min

\* A number divided by another, rounded up.
LEMMA RoundedUp ==
    ASSUME NEW n \in Nat, NEW w \in Nat \ {0}
    PROVE  /\ (n + w - 1) \div w \in Nat
           /\ n <= w * ((n + w - 1) \div w)
<1>. DEFINE a == n + w - 1
            q == a \div w
<1>1. a \in Nat /\ w \in Nat /\ w > 0
  OBVIOUS
<1>. HIDE DEF a
<1>2. q \in Nat /\ a < w * q + w
  BY <1>1
<1>3. w * q \in Int
  BY <1>2
<1>. QED
  BY <1>2, <1>3 DEF a

\* Multiples of the same number are in the order of the factors.
LEMMA Multiples ==
    ASSUME NEW a \in Nat, NEW b \in Nat, NEW n \in Nat, a <= b
    PROVE  a * n \in Nat /\ b * n \in Nat /\ a * n <= b * n
OBVIOUS

\* Of w slices of size n that together reach k, one has the k-th place.
LEMMA SliceExists ==
    ASSUME NEW n \in Nat, NEW w \in Nat, NEW k \in Nat \ {0}, k <= w * n
    PROVE  \E r \in 1 .. w : (r - 1) * n < k /\ k <= r * n
<1>. DEFINE S == {v \in Nat : k <= v * n => \E r \in 1 .. v : (r - 1) * n < k /\ k <= r * n}
<1>1. 0 \in S
  BY 0 * n = 0
<1>2. ASSUME NEW v \in S PROVE v + 1 \in S
  <2>. SUFFICES ASSUME k <= (v + 1) * n
                PROVE  \E r \in 1 .. v + 1 : (r - 1) * n < k /\ k <= r * n
    OBVIOUS
  <2>1. CASE k <= v * n
    <3>1. PICK r \in 1 .. v : (r - 1) * n < k /\ k <= r * n
      BY <2>1
    <3>. QED
      BY <3>1
  <2>2. CASE ~(k <= v * n)
    <3>1. v * n \in Nat /\ (v + 1) - 1 = v /\ v + 1 \in 1 .. v + 1
      BY Multiples
    <3>2. ((v + 1) - 1) * n < k
      BY <2>2, <3>1
    <3>. QED
      BY <3>1, <3>2
  <2>. QED
    BY <2>1, <2>2
<1>3. S = Nat
  <2>. HIDE DEF S
  <2>1. S \in SUBSET Nat
    BY DEF S
  <2>. QED
    BY <1>1, <1>2, <2>1, Induction
<1>. QED
  BY <1>3

\* And only one.
LEMMA SliceUnique ==
    ASSUME NEW n \in Nat, NEW r \in Nat \ {0}, NEW s \in Nat \ {0}, NEW k \in Nat,
           (r - 1) * n < k, k <= r * n, (s - 1) * n < k, k <= s * n
    PROVE  r = s
<1>1. ASSUME r <= s - 1 PROVE FALSE
  <2>1. r * n <= (s - 1) * n /\ r * n \in Nat /\ (s - 1) * n \in Nat
    BY <1>1, Multiples
  <2>. QED
    BY <2>1
<1>2. ASSUME s <= r - 1 PROVE FALSE
  <2>1. s * n <= (r - 1) * n /\ s * n \in Nat /\ (r - 1) * n \in Nat
    BY <1>2, Multiples
  <2>. QED
    BY <2>1
<1>. QED
  BY <1>1, <1>2
-----------------------------------------------------------------------------
(* The files.                                                              *)

LEMMA CheckpointFacts ==
    ASSUME TypeOK
    PROVE  /\ worldSize \in Nat \ {0} /\ rank \in Nat /\ rank + 1 \in 1 .. worldSize
           /\ Len(checkpoint) \in Nat /\ DOMAIN checkpoint = 1 .. Len(checkpoint)
           /\ \A f \in DOMAIN checkpoint :
                 /\ checkpoint[f].tp \in Nat
                 /\ \A n \in DOMAIN checkpoint[f].weights : checkpoint[f].weights[n].dim \in Int
<1>1. worldSize \in Nat \ {0}
  BY LoadingAssumption DEF TypeOK
<1>2. rank \in Nat /\ rank + 1 \in 1 .. worldSize
  BY <1>1 DEF TypeOK, Ranks
<1>3. checkpoint \in Checkpoints
  BY DEF TypeOK
<1>4. Len(checkpoint) \in Nat /\ checkpoint = [i \in 1 .. Len(checkpoint) |-> checkpoint[i]]
  BY <1>3, LoadingAssumption
<1>5. DOMAIN checkpoint = 1 .. Len(checkpoint)
  BY <1>4
<1>6. \A f \in DOMAIN checkpoint :
         /\ checkpoint[f].tp \in Nat
         /\ \A n \in DOMAIN checkpoint[f].weights : checkpoint[f].weights[n].dim \in Int
  BY <1>3, LoadingAssumption
<1>. QED
  BY <1>1, <1>2, <1>4, <1>5, <1>6

LEMMA SafeTensorsFacts ==
    ASSUME TypeOK
    PROVE  /\ SafeTensors \in Seq(DOMAIN checkpoint)
           /\ Len(SafeTensors) <= Len(checkpoint)
           /\ \A i, j \in 1 .. Len(SafeTensors) : SafeTensors[i] = SafeTensors[j] => i = j
<1>. DEFINE of == {f \in DOMAIN checkpoint : checkpoint[f].type = "safetensors"}
            n == Cardinality(of)
            l == Len(checkpoint)
<1>1. l \in Nat /\ DOMAIN checkpoint = 1 .. l
  BY CheckpointFacts
<1>2. IsFiniteSet(1 .. l) /\ Cardinality(1 .. l) = l
  <2>. HIDE DEF l
  <2>. QED
    BY <1>1, FS_Interval
<1>3. of \in SUBSET (1 .. l)
  BY <1>1
<1>4. IsFiniteSet(of) /\ n <= l
  BY <1>2, <1>3, FS_Subset
<1>5. of \in SUBSET Nat
  BY <1>3
<1>. HIDE DEF of, l
<1>6. /\ InOrder(of) \in Seq(of) /\ Len(InOrder(of)) = n /\ n \in Nat
      /\ \A i, j \in 1 .. n : InOrder(of)[i] = InOrder(of)[j] => i = j
  BY <1>4, <1>5, InOrderFacts
<1>. HIDE DEF n
<1>7. SafeTensors = InOrder(of)
  BY DEF SafeTensors, of
<1>8. of \subseteq DOMAIN checkpoint
  BY <1>1, <1>3
<1>9. SafeTensors \in Seq(DOMAIN checkpoint)
  BY <1>6, <1>7, <1>8
<1>. QED
  BY <1>4, <1>6, <1>7, <1>9 DEF l

-----------------------------------------------------------------------------
(* The shares.                                                             *)

\* The k-th safetensors file of a directory is in one slice, at one place.
LEMMA SharesFacts ==
    ASSUME TypeOK, SplitCheckpointFiles
    PROVE  /\ share' \in [1 .. worldSize -> Seq(DOMAIN checkpoint)]
           /\ \A r \in 1 .. worldSize :
                 /\ DOMAIN share'[r] = 1 .. Len(share'[r])
                 /\ \A i \in DOMAIN share'[r] :
                       /\ (r - 1) * FilesPerRank + i \in 1 .. Len(SafeTensors)
                       /\ (r - 1) * FilesPerRank + i <= r * FilesPerRank
                       /\ share'[r][i] = SafeTensors[(r - 1) * FilesPerRank + i]
                 /\ \A k \in 1 .. Len(SafeTensors) :
                       (r - 1) * FilesPerRank < k /\ k <= r * FilesPerRank
                          => k - (r - 1) * FilesPerRank \in DOMAIN share'[r]
<1>. DEFINE S == SafeTensors
            L == Len(SafeTensors)
            F == FilesPerRank
            lo(r) == (r - 1) * F + 1
            hi(r) == Min({r * F, L})
<1>1. worldSize \in Nat \ {0}
  BY CheckpointFacts
<1>2. S \in Seq(DOMAIN checkpoint) /\ L \in Nat
  BY SafeTensorsFacts
<1>3. F \in Nat
  BY <1>1, <1>2, RoundedUp DEF FilesPerRank
<1>4. share' = [r \in 1 .. worldSize |-> SubSeq(S, lo(r), hi(r))]
  BY DEF SplitCheckpointFiles
<1>. HIDE DEF F
<1>5. ASSUME NEW r \in 1 .. worldSize
      PROVE  /\ share'[r] \in Seq(DOMAIN checkpoint)
             /\ DOMAIN share'[r] = 1 .. Len(share'[r])
             /\ \A i \in DOMAIN share'[r] :
                   /\ (r - 1) * F + i \in 1 .. L
                   /\ (r - 1) * F + i <= r * F
                   /\ share'[r][i] = S[(r - 1) * F + i]
             /\ \A k \in 1 .. L :
                   (r - 1) * F < k /\ k <= r * F => k - (r - 1) * F \in DOMAIN share'[r]
  <2>1. r \in Nat /\ r - 1 \in Nat /\ r - 1 <= r
    BY <1>1
  <2>2. (r - 1) * F \in Nat /\ r * F \in Nat
    BY <1>3, <2>1, Multiples
  <2>. DEFINE a == (r - 1) * F
              b == r * F
  <2>. HIDE DEF a, b
  <2>3. a \in Nat /\ b \in Nat /\ lo(r) = a + 1 /\ hi(r) = IF b <= L THEN b ELSE L
    BY <1>2, <2>2, MinOfTwo DEF a, b
  <2>. DEFINE m == lo(r)
              n == hi(r)
  <2>. HIDE DEF m, n, S, L
  <2>4. m = a + 1 /\ n = (IF b <= L THEN b ELSE L) /\ m \in Int /\ n \in Int
    BY <1>2, <2>3 DEF m, n
  <2>5. \A i \in m .. n : S[i] \in DOMAIN checkpoint
    <3>1. \A i \in m .. n : i \in 1 .. L
      BY <1>2, <2>3, <2>4
    <3>. QED
      BY <1>2, <3>1 DEF L, S
  <2>6. share'[r] = SubSeq(S, m, n)
    BY <1>4 DEF m, n, S, L
  <2>7. /\ share'[r] \in Seq(DOMAIN checkpoint)
        /\ Len(share'[r]) = IF m <= n THEN n - m + 1 ELSE 0
        /\ \A i \in 1 .. n - m + 1 : share'[r][i] = S[m + i - 1]
    BY <2>4, <2>5, <2>6, SubSeqProperties
  <2>8. DOMAIN share'[r] = 1 .. Len(share'[r])
    BY <2>7
  <2>9. ASSUME NEW i \in DOMAIN share'[r]
        PROVE  a + i \in 1 .. L /\ a + i <= b /\ share'[r][i] = S[a + i]
    <3>1. m <= n /\ i \in 1 .. n - m + 1
      BY <2>4, <2>7, <2>8
    <3>2. a + i \in 1 .. L /\ a + i <= b /\ m + i - 1 = a + i
      BY <1>2, <2>3, <2>4, <3>1
    <3>. QED
      BY <2>7, <3>1, <3>2
  <2>10. ASSUME NEW k \in 1 .. L, a < k, k <= b
         PROVE  k - a \in DOMAIN share'[r]
    <3>1. k <= n /\ m <= n /\ k - a \in 1 .. n - m + 1
      BY <1>2, <2>3, <2>4, <2>10
    <3>. QED
      BY <2>7, <2>8, <3>1
  <2>. QED
    BY <2>7, <2>8, <2>9, <2>10 DEF a, b
<1>6. share' \in [1 .. worldSize -> Seq(DOMAIN checkpoint)]
  BY <1>4, <1>5
<1>. QED
  BY <1>5, <1>6 DEF F

\* The places of a file in the shares.
PlacesOf(f) ==
    {at \in (1 .. worldSize) \X DOMAIN checkpoint :
        at[2] \in DOMAIN share[at[1]] /\ share[at[1]][at[2]] = f}

LEMMA SplitOnce ==
    ASSUME TypeOK, SplitCheckpointFiles, NEW f \in Range(SafeTensors)
    PROVE  Cardinality(PlacesOf(f)') = 1
<1>. DEFINE S == SafeTensors
            L == Len(SafeTensors)
            F == FilesPerRank
<1>1. worldSize \in Nat \ {0} /\ Len(checkpoint) \in Nat /\ DOMAIN checkpoint = 1 .. Len(checkpoint)
  BY CheckpointFacts
<1>2. S \in Seq(DOMAIN checkpoint) /\ L \in Nat /\ L <= Len(checkpoint)
  BY SafeTensorsFacts
<1>3. \A i, j \in 1 .. L : S[i] = S[j] => i = j
  BY SafeTensorsFacts
<1>4. F \in Nat /\ L <= worldSize * F
  BY <1>1, <1>2, RoundedUp DEF FilesPerRank
<1>5. PICK k \in 1 .. L : f = S[k]
  BY <1>2 DEF Range
<1>. HIDE DEF F, L, S
<1>6. PICK r \in 1 .. worldSize : (r - 1) * F < k /\ k <= r * F
  <2>1. k \in Nat \ {0} /\ worldSize \in Nat /\ worldSize * F \in Nat /\ k <= worldSize * F
    BY <1>1, <1>2, <1>4
  <2>. QED
    BY <1>4, <2>1, SliceExists
<1>7. r \in Nat \ {0} /\ (r - 1) * F \in Nat
  <2>1. r \in Nat \ {0} /\ r - 1 \in Nat
    BY <1>1
  <2>. QED
    BY <1>4, <2>1, Multiples
<1>. DEFINE i == k - (r - 1) * F
<1>8. i \in DOMAIN checkpoint /\ (r - 1) * F + i = k
  BY <1>1, <1>2, <1>6, <1>7
<1>9. i \in DOMAIN share'[r] /\ share'[r][i] = f
  <2>1. i \in DOMAIN share'[r]
    BY <1>6, SharesFacts DEF F, L
  <2>2. share'[r][i] = S[(r - 1) * F + i]
    BY <2>1, SharesFacts DEF F, L, S
  <2>. QED
    BY <1>5, <1>8, <2>1, <2>2
<1>10. ASSUME NEW s \in 1 .. worldSize, NEW j \in DOMAIN checkpoint,
              j \in DOMAIN share'[s], share'[s][j] = f
       PROVE  s = r /\ j = i
  <2>1. (s - 1) * F + j \in 1 .. L /\ (s - 1) * F + j <= s * F /\ f = S[(s - 1) * F + j]
    BY <1>10, SharesFacts DEF F, L, S
  <2>2. (s - 1) * F + j = k
    BY <1>3, <1>5, <2>1
  <2>3. s \in Nat \ {0} /\ (s - 1) * F \in Nat
    <3>1. s \in Nat \ {0} /\ s - 1 \in Nat
      BY <1>1
    <3>. QED
      BY <1>4, <3>1, Multiples
  <2>4. j \in Nat \ {0}
    BY <1>1
  <2>5. (s - 1) * F < k /\ k <= s * F
    BY <2>1, <2>2, <2>3, <2>4
  <2>6. k \in Nat
    BY <1>2
  <2>7. s = r
    BY <1>4, <1>6, <1>7, <2>3, <2>5, <2>6, SliceUnique
  <2>. QED
    BY <2>2, <2>3, <2>4, <2>7
<1>11. worldSize' = worldSize /\ checkpoint' = checkpoint
  BY DEF SplitCheckpointFiles
<1>. HIDE DEF i
<1>12. PlacesOf(f)' = {<<r, i>>}
  BY <1>8, <1>9, <1>10, <1>11 DEF PlacesOf
<1>. QED
  BY <1>12, FS_Singleton

LEMMA GivenFacts ==
    ASSUME TypeOK, GiveFiles
    PROVE  /\ share' \in [1 .. worldSize -> Seq(DOMAIN checkpoint)]
           /\ \A f \in DOMAIN checkpoint : Cardinality(PlacesOf(f)') = 1
<1>. DEFINE l == Len(checkpoint)
<1>1. l \in Nat /\ DOMAIN checkpoint = 1 .. l
  BY CheckpointFacts
<1>. HIDE DEF l
<1>2. IsFiniteSet(1 .. l) /\ Cardinality(1 .. l) = l
  BY <1>1, FS_Interval
<1>3. PICK list \in SetToSeqs(DOMAIN checkpoint) : share' = <<list>>
  BY DEF GiveFiles
<1>4. worldSize = 1 /\ worldSize' = worldSize /\ checkpoint' = checkpoint
  BY DEF GiveFiles
<1>5. list \in [1 .. l -> 1 .. l] /\ \A i, j \in 1 .. l : i # j => list[i] # list[j]
  BY <1>1, <1>2, <1>3 DEF SetToSeqs
<1>6. list \in Injection(1 .. l, 1 .. l)
  BY <1>5 DEF Injection, IsInjective
<1>7. list \in Surjection(1 .. l, 1 .. l)
  BY <1>2, <1>6, FS_Injection
<1>8. list \in Seq(DOMAIN checkpoint)
  BY <1>1, <1>5
<1>9. share' \in [1 .. worldSize -> Seq(DOMAIN checkpoint)]
  BY <1>3, <1>4, <1>8
<1>10. ASSUME NEW f \in DOMAIN checkpoint PROVE Cardinality(PlacesOf(f)') = 1
  <2>1. PICK i \in 1 .. l : list[i] = f
    BY <1>1, <1>7 DEF Surjection
  <2>2. DOMAIN list = 1 .. l /\ share'[1] = list
    BY <1>3, <1>5
  <2>3. PlacesOf(f)' = {at \in (1 .. 1) \X (1 .. l) :
                          at[2] \in DOMAIN share'[at[1]] /\ share'[at[1]][at[2]] = f}
    BY <1>1, <1>4 DEF PlacesOf
  <2>4. \A at \in (1 .. 1) \X (1 .. l) : at = <<at[1], at[2]>> /\ at[1] = 1 /\ at[2] \in 1 .. l
    OBVIOUS
  <2>5. ASSUME NEW at \in (1 .. 1) \X (1 .. l)
        PROVE  (at[2] \in DOMAIN share'[at[1]] /\ share'[at[1]][at[2]] = f) <=> at = <<1, i>>
    <3>1. at[2] \in DOMAIN share'[at[1]] /\ share'[at[1]][at[2]] = list[at[2]]
      BY <2>2, <2>4
    <3>2. list[at[2]] = f <=> at[2] = i
      BY <1>5, <2>1, <2>4
    <3>3. at[2] = i <=> at = <<1, i>>
      BY <2>4
    <3>. QED
      BY <3>1, <3>2, <3>3
  <2>6. <<1, i>> \in (1 .. 1) \X (1 .. l)
    OBVIOUS
  <2>7. PlacesOf(f)' = {<<1, i>>}
    BY <2>3, <2>5, <2>6
  <2>. QED
    BY <2>7, FS_Singleton
<1>. QED
  BY <1>9, <1>10
-----------------------------------------------------------------------------
(* The tables.                                                             *)

LEMMA LoadedFacts ==
    ASSUME TypeOK
    PROVE  /\ Loaded \subseteq DOMAIN checkpoint
           /\ step = "splitting" => Loaded = {}
           /\ step # "splitting" => /\ share[rank + 1] \in Seq(DOMAIN checkpoint)
                                    /\ Len(share[rank + 1]) \in Nat
<1>1. CASE step = "splitting"
  <2>1. done = 0
    BY <1>1 DEF TypeOK
  <2>2. Loaded = {}
    BY <2>1 DEF Loaded
  <2>. QED
    BY <1>1, <2>2
<1>2. CASE step # "splitting"
  <2>1. share[rank + 1] \in Seq(DOMAIN checkpoint) /\ done <= Len(share[rank + 1]) /\ done \in Nat
    BY <1>2, CheckpointFacts DEF TypeOK
  <2>2. Loaded \subseteq DOMAIN checkpoint
    BY <2>1 DEF Loaded
  <2>. QED
    BY <1>2, <2>1, <2>2
<1>. QED
  BY <1>1, <1>2

LEMMA TypeStep ==
    ASSUME TypeOK, Next
    PROVE  TypeOK'
<1>1. CASE SplitCheckpointFiles
  <2>1. share' \in [1 .. worldSize -> Seq(DOMAIN checkpoint)]
    BY <1>1, SharesFacts
  <2>2. /\ UNCHANGED <<checkpoint, worldSize, rank, done>>
        /\ step = "splitting" /\ step' = "loading"
    BY <1>1 DEF SplitCheckpointFiles
  <2>3. share'[rank + 1] \in Seq(DOMAIN checkpoint)
    BY <2>1, CheckpointFacts
  <2>4. done = 0 /\ 0 <= Len(share'[rank + 1])
    BY <2>2, <2>3 DEF TypeOK
  <2>. QED
    BY <2>1, <2>2, <2>4 DEF TypeOK, Ranks
<1>2. CASE GiveFiles
  <2>1. share' \in [1 .. worldSize -> Seq(DOMAIN checkpoint)]
    BY <1>2, GivenFacts
  <2>2. /\ UNCHANGED <<checkpoint, worldSize, rank, done>>
        /\ step = "splitting" /\ step' = "loading"
    BY <1>2 DEF GiveFiles
  <2>3. share'[rank + 1] \in Seq(DOMAIN checkpoint)
    BY <2>1, CheckpointFacts
  <2>4. done = 0 /\ 0 <= Len(share'[rank + 1])
    BY <2>2, <2>3 DEF TypeOK
  <2>. QED
    BY <2>1, <2>2, <2>4 DEF TypeOK, Ranks
<1>3. CASE LoadFile
  <2>1. /\ UNCHANGED <<checkpoint, worldSize, rank, share, step>>
        /\ step = "loading" /\ done' = done + 1 /\ done < Len(share[rank + 1])
    BY <1>3 DEF LoadFile, shared
  <2>2. Len(share[rank + 1]) \in Nat
    BY <2>1, LoadedFacts
  <2>3. done + 1 \in Nat /\ done + 1 <= Len(share[rank + 1])
    BY <2>1, <2>2 DEF TypeOK
  <2>. QED
    BY <2>1, <2>3 DEF TypeOK, Ranks
<1>4. CASE Concat
  <2>1. /\ UNCHANGED <<checkpoint, worldSize, rank, share, done>>
        /\ step = "loading" /\ step' \in {"loaded", "failed"}
    BY <1>4 DEF Concat, shared
  <2>. QED
    BY <2>1 DEF TypeOK, Ranks
<1>5. CASE Finished
  BY <1>5 DEF Finished, vars, shared, TypeOK, Ranks
<1>. QED
  BY <1>1, <1>2, <1>3, <1>4, <1>5 DEF Next

LEMMA WithNewFacts ==
    ASSUME NEW f, NEW g
    PROVE  /\ DOMAIN WithNew(f, g) = DOMAIN f \cup DOMAIN g
           /\ \A x \in DOMAIN f : WithNew(f, g)[x] = f[x]
           /\ \A x \in DOMAIN g : x \notin DOMAIN f => WithNew(f, g)[x] = g[x]
BY DEF WithNew

\* Another file.
LEMMA LoadFileFacts ==
    ASSUME TypeOK, LoadFile
    PROVE  /\ File \in DOMAIN checkpoint /\ Loaded' = Loaded \cup {File}
           /\ UNCHANGED <<checkpoint, worldSize, rank, share, step>> /\ step = "loading"
<1>1. /\ UNCHANGED <<checkpoint, worldSize, rank, share, step>>
      /\ step = "loading" /\ done' = done + 1 /\ done < Len(share[rank + 1])
  BY DEF LoadFile, shared
<1>2. share[rank + 1] \in Seq(DOMAIN checkpoint) /\ Len(share[rank + 1]) \in Nat
  BY <1>1, LoadedFacts
<1>3. done \in Nat /\ 1 .. done + 1 = (1 .. done) \cup {done + 1}
  BY DEF TypeOK
<1>4. File \in DOMAIN checkpoint
  BY <1>1, <1>2, <1>3 DEF File
<1>5. Loaded' = Loaded \cup {File}
  BY <1>1, <1>3 DEF Loaded, File
<1>. QED
  BY <1>1, <1>4, <1>5

\* What LoadFile does to the entries of one parameter.
LEMMA TablesAfterLoad ==
    ASSUME LoadingInv, LoadFile
    PROVE  /\ DOMAIN withTP' = DOMAIN withTP \cup DOMAIN checkpoint[File].weights
           /\ DOMAIN tpMetas' = DOMAIN withTP'
           /\ \A n \in DOMAIN checkpoint[File].weights :
                 /\ withTP'[n] = AddShard(File, n, IF n \in DOMAIN withTP THEN withTP[n] ELSE <<>>)
                 /\ tpMetas'[n] = LargestSize(
                       IF n \in DOMAIN withTP THEN tpMetas[n]
                       ELSE [dim |-> checkpoint[File].weights[n].dim, size |-> 1],
                       checkpoint[File].tp)
           /\ \A n \in DOMAIN withTP \ DOMAIN checkpoint[File].weights :
                 withTP'[n] = withTP[n] /\ tpMetas'[n] = tpMetas[n]
<1>. DEFINE weights == checkpoint[File].weights
            old(n) == IF n \in DOMAIN withTP THEN withTP[n] ELSE <<>>
            added == [n \in DOMAIN weights |-> AddShard(File, n, old(n))]
            new == [n \in DOMAIN weights |-> [dim |-> weights[n].dim, size |-> 1]]
            metas == WithNew(tpMetas, new)
<1>1. /\ withTP' = WithNew(added, withTP)
      /\ tpMetas' = [n \in DOMAIN metas |->
                        IF n \in DOMAIN weights THEN LargestSize(metas[n], checkpoint[File].tp)
                        ELSE metas[n]]
  BY DEF LoadFile
<1>2. DOMAIN tpMetas = DOMAIN withTP
  BY DEF LoadingInv
<1>3. DOMAIN added = DOMAIN weights /\ DOMAIN new = DOMAIN weights
  OBVIOUS
<1>4. \A n \in DOMAIN weights :
         added[n] = AddShard(File, n, old(n)) /\ new[n] = [dim |-> weights[n].dim, size |-> 1]
  OBVIOUS
<1>. HIDE DEF added, new, weights
<1>5. /\ DOMAIN withTP' = DOMAIN withTP \cup DOMAIN weights
      /\ \A n \in DOMAIN weights : withTP'[n] = added[n]
      /\ \A n \in DOMAIN withTP \ DOMAIN weights : withTP'[n] = withTP[n]
  <2>1. /\ DOMAIN WithNew(added, withTP) = DOMAIN added \cup DOMAIN withTP
        /\ \A x \in DOMAIN added : WithNew(added, withTP)[x] = added[x]
        /\ \A x \in DOMAIN withTP : x \notin DOMAIN added => WithNew(added, withTP)[x] = withTP[x]
    BY WithNewFacts
  <2>. QED
    BY <1>1, <1>3, <2>1
<1>6. /\ DOMAIN metas = DOMAIN withTP \cup DOMAIN weights
      /\ \A n \in DOMAIN withTP : metas[n] = tpMetas[n]
      /\ \A n \in DOMAIN weights \ DOMAIN withTP : metas[n] = new[n]
  <2>1. /\ DOMAIN metas = DOMAIN tpMetas \cup DOMAIN new
        /\ \A x \in DOMAIN tpMetas : metas[x] = tpMetas[x]
        /\ \A x \in DOMAIN new : x \notin DOMAIN tpMetas => metas[x] = new[x]
    BY WithNewFacts
  <2>. QED
    BY <1>2, <1>3, <2>1
<1>. HIDE DEF metas
<1>7. DOMAIN tpMetas' = DOMAIN withTP'
  BY <1>1, <1>5, <1>6
<1>8. \A n \in DOMAIN weights :
         tpMetas'[n] = LargestSize(IF n \in DOMAIN withTP THEN tpMetas[n] ELSE new[n],
                                   checkpoint[File].tp)
  BY <1>1, <1>6
<1>9. \A n \in DOMAIN withTP \ DOMAIN weights : tpMetas'[n] = tpMetas[n]
  BY <1>1, <1>6
<1>. QED
  BY <1>4, <1>5, <1>7, <1>8, <1>9 DEF weights

LEMMA LargestSizeFacts ==
    ASSUME NEW meta \in [dim : Int, size : Nat], NEW tp \in Nat
    PROVE  /\ LargestSize(meta, tp) \in [dim : Int, size : Nat]
           /\ LargestSize(meta, tp).dim = meta.dim
           /\ Concatenated(meta.dim) =>
                 LargestSize(meta, tp).size = IF meta.size >= tp + 1 THEN meta.size ELSE tp + 1
<1>1. meta.size \in Nat /\ Max({meta.size, tp + 1}) = IF meta.size >= tp + 1 THEN meta.size ELSE tp + 1
  BY MaxOfTwo
<1>2. Max({meta.size, tp + 1}) \in Nat
  BY <1>1
<1>3. CASE Concatenated(meta.dim)
  <2>1. LargestSize(meta, tp) = [meta EXCEPT !.size = Max({meta.size, tp + 1})]
    BY <1>3 DEF LargestSize
  <2>. QED
    BY <1>1, <1>2, <2>1
<1>4. CASE ~Concatenated(meta.dim)
  BY <1>4 DEF LargestSize
<1>. QED
  BY <1>3, <1>4

\* The file adds its tensor to those of the parameter, and its tp rank to theirs.
LEMMA NamedStep ==
    ASSUME LoadingInv, LoadFile, NEW name \in DOMAIN checkpoint[File].weights
    PROVE  TablesOf(name)'
<1>. DEFINE f0 == File
            tp0 == checkpoint[File].tp
            of == LoadedPieces(name)
            old == IF name \in DOMAIN withTP THEN withTP[name] ELSE <<>>
            meta == IF name \in DOMAIN withTP THEN tpMetas[name]
                    ELSE [dim |-> checkpoint[File].weights[name].dim, size |-> 1]
<1>1. TypeOK
  BY DEF LoadingInv
<1>2. /\ f0 \in DOMAIN checkpoint /\ Loaded' = Loaded \cup {f0} /\ checkpoint' = checkpoint
      /\ of \subseteq DOMAIN checkpoint /\ tp0 \in Nat
      /\ \A f \in DOMAIN checkpoint : checkpoint[f].tp \in Nat
      /\ checkpoint[File].weights[name].dim \in Int
  BY <1>1, LoadFileFacts, LoadedFacts, CheckpointFacts DEF LoadedPieces
<1>3. LoadedPieces(name)' = of \cup {f0}
  BY <1>2 DEF LoadedPieces
<1>4. /\ DOMAIN old = {checkpoint[f].tp : f \in of}
      /\ \A k \in DOMAIN old : \E f \in of : old[k].data = <<f, name>> /\ checkpoint[f].tp = k
      /\ meta \in [dim : Int, size : Nat]
      /\ Concatenated(meta.dim) =>
            /\ \A f \in of : checkpoint[f].tp < meta.size
            /\ (\E f \in of : checkpoint[f].tp + 1 = meta.size) \/ meta.size = 1
  <2>1. CASE name \in DOMAIN withTP
    <3>1. TablesOf(name) /\ old = withTP[name] /\ meta = tpMetas[name]
      BY <2>1 DEF LoadingInv
    <3>. HIDE DEF of, old, meta
    <3>. QED
      BY <3>1 DEF TablesOf, of
  <2>2. CASE name \notin DOMAIN withTP
    <3>1. of = {}
      BY <2>2 DEF LoadingInv, LoadedPieces
    <3>2. DOMAIN old = {}
      BY <2>2
    <3>3. meta = [dim |-> checkpoint[File].weights[name].dim, size |-> 1]
      BY <2>2
    <3>. HIDE DEF of, old, meta
    <3>. QED
      BY <1>2, <3>1, <3>2, <3>3
  <2>. QED
    BY <2>1, <2>2
<1>5. withTP'[name] = AddShard(f0, name, old) /\ tpMetas'[name] = LargestSize(meta, tp0)
  BY TablesAfterLoad
<1>. HIDE DEF old, meta, of
<1>6. /\ DOMAIN withTP'[name] = DOMAIN old \cup {tp0}
      /\ withTP'[name][tp0].data = <<f0, name>>
      /\ \A k \in DOMAIN old : k # tp0 => withTP'[name][k] = old[k]
  BY <1>5 DEF AddShard
<1>7. /\ tpMetas'[name] \in [dim : Int, size : Nat]
      /\ tpMetas'[name].dim = meta.dim
      /\ Concatenated(meta.dim) =>
            tpMetas'[name].size = IF meta.size >= tp0 + 1 THEN meta.size ELSE tp0 + 1
  <2>1. meta \in [dim : Int, size : Nat] /\ tp0 \in Nat
    BY <1>2, <1>4
  <2>. HIDE DEF tp0
  <2>2. /\ LargestSize(meta, tp0) \in [dim : Int, size : Nat]
        /\ LargestSize(meta, tp0).dim = meta.dim
        /\ Concatenated(meta.dim) =>
              LargestSize(meta, tp0).size = IF meta.size >= tp0 + 1 THEN meta.size ELSE tp0 + 1
    BY <2>1, LargestSizeFacts
  <2>. QED
    BY <1>5, <2>2
<1>. HIDE DEF f0, tp0
<1>8. DOMAIN withTP'[name] = {checkpoint[f].tp : f \in of \cup {f0}}
  BY <1>4, <1>6 DEF f0, tp0
<1>9. ASSUME NEW k \in DOMAIN withTP'[name]
      PROVE  \E f \in of \cup {f0} : withTP'[name][k].data = <<f, name>> /\ checkpoint[f].tp = k
  <2>1. CASE k = tp0
    BY <1>6, <2>1 DEF f0, tp0
  <2>2. CASE k # tp0
    <3>1. k \in DOMAIN old /\ withTP'[name][k] = old[k]
      BY <1>6, <2>2
    <3>. QED
      BY <1>4, <3>1
  <2>. QED
    BY <2>1, <2>2
<1>10. ASSUME Concatenated(tpMetas'[name].dim)
       PROVE  /\ \A f \in of \cup {f0} : checkpoint[f].tp < tpMetas'[name].size
              /\ \E f \in of \cup {f0} : checkpoint[f].tp + 1 = tpMetas'[name].size
  <2>1. /\ \A f \in of : checkpoint[f].tp < meta.size /\ checkpoint[f].tp \in Nat
        /\ (\E f \in of : checkpoint[f].tp + 1 = meta.size) \/ meta.size = 1
        /\ tpMetas'[name].size = IF meta.size >= tp0 + 1 THEN meta.size ELSE tp0 + 1
        /\ meta.size \in Nat /\ tp0 \in Nat /\ checkpoint[f0].tp = tp0
    BY <1>2, <1>4, <1>7, <1>10 DEF f0, tp0
  <2>. DEFINE size == tpMetas'[name].size
  <2>. HIDE DEF size
  <2>2. size = IF meta.size >= tp0 + 1 THEN meta.size ELSE tp0 + 1
    BY <2>1 DEF size
  <2>3. \A f \in of \cup {f0} : checkpoint[f].tp < size
    BY <2>1, <2>2
  <2>4. \E f \in of \cup {f0} : checkpoint[f].tp + 1 = size
    BY <2>1, <2>2
  <2>. QED
    BY <2>3, <2>4 DEF size
<1>. QED
  BY <1>2, <1>3, <1>7, <1>8, <1>9, <1>10 DEF TablesOf

LEMMA TablesStep ==
    ASSUME LoadingInv, LoadFile, NEW name \in DOMAIN withTP'
    PROVE  TablesOf(name)'
<1>1. CASE name \in DOMAIN checkpoint[File].weights
  BY <1>1, NamedStep
<1>2. CASE name \notin DOMAIN checkpoint[File].weights
  <2>1. /\ name \in DOMAIN withTP
        /\ withTP'[name] = withTP[name] /\ tpMetas'[name] = tpMetas[name]
    BY <1>2, TablesAfterLoad
  <2>2. TablesOf(name)
    BY <2>1 DEF LoadingInv
  <2>3. checkpoint' = checkpoint /\ Loaded' = Loaded \cup {File}
    BY LoadFileFacts DEF LoadingInv
  <2>4. LoadedPieces(name)' = LoadedPieces(name)
    BY <1>2, <2>3 DEF LoadedPieces
  <2>. QED
    BY <2>1, <2>2, <2>3, <2>4 DEF TablesOf
<1>. QED
  BY <1>1, <1>2

\* Steps that leave the tables and the files loaded so far alone.
LEMMA SameTables ==
    ASSUME LoadingInv, TypeOK', UNCHANGED <<checkpoint, tables>>, Loaded' = Loaded
    PROVE  LoadingInv'
<1>1. checkpoint' = checkpoint /\ withTP' = withTP /\ tpMetas' = tpMetas
  BY DEF tables
<1>2. \A name : LoadedPieces(name)' = LoadedPieces(name)
  BY <1>1 DEF LoadedPieces
<1>3. \A name : TablesOf(name)' <=> TablesOf(name)
  BY <1>1, <1>2 DEF TablesOf
<1>. QED
  BY <1>1, <1>3 DEF LoadingInv

LEMMA LoadingStep ==
    ASSUME LoadingInv, [Next]_vars
    PROVE  LoadingInv'
<1>0. TypeOK
  BY DEF LoadingInv
<1>1. CASE SplitCheckpointFiles \/ GiveFiles
  <2>1. UNCHANGED <<checkpoint, tables, done>> /\ step = "splitting"
    BY <1>1 DEF SplitCheckpointFiles, GiveFiles, tables
  <2>2. TypeOK'
    BY <1>0, <1>1, TypeStep DEF Next
  <2>3. Loaded' = {} /\ Loaded = {}
    <3>1. done = 0 /\ done' = 0
      BY <1>0, <2>1 DEF TypeOK
    <3>. QED
      BY <3>1 DEF Loaded
  <2>. QED
    BY <2>1, <2>2, <2>3, SameTables
<1>2. CASE LoadFile
  <2>1. TypeOK'
    BY <1>0, <1>2, TypeStep DEF Next
  <2>2. /\ DOMAIN withTP' = DOMAIN withTP \cup DOMAIN checkpoint[File].weights
        /\ DOMAIN tpMetas' = DOMAIN withTP'
    BY <1>2, TablesAfterLoad
  <2>3. Loaded' = Loaded \cup {File} /\ checkpoint' = checkpoint
    BY <1>0, <1>2, LoadFileFacts
  <2>4. DOMAIN withTP = UNION {DOMAIN checkpoint[f].weights : f \in Loaded}
    BY DEF LoadingInv
  <2>5. DOMAIN withTP' = UNION {DOMAIN checkpoint'[f].weights : f \in Loaded'}
    BY <2>2, <2>3, <2>4
  <2>6. \A name \in DOMAIN withTP' : TablesOf(name)'
    BY <1>2, TablesStep
  <2>. QED
    BY <2>1, <2>2, <2>5, <2>6 DEF LoadingInv
<1>3. CASE Concat
  <2>1. UNCHANGED <<checkpoint, tables, done, share, rank>>
    BY <1>3 DEF Concat, shared
  <2>2. TypeOK'
    BY <1>0, <1>3, TypeStep DEF Next
  <2>3. Loaded' = Loaded
    BY <2>1 DEF Loaded
  <2>. QED
    BY <2>1, <2>2, <2>3, SameTables
<1>4. CASE UNCHANGED vars
  <2>1. UNCHANGED <<checkpoint, tables, done, share, rank, worldSize, step>>
    BY <1>4 DEF vars, shared
  <2>2. TypeOK'
    BY <1>0, <2>1 DEF TypeOK, Ranks
  <2>3. Loaded' = Loaded
    BY <2>1 DEF Loaded
  <2>. QED
    BY <2>1, <2>2, <2>3, SameTables
<1>. QED
  BY <1>1, <1>2, <1>3, <1>4 DEF Next, Finished

\* LoadingInv holds at the start and after every step.
THEOREM LoadingInductive == Spec => []LoadingInv
<1>1. Init => LoadingInv
  <2>. SUFFICES ASSUME Init PROVE LoadingInv
    OBVIOUS
  <2>1. TypeOK
    BY DEF Init, TypeOK
  <2>2. Loaded = {} /\ DOMAIN withTP = {} /\ DOMAIN tpMetas = {}
    BY DEF Init, Loaded
  <2>. QED
    BY <2>1, <2>2 DEF LoadingInv
<1>2. LoadingInv /\ [Next]_vars => LoadingInv'
  BY LoadingStep
<1>. QED
  BY <1>1, <1>2, PTL DEF Spec

-----------------------------------------------------------------------------
(* The shards in place, and every file once.                               *)

\* When as many shards are there as the largest tp rank asks for, they are those
\* of the ranks from 0 on.
LEMMA NoneMissing ==
    ASSUME NEW size \in Nat, NEW S \in SUBSET (0 .. size - 1), Cardinality(S) = size
    PROVE  S = 0 .. size - 1
<1>1. IsFiniteSet(0 .. size - 1) /\ Cardinality(0 .. size - 1) = size
  <2>1. size - 1 \in Int /\ 0 \in Int
    OBVIOUS
  <2>2. Cardinality(0 .. size - 1) = IF 0 > size - 1 THEN 0 ELSE (size - 1) - 0 + 1
    BY <2>1, FS_Interval
  <2>. QED
    BY <2>1, <2>2, FS_Interval
<1>. QED
  BY <1>1, FS_Subset

LEMMA ConcatInPlace ==
    ASSUME LoadingInv, Concat, step' = "loaded"
    PROVE  ShardsInPlace'
<1>0. TypeOK
  BY DEF LoadingInv
<1>1. /\ UNCHANGED <<checkpoint, worldSize, share, rank, done, withTP, tpMetas>>
      /\ step = "loading" /\ done = Len(share[rank + 1])
      /\ \A n \in DOMAIN withTP : CanConcat(n)
      /\ parameters' = [n \in DOMAIN withTP |-> [i \in DOMAIN Taken(n) |-> Taken(n)[i].data]]
  BY DEF Concat, shared, tables
<1>2. ASSUME NEW name \in DOMAIN parameters', Concatenated(tpMetas[name].dim)
      PROVE  LET tps == {checkpoint[f].tp : f \in Pieces(name)} IN
             /\ Len(parameters'[name]) = Max(tps) + 1
             /\ \A i \in DOMAIN parameters'[name] :
                   LET at == parameters'[name][i] IN
                   /\ at[1] \in Pieces(name) /\ at[2] = name
                   /\ checkpoint[at[1]].tp = i - 1
  <2>. DEFINE of == Pieces(name)
              tps == {checkpoint[f].tp : f \in of}
              shards == withTP[name]
              size == tpMetas[name].size
  <2>1. Loaded = Range(share[rank + 1])
    <3>1. share[rank + 1] \in Seq(DOMAIN checkpoint)
      BY <1>0, <1>1, LoadedFacts
    <3>. QED
      BY <1>1, <3>1 DEF Loaded, Range
  <2>2. LoadedPieces(name) = of
    BY <2>1 DEF LoadedPieces, Pieces
  <2>3. of \subseteq DOMAIN checkpoint /\ \A f \in of : checkpoint[f].tp \in Nat
    BY <1>0, <2>2, LoadedFacts, CheckpointFacts DEF LoadedPieces
  <2>4. TablesOf(name) /\ name \in DOMAIN withTP
    BY <1>1, <1>2 DEF LoadingInv
  <2>. HIDE DEF of
  <2>5. /\ DOMAIN shards = tps
        /\ \A k \in DOMAIN shards : \E f \in of : shards[k].data = <<f, name>> /\ checkpoint[f].tp = k
        /\ size \in Nat
        /\ \A f \in of : checkpoint[f].tp < size
        /\ \E f \in of : checkpoint[f].tp + 1 = size
    BY <1>2, <2>2, <2>4 DEF TablesOf
  <2>6. Len(Shards(name)) = size /\ Taken(name) = Shards(name)
    BY <1>1, <1>2, <2>4 DEF CanConcat, Taken
  <2>7. parameters'[name] = [i \in DOMAIN Shards(name) |-> Shards(name)[i].data]
    BY <1>1, <2>4, <2>6
  <2>. HIDE DEF shards, size, tps
  <2>8. Shards(name) = [i \in 1 .. Cardinality(tps) |-> shards[Nth(tps, i)]]
    BY <2>5 DEF Shards, Picked, shards
  <2>9. tps \in SUBSET (0 .. size - 1)
    BY <2>3, <2>5 DEF tps
  <2>10. Cardinality(tps) \in Nat
    <3>1. IsFiniteSet(0 .. size - 1)
      BY <2>5, FS_Interval
    <3>. QED
      BY <2>9, <3>1, FS_Subset, FS_CardinalityType
  <2>11. Len(Shards(name)) = Cardinality(tps)
    BY <2>8, <2>10
  <2>12. tps = 0 .. size - 1 /\ Cardinality(tps) = size
    BY <2>5, <2>6, <2>9, <2>11, NoneMissing
  <2>13. size - 1 \in tps
    <3>1. PICK f \in of : checkpoint[f].tp + 1 = size
      BY <2>5
    <3>2. checkpoint[f].tp = size - 1
      BY <2>3, <2>5, <3>1
    <3>. QED
      BY <3>2 DEF tps
  <2>14. Max(tps) = size - 1
    BY <2>5, <2>12, <2>13 DEF Max
  <2>15. /\ DOMAIN parameters'[name] = 1 .. size /\ Len(parameters'[name]) = size
         /\ \A i \in 1 .. size : parameters'[name][i] = shards[Nth(tps, i)].data
    BY <2>5, <2>7, <2>8, <2>12
  <2>16. ASSUME NEW i \in 1 .. size
         PROVE  LET at == parameters'[name][i] IN
                /\ at[1] \in of /\ at[2] = name
                /\ checkpoint[at[1]].tp = i - 1
    <3>1. Nth(tps, i) = i - 1
      BY <2>5, <2>12, NthOfInterval
    <3>2. i - 1 \in DOMAIN shards
      BY <2>5, <2>12
    <3>3. PICK f \in of : shards[i - 1].data = <<f, name>> /\ checkpoint[f].tp = i - 1
      BY <2>5, <3>2
    <3>4. parameters'[name][i] = <<f, name>>
      BY <2>15, <3>1, <3>3
    <3>. QED
      BY <3>3, <3>4
  <2>17. Len(parameters'[name]) = Max(tps) + 1
    BY <2>5, <2>14, <2>15
  <2>. QED
    BY <2>15, <2>16, <2>17 DEF of, tps
<1>3. \A name : Pieces(name)' = Pieces(name)
  BY <1>1 DEF Pieces
<1>4. checkpoint' = checkpoint /\ tpMetas' = tpMetas
  BY <1>1
<1>5. ShardsInPlace' <=>
         (step' = "loaded" =>
            \A name \in DOMAIN parameters' : Concatenated(tpMetas'[name].dim) =>
               LET tps == {checkpoint'[f].tp : f \in Pieces(name)'} IN
               /\ Len(parameters'[name]) = Max(tps) + 1
               /\ \A i \in DOMAIN parameters'[name] :
                     LET at == parameters'[name][i] IN
                     /\ at[1] \in Pieces(name)' /\ at[2] = name
                     /\ checkpoint'[at[1]].tp = i - 1)
  BY DEF ShardsInPlace
<1>. QED
  BY <1>2, <1>3, <1>4, <1>5

\* In whatever order its files come, a parameter that is cut consists of one shard
\* of each tp rank from 0 to the largest there is, in this order.
THEOREM ShardsAlwaysInPlace == Spec => []ShardsInPlace
<1>1. Init => ShardsInPlace
  BY DEF Init, ShardsInPlace
<1>2. ASSUME LoadingInv, ShardsInPlace, [Next]_vars PROVE ShardsInPlace'
  <2>1. CASE SplitCheckpointFiles \/ GiveFiles \/ LoadFile
    <3>1. step' = "loading"
      BY <2>1 DEF SplitCheckpointFiles, GiveFiles, LoadFile
    <3>. QED
      BY <3>1 DEF ShardsInPlace
  <2>2. CASE Concat
    <3>1. step' = "loaded" \/ step' = "failed"
      BY <2>2 DEF Concat
    <3>. QED
      BY <1>2, <2>2, <3>1, ConcatInPlace DEF ShardsInPlace
  <2>3. CASE UNCHANGED vars
    BY <1>2, <2>3 DEF vars, shared, tables, ShardsInPlace, Pieces
  <2>. QED
    BY <1>2, <2>1, <2>2, <2>3 DEF Next, Finished
<1>. QED
  BY <1>1, <1>2, LoadingInductive, PTL DEF Spec

\* Every safetensors file of a directory is loaded by one rank, however many files
\* and ranks there are.
THEOREM EveryFileIsLoadedOnce == Spec => []EveryFileOnce
<1>1. Init => EveryFileOnce
  BY DEF Init, EveryFileOnce
<1>2. EveryFileOnce <=>
         (step # "splitting" => \A f \in Range(SafeTensors) : Cardinality(PlacesOf(f)) = 1)
  BY DEF EveryFileOnce, PlacesOf
<1>3. EveryFileOnce' <=>
         (step' # "splitting" => \A f \in Range(SafeTensors') : Cardinality(PlacesOf(f)') = 1)
  BY DEF EveryFileOnce, PlacesOf
<1>4. ASSUME LoadingInv, EveryFileOnce, [Next]_vars PROVE EveryFileOnce'
  <2>0. TypeOK
    BY <1>4 DEF LoadingInv
  <2>1. checkpoint' = checkpoint
    BY <1>4 DEF Next, SplitCheckpointFiles, GiveFiles, LoadFile, Concat, Finished, vars, shared
  <2>2. SafeTensors' = SafeTensors
    BY <2>1 DEF SafeTensors
  <2>3. Range(SafeTensors) \subseteq DOMAIN checkpoint
    BY <2>0, SafeTensorsFacts DEF Range
  <2>4. CASE SplitCheckpointFiles
    BY <1>3, <2>0, <2>2, <2>4, SplitOnce
  <2>5. CASE GiveFiles
    BY <1>3, <2>0, <2>2, <2>3, <2>5, GivenFacts
  <2>6. CASE LoadFile \/ Concat \/ UNCHANGED vars
    <3>1. /\ share' = share /\ worldSize' = worldSize
          /\ step' # "splitting" => step # "splitting"
      BY <2>6 DEF LoadFile, Concat, vars, shared
    <3>2. \A f : PlacesOf(f)' = PlacesOf(f)
      BY <2>1, <3>1 DEF PlacesOf
    <3>. QED
      BY <1>2, <1>3, <1>4, <2>2, <3>1, <3>2
  <2>. QED
    BY <1>4, <2>4, <2>5, <2>6 DEF Next, Finished
<1>. QED
  BY <1>1, <1>4, LoadingInductive, PTL DEF Spec
=============================================================================
