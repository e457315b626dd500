----------------------------- MODULE ListProofs -----------------------------
(***************************************************************************)
(* What the operators of Lists, and FlattenSeq, compute.                   *)
(***************************************************************************)
EXTENDS Lists, FiniteSetTheorems, SequenceTheorems, WellFoundedInduction, TLAPS

-----------------------------------------------------------------------------
(* Induction, for sets of numbers.                                         *)

\* Induction: a set of numbers that has 0 and the successor of each of its members
\* has them all.
LEMMA Induction ==
    ASSUME NEW S \in SUBSET Nat, 0 \in S, \A n \in S : n + 1 \in S
    PROVE  S = Nat
<1>. DEFINE less == OpToRel(<, Nat)
<1>1. ASSUME Nat \ S # {} PROVE FALSE
  <2>1. IsWellFoundedOn(less, Nat)
    BY NatLessThanWellFounded
  <2>. HIDE DEF less
  <2>2. PICK n \in Nat \ S : \A m \in Nat \ S : ~(<<m, n>> \in less)
    BY <1>1, <2>1, WFMin
  <2>3. n # 0 /\ n - 1 \in Nat
    BY <2>2
  <2>4. <<n - 1, n>> \in less
    BY <2>2, <2>3 DEF OpToRel, less
  <2>5. n - 1 \in S
    BY <2>2, <2>3, <2>4
  <2>6. (n - 1) + 1 \in S
    BY <2>5
  <2>7. (n - 1) + 1 = n
    BY <2>2
  <2>. QED
    BY <2>2, <2>6, <2>7
<1>. QED
  BY <1>1

-----------------------------------------------------------------------------
(* Sets of numbers in order.                                               *)

\* How many numbers of S are no greater than one of them tells it from the
\* others, and every number up to the size of S is that of one.
LEMMA Counting ==
    ASSUME NEW S \in SUBSET Nat, IsFiniteSet(S)
    PROVE  /\ Cardinality(S) \in Nat
           /\ \A r \in S : Cardinality({q \in S : q <= r}) \in 1 .. Cardinality(S)
           /\ \A r, s \in S : Cardinality({q \in S : q <= r}) = Cardinality({q \in S : q <= s}) => r = s
           /\ \A i \in 1 .. Cardinality(S) : \E r \in S : Cardinality({q \in S : q <= r}) = i
<1>. DEFINE upTo(r) == {q \in S : q <= r}
            n == Cardinality(S)
            f == [r \in S |-> Cardinality(upTo(r))]
<1>1. n \in Nat
  BY FS_CardinalityType
<1>2. ASSUME NEW r \in S
      PROVE  IsFiniteSet(upTo(r)) /\ Cardinality(upTo(r)) \in 1 .. n
  <2>1. upTo(r) \in SUBSET S /\ r \in upTo(r)
    OBVIOUS
  <2>2. IsFiniteSet(upTo(r)) /\ Cardinality(upTo(r)) <= n
    BY <2>1, FS_Subset
  <2>3. Cardinality(upTo(r)) \in Nat /\ Cardinality(upTo(r)) # 0
    BY <2>1, <2>2, FS_CardinalityType, FS_EmptySet
  <2>. QED
    BY <1>1, <2>2, <2>3
<1>3. ASSUME NEW r \in S, NEW s \in S, r < s
      PROVE  Cardinality(upTo(r)) # Cardinality(upTo(s))
  <2>1. \A q \in S : q \in Int /\ (q <= r => q <= s)
    BY <1>3
  <2>2. r \in Int /\ s \in Int /\ s <= s /\ ~(s <= r)
    BY <1>3
  <2>3. upTo(r) \in SUBSET upTo(s) /\ s \in upTo(s) /\ s \notin upTo(r)
    BY <1>3, <2>1, <2>2
  <2>4. IsFiniteSet(upTo(s))
    BY <1>2
  <2>. QED
    BY <2>3, <2>4, FS_Subset
<1>4. ASSUME NEW r \in S, NEW s \in S, Cardinality(upTo(r)) = Cardinality(upTo(s))
      PROVE  r = s
  <2>1. r < s \/ s < r \/ r = s
    OBVIOUS
  <2>. QED
    BY <1>3, <1>4, <2>1
<1>5. f \in Injection(S, 1 .. n)
  BY <1>2, <1>4 DEF Injection, IsInjective
<1>6. IsFiniteSet(1 .. n) /\ Cardinality(1 .. n) = n
  BY <1>1, FS_Interval
<1>7. f \in Surjection(S, 1 .. n)
  BY <1>5, <1>6, FS_Injection
<1>8. \A i \in 1 .. n : \E r \in S : Cardinality(upTo(r)) = i
  BY <1>7 DEF Surjection
<1>. QED
  BY <1>1, <1>2, <1>4, <1>8

\* Nth goes through S without meeting a number twice or leaving one out.
LEMMA NthFacts ==
    ASSUME NEW S \in SUBSET Nat, IsFiniteSet(S)
    PROVE  /\ Cardinality(S) \in Nat
           /\ \A i \in 1 .. Cardinality(S) :
                 Nth(S, i) \in S /\ Cardinality({m \in S : m <= Nth(S, i)}) = i
           /\ \A i, j \in 1 .. Cardinality(S) : Nth(S, i) = Nth(S, j) => i = j
           /\ \A n \in S : \E i \in 1 .. Cardinality(S) : Nth(S, i) = n
<1>. DEFINE count(n) == Cardinality({m \in S : m <= n})
            c == Cardinality(S)
<1>1. /\ c \in Nat
      /\ \A r \in S : count(r) \in 1 .. c
      /\ \A r, s \in S : count(r) = count(s) => r = s
      /\ \A i \in 1 .. c : \E r \in S : count(r) = i
  BY Counting
<1>2. \A i : Nth(S, i) = CHOOSE n \in S : count(n) = i
  BY DEF Nth
<1>. HIDE DEF count, c
<1>3. \A i \in 1 .. c : Nth(S, i) \in S /\ count(Nth(S, i)) = i
  BY <1>1, <1>2
<1>4. \A n \in S : Nth(S, count(n)) = n
  BY <1>1, <1>3
<1>5. \A i, j \in 1 .. c : Nth(S, i) = Nth(S, j) => i = j
  BY <1>3
<1>6. \A n \in S : \E i \in 1 .. c : Nth(S, i) = n
  BY <1>1, <1>4
<1>. QED
  BY <1>1, <1>3, <1>5, <1>6 DEF count, c

\* The numbers from 0 on, in order.
LEMMA NthOfInterval ==
    ASSUME NEW n \in Nat, NEW i \in 1 .. n
    PROVE  Nth(0 .. n - 1, i) = i - 1
<1>. DEFINE S == 0 .. n - 1
<1>1. S \in SUBSET Nat /\ IsFiniteSet(S) /\ Cardinality(S) = n
  BY FS_Interval
<1>2. Nth(S, i) \in S /\ Cardinality({m \in S : m <= Nth(S, i)}) = i
  BY <1>1, NthFacts
<1>3. {m \in S : m <= Nth(S, i)} = 0 .. Nth(S, i)
  BY <1>2
<1>4. Nth(S, i) \in Nat /\ Cardinality(0 .. Nth(S, i)) = Nth(S, i) + 1
  BY <1>2, FS_Interval
<1>5. Cardinality(0 .. Nth(S, i)) = i
  BY <1>2, <1>3
<1>. HIDE DEF S
<1>6. Nth(S, i) = i - 1
  BY <1>4, <1>5
<1>. QED
  BY <1>6 DEF S

\* InOrder is a list of the numbers of S, each once.
LEMMA InOrderFacts ==
    ASSUME NEW S \in SUBSET Nat, IsFiniteSet(S)
    PROVE  /\ InOrder(S) \in Seq(S) /\ Len(InOrder(S)) = Cardinality(S) /\ Cardinality(S) \in Nat
           /\ Range(InOrder(S)) = S
           /\ \A i, j \in 1 .. Cardinality(S) : InOrder(S)[i] = InOrder(S)[j] => i = j
<1>. DEFINE c == Cardinality(S)
            list == InOrder(S)
<1>1. /\ c \in Nat
      /\ \A i \in 1 .. c : Nth(S, i) \in S
      /\ \A i, j \in 1 .. c : Nth(S, i) = Nth(S, j) => i = j
      /\ \A n \in S : \E i \in 1 .. c : Nth(S, i) = n
  BY NthFacts
<1>2. list = [i \in 1 .. c |-> Nth(S, i)]
  BY DEF InOrder
<1>. HIDE DEF c, list
<1>3. list \in [1 .. c -> S]
  BY <1>1, <1>2
<1>4. list \in Seq(S) /\ Len(list) = c
  BY <1>1, <1>3
<1>5. Range(list) = S
  <2>1. DOMAIN list = 1 .. c /\ \A i \in 1 .. c : list[i] = Nth(S, i)
    BY <1>2
  <2>2. Range(list) = {list[i] : i \in 1 .. c}
    BY <2>1 DEF Range
  <2>3. \A n \in S : \E i \in 1 .. c : list[i] = n
    BY <1>1, <2>1
  <2>4. \A i \in 1 .. c : list[i] \in S
    BY <1>1, <2>1
  <2>. QED
    BY <2>2, <2>3, <2>4
<1>6. \A i, j \in 1 .. c : list[i] = list[j] => i = j
  BY <1>1, <1>2
<1>. QED
  BY <1>1, <1>4, <1>5, <1>6 DEF c, list

\* Picked has the elements at the places of S, each from its own place.
LEMMA PickedFacts ==
    ASSUME NEW T, NEW list, NEW S \in SUBSET Nat, IsFiniteSet(S), \A n \in S : list[n] \in T
    PROVE  /\ Picked(list, S) \in Seq(T) /\ Len(Picked(list, S)) = Cardinality(S) /\ Cardinality(S) \in Nat
           /\ DOMAIN Picked(list, S) = 1 .. Cardinality(S)
           /\ \A i \in 1 .. Cardinality(S) : Nth(S, i) \in S /\ Picked(list, S)[i] = list[Nth(S, i)]
           /\ \A i, j \in 1 .. Cardinality(S) : Nth(S, i) = Nth(S, j) => i = j
           /\ \A n \in S : \E i \in 1 .. Cardinality(S) : Nth(S, i) = n
<1>. DEFINE c == Cardinality(S)
<1>1. /\ c \in Nat
      /\ \A i \in 1 .. c : Nth(S, i) \in S
      /\ \A i, j \in 1 .. c : Nth(S, i) = Nth(S, j) => i = j
      /\ \A n \in S : \E i \in 1 .. c : Nth(S, i) = n
  BY NthFacts
<1>2. Picked(list, S) = [i \in 1 .. c |-> list[Nth(S, i)]]
  BY DEF Picked
<1>. HIDE DEF c
<1>3. Picked(list, S) \in [1 .. c -> T]
  BY <1>1, <1>2
<1>4. Picked(list, S) \in Seq(T) /\ Len(Picked(list, S)) = c
  BY <1>1, <1>3
<1>. QED
  BY <1>1, <1>2, <1>4 DEF c

\* Every place but the first of its element is left out.
LEMMA FirstSeenFacts ==
    ASSUME NEW T, NEW list \in Seq(T)
    PROVE  /\ FirstSeen(list) \in Seq(T)
           /\ Range(FirstSeen(list)) = Range(list)
           /\ \A i, j \in 1 .. Len(FirstSeen(list)) : FirstSeen(list)[i] = FirstSeen(list)[j] => i = j
<1>. DEFINE S == {i \in DOMAIN list : \A j \in DOMAIN list : j < i => list[j] # list[i]}
            seen == FirstSeen(list)
            c == Cardinality(S)
<1>1. Len(list) \in Nat /\ DOMAIN list = 1 .. Len(list) /\ \A i \in DOMAIN list : list[i] \in T
  OBVIOUS
<1>2. S \in SUBSET Nat /\ IsFiniteSet(S) /\ \A n \in S : list[n] \in T
  <2>1. IsFiniteSet(1 .. Len(list))
    BY <1>1, FS_Interval
  <2>2. S \in SUBSET (1 .. Len(list))
    BY <1>1
  <2>. QED
    BY <1>1, <2>1, <2>2, FS_Subset
<1>3. \A i \in DOMAIN list : \E n \in S : list[n] = list[i]
  <2>. DEFINE M == {m \in Nat : \A i \in DOMAIN list : i <= m => \E n \in S : list[n] = list[i]}
  <2>1. 0 \in M
    BY <1>1
  <2>2. ASSUME NEW m \in M PROVE m + 1 \in M
    <3>. SUFFICES ASSUME m + 1 \in DOMAIN list PROVE \E n \in S : list[n] = list[m + 1]
      BY <1>1
    <3>1. CASE m + 1 \in S
      BY <3>1
    <3>2. CASE m + 1 \notin S
      <4>1. PICK j \in DOMAIN list : j < m + 1 /\ list[j] = list[m + 1]
        BY <3>2
      <4>2. j <= m
        BY <1>1, <4>1
      <4>. QED
        BY <4>1, <4>2
    <3>. QED
      BY <3>1, <3>2
  <2>3. M = Nat
    <3>. HIDE DEF M
    <3>1. M \in SUBSET Nat
      BY DEF M
    <3>. QED
      BY <2>1, <2>2, <3>1, Induction
  <2>. QED
    BY <1>1, <2>3
<1>4. \A i, j \in S : list[i] = list[j] => i = j
  BY <1>1
<1>5. seen = Picked(list, S)
  BY DEF FirstSeen
<1>. HIDE DEF S, seen
<1>6. /\ seen \in Seq(T) /\ Len(seen) = c /\ c \in Nat /\ DOMAIN seen = 1 .. c
      /\ \A i \in 1 .. c : Nth(S, i) \in S /\ seen[i] = list[Nth(S, i)]
      /\ \A i, j \in 1 .. c : Nth(S, i) = Nth(S, j) => i = j
      /\ \A n \in S : \E i \in 1 .. c : Nth(S, i) = n
  BY <1>2, <1>5, PickedFacts
<1>. HIDE DEF c
<1>7. \A i, j \in 1 .. Len(seen) : seen[i] = seen[j] => i = j
  BY <1>4, <1>6
<1>8. S \subseteq DOMAIN list
  BY DEF S
<1>9. Range(seen) \subseteq Range(list)
  BY <1>6, <1>8 DEF Range
<1>10. Range(list) \subseteq Range(seen)
  BY <1>3, <1>6 DEF Range
<1>. QED
  BY <1>6, <1>7, <1>9, <1>10 DEF seen

-----------------------------------------------------------------------------
(* The largest number of a list.                                           *)

\* A set of numbers has a least one.
LEMMA LeastExists ==
    ASSUME NEW T \in SUBSET Nat, T # {}
    PROVE  \E r \in T : \A q \in T : r <= q
<1>. SUFFICES ASSUME \A r \in T : \E q \in T : q < r PROVE FALSE
  OBVIOUS
<1>. DEFINE S == {m \in Nat : \A r \in T : m < r}
<1>1. 0 \in S
  <2>1. \A r \in T : r # 0
    OBVIOUS
  <2>. QED
    BY <2>1
<1>2. ASSUME NEW m \in S PROVE m + 1 \in S
  <2>. SUFFICES ASSUME NEW r \in T PROVE m + 1 < r
    OBVIOUS
  <2>1. PICK q \in T : q < r
    OBVIOUS
  <2>2. m < q /\ q \in Nat /\ r \in Nat /\ m \in Nat
    OBVIOUS
  <2>. QED
    BY <2>1, <2>2
<1>3. S = Nat
  <2>. HIDE DEF S
  <2>1. S \subseteq Nat
    BY DEF S
  <2>. QED
    BY <1>1, <1>2, <2>1, Induction
<1>4. PICK r \in T : TRUE
  OBVIOUS
<1>5. r \in S
  BY <1>3
<1>. QED
  BY <1>5

\* One of finitely many numbers is the largest.
LEMMA LargestExists ==
    ASSUME NEW n \in Nat \ {0}, NEW s \in [1 .. n -> Nat]
    PROVE  \E k \in 1 .. n : \A i \in 1 .. n : s[i] <= s[k]
<1>. DEFINE S == {m \in Nat : m + 1 <= n => \E k \in 1 .. m + 1 : \A i \in 1 .. m + 1 : s[i] <= s[k]}
<1>1. 0 \in S
  <2>1. \A i \in 1 .. 0 + 1 : i = 1
    OBVIOUS
  <2>2. s[1] \in Nat
    OBVIOUS
  <2>3. \A i \in 1 .. 0 + 1 : s[i] <= s[1]
    BY <2>1, <2>2
  <2>. QED
    BY <2>3
<1>2. ASSUME NEW m \in S PROVE m + 1 \in S
  <2>. SUFFICES ASSUME m + 2 <= n PROVE \E k \in 1 .. m + 2 : \A i \in 1 .. m + 2 : s[i] <= s[k]
    OBVIOUS
  <2>1. PICK k \in 1 .. m + 1 : \A i \in 1 .. m + 1 : s[i] <= s[k]
    OBVIOUS
  <2>2. s[k] \in Nat /\ s[m + 2] \in Nat /\ \A i \in 1 .. m + 2 : s[i] \in Nat /\ (i = m + 2 \/ i \in 1 .. m + 1)
    OBVIOUS
  <2>3. CASE s[m + 2] <= s[k]
    BY <2>1, <2>2, <2>3
  <2>4. CASE s[k] < s[m + 2]
    <3>1. \A i \in 1 .. m + 2 : s[i] <= s[m + 2]
      BY <2>1, <2>2, <2>4
    <3>. QED
      BY <3>1
  <2>. QED
    BY <2>2, <2>3, <2>4
<1>3. S = Nat
  <2>. HIDE DEF S
  <2>1. S \subseteq Nat
    BY DEF S
  <2>. QED
    BY <1>1, <1>2, <2>1, Induction
<1>4. n - 1 \in S
  <2>. HIDE DEF S
  <2>1. n - 1 \in Nat
    OBVIOUS
  <2>. QED
    BY <1>3, <2>1
<1>5. n - 1 + 1 = n
  OBVIOUS
<1>. QED
  BY <1>4, <1>5

\* MaxOf is no less than any number in the list, and one of them unless it is 0.
LEMMA MaxOfFacts ==
    ASSUME NEW list \in Seq(Nat)
    PROVE  /\ MaxOf(list) \in Nat
           /\ \A i \in 1 .. Len(list) : list[i] <= MaxOf(list)
           /\ MaxOf(list) = 0 \/ \E i \in 1 .. Len(list) : MaxOf(list) = list[i]
<1>. DEFINE n == Len(list)
            S == {0} \cup {list[i] : i \in 1 .. n}
<1>1. n \in Nat /\ DOMAIN list = 1 .. n /\ list \in [1 .. n -> Nat]
  OBVIOUS
<1>2. MaxOf(list) = CHOOSE x \in S : \A y \in S : x >= y
  <2>1. ToSet(list) = {list[i] : i \in 1 .. n}
    BY <1>1 DEF ToSet
  <2>. QED
    BY <2>1 DEF MaxOf, Max
<1>3. S \subseteq Nat
  BY <1>1
<1>4. \E x \in S : \A y \in S : x >= y
  <2>1. CASE n = 0
    <3>1. S = {0}
      BY <2>1
    <3>2. 0 \in S /\ \A y \in S : 0 >= y
      <4>. HIDE DEF S
      <4>. QED
        BY <3>1
    <3>. QED
      BY <3>2
  <2>2. CASE n # 0
    <3>1. PICK k \in 1 .. n : \A i \in 1 .. n : list[i] <= list[k]
      BY <1>1, <2>2, LargestExists
    <3>2. list[k] \in S /\ list[k] \in Nat
      BY <1>1
    <3>3. ASSUME NEW y \in S PROVE list[k] >= y
      <4>1. y = 0 \/ \E i \in 1 .. n : y = list[i]
        OBVIOUS
      <4>2. y \in Nat
        BY <1>3
      <4>. QED
        BY <3>1, <3>2, <4>1, <4>2
    <3>. QED
      BY <3>2, <3>3
  <2>. QED
    BY <2>1, <2>2
<1>5. MaxOf(list) \in S /\ \A y \in S : MaxOf(list) >= y
  <2>. HIDE DEF S
  <2>. QED
    BY <1>2, <1>4
<1>6. ASSUME NEW i \in 1 .. n PROVE list[i] <= MaxOf(list)
  <2>1. list[i] \in S /\ list[i] \in Nat
    BY <1>1
  <2>2. MaxOf(list) >= list[i] /\ MaxOf(list) \in Nat
    BY <1>3, <1>5, <2>1
  <2>. QED
    BY <2>1, <2>2
<1>7. MaxOf(list) = 0 \/ \E i \in 1 .. n : MaxOf(list) = list[i]
  BY <1>5
<1>. QED
  BY <1>3, <1>5, <1>6, <1>7

-----------------------------------------------------------------------------
(* Sequences of sequences.                                                 *)

\* Two lists put end to end.
LEMMA ConcatFacts ==
    ASSUME NEW T, NEW s \in Seq(T), NEW t \in Seq(T)
    PROVE  /\ Len(s \o t) = Len(s) + Len(t)
           /\ \A i \in 1 .. Len(s) : (s \o t)[i] = s[i]
           /\ \A i \in 1 .. Len(t) : (s \o t)[Len(s) + i] = t[i]
OBVIOUS

\* Two lists put end to end, place by place.
LEMMA ConcatPlaces ==
    ASSUME NEW T, NEW s \in Seq(T), NEW t \in Seq(T)
    PROVE  /\ s \o t \in Seq(T) /\ Len(s \o t) = Len(s) + Len(t) /\ Len(s) \in Nat /\ Len(t) \in Nat
           /\ \A i \in 1 .. Len(s) + Len(t) :
                 (s \o t)[i] = IF i <= Len(s) THEN s[i] ELSE t[i - Len(s)]
OBVIOUS

\* Lists of the same length with the same elements are the same.
LEMMA SameList ==
    ASSUME NEW T, NEW s \in Seq(T), NEW t \in Seq(T), Len(s) = Len(t),
           \A i \in 1 .. Len(s) : s[i] = t[i]
    PROVE  s = t
OBVIOUS

\* It does not matter which of three lists are put end to end first.
LEMMA ConcatAssoc ==
    ASSUME NEW T, NEW s \in Seq(T), NEW t \in Seq(T), NEW u \in Seq(T)
    PROVE  s \o (t \o u) = (s \o t) \o u
<1>. DEFINE m == Len(s)
            n == Len(t)
            k == Len(u)
            st == s \o t
            tu == t \o u
            l == s \o tu
            r == st \o u
<1>1. /\ st \in Seq(T) /\ Len(st) = m + n /\ m \in Nat /\ n \in Nat
      /\ \A i \in 1 .. m + n : st[i] = IF i <= m THEN s[i] ELSE t[i - m]
  BY ConcatPlaces
<1>2. /\ tu \in Seq(T) /\ Len(tu) = n + k /\ k \in Nat
      /\ \A i \in 1 .. n + k : tu[i] = IF i <= n THEN t[i] ELSE u[i - n]
  BY ConcatPlaces
<1>. HIDE DEF st, tu
<1>3. /\ l \in Seq(T) /\ Len(l) = m + (n + k)
      /\ \A i \in 1 .. m + (n + k) : l[i] = IF i <= m THEN s[i] ELSE tu[i - m]
  <2>1. tu \in Seq(T) /\ Len(tu) = n + k
    BY <1>2
  <2>2. l \in Seq(T) /\ Len(l) = m + Len(tu)
    BY <2>1, ConcatPlaces
  <2>3. \A i \in 1 .. m + Len(tu) : l[i] = IF i <= m THEN s[i] ELSE tu[i - m]
    <3>. HIDE DEF n, k
    <3>. QED
      BY <2>1, ConcatPlaces
  <2>. HIDE DEF l, m, n, k
  <2>. QED
    BY <2>1, <2>2, <2>3
<1>4. /\ r \in Seq(T) /\ Len(r) = (m + n) + k
      /\ \A i \in 1 .. (m + n) + k : r[i] = IF i <= m + n THEN st[i] ELSE u[i - (m + n)]
  <2>1. st \in Seq(T) /\ Len(st) = m + n
    BY <1>1
  <2>2. r \in Seq(T) /\ Len(r) = Len(st) + k
    BY <2>1, ConcatPlaces
  <2>3. \A i \in 1 .. Len(st) + k : r[i] = IF i <= Len(st) THEN st[i] ELSE u[i - Len(st)]
    <3>. HIDE DEF m, n
    <3>. QED
      BY <2>1, ConcatPlaces
  <2>. HIDE DEF r, m, n, k
  <2>. QED
    BY <2>1, <2>2, <2>3
<1>. HIDE DEF l, r, m, n, k
<1>5. m + (n + k) = (m + n) + k
  BY <1>1, <1>2
<1>6. ASSUME NEW i \in 1 .. m + (n + k) PROVE l[i] = r[i]
  <2>. USE <1>1, <1>2
  <2>1. CASE i <= m
    <3>1. l[i] = s[i]
      BY <1>3, <2>1
    <3>2. i <= m + n /\ i \in 1 .. m + n /\ i \in 1 .. (m + n) + k
      BY <2>1
    <3>. QED
      BY <1>4, <2>1, <3>1, <3>2
  <2>2. CASE i > m /\ i <= m + n
    <3>1. i - m \in 1 .. n + k /\ i - m <= n /\ i \in 1 .. m + n /\ i \in 1 .. (m + n) + k /\ ~(i <= m)
      BY <2>2
    <3>2. l[i] = t[i - m]
      BY <1>3, <3>1
    <3>. QED
      BY <1>4, <2>2, <3>1, <3>2
  <2>3. CASE i > m + n
    <3>1. i - m \in 1 .. n + k /\ ~(i - m <= n) /\ (i - m) - n = i - (m + n) /\ i \in 1 .. (m + n) + k
          /\ ~(i <= m) /\ ~(i <= m + n)
      BY <2>3
    <3>2. l[i] = u[i - (m + n)]
      BY <1>3, <3>1
    <3>. QED
      BY <1>4, <3>1, <3>2
  <2>. QED
    BY <2>1, <2>2, <2>3
<1>7. l = r
  BY <1>3, <1>4, <1>5, <1>6, SameList
<1>. QED
  BY <1>7 DEF l, r, st, tu

\* What FlattenSeq computes, step by step.
LEMMA FlattenDefined ==
    ASSUME NEW T, NEW seqs \in Seq(Seq(T)), Len(seqs) # 0
    PROVE  \E f \in [1 .. Len(seqs) -> Seq(T)] :
              /\ FlattenSeq(seqs) = f[Len(seqs)]
              /\ \A i \in 1 .. Len(seqs) : f[i] = IF i = 1 THEN seqs[i] ELSE f[i - 1] \o seqs[i]
<1>. DEFINE n == Len(seqs)
            next(f, i) == IF i = 1 THEN seqs[i] ELSE f[i - 1] \o seqs[i]
            flatten == CHOOSE f : f = [i \in 1 .. n |-> next(f, i)]
<1>1. FlattenSeq(seqs) = flatten[n]
  BY DEF FlattenSeq
<1>. DEFINE DefinedTo(m) == \E f \in [1 .. m -> Seq(T)] : \A i \in 1 .. m : f[i] = next(f, i)
            S == {m \in Nat : m <= n => DefinedTo(m)}
<1>2. n \in Nat /\ n # 0 /\ \A i \in 1 .. n : seqs[i] \in Seq(T)
  OBVIOUS
<1>3. 0 \in S
  <2>1. [i \in 1 .. 0 |-> <<>>] \in [1 .. 0 -> Seq(T)]
    OBVIOUS
  <2>2. \A i \in 1 .. 0 : FALSE
    OBVIOUS
  <2>3. DefinedTo(0)
    <3>. HIDE DEF next
    <3>. QED
      BY <2>1, <2>2
  <2>. QED
    BY <2>3
<1>4. ASSUME NEW m \in S PROVE m + 1 \in S
  <2>0. m \in Nat /\ m + 1 \in Nat
    OBVIOUS
  <2>. SUFFICES ASSUME m + 1 <= n PROVE DefinedTo(m + 1)
    <3>. HIDE DEF DefinedTo
    <3>. QED
      BY <2>0
  <2>1. PICK f \in [1 .. m -> Seq(T)] : \A i \in 1 .. m : f[i] = next(f, i)
    BY <1>2
  <2>2. seqs[m + 1] \in Seq(T)
    BY <1>2, <2>0
  <2>3. next(f, m + 1) \in Seq(T)
    <3>1. CASE m = 0
      BY <2>2, <3>1
    <3>2. CASE m # 0
      <4>1. f[m] \in Seq(T) /\ m + 1 # 1 /\ (m + 1) - 1 = m
        BY <2>0, <3>2
      <4>. QED
        BY <2>2, <4>1
    <3>. QED
      BY <3>1, <3>2
  <2>. DEFINE g == [i \in 1 .. m + 1 |-> IF i = m + 1 THEN next(f, m + 1) ELSE f[i]]
  <2>4. g \in [1 .. m + 1 -> Seq(T)]
    <3>. HIDE DEF next
    <3>1. \A i \in 1 .. m + 1 : i # m + 1 => i \in 1 .. m
      BY <2>0
    <3>. QED
      BY <2>3, <3>1
  <2>5. ASSUME NEW i \in 1 .. m + 1 PROVE g[i] = next(g, i)
    <3>1. i = 1 \/ (i - 1 \in 1 .. m /\ i - 1 # m + 1)
      BY <2>0
    <3>2. next(g, i) = next(f, i)
      BY <3>1
    <3>. HIDE DEF next
    <3>3. i = m + 1 \/ i \in 1 .. m
      BY <2>0
    <3>. QED
      BY <2>0, <2>1, <3>2, <3>3
  <2>. QED
    BY <2>4, <2>5
<1>5. n \in S
  <2>. HIDE DEF S
  <2>1. S \subseteq Nat
    BY DEF S
  <2>. QED
    BY <1>2, <1>3, <1>4, <2>1, Induction
<1>6. PICK f \in [1 .. n -> Seq(T)] : \A i \in 1 .. n : f[i] = next(f, i)
  BY <1>2, <1>5
<1>7. f = [i \in 1 .. n |-> next(f, i)]
  BY <1>6
<1>8. flatten = [i \in 1 .. n |-> next(flatten, i)]
  BY <1>7
<1>9. \A i \in 1 .. n : flatten[i] = next(flatten, i)
  <2>. HIDE DEF flatten, next
  <2>. QED
    BY <1>8
<1>10. \A i \in 1 .. n : flatten[i] \in Seq(T)
  <2>. DEFINE F == {m \in Nat : m + 1 <= n => flatten[m + 1] \in Seq(T)}
  <2>. HIDE DEF flatten
  <2>1. 0 \in F
    BY <1>2, <1>9
  <2>2. ASSUME NEW m \in F PROVE m + 1 \in F
    <3>1. m \in Nat /\ m + 1 \in Nat
      OBVIOUS
    <3>2. CASE m + 2 <= n
      <4>1. m + 2 \in 1 .. n /\ m + 2 # 1 /\ (m + 2) - 1 = m + 1 /\ m + 1 <= n
        BY <1>2, <3>1, <3>2
      <4>2. flatten[m + 2] = flatten[m + 1] \o seqs[m + 2]
        BY <1>9, <4>1
      <4>3. flatten[m + 1] \in Seq(T) /\ seqs[m + 2] \in Seq(T)
        BY <1>2, <3>1, <4>1
      <4>4. flatten[m + 2] \in Seq(T)
        BY <4>2, <4>3
      <4>5. (m + 1) + 1 = m + 2
        BY <3>1
      <4>. QED
        BY <3>1, <4>4, <4>5
    <3>3. CASE ~(m + 2 <= n)
      <4>1. ~((m + 1) + 1 <= n)
        BY <1>2, <3>1, <3>3
      <4>. QED
        BY <3>1, <4>1
    <3>. QED
      BY <3>2, <3>3
  <2>3. F = Nat
    <3>. HIDE DEF F
    <3>1. F \subseteq Nat
      BY DEF F
    <3>. QED
      BY <2>1, <2>2, <3>1, Induction
  <2>4. ASSUME NEW i \in 1 .. n PROVE flatten[i] \in Seq(T)
    <3>1. i - 1 \in Nat /\ (i - 1) + 1 = i /\ i <= n
      BY <1>2
    <3>. QED
      BY <2>3, <3>1
  <2>. QED
    BY <2>4
<1>11. flatten \in [1 .. n -> Seq(T)]
  <2>1. flatten = [i \in 1 .. n |-> flatten[i]]
    <3>. HIDE DEF flatten, next
    <3>. QED
      BY <1>8
  <2>. HIDE DEF flatten
  <2>. QED
    BY <1>10, <2>1
<1>. QED
  <2>. HIDE DEF flatten
  <2>. QED
    BY <1>1, <1>9, <1>11

\* Flattening nothing, and one sequence more.
LEMMA FlattenFacts ==
    ASSUME NEW T, NEW seqs \in Seq(Seq(T))
    PROVE  /\ Len(seqs) = 0 => FlattenSeq(seqs) = <<>>
           /\ \A more \in Seq(Seq(T)) :
                 Len(more) = Len(seqs) + 1 /\ (\A i \in 1 .. Len(seqs) : more[i] = seqs[i])
                 => FlattenSeq(more) = FlattenSeq(seqs) \o more[Len(seqs) + 1]
<1>. DEFINE n == Len(seqs)
<1>1. n \in Nat /\ \A i \in 1 .. n : seqs[i] \in Seq(T)
  OBVIOUS
<1>2. n = 0 => FlattenSeq(seqs) = <<>>
  BY DEF FlattenSeq
<1>3. ASSUME NEW more \in Seq(Seq(T)), Len(more) = n + 1, \A i \in 1 .. n : more[i] = seqs[i]
      PROVE  FlattenSeq(more) = FlattenSeq(seqs) \o more[n + 1]
  <2>1. PICK g \in [1 .. n + 1 -> Seq(T)] :
           /\ FlattenSeq(more) = g[n + 1]
           /\ \A i \in 1 .. n + 1 : g[i] = IF i = 1 THEN more[i] ELSE g[i - 1] \o more[i]
    <3>. DEFINE N == Len(more)
    <3>1. N # 0 /\ N = n + 1
      BY <1>1, <1>3
    <3>2. \E g \in [1 .. N -> Seq(T)] :
             /\ FlattenSeq(more) = g[N]
             /\ \A i \in 1 .. N : g[i] = IF i = 1 THEN more[i] ELSE g[i - 1] \o more[i]
      BY <3>1, FlattenDefined
    <3>. HIDE DEF N
    <3>. QED
      BY <3>1, <3>2
  <2>2. more[n + 1] \in Seq(T)
    BY <1>1, <1>3
  <2>3. CASE n = 0
    <3>1. FlattenSeq(more) = more[n + 1]
      BY <2>1, <2>3
    <3>2. FlattenSeq(seqs) = <<>>
      BY <1>2, <2>3
    <3>3. <<>> \o more[n + 1] = more[n + 1]
      BY <2>2
    <3>. QED
      BY <3>1, <3>2, <3>3
  <2>4. CASE n # 0
    <3>1. PICK f \in [1 .. n -> Seq(T)] :
             /\ FlattenSeq(seqs) = f[n]
             /\ \A i \in 1 .. n : f[i] = IF i = 1 THEN seqs[i] ELSE f[i - 1] \o seqs[i]
      BY <2>4, FlattenDefined
    <3>. DEFINE S == {m \in Nat : m + 1 <= n => g[m + 1] = f[m + 1]}
    <3>. HIDE DEF n
    <3>2. 0 \in S
      <4>1. 1 \in 1 .. n /\ 1 \in 1 .. n + 1 /\ 0 + 1 = 1
        BY <1>1, <2>4
      <4>2. g[1] = more[1] /\ f[1] = seqs[1] /\ more[1] = seqs[1]
        BY <1>3, <2>1, <3>1, <4>1
      <4>. QED
        BY <4>1, <4>2
    <3>3. ASSUME NEW m \in S PROVE m + 1 \in S
      <4>. SUFFICES ASSUME (m + 1) + 1 <= n PROVE g[(m + 1) + 1] = f[(m + 1) + 1]
        OBVIOUS
      <4>. DEFINE k == (m + 1) + 1
      <4>1. k \in 1 .. n /\ k \in 1 .. n + 1 /\ k # 1 /\ k - 1 = m + 1 /\ g[m + 1] = f[m + 1]
        BY <1>1
      <4>. HIDE DEF k
      <4>2. g[k] = g[m + 1] \o more[k]
        BY <2>1, <4>1
      <4>3. f[k] = f[m + 1] \o seqs[k]
        BY <3>1, <4>1
      <4>. QED
        BY <1>3, <4>1, <4>2, <4>3 DEF k
    <3>. HIDE DEF S
    <3>4. S = Nat
      <4>1. S \subseteq Nat
        BY DEF S
      <4>. QED
        BY <3>2, <3>3, <4>1, Induction
    <3>5. g[n] = f[n]
      <4>1. n - 1 \in S /\ (n - 1) + 1 = n
        BY <1>1, <2>4, <3>4
      <4>. QED
        BY <1>1, <4>1 DEF S
    <3>6. g[n + 1] = g[n] \o more[n + 1]
      <4>1. n + 1 \in 1 .. n + 1 /\ n + 1 # 1 /\ (n + 1) - 1 = n
        BY <1>1, <2>4
      <4>. QED
        BY <2>1, <4>1
    <3>. QED
      BY <2>1, <3>1, <3>5, <3>6
  <2>. QED
    BY <2>3, <2>4
<1>. QED
  BY <1>2, <1>3

\* flat has the elements of seqs: flat[p] is the off[p]-th of the at[p]-th
\* sequence, in their order, and every element is met.
Placing(flat, seqs, at, off) ==
    /\ at \in [1 .. Len(flat) -> Nat] /\ off \in [1 .. Len(flat) -> Nat]
    /\ \A p \in 1 .. Len(flat) :
          /\ at[p] \in 1 .. Len(seqs) /\ off[p] \in 1 .. Len(seqs[at[p]])
          /\ flat[p] = seqs[at[p]][off[p]]
    /\ \A i \in 1 .. Len(seqs) : \A j \in 1 .. Len(seqs[i]) :
          \E p \in 1 .. Len(flat) : at[p] = i /\ off[p] = j
    /\ \A p, q \in 1 .. Len(flat) :
          p < q => at[p] < at[q] \/ (at[p] = at[q] /\ off[p] < off[q])

\* FlattenSeq puts sequences end to end.
LEMMA FlattenPlaces ==
    ASSUME NEW T, NEW seqs \in Seq(Seq(T))
    PROVE  /\ FlattenSeq(seqs) \in Seq(T)
           /\ \E at, off : Placing(FlattenSeq(seqs), seqs, at, off)
<1>. DEFINE n == Len(seqs)
            Placed(list, m) ==
                \E at, off \in [1 .. Len(list) -> Nat] :
                   /\ \A p \in 1 .. Len(list) : /\ at[p] \in 1 .. m /\ off[p] \in 1 .. Len(seqs[at[p]])
                                                /\ list[p] = seqs[at[p]][off[p]]
                   /\ \A i \in 1 .. m : \A j \in 1 .. Len(seqs[i]) :
                         \E p \in 1 .. Len(list) : at[p] = i /\ off[p] = j
                   /\ \A p, q \in 1 .. Len(list) :
                         p < q => at[p] < at[q] \/ (at[p] = at[q] /\ off[p] < off[q])
<1>1. n \in Nat /\ \A i \in 1 .. n : seqs[i] \in Seq(T) /\ Len(seqs[i]) \in Nat
  OBVIOUS
<1>2. ASSUME NEW m \in 0 .. n - 1, NEW list \in Seq(T), Placed(list, m)
      PROVE  Placed(list \o seqs[m + 1], m + 1)
  <2>. DEFINE L == Len(list)
              K == Len(seqs[m + 1])
              longer == list \o seqs[m + 1]
  <2>1. /\ L \in Nat /\ K \in Nat /\ m + 1 \in 1 .. n /\ m \in Nat
        /\ longer \in Seq(T) /\ Len(longer) = L + K
        /\ \A p \in 1 .. L : longer[p] = list[p]
        /\ \A p \in 1 .. K : longer[L + p] = seqs[m + 1][p]
    <3>1. m + 1 \in 1 .. n /\ m \in Nat
      BY <1>1
    <3>2. seqs[m + 1] \in Seq(T)
      BY <1>1, <3>1
    <3>. QED
      BY <3>1, <3>2, ConcatFacts
  <2>2. PICK at \in [1 .. L -> Nat], off \in [1 .. L -> Nat] :
          /\ \A p \in 1 .. L : /\ at[p] \in 1 .. m /\ off[p] \in 1 .. Len(seqs[at[p]])
                               /\ list[p] = seqs[at[p]][off[p]]
          /\ \A i \in 1 .. m : \A j \in 1 .. Len(seqs[i]) : \E p \in 1 .. L : at[p] = i /\ off[p] = j
          /\ \A p, q \in 1 .. L : p < q => at[p] < at[q] \/ (at[p] = at[q] /\ off[p] < off[q])
    BY <1>2
  <2>. DEFINE at2 == [p \in 1 .. L + K |-> IF p <= L THEN at[p] ELSE m + 1]
              off2 == [p \in 1 .. L + K |-> IF p <= L THEN off[p] ELSE p - L]
  <2>. HIDE DEF Placed, longer, L, K
  <2>3. /\ at2 \in [1 .. L + K -> Nat] /\ off2 \in [1 .. L + K -> Nat]
        /\ \A p \in 1 .. L : at2[p] = at[p] /\ off2[p] = off[p]
        /\ \A p \in 1 .. L + K : p \in 1 .. L \/ (~(p <= L) /\ p - L \in 1 .. K /\ L + (p - L) = p)
        /\ \A p \in 1 .. L + K : ~(p <= L) => at2[p] = m + 1 /\ off2[p] = p - L
        /\ \A p \in 1 .. L : p \in 1 .. L + K
    BY <2>1, <2>2
  <2>. HIDE DEF at2, off2
  <2>4. ASSUME NEW p \in 1 .. L + K
        PROVE  /\ at2[p] \in 1 .. m + 1 /\ off2[p] \in 1 .. Len(seqs[at2[p]])
               /\ longer[p] = seqs[at2[p]][off2[p]]
    <3>1. CASE p \in 1 .. L
      <4>1. at2[p] = at[p] /\ off2[p] = off[p] /\ longer[p] = list[p]
        BY <2>1, <2>3, <3>1
      <4>2. at[p] \in 1 .. m /\ off[p] \in 1 .. Len(seqs[at[p]]) /\ list[p] = seqs[at[p]][off[p]]
        BY <2>2, <3>1
      <4>3. m \in Nat /\ at[p] \in 1 .. m => at[p] \in 1 .. m + 1
        OBVIOUS
      <4>. QED
        BY <2>1, <4>1, <4>2, <4>3
    <3>2. CASE ~(p <= L) /\ p - L \in 1 .. K /\ L + (p - L) = p
      <4>1. at2[p] = m + 1 /\ off2[p] = p - L
        BY <2>3, <3>2
      <4>2. longer[L + (p - L)] = seqs[m + 1][p - L]
        BY <2>1, <3>2
      <4>. QED
        BY <2>1, <3>2, <4>1, <4>2 DEF K
    <3>. QED
      BY <2>3, <3>1, <3>2
  <2>5. ASSUME NEW i \in 1 .. m + 1, NEW j \in 1 .. Len(seqs[i])
        PROVE  \E p \in 1 .. L + K : at2[p] = i /\ off2[p] = j
    <3>1. CASE i \in 1 .. m
      <4>1. PICK p \in 1 .. L : at[p] = i /\ off[p] = j
        BY <2>2, <3>1
      <4>. QED
        BY <2>3, <4>1
    <3>2. CASE i = m + 1
      <4>1. j \in 1 .. K
        BY <3>2 DEF K
      <4>2. L + j \in 1 .. L + K /\ ~(L + j <= L) /\ (L + j) - L = j
        BY <2>1, <4>1
      <4>. QED
        BY <2>3, <3>2, <4>2
    <3>3. i \in 1 .. m \/ i = m + 1
      BY <2>1
    <3>. QED
      BY <3>1, <3>2, <3>3
  <2>6. ASSUME NEW p \in 1 .. L + K, NEW q \in 1 .. L + K, p < q
        PROVE  at2[p] < at2[q] \/ (at2[p] = at2[q] /\ off2[p] < off2[q])
    <3>1. CASE q \in 1 .. L
      <4>1. p \in 1 .. L
        BY <2>1, <2>6, <3>1
      <4>. QED
        BY <2>2, <2>3, <2>6, <3>1, <4>1
    <3>2. CASE p \in 1 .. L /\ ~(q <= L)
      <4>1. at[p] \in 1 .. m
        BY <2>2, <3>2
      <4>. QED
        BY <2>1, <2>3, <3>2, <4>1
    <3>3. CASE ~(p <= L) /\ ~(q <= L)
      BY <2>1, <2>3, <2>6, <3>3
    <3>. QED
      BY <2>3, <3>1, <3>2, <3>3
  <2>7. Placed(longer, m + 1)
    <3>1. Len(longer) = L + K
      BY <2>1
    <3>2. at2 \in [1 .. Len(longer) -> Nat] /\ off2 \in [1 .. Len(longer) -> Nat]
      BY <2>3, <3>1
    <3>3. \A p \in 1 .. Len(longer) :
             /\ at2[p] \in 1 .. m + 1 /\ off2[p] \in 1 .. Len(seqs[at2[p]])
             /\ longer[p] = seqs[at2[p]][off2[p]]
      BY <2>4, <3>1
    <3>4. \A i \in 1 .. m + 1 : \A j \in 1 .. Len(seqs[i]) :
             \E p \in 1 .. Len(longer) : at2[p] = i /\ off2[p] = j
      BY <2>5, <3>1
    <3>5. \A p, q \in 1 .. Len(longer) :
             p < q => at2[p] < at2[q] \/ (at2[p] = at2[q] /\ off2[p] < off2[q])
      BY <2>6, <3>1
    <3>. QED
      BY ONLY <3>2, <3>3, <3>4, <3>5 DEF Placed
  <2>. QED
    BY <2>7 DEF longer
<1>3. CASE n = 0
  <2>1. FlattenSeq(seqs) = seqs /\ seqs = <<>>
    BY <1>3 DEF FlattenSeq
  <2>2. seqs \in Seq(T) /\ Len(seqs) = 0 /\ \A i \in 1 .. 0 : FALSE
    BY <2>1
  <2>. DEFINE z == [p \in 1 .. 0 |-> 0]
  <2>3. z \in [1 .. 0 -> Nat]
    OBVIOUS
  <2>4. Placing(seqs, seqs, z, z)
    <3>. HIDE DEF z
    <3>. QED
      BY <2>2, <2>3 DEF Placing
  <2>. QED
    BY <2>1, <2>2, <2>4
<1>4. CASE n # 0
  <2>1. PICK f \in [1 .. n -> Seq(T)] :
              /\ FlattenSeq(seqs) = f[n]
              /\ \A i \in 1 .. n : f[i] = IF i = 1 THEN seqs[i] ELSE f[i - 1] \o seqs[i]
    BY <1>4, FlattenDefined
  <2>. DEFINE S == {m \in Nat : m + 1 <= n => Placed(f[m + 1], m + 1)}
  <2>2. 0 \in S
    <3>1. Placed(<<>>, 0)
      <4>1. [p \in 1 .. 0 |-> 0] \in [1 .. 0 -> Nat] /\ Len(<<>>) = 0 /\ \A i \in 1 .. 0 : FALSE
        OBVIOUS
      <4>. QED
        BY <4>1
    <3>. HIDE DEF Placed
    <3>2. <<>> \in Seq(T) /\ 0 \in 0 .. n - 1 /\ 0 + 1 = 1 /\ 1 \in 1 .. n
      BY <1>1, <1>4
    <3>3. Placed(<<>> \o seqs[1], 1)
      BY <1>2, <3>1, <3>2
    <3>4. f[1] = seqs[1] /\ seqs[1] \in Seq(T)
      BY <1>1, <2>1, <3>2
    <3>5. <<>> \o seqs[1] = seqs[1]
      BY <3>4
    <3>. QED
      BY <3>2, <3>3, <3>4, <3>5
  <2>3. ASSUME NEW m \in S PROVE m + 1 \in S
    <3>. HIDE DEF Placed
    <3>1. m \in Nat /\ m + 1 \in Nat /\ (m + 1) + 1 = m + 2
      OBVIOUS
    <3>. SUFFICES ASSUME m + 2 <= n PROVE Placed(f[m + 2], m + 2)
      BY <3>1
    <3>2. /\ m + 2 \in 1 .. n /\ m + 2 # 1 /\ (m + 2) - 1 = m + 1
          /\ m + 1 \in 0 .. n - 1 /\ m + 1 <= n /\ m + 1 \in 1 .. n
      BY <1>1, <3>1
    <3>3. f[m + 2] = f[m + 1] \o seqs[m + 2] /\ f[m + 1] \in Seq(T) /\ Placed(f[m + 1], m + 1)
      BY <2>1, <3>2
    <3>4. Placed(f[m + 1] \o seqs[(m + 1) + 1], (m + 1) + 1)
      BY <1>2, <3>2, <3>3
    <3>. QED
      BY <3>1, <3>3, <3>4
  <2>4. S = Nat
    <3>. HIDE DEF S
    <3>1. S \subseteq Nat
      BY DEF S
    <3>. QED
      BY <2>2, <2>3, <3>1, Induction
  <2>5. Placed(f[n], n)
    <3>. HIDE DEF Placed
    <3>1. n - 1 \in Nat /\ (n - 1) + 1 = n /\ n <= n
      BY <1>1, <1>4
    <3>2. n - 1 \in S
      <4>. HIDE DEF S
      <4>. QED
        BY <2>4, <3>1
    <3>3. (n - 1) + 1 <= n => Placed(f[(n - 1) + 1], (n - 1) + 1)
      BY <3>2
    <3>. QED
      BY <3>1, <3>3
  <2>6. f[n] \in Seq(T)
    BY <1>1, <1>4, <2>1
  <2>. DEFINE flat == FlattenSeq(seqs)
  <2>7. flat \in Seq(T) /\ Placed(flat, n)
    <3>. HIDE DEF Placed
    <3>. QED
      BY <2>1, <2>5, <2>6
  <2>. HIDE DEF flat
  <2>8. PICK at \in [1 .. Len(flat) -> Nat], off \in [1 .. Len(flat) -> Nat] :
           /\ \A p \in 1 .. Len(flat) : /\ at[p] \in 1 .. n /\ off[p] \in 1 .. Len(seqs[at[p]])
                                        /\ flat[p] = seqs[at[p]][off[p]]
           /\ \A i \in 1 .. n : \A j \in 1 .. Len(seqs[i]) :
                 \E p \in 1 .. Len(flat) : at[p] = i /\ off[p] = j
           /\ \A p, q \in 1 .. Len(flat) :
                 p < q => at[p] < at[q] \/ (at[p] = at[q] /\ off[p] < off[q])
    BY <2>7
  <2>9. Placing(flat, seqs, at, off)
    BY <2>8 DEF Placing
  <2>. QED
    BY <2>7, <2>9 DEF flat
<1>. QED
  BY <1>1, <1>3, <1>4

\* A column has what the lists row[1], row[2], ... have at that position.
ColumnOf(column, rows, col, row) ==
    /\ row \in [1 .. Len(column) -> Nat]
    /\ \A p \in 1 .. Len(column) :
          /\ row[p] \in 1 .. Len(rows) /\ col \in 1 .. Len(rows[row[p]])
          /\ column[p] = rows[row[p]][col]
    /\ \A d \in 1 .. Len(rows) : col <= Len(rows[d]) => \E p \in 1 .. Len(column) : row[p] = d
    /\ \A p, q \in 1 .. Len(column) : p < q => row[p] < row[q]

\* Column takes each list that is long enough, in their order.
LEMMA ColumnFacts ==
    ASSUME NEW T, NEW rows \in Seq(Seq(T)), NEW col \in Nat \ {0}
    PROVE  /\ Column(rows, col) \in Seq(T)
           /\ \E row : ColumnOf(Column(rows, col), rows, col, row)
<1>. DEFINE n == Len(rows)
            cell(d) == IF col <= Len(rows[d]) THEN <<rows[d][col]>> ELSE <<>>
            cells == [d \in DOMAIN rows |-> cell(d)]
            column == Column(rows, col)
            L == Len(column)
<1>1. /\ n \in Nat /\ DOMAIN rows = 1 .. n
      /\ \A d \in 1 .. n : rows[d] \in Seq(T) /\ Len(rows[d]) \in Nat
  OBVIOUS
<1>2. ASSUME NEW d \in 1 .. n
      PROVE  /\ cell(d) \in Seq(T) /\ Len(cell(d)) \in {0, 1}
             /\ Len(cell(d)) = 1 => col \in 1 .. Len(rows[d]) /\ cell(d)[1] = rows[d][col]
             /\ col <= Len(rows[d]) => Len(cell(d)) = 1
  <2>1. CASE col <= Len(rows[d])
    <3>1. col \in 1 .. Len(rows[d])
      BY <1>1, <2>1
    <3>2. rows[d] \in Seq(T)
      BY <1>1
    <3>3. rows[d][col] \in T
      BY <3>1, <3>2
    <3>4. cell(d) = <<rows[d][col]>>
      BY <2>1
    <3>. QED
      BY <3>1, <3>3, <3>4
  <2>2. CASE ~(col <= Len(rows[d]))
    <3>1. cell(d) = <<>>
      BY <2>2
    <3>. QED
      BY <2>2, <3>1
  <2>. QED
    BY <2>1, <2>2
<1>3. cells \in Seq(Seq(T)) /\ Len(cells) = n /\ \A d \in 1 .. n : cells[d] = cell(d)
  <2>. DEFINE U == Seq(T)
  <2>1. \A d \in 1 .. n : cell(d) \in U
    BY <1>2
  <2>. HIDE DEF U, cell
  <2>2. cells \in [1 .. n -> U]
    BY <1>1, <2>1
  <2>3. cells \in Seq(U) /\ Len(cells) = n
    BY <1>1, <2>2
  <2>. QED
    BY <1>1, <2>3 DEF U
<1>4. column = FlattenSeq(cells)
  BY DEF Column
<1>. HIDE DEF cells, cell, column, n
<1>5. PICK row, off : Placing(FlattenSeq(cells), cells, row, off)
  BY <1>3, FlattenPlaces
<1>6. /\ column \in Seq(T) /\ row \in [1 .. L -> Nat] /\ off \in [1 .. L -> Nat]
      /\ \A p \in 1 .. L : /\ row[p] \in 1 .. n /\ off[p] \in 1 .. Len(cells[row[p]])
                           /\ column[p] = cells[row[p]][off[p]]
      /\ \A i \in 1 .. n : \A j \in 1 .. Len(cells[i]) : \E p \in 1 .. L : row[p] = i /\ off[p] = j
      /\ \A p, q \in 1 .. L : p < q => row[p] < row[q] \/ (row[p] = row[q] /\ off[p] < off[q])
  <2>1. FlattenSeq(cells) \in Seq(T)
    BY <1>3, FlattenPlaces
  <2>2. Placing(column, cells, row, off)
    BY <1>4, <1>5
  <2>. QED
    BY <1>3, <1>4, <2>1, <2>2 DEF Placing
<1>7. ASSUME NEW p \in 1 .. L
      PROVE  /\ off[p] = 1 /\ row[p] \in 1 .. n /\ col \in 1 .. Len(rows[row[p]])
             /\ column[p] = rows[row[p]][col]
  <2>1. row[p] \in 1 .. n /\ off[p] \in 1 .. Len(cells[row[p]]) /\ column[p] = cells[row[p]][off[p]]
    BY <1>6
  <2>2. cells[row[p]] = cell(row[p]) /\ Len(cell(row[p])) \in {0, 1}
    BY <1>2, <1>3, <2>1
  <2>3. off[p] = 1 /\ Len(cell(row[p])) = 1
    BY <2>1, <2>2
  <2>. QED
    BY <1>2, <2>1, <2>2, <2>3
<1>8. ASSUME NEW d \in 1 .. n, col <= Len(rows[d]) PROVE \E p \in 1 .. L : row[p] = d
  <2>1. Len(cells[d]) = 1
    BY <1>2, <1>3, <1>8
  <2>2. 1 \in 1 .. Len(cells[d])
    BY <2>1
  <2>. QED
    BY <1>6, <2>2
<1>9. ASSUME NEW p \in 1 .. L, NEW q \in 1 .. L, p < q PROVE row[p] < row[q]
  <2>1. off[p] = 1 /\ off[q] = 1
    BY <1>7
  <2>2. row[p] < row[q] \/ off[p] < off[q]
    BY <1>6, <1>9
  <2>. QED
    BY <2>1, <2>2
<1>10. ColumnOf(column, rows, col, row)
  BY <1>6, <1>7, <1>8, <1>9 DEF ColumnOf, n
<1>. QED
  BY <1>6, <1>10 DEF column

\* all has the elements of rows: all[p] is the col[p]-th of the list row[p].  The
\* columns follow one another, and in a column the lists do.
Interleaving(all, rows, row, col) ==
    /\ row \in [1 .. Len(all) -> Nat] /\ col \in [1 .. Len(all) -> Nat]
    /\ \A p \in 1 .. Len(all) :
          /\ row[p] \in 1 .. Len(rows) /\ col[p] \in 1 .. Len(rows[row[p]])
          /\ all[p] = rows[row[p]][col[p]]
    /\ \A d \in 1 .. Len(rows) : \A c \in 1 .. Len(rows[d]) :
          \E p \in 1 .. Len(all) : row[p] = d /\ col[p] = c
    /\ \A p, q \in 1 .. Len(all) :
          p < q => col[p] < col[q] \/ (col[p] = col[q] /\ row[p] < row[q])

\* Interleaved takes lists of lists a column at a time.
LEMMA InterleavedFacts ==
    ASSUME NEW T, NEW rows \in Seq(Seq(T))
    PROVE  /\ Interleaved(rows) \in Seq(T)
           /\ \E row, col : Interleaving(Interleaved(rows), rows, row, col)
<1>. DEFINE n == Len(rows)
            lens == [d \in DOMAIN rows |-> Len(rows[d])]
            width == MaxOf(lens)
            columns == [c \in 1 .. width |-> Column(rows, c)]
            all == Interleaved(rows)
            L == Len(all)
<1>1. /\ n \in Nat /\ DOMAIN rows = 1 .. n
      /\ \A d \in 1 .. n : rows[d] \in Seq(T) /\ Len(rows[d]) \in Nat
  OBVIOUS
<1>2. width \in Nat /\ \A d \in 1 .. n : Len(rows[d]) <= width
  <2>1. lens \in [1 .. n -> Nat]
    BY <1>1
  <2>2. lens \in Seq(Nat) /\ Len(lens) = n
    BY <1>1, <2>1
  <2>3. \A d \in 1 .. n : lens[d] = Len(rows[d])
    BY <1>1
  <2>. HIDE DEF lens
  <2>. QED
    BY <2>2, <2>3, MaxOfFacts
<1>3. all = FlattenSeq(columns)
  BY DEF Interleaved
<1>. HIDE DEF all
<1>. DEFINE Rows(c, row) == ColumnOf(columns[c], rows, c, row)
            rowsOf == [c \in 1 .. width |-> CHOOSE row : Rows(c, row)]
<1>4. ASSUME NEW c \in 1 .. width PROVE columns[c] \in Seq(T) /\ Rows(c, rowsOf[c])
  <2>1. c \in Nat \ {0} /\ columns[c] = Column(rows, c)
    BY <1>2
  <2>. HIDE DEF columns
  <2>2. columns[c] \in Seq(T) /\ \E row : ColumnOf(columns[c], rows, c, row)
    BY <2>1, ColumnFacts
  <2>3. rowsOf[c] = CHOOSE row : Rows(c, row)
    OBVIOUS
  <2>. HIDE DEF rowsOf
  <2>. QED
    BY <2>2, <2>3
<1>5. columns \in Seq(Seq(T)) /\ Len(columns) = width
  <2>. DEFINE U == Seq(T)
  <2>1. \A c \in 1 .. width : columns[c] \in U
    BY <1>4
  <2>2. columns = [c \in 1 .. width |-> columns[c]]
    OBVIOUS
  <2>. HIDE DEF U, columns, width
  <2>3. columns \in [1 .. width -> U]
    BY <2>1, <2>2
  <2>4. columns \in Seq(U) /\ Len(columns) = width
    BY <1>2, <2>3
  <2>. QED
    BY <2>4 DEF U
<1>. HIDE DEF columns, rowsOf, width, all, n
<1>6. PICK col, off : Placing(FlattenSeq(columns), columns, col, off)
  BY <1>5, FlattenPlaces
<1>7. /\ all \in Seq(T) /\ col \in [1 .. L -> Nat] /\ off \in [1 .. L -> Nat]
      /\ \A p \in 1 .. L : /\ col[p] \in 1 .. width /\ off[p] \in 1 .. Len(columns[col[p]])
                           /\ all[p] = columns[col[p]][off[p]]
      /\ \A i \in 1 .. width : \A j \in 1 .. Len(columns[i]) : \E p \in 1 .. L : col[p] = i /\ off[p] = j
      /\ \A p, q \in 1 .. L : p < q => col[p] < col[q] \/ (col[p] = col[q] /\ off[p] < off[q])
  <2>1. FlattenSeq(columns) \in Seq(T)
    BY <1>5, FlattenPlaces
  <2>2. Placing(all, columns, col, off)
    BY <1>3, <1>6
  <2>. QED
    BY <1>3, <1>5, <2>1, <2>2 DEF Placing
<1>. DEFINE row == [p \in 1 .. L |-> rowsOf[col[p]][off[p]]]
<1>8. ASSUME NEW p \in 1 .. L
      PROVE  /\ row[p] \in 1 .. n /\ col[p] \in 1 .. Len(rows[row[p]])
             /\ all[p] = rows[row[p]][col[p]]
  <2>1. row[p] = rowsOf[col[p]][off[p]]
    OBVIOUS
  <2>2. /\ col[p] \in 1 .. width /\ off[p] \in 1 .. Len(columns[col[p]])
        /\ all[p] = columns[col[p]][off[p]]
    BY <1>7
  <2>. HIDE DEF row
  <2>3. Rows(col[p], rowsOf[col[p]])
    BY <1>4, <2>2
  <2>. QED
    BY <2>1, <2>2, <2>3 DEF ColumnOf, n
<1>9. row \in [1 .. L -> Nat]
  <2>1. \A p \in 1 .. L : row[p] \in Nat
    BY <1>8
  <2>2. row = [p \in 1 .. L |-> row[p]]
    OBVIOUS
  <2>. HIDE DEF row
  <2>. QED
    BY <2>1, <2>2
<1>10. ASSUME NEW d \in 1 .. n, NEW c \in 1 .. Len(rows[d])
       PROVE  \E p \in 1 .. L : row[p] = d /\ col[p] = c
  <2>1. c \in 1 .. width /\ c <= Len(rows[d])
    BY <1>1, <1>2 DEF n
  <2>2. Rows(c, rowsOf[c])
    BY <1>4, <2>1
  <2>3. PICK j \in 1 .. Len(columns[c]) : rowsOf[c][j] = d
    BY <2>1, <2>2 DEF ColumnOf, n
  <2>4. PICK p \in 1 .. L : col[p] = c /\ off[p] = j
    BY <1>7, <2>1
  <2>5. row[p] = rowsOf[c][j]
    BY <2>4
  <2>. QED
    BY <2>3, <2>4, <2>5
<1>11. ASSUME NEW p \in 1 .. L, NEW q \in 1 .. L, p < q
       PROVE  col[p] < col[q] \/ (col[p] = col[q] /\ row[p] < row[q])
  <2>1. col[p] < col[q] \/ (col[p] = col[q] /\ off[p] < off[q])
    BY <1>7, <1>11
  <2>2. /\ col[p] \in 1 .. width /\ off[p] \in 1 .. Len(columns[col[p]])
        /\ col[q] \in 1 .. width /\ off[q] \in 1 .. Len(columns[col[q]])
    BY <1>7
  <2>3. Rows(col[p], rowsOf[col[p]])
    BY <1>4, <2>2
  <2>4. row[p] = rowsOf[col[p]][off[p]] /\ row[q] = rowsOf[col[q]][off[q]]
    OBVIOUS
  <2>. HIDE DEF row
  <2>5. CASE col[p] = col[q] /\ off[p] < off[q]
    <3>1. rowsOf[col[p]][off[p]] < rowsOf[col[p]][off[q]]
      BY <2>2, <2>3, <2>5 DEF ColumnOf
    <3>. QED
      BY <2>4, <2>5, <3>1
  <2>. QED
    BY <2>1, <2>5
<1>12. Interleaving(all, rows, row, col)
  <2>. HIDE DEF row
  <2>. QED
    BY <1>7, <1>8, <1>9, <1>10, <1>11 DEF Interleaving, n
<1>. QED
  BY <1>7, <1>12 DEF all

\* Each element of an interleaving is met once.
LEMMA InterleavedOnce ==
    ASSUME NEW all, NEW rows, NEW row, NEW col, Len(all) \in Nat, Interleaving(all, rows, row, col),
           NEW p \in 1 .. Len(all), NEW q \in 1 .. Len(all), row[p] = row[q], col[p] = col[q]
    PROVE  p = q
<1>1. p \in Int /\ q \in Int /\ row[p] \in Nat /\ col[p] \in Nat
  BY DEF Interleaving
<1>2. ~(p < q) /\ ~(q < p)
  BY <1>1 DEF Interleaving
<1>. QED
  BY <1>1, <1>2

\* The column stays the same or is the next one.
LEMMA ColumnsFollow ==
    ASSUME NEW all, NEW rows, NEW row, NEW col, Len(all) \in Nat, Interleaving(all, rows, row, col),
           \A d \in 1 .. Len(rows) : Len(rows[d]) \in Nat,
           NEW p \in 1 .. Len(all) - 1
    PROVE  col[p + 1] \in {col[p], col[p] + 1}
<1>1. /\ p \in Nat /\ p \in 1 .. Len(all) /\ p + 1 \in 1 .. Len(all) /\ p < p + 1
  OBVIOUS
<1>0. ASSUME NEW i \in 1 .. Len(all), NEW j \in 1 .. Len(all), i < j
      PROVE  col[i] <= col[j]
  <2>1. col[i] \in Nat /\ col[j] \in Nat
    BY DEF Interleaving
  <2>2. col[i] < col[j] \/ col[i] = col[j]
    BY <1>0 DEF Interleaving
  <2>. QED
    BY <2>1, <2>2
<1>2. /\ col[p] \in Nat /\ col[p + 1] \in Nat
      /\ row[p + 1] \in 1 .. Len(rows) /\ col[p + 1] \in 1 .. Len(rows[row[p + 1]])
      /\ col[p] <= col[p + 1]
  <2>1. col[p] \in Nat /\ col[p + 1] \in Nat
    BY <1>1 DEF Interleaving
  <2>2. row[p + 1] \in 1 .. Len(rows) /\ col[p + 1] \in 1 .. Len(rows[row[p + 1]])
    BY <1>1 DEF Interleaving
  <2>3. col[p] <= col[p + 1]
    BY <1>0, <1>1
  <2>. QED
    BY <2>1, <2>2, <2>3
<1>3. ASSUME col[p] + 1 < col[p + 1] PROVE FALSE
  <2>1. Len(rows[row[p + 1]]) \in Nat
    BY <1>2
  <2>2. col[p] + 1 \in 1 .. Len(rows[row[p + 1]])
    BY <1>2, <1>3, <2>1
  <2>3. PICK q \in 1 .. Len(all) : col[q] = col[p] + 1
    BY <1>2, <2>2 DEF Interleaving
  <2>4. q \in Nat /\ (q < p \/ q = p \/ q = p + 1 \/ p + 1 < q)
    BY <1>1
  <2>5. q < p => col[q] <= col[p]
    BY <1>0, <1>1
  <2>6. p + 1 < q => col[p + 1] <= col[q]
    BY <1>0, <1>1
  <2>. QED
    BY <1>2, <1>3, <2>3, <2>4, <2>5, <2>6
<1>4. col[p] \in Nat /\ col[p + 1] \in Nat /\ col[p] <= col[p + 1] /\ ~(col[p] + 1 < col[p + 1])
  BY <1>2, <1>3
<1>. QED
  BY ONLY <1>4

\* Between two elements of one list, an interleaving has an element of every list
\* that comes later: as many different lists as fit before they come again.
LEMMA FewLists ==
    ASSUME NEW all, NEW rows, NEW row, NEW col, Len(all) \in Nat, Interleaving(all, rows, row, col),
           \A d \in 1 .. Len(rows) : Len(rows[d]) \in Nat,
           NEW j \in 1 .. Len(all), NEW h \in 1 .. Len(all), j < h, row[j] = row[h],
           NEW t \in 1 .. Len(all), NEW k \in 1 .. Len(all), h <= t, t <= k,
           \A u, v \in t .. k : row[u] = row[v] => u = v
    PROVE  k - t + 1 <= h - j
<1>. DEFINE N == Len(all)
            f == [u \in t .. k |-> CHOOSE v \in j .. h - 1 : row[v] = row[u]]
<1>9. N \in Nat /\ j \in 1 .. N /\ h \in 1 .. N /\ t \in 1 .. N /\ k \in 1 .. N
  OBVIOUS
<1>1. \A p \in 1 .. N : row[p] \in Nat /\ col[p] \in Nat /\ row[p] \in 1 .. Len(rows) /\ col[p] \in 1 .. Len(rows[row[p]])
  BY DEF Interleaving
<1>2. \A p, q \in 1 .. N : p < q => col[p] < col[q] \/ (col[p] = col[q] /\ row[p] < row[q])
  BY DEF Interleaving
<1>3. \A d \in 1 .. Len(rows) : \A c \in 1 .. Len(rows[d]) : \E p \in 1 .. N : row[p] = d /\ col[p] = c
  BY DEF Interleaving
<1>. HIDE DEF N
<1>4. col[j] < col[h] /\ col[j] \in Nat /\ col[h] \in Nat /\ row[j] \in Nat /\ row[h] \in Nat /\ col[j] \in Nat \ {0}
  BY <1>1, <1>2, <1>9
<1>5. ASSUME NEW u \in t .. k PROVE \E v \in j .. h - 1 : row[v] = row[u]
  <2>1. u \in 1 .. N /\ h <= u
    BY <1>9
  <2>7. /\ row[u] \in Nat /\ col[u] \in Nat
        /\ row[u] \in 1 .. Len(rows) /\ col[u] \in 1 .. Len(rows[row[u]])
    BY <1>1, <2>1
  <2>8. h < u => col[h] < col[u] \/ (col[h] = col[u] /\ row[h] < row[u])
    BY <1>2, <1>9, <2>1
  <2>2. col[h] <= col[u]
    <3>1. CASE h = u
      BY <1>4, <3>1
    <3>2. CASE h < u
      BY <1>4, <2>7, <2>8, <3>2
    <3>. QED
      BY <1>9, <2>1, <3>1, <3>2
  <2>3. /\ row[u] \in 1 .. Len(rows) /\ Len(rows[row[u]]) \in Nat
        /\ col[h] \in 1 .. Len(rows[row[u]]) /\ col[j] \in 1 .. Len(rows[row[u]])
    <3>. DEFINE l == Len(rows[row[u]])
    <3>1. l \in Nat /\ col[u] \in 1 .. l
      BY <2>7
    <3>. HIDE DEF l
    <3>2. col[h] \in 1 .. l /\ col[j] \in 1 .. l
      BY <1>4, <2>2, <3>1
    <3>. QED
      BY <2>7, <3>1, <3>2 DEF l
  <2>4. CASE row[u] = row[j]
    BY <2>4
  <2>5. CASE row[u] < row[j]
    <3>1. PICK v \in 1 .. N : row[v] = row[u] /\ col[v] = col[h]
      BY <1>3, <2>3
    <3>2. row[v] \in Nat /\ col[v] \in Nat
      BY <1>1
    <3>3. /\ h < v => col[h] < col[v] \/ (col[h] = col[v] /\ row[h] < row[v])
          /\ v < j => col[v] < col[j] \/ (col[v] = col[j] /\ row[v] < row[j])
      BY <1>2, <1>9
    <3>4. ~(h < v) /\ ~(v < j)
      BY <1>4, <2>7, <2>5, <3>1, <3>2, <3>3
    <3>5. v # h
      BY <2>5, <2>7, <3>1
    <3>. QED
      BY <1>9, <3>1, <3>4, <3>5
  <2>6. CASE row[u] > row[j]
    <3>1. PICK v \in 1 .. N : row[v] = row[u] /\ col[v] = col[j]
      BY <1>3, <2>3
    <3>2. row[v] \in Nat /\ col[v] \in Nat
      BY <1>1
    <3>3. /\ h < v => col[h] < col[v] \/ (col[h] = col[v] /\ row[h] < row[v])
          /\ v < j => col[v] < col[j] \/ (col[v] = col[j] /\ row[v] < row[j])
      BY <1>2, <1>9
    <3>4. ~(h < v) /\ ~(v < j)
      BY <1>4, <2>7, <2>6, <3>1, <3>2, <3>3
    <3>5. v # h
      BY <2>6, <2>7, <3>1
    <3>. QED
      BY <1>9, <3>1, <3>4, <3>5
  <2>. QED
    BY <1>4, <2>4, <2>5, <2>6, <2>7
<1>6. \A u \in t .. k : f[u] \in j .. h - 1 /\ row[f[u]] = row[u]
  BY <1>5
<1>7. f \in Injection(t .. k, j .. h - 1)
  <2>1. f \in [t .. k -> j .. h - 1]
    BY <1>5
  <2>. HIDE DEF f
  <2>2. \A u, v \in t .. k : f[u] = f[v] => u = v
    BY <1>6
  <2>. QED
    BY <2>1, <2>2 DEF Injection, IsInjective
<1>8. /\ IsFiniteSet(t .. k) /\ Cardinality(t .. k) = k - t + 1
      /\ IsFiniteSet(j .. h - 1) /\ Cardinality(j .. h - 1) = h - j
  <2>1. t \in Int /\ k \in Int /\ j \in Int /\ h - 1 \in Int /\ ~(t > k) /\ ~(j > h - 1) /\ (h - 1) - j + 1 = h - j
    BY <1>9
  <2>. QED
    BY <2>1, FS_Interval
<1>. HIDE DEF f
<1>. QED
  BY <1>7, <1>8, FS_Injection

-----------------------------------------------------------------------------
(* Folds.                                                                  *)

\* Every set of numbers up to n but the empty one has a largest.
LEMMA MaxExists ==
    ASSUME NEW n \in Nat, NEW s \in SUBSET (1 .. n), s # {}
    PROVE  Max(s) \in s /\ \A y \in s : y <= Max(s)
<1>. DEFINE S == {m \in Nat : \A t \in SUBSET (1 .. m) : t # {} => \E x \in t : \A y \in t : x >= y}
<1>1. 0 \in S
  <2>1. \A t \in SUBSET (1 .. 0) : t = {}
    OBVIOUS
  <2>. QED
    BY <2>1
<1>2. ASSUME NEW m \in S PROVE m + 1 \in S
  <2>1. m \in Nat /\ m + 1 \in Nat
    OBVIOUS
  <2>. SUFFICES ASSUME NEW t \in SUBSET (1 .. m + 1), t # {} PROVE \E x \in t : \A y \in t : x >= y
    BY <2>1
  <2>2. CASE m + 1 \in t
    BY <2>1, <2>2
  <2>3. CASE m + 1 \notin t
    <3>1. t \in SUBSET (1 .. m)
      BY <2>1, <2>3
    <3>. QED
      BY <3>1
  <2>. QED
    BY <2>2, <2>3
<1>3. S = Nat
  <2>. HIDE DEF S
  <2>1. S \subseteq Nat
    BY DEF S
  <2>. QED
    BY <1>1, <1>2, <2>1, Induction
<1>4. \E x \in s : \A y \in s : x >= y
  BY <1>3
<1>5. Max(s) \in s /\ \A y \in s : Max(s) >= y
  BY <1>4 DEF Max
<1>. QED
  BY <1>5

\* The numbers up to m: the largest is m, and the others are those up to m - 1.
LEMMA MaxOfInterval ==
    ASSUME NEW m \in Nat \ {0}
    PROVE  Max(1 .. m) = m /\ (1 .. m) \ {m} = 1 .. m - 1 /\ 1 .. m # {}
<1>1. m \in 1 .. m
  OBVIOUS
<1>2. Max(1 .. m) \in 1 .. m /\ m <= Max(1 .. m)
  BY <1>1, MaxExists
<1>. QED
  BY <1>2

\* F is the step of a fold over D, from base; iter is how FoldLeft computes it (if
\* all its values are in D), and at are the values it goes through.
IsFold(n, D, base, F) == n \in Nat /\ base \in D /\ F \in [D \X (1 .. n) -> D]
Iterates(n, D, base, F, iter) ==
    /\ iter[{}] = base
    /\ \A s \in SUBSET (1 .. n) :
          s # {} /\ iter[s \ {Max(s)}] \in D => iter[s] = F[<<iter[s \ {Max(s)}], Max(s)>>]
GoesThrough(n, D, base, F, at) ==
    /\ at \in [0 .. n -> D] /\ at[0] = base
    /\ \A k \in 1 .. n : at[k] = F[<<at[k - 1], k>>]

\* The function by which FoldLeft is defined exists, when each step is defined.
LEMMA FoldExists ==
    ASSUME NEW n, NEW D, NEW base, NEW F, IsFold(n, D, base, F)
    PROVE  \E g : g \in [SUBSET (1 .. n) -> D] /\ Iterates(n, D, base, F, g)
<1>. USE DEF IsFold
<1>. DEFINE Folds(m, g) ==
               \A s \in SUBSET (1 .. m) :
                  g[s] = IF s = {} THEN base ELSE F[<<g[s \ {Max(s)}], Max(s)>>]
            S == {m \in Nat : m <= n => \E g \in [SUBSET (1 .. m) -> D] : Folds(m, g)}
<1>1. 0 \in S
  <2>. DEFINE g == [s \in SUBSET (1 .. 0) |-> base]
  <2>1. g \in [SUBSET (1 .. 0) -> D] /\ \A s \in SUBSET (1 .. 0) : s = {} /\ g[s] = base
    OBVIOUS
  <2>. HIDE DEF g
  <2>. QED
    BY <2>1
<1>2. ASSUME NEW m \in S PROVE m + 1 \in S
  <2>1. m \in Nat /\ m + 1 \in Nat
    OBVIOUS
  <2>. SUFFICES ASSUME m + 1 <= n PROVE \E g \in [SUBSET (1 .. m + 1) -> D] : Folds(m + 1, g)
    BY <2>1
  <2>0. m <= n
    BY <2>1
  <2>2. PICK g \in [SUBSET (1 .. m) -> D] : Folds(m, g)
    <3>. HIDE DEF Folds
    <3>. QED
      BY <2>0
  <2>. DEFINE h == [s \in SUBSET (1 .. m + 1) |->
                       IF m + 1 \in s THEN F[<<g[s \ {m + 1}], m + 1>>] ELSE g[s]]
  <2>3. ASSUME NEW s \in SUBSET (1 .. m + 1)
        PROVE  /\ m + 1 \notin s => s \in SUBSET (1 .. m)
               /\ s \ {m + 1} \in SUBSET (1 .. m)
               /\ h[s] \in D
    <3>1. /\ m + 1 \notin s => s \in SUBSET (1 .. m)
          /\ s \ {m + 1} \in SUBSET (1 .. m)
      BY <2>1
    <3>2. <<g[s \ {m + 1}], m + 1>> \in D \X (1 .. n)
      BY <2>1, <3>1
    <3>. QED
      BY <3>1, <3>2
  <2>4. h \in [SUBSET (1 .. m + 1) -> D]
    <3>1. \A s \in SUBSET (1 .. m + 1) : h[s] \in D
      BY <2>3
    <3>2. h = [s \in SUBSET (1 .. m + 1) |-> h[s]]
      OBVIOUS
    <3>. HIDE DEF h
    <3>. QED
      BY <3>1, <3>2
  <2>5. ASSUME NEW s \in SUBSET (1 .. m + 1)
        PROVE  h[s] = IF s = {} THEN base ELSE F[<<h[s \ {Max(s)}], Max(s)>>]
    <3>1. CASE s = {}
      <4>1. m + 1 \notin s /\ s \in SUBSET (1 .. m)
        BY <3>1
      <4>2. h[s] = g[s]
        BY <4>1
      <4>. QED
        BY <2>2, <3>1, <4>1, <4>2
    <3>2. CASE s # {} /\ m + 1 \in s
      <4>1. Max(s) \in s /\ m + 1 <= Max(s)
        BY <2>1, <3>2, MaxExists
      <4>2. Max(s) = m + 1
        <5>1. Max(s) \in 1 .. m + 1
          BY <4>1
        <5>. QED
          BY <2>1, <4>1, <5>1
      <4>3. s \ {m + 1} \in SUBSET (1 .. m + 1) /\ m + 1 \notin s \ {m + 1}
        OBVIOUS
      <4>4. h[s \ {m + 1}] = g[s \ {m + 1}]
        BY <4>3
      <4>5. h[s] = F[<<g[s \ {m + 1}], m + 1>>]
        BY <3>2
      <4>. QED
        BY <3>2, <4>2, <4>4, <4>5
    <3>3. CASE s # {} /\ m + 1 \notin s
      <4>1. s \in SUBSET (1 .. m) /\ s \ {Max(s)} \in SUBSET (1 .. m + 1) /\ m + 1 \notin s \ {Max(s)}
        BY <2>3, <3>3
      <4>2. h[s] = g[s] /\ h[s \ {Max(s)}] = g[s \ {Max(s)}]
        BY <3>3, <4>1
      <4>. QED
        BY <2>2, <3>3, <4>1, <4>2
    <3>. QED
      BY <3>1, <3>2, <3>3
  <2>. QED
    <3>. HIDE DEF h
    <3>. QED
      BY <2>4, <2>5
<1>3. S = Nat
  <2>. HIDE DEF S
  <2>1. S \subseteq Nat
    BY DEF S
  <2>. QED
    BY <1>1, <1>2, <2>1, Induction
<1>4. n \in S /\ n <= n
  <2>. HIDE DEF S
  <2>. QED
    BY <1>3
<1>5. PICK g \in [SUBSET (1 .. n) -> D] : Folds(n, g)
  BY <1>4
<1>6. Iterates(n, D, base, F, g)
  BY <1>5 DEF Iterates
<1>. QED
  BY <1>6

\* What FoldLeft computes, step by step: iter is the function it is defined by.
LEMMA FoldSteps ==
    ASSUME NEW n, NEW D, NEW base, NEW F, NEW iter,
           IsFold(n, D, base, F), Iterates(n, D, base, F, iter)
    PROVE  \E at : GoesThrough(n, D, base, F, at) /\ at[n] = iter[1 .. n]
<1>. USE DEF IsFold, Iterates
<1>. DEFINE S == {m \in Nat : m <= n => iter[1 .. m] \in D}
            at == [k \in 0 .. n |-> iter[1 .. k]]
<1>1. ASSUME NEW k \in 1 .. n, iter[1 .. k - 1] \in D PROVE iter[1 .. k] = F[<<iter[1 .. k - 1], k>>]
  <2>1. k \in Nat \ {0} /\ 1 .. k \in SUBSET (1 .. n)
    OBVIOUS
  <2>2. Max(1 .. k) = k /\ (1 .. k) \ {k} = 1 .. k - 1 /\ 1 .. k # {}
    BY <2>1, MaxOfInterval
  <2>3. (1 .. k) \ {Max(1 .. k)} = 1 .. k - 1
    BY <2>2
  <2>4. iter[(1 .. k) \ {Max(1 .. k)}] \in D
    BY <1>1, <2>3
  <2>5. iter[1 .. k] = F[<<iter[(1 .. k) \ {Max(1 .. k)}], Max(1 .. k)>>]
    BY <2>1, <2>2, <2>4
  <2>. QED
    BY <2>2, <2>3, <2>5
<1>2. iter[1 .. 0] = base
  <2>1. 1 .. 0 = {}
    OBVIOUS
  <2>. QED
    BY <2>1
<1>3. 0 \in S
  BY <1>2
<1>4. ASSUME NEW m \in S PROVE m + 1 \in S
  <2>. SUFFICES ASSUME m + 1 <= n PROVE iter[1 .. m + 1] \in D
    OBVIOUS
  <2>1. m \in Nat /\ m + 1 \in 1 .. n /\ (m + 1) - 1 = m /\ iter[1 .. m] \in D
    OBVIOUS
  <2>2. iter[1 .. m + 1] = F[<<iter[1 .. m], m + 1>>]
    <3>1. iter[1 .. (m + 1) - 1] \in D
      BY <2>1
    <3>. QED
      BY <1>1, <2>1, <3>1
  <2>3. <<iter[1 .. m], m + 1>> \in D \X (1 .. n)
    BY <2>1
  <2>. QED
    BY <2>2, <2>3
<1>5. S = Nat
  <2>. HIDE DEF S
  <2>1. S \subseteq Nat
    BY DEF S
  <2>. QED
    BY <1>3, <1>4, <2>1, Induction
<1>6. \A k \in 0 .. n : iter[1 .. k] \in D
  BY <1>5
<1>7. at \in [0 .. n -> D]
  BY <1>6
<1>8. \A k \in 1 .. n : at[k] = F[<<at[k - 1], k>>]
  <2>. SUFFICES ASSUME NEW k \in 1 .. n PROVE at[k] = F[<<at[k - 1], k>>]
    OBVIOUS
  <2>1. k - 1 \in 0 .. n /\ k \in 0 .. n
    OBVIOUS
  <2>2. at[k] = iter[1 .. k] /\ at[k - 1] = iter[1 .. k - 1]
    BY <2>1
  <2>. QED
    BY <1>1, <1>6, <2>1, <2>2
<1>9. at[0] = base /\ at[n] = iter[1 .. n]
  BY <1>2
<1>10. GoesThrough(n, D, base, F, at)
  <2>. HIDE DEF at
  <2>. QED
    BY <1>7, <1>8, <1>9 DEF GoesThrough
<1>. QED
  <2>. HIDE DEF at
  <2>. QED
    BY <1>9, <1>10

-----------------------------------------------------------------------------
(* Sums.                                                                   *)

\* A list is summed up from its start.
LEMMA SumSteps ==
    ASSUME NEW list \in Seq(Nat)
    PROVE  \E at \in [0 .. Len(list) -> Nat] :
              /\ at[0] = 0
              /\ \A k \in 1 .. Len(list) : at[k] = at[k - 1] + list[k]
              /\ SumOf(list) = at[Len(list)]
<1>. DEFINE n == Len(list)
            iter == CHOOSE g : g = [s \in SUBSET DOMAIN list |->
                       IF s = {} THEN 0 ELSE g[s \ {Max(s)}] + list[Max(s)]]
            F == [p \in Nat \X (1 .. n) |-> p[1] + list[p[2]]]
<1>1. SumOf(list) = iter[DOMAIN list]
  BY DEF SumOf, FoldLeft, MapThenFoldSet
<1>2. n \in Nat /\ DOMAIN list = 1 .. n /\ \A k \in 1 .. n : list[k] \in Nat
  OBVIOUS
<1>3. IsFold(n, Nat, 0, F)
  BY <1>2 DEF IsFold
<1>. DEFINE sum == SumOf(list)
<1>4. sum = iter[DOMAIN list]
  BY <1>1
<1>. HIDE DEF n, F, sum
<1>5. PICK g : g \in [SUBSET (1 .. n) -> Nat] /\ Iterates(n, Nat, 0, F, g)
  BY <1>3, FoldExists
<1>6. ASSUME NEW s \in SUBSET (1 .. n), s # {}, NEW x \in Nat
      PROVE  F[<<x, Max(s)>>] = x + list[Max(s)]
  <2>1. Max(s) \in 1 .. n
    BY <1>2, <1>6, MaxExists
  <2>. QED
    BY <2>1 DEF F
<1>7. g = [s \in SUBSET DOMAIN list |-> IF s = {} THEN 0 ELSE g[s \ {Max(s)}] + list[Max(s)]]
  <2>1. ASSUME NEW s \in SUBSET (1 .. n)
        PROVE  g[s] = IF s = {} THEN 0 ELSE g[s \ {Max(s)}] + list[Max(s)]
    <3>1. g[s \ {Max(s)}] \in Nat
      BY <1>5
    <3>. QED
      BY <1>5, <1>6, <3>1 DEF Iterates
  <2>. QED
    BY <1>2, <1>5, <2>1
<1>8. iter = [s \in SUBSET DOMAIN list |-> IF s = {} THEN 0 ELSE iter[s \ {Max(s)}] + list[Max(s)]]
  BY <1>7
<1>. HIDE DEF iter
<1>9. /\ iter[{}] = 0
      /\ \A s \in SUBSET (1 .. n) : s # {} => iter[s] = iter[s \ {Max(s)}] + list[Max(s)]
  BY <1>2, <1>8
<1>10. Iterates(n, Nat, 0, F, iter)
  BY <1>6, <1>9 DEF Iterates
<1>11. PICK at : GoesThrough(n, Nat, 0, F, at) /\ at[n] = iter[1 .. n]
  BY <1>3, <1>10, FoldSteps
<1>12. ASSUME NEW k \in 1 .. n PROVE at[k] = at[k - 1] + list[k]
  <2>1. at[k - 1] \in Nat
    BY <1>2, <1>11 DEF GoesThrough
  <2>. QED
    BY <1>11, <2>1 DEF F, GoesThrough
<1>13. sum = at[n]
  BY <1>2, <1>4, <1>11
<1>. QED
  BY <1>11, <1>12, <1>13 DEF n, sum, GoesThrough

\* The sum of nothing, and of one number more.
LEMMA SumFacts ==
    ASSUME NEW list \in Seq(Nat)
    PROVE  /\ SumOf(list) \in Nat
           /\ Len(list) = 0 => SumOf(list) = 0
           /\ \A more \in Seq(Nat) :
                 Len(more) = Len(list) + 1 /\ (\A i \in 1 .. Len(list) : more[i] = list[i])
                 => SumOf(more) = SumOf(list) + more[Len(list) + 1]
<1>. DEFINE n == Len(list)
<1>1. PICK at \in [0 .. n -> Nat] :
         at[0] = 0 /\ (\A k \in 1 .. n : at[k] = at[k - 1] + list[k]) /\ SumOf(list) = at[n]
  BY SumSteps
<1>2. n \in Nat
  OBVIOUS
<1>3. ASSUME NEW more \in Seq(Nat), Len(more) = n + 1, \A i \in 1 .. n : more[i] = list[i]
      PROVE  SumOf(more) = SumOf(list) + more[n + 1]
  <2>1. PICK bt \in [0 .. Len(more) -> Nat] :
           bt[0] = 0 /\ (\A k \in 1 .. Len(more) : bt[k] = bt[k - 1] + more[k]) /\ SumOf(more) = bt[Len(more)]
    BY SumSteps
  <2>. DEFINE S == {m \in Nat : m <= n => bt[m] = at[m]}
  <2>2. 0 \in S
    BY <1>1, <2>1
  <2>3. ASSUME NEW m \in S PROVE m + 1 \in S
    <3>. SUFFICES ASSUME m + 1 <= n PROVE bt[m + 1] = at[m + 1]
      OBVIOUS
    <3>1. m + 1 \in 1 .. n /\ m + 1 \in 1 .. n + 1 /\ (m + 1) - 1 = m /\ bt[m] = at[m]
      BY <1>2
    <3>2. at[m + 1] = at[m] + list[m + 1]
      BY <1>1, <3>1
    <3>3. bt[m + 1] = bt[m] + more[m + 1]
      BY <1>3, <2>1, <3>1
    <3>. QED
      BY <1>3, <3>1, <3>2, <3>3
  <2>. HIDE DEF S
  <2>4. S = Nat
    <3>1. S \subseteq Nat
      BY DEF S
    <3>. QED
      BY <2>2, <2>3, <3>1, Induction
  <2>5. bt[n] = at[n]
    <3>1. n \in S
      BY <1>2, <2>4
    <3>2. n \in S => (n <= n => bt[n] = at[n])
      BY DEF S
    <3>. QED
      BY <1>2, <3>1, <3>2
  <2>6. n + 1 \in 1 .. Len(more) /\ (n + 1) - 1 = n
    BY <1>2, <1>3
  <2>7. bt[n + 1] = bt[n] + more[n + 1]
    BY <2>1, <2>6
  <2>. QED
    BY <1>1, <1>3, <2>1, <2>5, <2>7
<1>. QED
  BY <1>1, <1>2, <1>3

-----------------------------------------------------------------------------
(* Grouping.                                                               *)

\* A one-to-one correspondence between the positions of two lists.
Permutes(pi, m, n) ==
    /\ pi \in [1 .. m -> 1 .. n]
    /\ \A i, j \in 1 .. m : pi[i] = pi[j] => i = j
    /\ \A k \in 1 .. n : \E i \in 1 .. m : pi[i] = k

\* Which of n things have a key, and the c-th of them; and where the elements of an
\* interleaving of the groups come from.
WithKey(key, n, k) == {i \in 1 .. n : key[i] = k}
NthWith(key, n, k, c) == Nth(WithKey(key, n, k), c)
Origin(key, n, keys, all, row, col) == [p \in 1 .. Len(all) |-> NthWith(key, n, keys[row[p]], col[p])]

\* pi takes m positions to elements that have the key of their list, at the place
\* in it that their column is.
InTurn(key, keys, row, col, pi, m) ==
    \A p \in 1 .. m : /\ key[pi[p]] = keys[row[p]]
                      /\ Cardinality({i \in 1 .. pi[p] : key[i] = key[pi[p]]}) = col[p]

\* Things grouped by their keys and then interleaved: each of them is met once.
LEMMA GroupsPermute ==
    ASSUME NEW n \in Nat, NEW key, DOMAIN key = 1 .. n,
           NEW V, NEW keys \in Seq(V), Range(keys) = Range(key),
           \A d, e \in 1 .. Len(keys) : keys[d] = keys[e] => d = e,
           NEW all, Len(all) \in Nat, NEW rows, Len(rows) = Len(keys),
           \A d \in 1 .. Len(keys) : Len(rows[d]) = Cardinality(WithKey(key, n, keys[d])),
           NEW row, NEW col, Interleaving(all, rows, row, col)
    PROVE  /\ Permutes(Origin(key, n, keys, all, row, col), Len(all), n)
           /\ InTurn(key, keys, row, col, Origin(key, n, keys, all, row, col), Len(all))
<1>. DEFINE S(d) == WithKey(key, n, keys[d])
            pi == Origin(key, n, keys, all, row, col)
            m == Len(all)
<1>1. ASSUME NEW d \in 1 .. Len(keys)
      PROVE  /\ Len(rows[d]) = Cardinality(S(d)) /\ Cardinality(S(d)) \in Nat
             /\ \A c \in 1 .. Len(rows[d]) :
                   /\ NthWith(key, n, keys[d], c) \in 1 .. n
                   /\ key[NthWith(key, n, keys[d], c)] = keys[d]
             /\ \A b, c \in 1 .. Len(rows[d]) :
                   NthWith(key, n, keys[d], b) = NthWith(key, n, keys[d], c) => b = c
             /\ \A i \in S(d) : \E c \in 1 .. Len(rows[d]) : NthWith(key, n, keys[d], c) = i
  <2>1. S(d) \in SUBSET Nat /\ IsFiniteSet(S(d)) /\ S(d) \subseteq 1 .. n
    <3>1. IsFiniteSet(1 .. n)
      BY FS_Interval
    <3>2. S(d) \in SUBSET (1 .. n)
      BY DEF WithKey
    <3>3. S(d) \in SUBSET Nat
      BY <3>2
    <3>. HIDE DEF S
    <3>4. IsFiniteSet(S(d))
      BY <3>1, <3>2, FS_Subset
    <3>. QED
      BY <3>2, <3>3, <3>4
  <2>2. Len(rows[d]) = Cardinality(S(d))
    OBVIOUS
  <2>3. \A c : NthWith(key, n, keys[d], c) = Nth(S(d), c)
    BY DEF NthWith
  <2>4. \A i \in S(d) : key[i] = keys[d]
    BY DEF WithKey
  <2>. HIDE DEF S
  <2>5. /\ Cardinality(S(d)) \in Nat
        /\ \A i \in 1 .. Cardinality(S(d)) : Nth(S(d), i) \in S(d)
        /\ \A i, j \in 1 .. Cardinality(S(d)) : Nth(S(d), i) = Nth(S(d), j) => i = j
        /\ \A k \in S(d) : \E i \in 1 .. Cardinality(S(d)) : Nth(S(d), i) = k
    BY <2>1, NthFacts
  <2>. QED
    BY <2>1, <2>2, <2>3, <2>4, <2>5
<1>2. ASSUME NEW p \in 1 .. m
      PROVE  /\ row[p] \in 1 .. Len(keys) /\ col[p] \in 1 .. Len(rows[row[p]])
             /\ pi[p] = NthWith(key, n, keys[row[p]], col[p])
             /\ pi[p] \in 1 .. n /\ key[pi[p]] = keys[row[p]]
  <2>1. row[p] \in 1 .. Len(keys) /\ col[p] \in 1 .. Len(rows[row[p]])
    BY DEF Interleaving
  <2>. QED
    BY <1>1, <2>1 DEF Origin
<1>. HIDE DEF pi
<1>3. pi \in [1 .. m -> 1 .. n]
  <2>1. pi = [p \in 1 .. m |-> pi[p]]
    BY DEF pi, Origin
  <2>. QED
    BY <1>2, <2>1
<1>4. ASSUME NEW p \in 1 .. m, NEW q \in 1 .. m, pi[p] = pi[q] PROVE p = q
  <2>1. row[p] = row[q]
    <3>1. keys[row[p]] = keys[row[q]]
      BY <1>2, <1>4
    <3>. QED
      BY <1>2, <3>1
  <2>2. col[p] = col[q]
    <3>1. /\ row[p] \in 1 .. Len(keys)
          /\ col[p] \in 1 .. Len(rows[row[p]]) /\ col[q] \in 1 .. Len(rows[row[p]])
      BY <1>2, <2>1
    <3>2. NthWith(key, n, keys[row[p]], col[p]) = NthWith(key, n, keys[row[p]], col[q])
      BY <1>2, <1>4, <2>1
    <3>. QED
      BY <1>1, <3>1, <3>2
  <2>. QED
    BY <2>1, <2>2, InterleavedOnce
<1>5. ASSUME NEW k \in 1 .. n PROVE \E p \in 1 .. m : pi[p] = k
  <2>1. key[k] \in Range(keys)
    BY DEF Range
  <2>2. PICK d \in 1 .. Len(keys) : keys[d] = key[k]
    BY <2>1 DEF Range
  <2>3. k \in S(d)
    BY <2>2 DEF WithKey
  <2>4. PICK c \in 1 .. Len(rows[d]) : NthWith(key, n, keys[d], c) = k
    BY <1>1, <2>3
  <2>5. PICK p \in 1 .. m : row[p] = d /\ col[p] = c
    BY <2>4 DEF Interleaving
  <2>. QED
    BY <1>2, <2>4, <2>5
<1>6. Permutes(pi, m, n)
  BY <1>3, <1>4, <1>5 DEF Permutes
<1>7. InTurn(key, keys, row, col, pi, m)
  <2>. SUFFICES ASSUME NEW p \in 1 .. m
                PROVE  /\ key[pi[p]] = keys[row[p]]
                       /\ Cardinality({i \in 1 .. pi[p] : key[i] = key[pi[p]]}) = col[p]
    BY DEF InTurn
  <2>. DEFINE T == WithKey(key, n, keys[row[p]])
  <2>1. /\ col[p] \in 1 .. Cardinality(T) /\ pi[p] = Nth(T, col[p])
        /\ pi[p] \in 1 .. n /\ key[pi[p]] = keys[row[p]]
    BY <1>1, <1>2 DEF NthWith
  <2>2. T \in SUBSET Nat /\ IsFiniteSet(T) /\ \A i : i \in T <=> i \in 1 .. n /\ key[i] = keys[row[p]]
    <3>1. IsFiniteSet(1 .. n)
      BY FS_Interval
    <3>2. T \in SUBSET (1 .. n) /\ \A i : i \in T <=> i \in 1 .. n /\ key[i] = keys[row[p]]
      BY DEF WithKey
    <3>3. T \in SUBSET Nat
      BY <3>2
    <3>. HIDE DEF T
    <3>. QED
      BY <3>1, <3>2, <3>3, FS_Subset
  <2>. HIDE DEF T
  <2>3. Cardinality({i \in T : i <= Nth(T, col[p])}) = col[p]
    BY <2>1, <2>2, NthFacts
  <2>4. {i \in T : i <= Nth(T, col[p])} = {i \in 1 .. pi[p] : key[i] = key[pi[p]]}
    BY <2>1, <2>2
  <2>. QED
    BY <2>1, <2>3, <2>4
<1>. QED
  BY <1>6, <1>7 DEF pi
=============================================================================
