-------------------------------- MODULE Lists --------------------------------
(***************************************************************************)
(* What the models do with sorted numbers and with lists: Python's sorted, *)
(* its comprehensions with a condition, and its max.                       *)
(***************************************************************************)
EXTENDS Integers, Sequences, FiniteSets, SequencesExt, FiniteSetsExt, Functions

\* The i-th of a set of numbers, in order.
Nth(S, i) == CHOOSE n \in S : Cardinality({m \in S : m <= n}) = i

\* The numbers of a set, in order.
InOrder(S) == [i \in 1 .. Cardinality(S) |-> Nth(S, i)]

\* The elements of a list (or of a function on numbers) at the places in S, in order.
Picked(list, S) == [i \in 1 .. Cardinality(S) |-> list[Nth(S, i)]]

\* The elements of a list, each where it first occurs.
FirstSeen(list) ==
    Picked(list, {i \in DOMAIN list : \A j \in DOMAIN list : j < i => list[j] # list[i]})

\* The largest number in a list, 0 if there is none.
MaxOf(list) == Max({0} \cup ToSet(list))

\* What the lists that are long enough have at one position.
Column(rows, col) ==
    FlattenSeq([d \in DOMAIN rows |-> IF col <= Len(rows[d]) THEN <<rows[d][col]>> ELSE <<>>])

\* Lists of lists taken a column at a time: the first of each, the second of
\* each that has one, and so on.
Interleaved(rows) ==
    FlattenSeq([col \in 1 .. MaxOf([d \in DOMAIN rows |-> Len(rows[d])]) |-> Column(rows, col)])

SumOf(list) == FoldLeft(+, 0, list)
=============================================================================
