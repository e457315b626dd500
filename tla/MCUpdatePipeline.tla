-------------------------- MODULE MCUpdatePipeline --------------------------
(***************************************************************************)
(* Instances of UpdatePipeline for TLC.                                    *)
(***************************************************************************)
EXTENDS UpdatePipeline

\* Two ranks in one inference group, three buckets in two rounds:
\* rank 0 broadcasts buckets 0 and 2, rank 1 broadcasts bucket 1.
TwoRanks == 0..1
TwoLeaders == [r \in TwoRanks |-> 0]
TwoReceivers == [g \in 0..2 |-> g % 2]
TwoRounds == [g \in 0..2 |-> g \div 2]

\* Three ranks in two inference groups ({0, 1} and {2}), four buckets: rank 1
\* broadcasts three of them, rank 2 the other, rank 0 none.
ThreeRanks == 0..2
ThreeLeaders == [r \in ThreeRanks |-> IF r = 2 THEN 2 ELSE 0]
ThreeReceivers == [g \in 0..3 |-> IF g = 1 THEN 2 ELSE 1]
ThreeRounds == [g \in 0..3 |-> IF g < 2 THEN 0 ELSE g - 1]
=============================================================================
