----------------------------- MODULE MCRegistry -----------------------------
(***************************************************************************)
(* Instances of Registry for TLC.                                          *)
(***************************************************************************)
EXTENDS Registry, TLC

CONSTANTS s1, b1, f1, f2    \* a small region, a big one, and two files

FileRegions == {f1, f2}
Sizes == [b \in Regions |-> IF b = b1 THEN 2 ELSE 1]

TwoSizes == {s1, b1} \cup FileRegions

\* A rank that has nothing of the checkpoint, and checkpoints that need a small
\* buffer, a big one, or both.
UpToTwo == {<<>>, <<1>>, <<2>>, <<1, 2>>}

\* Nothing depends on which checkpoint or which file it is.
Alike == Permutations(Names) \cup Permutations(FileRegions)
=============================================================================
