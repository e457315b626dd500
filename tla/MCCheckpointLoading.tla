------------------------- MODULE MCCheckpointLoading -------------------------
(***************************************************************************)
(* Instances of CheckpointLoading for TLC.                                 *)
(***************************************************************************)
EXTENDS CheckpointLoading

CONSTANTS wq, norm      \* two parameters

Weight(dim, rows, cols) == [dim |-> dim, shape |-> <<rows, cols>>]

\* What a file may hold: a shard of a parameter cut along dim, perhaps one of
\* another size, or a parameter that is the same in every file, or both.
Contents(dim) ==
    {wq :> Weight(dim, 2, 2), wq :> Weight(dim, 1, 2), norm :> Weight(-1, 1, 3),
     wq :> Weight(dim, 2, 2) @@ norm :> Weight(-1, 1, 3)}

FileOf(type, tp, weights) == [type |-> type, tp |-> tp, weights |-> weights]

\* One to three files of tp ranks up to 2, not all of them there and some twice,
\* or a safetensors file among them.
Sharded(dim) ==
    BoundedSeq({FileOf("npy", k, c) : k \in 0 .. 2, c \in Contents(dim)}
                   \cup {FileOf("safetensors", 0, wq :> Weight(-1, 2, 2))}, 3)

\* Up to seven safetensors files.
Plain == {[i \in 1 .. n |-> FileOf("safetensors", 0, i :> Weight(-1, 1, 3))] : n \in 1 .. 7}

SmallCheckpoints == Sharded(0) \cup Sharded(1) \cup Plain
=============================================================================
