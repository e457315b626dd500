--------------------------- MODULE MCUpdateBuffer ---------------------------
(***************************************************************************)
(* UpdateBuffer for TLC: addresses differ only in that they differ.        *)
(***************************************************************************)
EXTENDS UpdateBuffer, TLC

Addresses == Permutations(Addr)
=============================================================================
