-------------------------- MODULE MCProcessGroups --------------------------
(***************************************************************************)
(* An instance of ProcessGroups for TLC.                                   *)
(***************************************************************************)
EXTENDS ProcessGroups

Gather0 == [op |-> "gather", ranks |-> <<>>, sources |-> <<>>]
Update(ranks, sources) == [op |-> "update", ranks |-> ranks, sources |-> sources]

\* Broadcasts, and P2P updates whose ranks are not given in order, one of them of
\* everybody; a group with rank 2 follows one without it.
MixedScript ==
    <<Gather0, Update(<<>>, <<2, 0>>), Update(<<1, 0>>, <<1>>), Gather0,
      Update(<<2, 1>>, <<2, 1>>), Update(<<2, 0, 1>>, <<1, 2>>)>>

\* Objects of different lengths.
Bytes == << <<7, 6, 5>>, <<4>>, <<8, 9>> >>
=============================================================================
