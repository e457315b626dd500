---------------------------- MODULE MCUpdateSync ----------------------------
(***************************************************************************)
(* Instances of UpdateSync for TLC.                                        *)
(***************************************************************************)
EXTENDS UpdateSync

Register0 == [op |-> "register", ranks |-> {}]
Gather0 == [op |-> "gather", ranks |-> {}]
Unregister0 == [op |-> "unregister", ranks |-> {}]
UpdateOf(rs) == [op |-> "update", ranks |-> rs]

\* Two checkpoints, one after the other, each sent by broadcast and by P2P.
MixedScript ==
    <<Register0, Gather0, UpdateOf({}), UpdateOf({1, 2}), UpdateOf({}), Unregister0,
      Register0, Gather0, UpdateOf({0}), UpdateOf({}), UpdateOf({1, 2}), Unregister0>>

\* A P2P update that fails, then its retry, then a broadcast.
RetryScript == <<Register0, Gather0, UpdateOf({1, 2}), UpdateOf({1, 2}), UpdateOf({})>>
=============================================================================
