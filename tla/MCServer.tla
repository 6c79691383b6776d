------------------------------ MODULE MCServer ------------------------------
(***************************************************************************)
(* Server on small instances.                                              *)
(***************************************************************************)
EXTENDS Server, TLC

CONSTANTS v1, v2

Conversations == {v1, v2}
OneConversation == {v1}
Symmetry == Permutations(Conversations)
=============================================================================
