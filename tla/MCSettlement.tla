--------------------------- MODULE MCSettlement ----------------------------
(***************************************************************************)
(* Instances of Settlement for TLC.                                        *)
(***************************************************************************)
EXTENDS Settlement, TLC

Symmetry == Permutations(Slots) \cup Permutations(Intents)
=============================================================================
