---------------------------- MODULE MCDiscounts -----------------------------
(***************************************************************************)
(* Instances of Discounts for TLC.                                         *)
(***************************************************************************)
EXTENDS Discounts, TLC

Symmetry == Permutations(People) \cup Permutations(Rides)

CodeWorth == {12}
=============================================================================
