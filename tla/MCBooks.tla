------------------------------ MODULE MCBooks -------------------------------
(***************************************************************************)
(* Instances of Books for TLC.                                             *)
(***************************************************************************)
EXTENDS Books, TLC

\* Of the half cents of this instance, those that IEEE doubles round down: 20.10 * 5 / 100 and
\* 10.05 * 10 / 100, times 100, are 100.49999999999999; 10.05 * 10 is 100.5.
SplitsRoundedDown == {<<2010, 5>>, <<1005, 10>>}
FeesRoundedDown   == {}

Symmetry == Permutations(Rides)
=============================================================================
