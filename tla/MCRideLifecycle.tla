-------------------------- MODULE MCRideLifecycle --------------------------
(***************************************************************************)
(* Instances of RideLifecycle for TLC.                                     *)
(***************************************************************************)
EXTENDS RideLifecycle, TLC

Symmetry == Permutations(Drivers) \cup Permutations(Requests)
=============================================================================
