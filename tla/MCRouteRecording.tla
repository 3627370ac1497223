-------------------------- MODULE MCRouteRecording --------------------------
(***************************************************************************)
(* Instances of RouteRecording for TLC.                                    *)
(***************************************************************************)
EXTENDS RouteRecording, TLC

Symmetry == Permutations(Slots)
=============================================================================
