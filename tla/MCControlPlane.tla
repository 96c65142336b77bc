--------------------------- MODULE MCControlPlane ---------------------------
(* ControlPlane on small id spaces.  Spaces are model values that no        *)
(* property tells apart, so their permutations are symmetries.              *)
EXTENDS ControlPlane, TLC

SpaceSymmetry == Permutations(Spaces)
=============================================================================
