----------------------------- MODULE MCGeometry -----------------------------
(* Instance of Geometry for TLC. *)
EXTENDS Geometry, TLC

Symmetry == Permutations(Windows)
=============================================================================
