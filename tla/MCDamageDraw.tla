---------------------------- MODULE MCDamageDraw ----------------------------
(* Instances of DamageDraw for TLC. *)
EXTENDS DamageDraw, TLC
=============================================================================
