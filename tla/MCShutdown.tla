------------------------------ MODULE MCShutdown ------------------------------
(* Instance of ContextLife for TLC. *)
EXTENDS ContextLife
=============================================================================
