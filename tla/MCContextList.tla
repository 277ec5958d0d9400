---------------------------- MODULE MCContextList ----------------------------
(* Instances of ContextList for TLC. *)
EXTENDS ContextList, TLC

Symmetry == Permutations(Ids) \cup Permutations(Nodes) \cup Permutations(Objs)
=============================================================================
