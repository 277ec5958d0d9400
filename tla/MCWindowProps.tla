---------------------------- MODULE MCWindowProps ----------------------------
(* Instances of WindowProps for TLC. *)
EXTENDS WindowProps, TLC

MCTypeLists == {<<"MENU">>, <<"ODD", "DOCK", "MENU">>, <<"ODD">>}
MCKnownTypes == {"NORMAL", "DIALOG", "MENU", "DOCK"}
Symmetry == Permutations(Windows) \cup Permutations(Names)
=============================================================================
