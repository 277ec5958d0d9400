------------------------------ MODULE MCSizing ------------------------------
(* Instance of Sizing for TLC. *)
EXTENDS Sizing

\* Every combination of flags with a few values of each field.
MCHints ==
  {[flags |-> f, min |-> m, base |-> b, max |-> <<8, 9>>, inc |-> n,
    minAspect |-> a, maxAspect |-> c] :
      f \in SUBSET {"min", "base", "max", "inc", "aspect"},
      m \in {<<2, 5>>, <<1, 3>>}, b \in {<<0, 0>>, <<1, 2>>},
      n \in {<<3, 2>>, <<0, 4>>},
      a \in {<<1, 2>>, <<1, 1>>}, c \in {<<1, 1>>, <<3, 2>>}}
MCSizes == {1, 4, 7, 8, 11}
=============================================================================
