----------------------------- MODULE WindowStack -----------------------------
(***************************************************************************)
(* What the window list of libxcwm is to the rest of the library: the      *)
(* windows under management, the newest first, each XID at most once, the  *)
(* root window for ever at the end.                                        *)
(***************************************************************************)
EXTENDS Naturals, Sequences

CONSTANTS Ids, Root
VARIABLE stack

Without(s, i) ==
  [j \in 1 .. Len(s) - 1 |-> IF j < i THEN s[j] ELSE s[j + 1]]

Init == stack = <<Root>>

Push(id) == /\ \A i \in DOMAIN stack : stack[i] # id
            /\ stack' = <<id>> \o stack

Drop(id) == \E i \in DOMAIN stack : /\ stack[i] = id
                                    /\ stack' = Without(stack, i)

Next == \E id \in Ids : Push(id) \/ Drop(id)
Spec == Init /\ [][Next]_stack
=============================================================================
