----------------------------- MODULE MCKeyboard -----------------------------
(* Instance of Keyboard for TLC. *)
EXTENDS Keyboard, TLC

\* Shift has two keys, Command one.
MCMaskOf == (55 :> "Command") @@ (56 :> "Shift") @@ (60 :> "Shift")

\* A few rows of the table, among them two for one character and one for a
\* character that Latin-1 takes first.
Row(keysym, ucs) == [keysym |-> keysym, ucs |-> ucs]
MCTable == <<Row(434, 731), Row(2218, 8834), Row(2979, 60), Row(3034, 8834), Row(65361, 28)>>

\* Every table of up to four rows with these keysyms and characters.
MCSmallTabs ==
  UNION {{[i \in 1 .. Len(s) |-> Row(s[i], f[s[i]])] : f \in [ToSet(s) -> {28, 60, 731, 8834}]} :
           s \in {t \in BoundedSeq({257, 258, 260, 263}, 4) :
                    \A i \in 1 .. Len(t) - 1 : t[i] < t[i + 1]}}

\* A layout that gives each key the characters named, of which 710 and 731
\* are dead keys.
Same(c) == <<c, c, c, c>>
Layout(chars) ==
  [i \in Keycodes |-> [j \in Level |->
     LET c == IF i \in DOMAIN chars THEN chars[i][j] ELSE NoChar
     IN [char |-> c, dead |-> c \in {710, 731}]]]
MCLayouts ==
  (1 :> Layout((12 :> <<97, 65, 8834, 731>>) @@ (13 :> <<710, 60, 710, 28>>) @@ (82 :> Same(48)))) @@
  (2 :> Layout((12 :> <<49, 33, 49, 49>>) @@ (56 :> Same(97)) @@ (70 :> Same(43)) @@ (82 :> Same(49))))

\* Before the program runs, the server has the map of another keyboard, on which
\* the key of code 12 is Shift.
MCServerMap == [i \in Keycodes |-> [j \in Level |-> IF i = 12 /\ j = 1 THEN Shift_R ELSE NoSymbol]]
MCServerMods == [m \in ModifierNames |-> IF m = "Shift" THEN {12 + MinKeycode} ELSE {}]

\* What TLC also evaluates: the search and the normal form on every small input.
ASSUME KeysymTables ==
  \A tab \in MCSmallTabs :
    /\ IsTable(tab)
    /\ \A keysym \in 256 .. 265 : SearchFinds(tab, keysym)
    /\ \A r \in Reversals(tab), ucs \in {e.ucs : e \in ToSet(tab)} \cup {65, 300} :
         RoundTrip(tab, r, ucs)
ASSUME NormalForm ==
  \A k \in [Level -> {97, 65, 49, 33, NoSymbol}] : GlyphsKept(k)
=============================================================================
