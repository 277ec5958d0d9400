------------------------------- MODULE KeyMap -------------------------------
(***************************************************************************)
(* keymap.c: the X keyboard map and modifier map made from the keyboard    *)
(* layout of the Mac.  A layout gives, for each key and each of the four   *)
(* states none, shift, option and option+shift, the character and whether  *)
(* it is a dead key; NoChar stands for an error and for no character.      *)
(***************************************************************************)
EXTENDS Keysym, FiniteSets

CONSTANTS Keycodes    \* the key codes of the Mac looked at

ASSUME KeycodesAssumption == Keycodes \subseteq 0 .. 247

NoSymbol == 0
NoChar == 0
FunctionKey == 16     \* what layouts give for the function keys
MinKeycode == 8       \* XkbMinLegalKeyCode
KeysPerModifier == 2
Level == 1 .. 4

Shift_L == 65505
Shift_R == 65506
Control_L == 65507
Control_R == 65508
Caps_Lock == 65509
Meta_L == 65511
Meta_R == 65512
Alt_L == 65513
Alt_R == 65514
Num_Lock == 65407
XK_F(n) == 65469 + n
XK_KP(c) == 65408 + c  \* XK_KP_0 and its like, of a digit or sign
XK_KP_Enter == 65421

\* A table of the code, given by its rows.
Table(rows) == [key \in {row[1] : row \in rows} |-> (CHOOSE row \in rows : row[1] = key)[2]]

\* The keys most layouts give no character.
KnownKeyRows == {
  <<55, Meta_L>>, <<56, Shift_L>>, <<57, Caps_Lock>>, <<58, Alt_L>>, <<59, Control_L>>,
  <<60, Shift_R>>, <<61, Alt_R>>, <<62, Control_R>>, <<63, Meta_R>>,
  <<122, XK_F(1)>>, <<120, XK_F(2)>>, <<99, XK_F(3)>>, <<118, XK_F(4)>>, <<96, XK_F(5)>>,
  <<97, XK_F(6)>>, <<98, XK_F(7)>>, <<100, XK_F(8)>>, <<101, XK_F(9)>>, <<109, XK_F(10)>>,
  <<103, XK_F(11)>>, <<111, XK_F(12)>>, <<105, XK_F(13)>>, <<107, XK_F(14)>>, <<113, XK_F(15)>>}
KnownKeys == Table(KnownKeyRows)

\* The character a key of the numeric pad gives; the keypad keysym of a character.
KnownNumericRows == {
  <<65, 46>>, <<67, 42>>, <<69, 43>>, <<75, 47>>, <<76, Direct + 3>>, <<78, 45>>, <<81, 61>>,
  <<82, 48>>, <<83, 49>>, <<84, 50>>, <<85, 51>>, <<86, 52>>, <<87, 53>>, <<88, 54>>,
  <<89, 55>>, <<91, 56>>, <<92, 57>>}
KnownNumericKeys == Table(KnownNumericRows)
Keypad(normal) == IF normal = Direct + 3 THEN XK_KP_Enter ELSE XK_KP(normal)
Blacklist == {66, 70, 72, 77}

\* dead_keys: the dead keysyms of accents, by the keysym of the accent.
DeadKeyRows == {
  <<96, 65104>>, <<39, 65105>>, <<180, 65105>>, <<Direct + 900, 65105>>, <<94, 65106>>,
  <<Direct + 710, 65106>>, <<126, 65107>>, <<Direct + 732, 65107>>, <<175, 65108>>,
  <<418, 65109>>, <<511, 65110>>, <<168, 65111>>, <<Direct + 730, 65112>>, <<445, 65113>>,
  <<439, 65114>>, <<184, 65115>>, <<434, 65116>>, <<Direct + 617, 65117>>,
  <<Direct + 748, 65118>>, <<Direct + 803, 65120>>, <<Direct + 777, 65121>>,
  <<Direct + 795, 65122>>}
DeadKeys == Table(DeadKeyRows)
IsDead(s) == \E a \in DOMAIN DeadKeys : DeadKeys[a] = s
MakeDeadKey(in) == IF in \in DOMAIN DeadKeys THEN DeadKeys[in] ELSE in

----------------------------------------------------------------------------
(* XtoQReadSystemKeymap, key by key *)

\* UCKeyTranslate has been asked for one key in one state.
Glyph(t, reversed) ==
  LET keysym == FromUcs(reversed, t.char) IN
  IF t.char \in {NoChar, FunctionKey} THEN NoSymbol
  ELSE IF t.dead THEN MakeDeadKey(keysym) ELSE keysym

Clear(k, levels, condition) ==
  [j \in Level |-> IF condition /\ j \in levels THEN NoSymbol ELSE k[j]]

\* Glyphs that repeat an earlier one are left out, step by step.
Normalise(k) ==
  LET k1 == Clear(k, {4}, k[4] = k[3])
      k2 == Clear(k1, {2}, k1[2] = k1[1])
      k3 == Clear(k2, {3, 4}, k2[1] = k2[3] /\ k2[2] = k2[4])
  IN Clear(k3, {4}, k3[4] = k3[1] /\ k3[3] = k3[2] /\ k3[3] = NoSymbol)

NoGlyphs == [j \in Level |-> NoSymbol]

FillMissing(i, k) ==
  IF k = NoGlyphs /\ i \in DOMAIN KnownKeys THEN [k EXCEPT ![1] = KnownKeys[i]] ELSE k

\* Seeded fault: the keypad keysym replaces whatever the layout gives.
FixKeypad_Always(i, k) ==
  IF i \in DOMAIN KnownNumericKeys
  THEN [k EXCEPT ![1] = Keypad(KnownNumericKeys[i])] ELSE k

FixKeypad(i, k) ==
  IF i \in DOMAIN KnownNumericKeys /\ k[1] = KnownNumericKeys[i]
  THEN [k EXCEPT ![1] = Keypad(@)] ELSE k

DropBlacklisted(i, k) == IF i \in Blacklist THEN NoGlyphs ELSE k

ReadSystemKeymap(layout, reversed) ==
  [i \in Keycodes |->
     DropBlacklisted(i, FixKeypad(i, FillMissing(i,
       Normalise([j \in Level |-> Glyph(layout[i][j], reversed)]))))]

BlankMap == [i \in Keycodes |-> NoGlyphs]

----------------------------------------------------------------------------
(* XtoQBuildModifierMaps: the keys of each modifier, as X keycodes *)

ModifierKeysyms ==
  [Shift |-> {Shift_L, Shift_R}, Lock |-> {Caps_Lock},
   Control |-> {Control_L, Control_R}, Mod1 |-> {Alt_L, Alt_R},
   Mod2 |-> {Meta_L, Meta_R}, Mod3 |-> {Num_Lock}]
ModifierNames == DOMAIN ModifierKeysyms

\* The table of keysyms has neither dead keys nor modifiers.
ASSUME PlainKeysyms ==
  \A i \in 1 .. Len(KeysymTab) :
    /\ ~IsDead(KeysymTab[i].keysym)
    /\ \A m \in ModifierNames : KeysymTab[i].keysym \notin ModifierKeysyms[m]

\* Seeded fault: the key codes of the Mac go into the modifier map.
ModKeymap_MacCodes(keyMap) ==
  [m \in ModifierNames |->
     LET keys == {i \in Keycodes : keyMap[i][1] \in ModifierKeysyms[m]}
     IN {i : i \in {k \in keys :
           Cardinality({l \in keys : l < k}) < KeysPerModifier}}]

\* Only the first two keys of each modifier have room in the map.
ModKeymap(keyMap) ==
  [m \in ModifierNames |->
     LET keys == {i \in Keycodes : keyMap[i][1] \in ModifierKeysyms[m]}
     IN {MinKeycode + i : i \in {k \in keys :
           Cardinality({l \in keys : l < k}) < KeysPerModifier}}]

NoModifiers == [m \in ModifierNames |-> {}]

----------------------------------------------------------------------------
(* The X server's side: what an entry of the map means in each of the four  *)
(* states.  An empty second group is the first; a group of one letter is    *)
(* its two cases, a group of one other glyph has it twice.  What the second *)
(* group means only matters where a key is Mode_switch, which the code has  *)
(* left out (#if 0): with the map of the program, states 3 and 4 are never   *)
(* typed.  Cases are those of ASCII; other letters count as other glyphs.   *)

Lower(s) == IF s \in 65 .. 90 THEN s + 32 ELSE s
Upper(s) == IF s \in 97 .. 122 THEN s - 32 ELSE s
IsLetter(s) == Lower(s) # Upper(s)

Shown(k, j) ==
  LET g == IF j \in {3, 4} /\ ~(k[3] = NoSymbol /\ k[4] = NoSymbol)
           THEN <<k[3], k[4]>> ELSE <<k[1], k[2]>>
      shifted == j \in {2, 4}
  IN IF g[2] # NoSymbol THEN g[IF shifted THEN 2 ELSE 1]
     ELSE IF shifted THEN Upper(g[1])
     ELSE Lower(g[1])

\* Leaving out repeated glyphs never shows another glyph than the layout has,
\* except for the case of a letter: the layout's letter appears in the other
\* case only if the layout has no pair of its two cases there. (A lone capital
\* is shown as its small letter, and the other way round.)
GlyphsKept(k) ==
  \A j \in Level :
    LET shown == Shown(Normalise(k), j)
        pair == IF j \in {1, 2} THEN <<k[1], k[2]>> ELSE <<k[3], k[4]>>
    IN k[j] # NoSymbol =>
         \/ shown = k[j]
         \/ /\ IsLetter(k[j]) /\ Lower(shown) = Lower(k[j])
            /\ ~(Lower(pair[1]) = pair[1] /\ Upper(pair[1]) = pair[2])
=============================================================================
