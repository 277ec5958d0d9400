------------------------------ MODULE Keyboard ------------------------------
(***************************************************************************)
(* The keyboard as a whole: the user types in XtoQ (KeyInput) while the    *)
(* keymap program (keymap_main.c), a process of its own each time it is    *)
(* run, reads the layout of the Mac and installs it in the X server with   *)
(* the two requests of XtoQKeyboardReloadHandler.                          *)
(***************************************************************************)
EXTENDS KeyInput, KeyMap

CONSTANTS Layouts,     \* keyboard layouts of the Mac, by name
          NoLayout,    \* stands for a layout that can't be read
          ServerMap,   \* the maps the X server starts with
          ServerMods,
          MaxEvents,   \* bound: events of the user, runs of the program among them
          MaxRuns      \* bound: runs of the keymap program

ASSUME LayoutsAssumption ==
  /\ NoLayout \notin DOMAIN Layouts
  /\ \A l \in DOMAIN Layouts :
       Layouts[l] \in [Keycodes -> [Level -> [char : 0 .. Max16, dead : BOOLEAN]]]

ASSUME ServerAssumption ==
  /\ ServerMap \in [Keycodes -> [Level -> Nat]]
  /\ ServerMods \in [ModifierNames -> SUBSET Nat]

\* The modifier of X that a flag of AppKit is for.
XModifier == [Shift |-> "Shift", Control |-> "Control", Alternate |-> "Mod1",
              Command |-> "Mod2"]

\* The codes of modifier keys are the known ones, each with the flag of its
\* keysym, and no other key has them.
ASSUME ModifiersAssumption ==
  /\ Modifiers \subseteq Keycodes \cap DOMAIN KnownKeys
  /\ \A m \in Modifiers, f \in DOMAIN XModifier :
       MaskOf[m] = f <=> KnownKeys[m] \in ModifierKeysyms[XModifier[f]]
  /\ \A k \in Keys \cap DOMAIN KnownKeys, m \in ModifierNames :
       KnownKeys[k] \notin ModifierKeysyms[m]

VARIABLES
  reversed,    \* the table qsort leaves, the same at every run
  tool,        \* how far the program has got: idle, read or mapped
  layout,      \* the layout it has read
  keyMap, modKeymap,        \* keyInfo of the program
  serverMap, serverMods,    \* the maps of the X server
  mapStatus,   \* how the run's request for the key map ended, none before that
  status,      \* and that for the modifier map; neither changes what is done
  events, runs \* the bounds' counters

toolVars == <<reversed, tool, layout, keyMap, modKeymap, mapStatus, status, runs>>
serverVars == <<serverMap, serverMods>>
kbVars == <<vars, toolVars, serverVars, events>>

\* XtoQKeymapReSync in a new process, whose keyInfo is zero: if the layout
\* can't be read the blank maps are installed all the same.
ReSync(l) ==
  /\ tool = "idle"
  /\ runs < MaxRuns /\ runs' = runs + 1
  /\ events < MaxEvents /\ events' = events + 1
  /\ tool' = "read" /\ layout' = l
  /\ mapStatus' = "none" /\ status' = "none"
  /\ keyMap' = IF l = NoLayout THEN BlankMap ELSE ReadSystemKeymap(Layouts[l], reversed)
  /\ modKeymap' = IF l = NoLayout THEN NoModifiers ELSE ModKeymap(keyMap')
  /\ UNCHANGED <<vars, serverVars, reversed>>

\* An error is printed; the modifier map is sent all the same.
ChangeKeyboardMapping ==
  /\ tool = "read"
  /\ tool' = "mapped"
  /\ \/ mapStatus' = "Success" /\ serverMap' = keyMap
     \/ mapStatus' = "Error" /\ UNCHANGED serverMap
  /\ UNCHANGED <<vars, reversed, layout, keyMap, modKeymap, serverMods, status, events, runs>>

\* The server refuses while a key of a modifier that would change is down.
Busy(mods) ==
  \E m \in ModifierNames :
    mods[m] # serverMods[m] /\ (mods[m] \cup serverMods[m]) \cap down # {}

\* Seeded fault: the new keys of a modifier are added to the old ones.
SetModifierMapping_Adds ==
  /\ tool = "mapped"
  /\ tool' = "idle" /\ keyMap' = BlankMap /\ modKeymap' = NoModifiers
  /\ \/ status' = "Error" /\ UNCHANGED serverMods
     \/ Busy(modKeymap) /\ status' = "Busy" /\ UNCHANGED serverMods
     \/ /\ ~Busy(modKeymap) /\ status' = "Success"
        /\ serverMods' = [m \in ModifierNames |-> serverMods[m] \cup modKeymap[m]]
  /\ UNCHANGED <<vars, reversed, layout, serverMap, mapStatus, events, runs>>

\* An error, in place of the reply, is printed; a reply is freed without a look at
\* its status.  The program ends.
SetModifierMapping ==
  /\ tool = "mapped"
  /\ tool' = "idle" /\ keyMap' = BlankMap /\ modKeymap' = NoModifiers
  /\ \/ status' = "Error" /\ UNCHANGED serverMods
     \/ Busy(modKeymap) /\ status' = "Busy" /\ UNCHANGED serverMods
     \/ ~Busy(modKeymap) /\ status' = "Success" /\ serverMods' = modKeymap
  /\ UNCHANGED <<vars, reversed, layout, serverMap, mapStatus, events, runs>>

----------------------------------------------------------------------------
KbInit ==
  /\ Init
  /\ reversed \in Reversals(KeysymTab)
  /\ tool = "idle" /\ layout = NoLayout
  /\ mapStatus = "none" /\ status = "none"
  /\ keyMap = BlankMap /\ modKeymap = NoModifiers
  /\ serverMap = ServerMap /\ serverMods = ServerMods
  /\ events = 0 /\ runs = 0

\* XtoQ
Xtoq ==
  /\ \/ UserStep /\ events < MaxEvents /\ events' = events + 1
     \/ RunBlock /\ UNCHANGED events
  /\ UNCHANGED <<toolVars, serverVars>>

KbNext ==
  \/ Xtoq
  \/ \E l \in DOMAIN Layouts \cup {NoLayout} : ReSync(l)
  \/ ChangeKeyboardMapping \/ SetModifierMapping

KbSpec == KbInit /\ [][KbNext]_kbVars

----------------------------------------------------------------------------
(* Properties *)

KbTypeOK ==
  /\ TypeOK
  /\ tool \in {"idle", "read", "mapped"} /\ layout \in DOMAIN Layouts \cup {NoLayout}
  /\ keyMap \in [Keycodes -> [Level -> Nat]]
  /\ modKeymap \in [ModifierNames -> SUBSET Nat]
  /\ serverMap \in [Keycodes -> [Level -> Nat]]
  /\ serverMods \in [ModifierNames -> SUBSET Nat]
  /\ mapStatus \in {"none", "Error", "Success"}
  /\ status \in {"none", "Error", "Busy", "Success"}

\* When the program has run, its modifier map was installed and the layout gives
\* the modifier keys no character, the server applies exactly the modifiers whose
\* flag is on, as far as one key has the flag and no change went by unseen:
\* the key codes of both programs, the map and the events agree end to end.
ModifiersWork ==
  (queue = <<>> /\ tool = "idle" /\ status = "Success" /\ layout # NoLayout
     /\ \A m \in Modifiers, j \in Level : Layouts[layout][m][j].char = NoChar) =>
    \A m \in Modifiers :
      m \notin missed /\ MaskOf[m] \in Tested /\ Lone(m) =>
        (m \in held <=> serverMods[XModifier[MaskOf[m]]] \cap down # {})

\* The two maps of the server fit together, a key that is a modifier there having
\* a keysym of that modifier, unless the program is at work or has not run, the
\* modifier map was refused or one of the two requests failed: the other may have
\* been carried out, and the two maps are then apart.
MapsFit ==
  tool = "idle" /\ mapStatus = "Success" /\ status = "Success" =>
    \A m \in ModifierNames : \A c \in serverMods[m] :
      serverMap[c - MinKeycode][1] \in ModifierKeysyms[m]

\* The character a keysym stands for in the programs of X; of a dead key, those of
\* its accents.
Chars(s) ==
  IF IsDead(s) THEN {ToUcs(KeysymTab, a) : a \in {b \in DOMAIN DeadKeys : DeadKeys[b] = s}}
  ELSE {ToUcs(KeysymTab, s)}

\* Whenever the program installs the map of a layout, the entry of every key stands
\* in X for the character the layout gives it, in each of the four states, through
\* the table there and back, the normal form of the map and the server's rules for
\* what is left out there; the case of a letter apart, and a key of the numeric pad
\* may be its own.  Plain and with Shift that is what the key types.  The states
\* with Option are the second group of the entry, which is there but can't be
\* selected: the program makes no key Mode_switch, and Option is Mod1.
GlyphsInstalled ==
  [][serverMap' # serverMap /\ layout # NoLayout =>
       \A i \in Keycodes \ Blacklist, j \in Level :
         LET char == Layouts[layout][i][j].char
             shown == Shown(serverMap'[i], j)
         IN char \notin {NoChar, FunctionKey} =>
              \/ \E c \in Chars(shown) : Lower(c) = Lower(char)
              \/ /\ i \in DOMAIN KnownNumericKeys
                 /\ ToUcs(KeysymTab, KnownNumericKeys[i]) = char
                 /\ shown = Keypad(KnownNumericKeys[i])]_kbVars
=============================================================================
