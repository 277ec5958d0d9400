------------------------------ MODULE KeyInput ------------------------------
(***************************************************************************)
(* Keys and mouse buttons on their way to the X server: which of the       *)
(* events of AppKit XtoqApplication passes on, the serial dispatch queue   *)
(* of XtoqController that carries them, and the keys and buttons the       *)
(* server takes to be down.  The user may at any time work in another      *)
(* application, which then gets the events.                                *)
(***************************************************************************)
EXTENDS Naturals, Sequences

CONSTANTS Keys,       \* codes of ordinary keys of the Mac keyboard
          Modifiers,  \* codes of modifier keys
          Buttons,    \* numbers of mouse buttons, apart from the codes of keys
          MaskOf,     \* the bit of modifierFlags that is on while a modifier is held
          MaxQueue    \* bound: blocks waiting in the dispatch queue

\* XtoqController adds it to every key code: a key is never taken for a button.
KeycodeOffset == 8

ASSUME KeysAssumption ==
  /\ Keys \subseteq Nat /\ Modifiers \subseteq Nat
  /\ Buttons \subseteq 1 .. KeycodeOffset - 1
  /\ Keys \cap Modifiers = {} /\ Buttons \cap (Keys \cup Modifiers) = {}

VARIABLES
  held,             \* what the user's hands hold down
  active,           \* does this application get the user's events?
  doSwallow, swallowKeycode, currentModFlags,  \* statics of sendEvent
  queue,            \* xcwmDispatchQueue: blocks that have not run
  down,             \* what the X server takes to be down, by its own codes
  seen,             \* history: how each key was taken, since its last key-up here
  mixed,            \* history: the last key-up here ended both plain presses and shortcuts
  missed            \* history: modifiers that changed unseen, or along with unseen changes

handler == <<doSwallow, swallowKeycode, currentModFlags>>
history == <<seen, mixed, missed>>
vars == <<held, active, handler, queue, down, history>>

Inputs == Keys \cup Modifiers \cup Buttons
Code(x) == IF x \in Buttons THEN x ELSE x + KeycodeOffset

\* Seeded fault: a key's code is sent as the Mac has it.
Block_NoOffset(x, press) == [code |-> x, press |-> press]

\* A block sends one press or release to the server.
Block(x, press) == [code |-> Code(x), press |-> press]

\* keyDownInView, keyUpInView, mouseButtonDownInView, mouseButtonReleaseInView
\* each put one block on the queue.
Post(x, press) ==
  /\ Len(queue) < MaxQueue
  /\ queue' = Append(queue, Block(x, press))

Flags(keys) == {MaskOf[m] : m \in keys \cap Modifiers}
Tested == {"Shift", "Control", "Alternate", "Command"}

----------------------------------------------------------------------------
(* -[XtoqApplication sendEvent:] *)

\* NSKeyDown, the first or a repeated one, that the main menu takes.
ShortcutDown(k) ==
  /\ active
  /\ held' = held \cup {k}
  /\ doSwallow' = TRUE /\ swallowKeycode' = k
  /\ seen' = [seen EXCEPT ![k] = @ \cup {"shortcut"}]
  /\ UNCHANGED <<active, currentModFlags, queue, down, mixed, missed>>

\* NSKeyDown that the menu leaves alone: it is for X.
PlainDown(k) ==
  /\ active
  /\ held' = held \cup {k}
  /\ Post(k, TRUE)
  /\ seen' = [seen EXCEPT ![k] = @ \cup {"plain"}]
  /\ UNCHANGED <<active, handler, down, mixed, missed>>

\* Seeded fault: the mark is left after it has been used.
SwallowedUp_MarkKept(k) ==
  /\ active /\ k \in held /\ doSwallow /\ swallowKeycode = k
  /\ held' = held \ {k}
  /\ seen' = [seen EXCEPT ![k] = {}]
  /\ mixed' = IF "plain" \in seen[k] /\ "shortcut" \in seen[k] THEN mixed \cup {k} ELSE mixed
  /\ UNCHANGED <<active, handler, queue, down, missed>>

\* NSKeyUp of the key of the last shortcut.
SwallowedUp(k) ==
  /\ active /\ k \in held /\ doSwallow /\ swallowKeycode = k
  /\ held' = held \ {k}
  /\ doSwallow' = FALSE
  /\ seen' = [seen EXCEPT ![k] = {}]
  /\ mixed' = IF "plain" \in seen[k] /\ "shortcut" \in seen[k] THEN mixed \cup {k} ELSE mixed
  /\ UNCHANGED <<active, swallowKeycode, currentModFlags, queue, down, missed>>

\* NSKeyUp of any other key.
PlainUp(k) ==
  /\ active /\ k \in held /\ ~(doSwallow /\ swallowKeycode = k)
  /\ held' = held \ {k}
  /\ Post(k, FALSE)
  /\ seen' = [seen EXCEPT ![k] = {}]
  /\ mixed' = mixed \ {k}
  /\ UNCHANGED <<active, handler, down, missed>>

\* NSLeftMouseDown and its like go to X whatever AppKit does with them.
ButtonDown(b) ==
  /\ active /\ b \notin held
  /\ held' = held \cup {b}
  /\ Post(b, TRUE)
  /\ seen' = [seen EXCEPT ![b] = {"plain"}]
  /\ UNCHANGED <<active, handler, down, mixed, missed>>

ButtonUp(b) ==
  /\ active /\ b \in held
  /\ held' = held \ {b}
  /\ Post(b, FALSE)
  /\ seen' = [seen EXCEPT ![b] = {}]
  /\ UNCHANGED <<active, handler, down, mixed, missed>>

Toggled(x) == IF x \in held THEN held \ {x} ELSE held \cup {x}
InSync == currentModFlags = Flags(held)

\* NSFlagsChanged: the modifier key counts as pressed when one of four flags
\* has come on since the last such event, and as released otherwise.
FlagsChanged(m) ==
  /\ active
  /\ held' = Toggled(m)
  /\ currentModFlags' = Flags(held')
  /\ Post(m, (Flags(held') \ currentModFlags) \cap Tested # {})
  /\ missed' = IF InSync THEN missed \ {m} ELSE missed \cup {m}
  /\ UNCHANGED <<active, doSwallow, swallowKeycode, down, seen, mixed>>

----------------------------------------------------------------------------
(* The user elsewhere, and the dispatch queue *)

Switch ==
  /\ active' = ~active
  /\ UNCHANGED <<held, handler, queue, down, history>>

\* A key or button changes while another application gets the events.
Elsewhere(x) ==
  /\ ~active
  /\ held' = Toggled(x)
  /\ missed' = IF x \in Modifiers THEN missed \cup {x} ELSE missed
  /\ UNCHANGED <<active, handler, queue, down, seen, mixed>>

\* Seeded fault: the queue is concurrent, and its second block runs first.
RunBlock_Concurrent ==
  /\ queue # <<>>
  /\ \E i \in 1 .. Len(queue) :
       /\ i <= 2
       /\ queue' = SubSeq(queue, 1, i - 1) \o SubSeq(queue, i + 1, Len(queue))
       /\ down' = IF queue[i].press THEN down \cup {queue[i].code}
                                    ELSE down \ {queue[i].code}
  /\ UNCHANGED <<held, active, handler, history>>

\* xcwm_input_key_event and xcwm_input_mouse_button_event send one XTEST
\* request and flush; releasing what is up does nothing in the server.
RunBlock ==
  /\ queue # <<>>
  /\ queue' = Tail(queue)
  /\ down' = IF Head(queue).press THEN down \cup {Head(queue).code}
                                  ELSE down \ {Head(queue).code}
  /\ UNCHANGED <<held, active, handler, history>>

----------------------------------------------------------------------------
Init ==
  /\ held = {} /\ active = TRUE
  /\ doSwallow = FALSE /\ swallowKeycode = 0 /\ currentModFlags = {}
  /\ queue = <<>> /\ down = {}
  /\ seen = [x \in Keys \cup Buttons |-> {}] /\ mixed = {} /\ missed = {}

UserStep ==
  \/ \E k \in Keys : ShortcutDown(k) \/ PlainDown(k) \/ SwallowedUp(k) \/ PlainUp(k)
  \/ \E b \in Buttons : ButtonDown(b) \/ ButtonUp(b)
  \/ \E m \in Modifiers : FlagsChanged(m)
  \/ Switch
  \/ \E x \in Inputs : Elsewhere(x)

Next == UserStep \/ RunBlock

Spec == Init /\ [][Next]_vars
----------------------------------------------------------------------------
(* Properties *)

Blocks == [code : {Code(x) : x \in Inputs}, press : BOOLEAN]

\* Type invariant.
TypeOK ==
  /\ held \subseteq Inputs /\ active \in BOOLEAN
  /\ doSwallow \in BOOLEAN /\ swallowKeycode \in Keys \cup {0}
  /\ currentModFlags \subseteq Flags(Modifiers)
  /\ queue \in Seq(Blocks)
  /\ down \subseteq {Code(x) : x \in Inputs}
  /\ seen \in [Keys \cup Buttons -> SUBSET {"plain", "shortcut"}]
  /\ mixed \subseteq Keys /\ missed \subseteq Modifiers

\* Once the queue has drained, the server takes to be down exactly the keys and
\* buttons pressed for X of which no release has come here since, and those whose
\* last release here came after key-downs of both kinds, as a shortcut and for X:
\* a shortcut that auto-repeats after Command is let go, or whose key is released
\* in another application and then pressed plainly here.  Nothing else leaves a key
\* stuck or loses a press, whatever the order of presses, shortcuts, repeats and
\* releases.
NoStuckKey ==
  queue = <<>> =>
    \A x \in Keys \cup Buttons :
      Code(x) \in down <=> "plain" \in seen[x] \/ x \in mixed

\* The only modifier key with its flag.
Lone(m) == \A n \in Modifiers : MaskOf[n] = MaskOf[m] => n = m

\* Once the queue has drained, a modifier key none of whose changes went by
\* unseen is not down in the server unless it is held; and it is down when it is
\* held if its flag is one of the four and no other key has that flag. Of two
\* keys with one flag only the first to be pressed counts.
ModifiersAgree ==
  queue = <<>> =>
    \A m \in Modifiers \ missed :
      /\ Code(m) \in down => m \in held
      /\ m \in held /\ MaskOf[m] \in Tested /\ Lone(m) => Code(m) \in down
=============================================================================
