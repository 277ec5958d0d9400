---------------------------- MODULE WindowProps ----------------------------
(***************************************************************************)
(* What the library holds of a window's properties, against the properties *)
(* themselves, which belong to the application and change at any time      *)
(* (atoms.c, with the creation, release and closing of a window in         *)
(* window.c).                                                              *)
(*                                                                         *)
(* Each property is read by a request of its own, so that applications may *)
(* act between two readings; changes are announced in events that are      *)
(* handled later.                                                          *)
(***************************************************************************)
EXTENDS Integers, Sequences

CONSTANTS Windows,     \* top-level windows
          None,        \* NULL; a property that is not there
          Names,       \* window names
          TypeLists,   \* values of _NET_WM_WINDOW_TYPE
          KnownTypes,  \* the types the library knows
          Settings,    \* values of WM_NORMAL_HINTS and of _NET_WM_WINDOW_OPACITY
          Garbage,     \* what malloc'ed memory holds
          MaxChanges   \* bound: how often applications change something

ASSUME PropsAssumption == /\ None \notin Windows /\ None \notin Names
                          /\ None \notin Settings /\ None \notin TypeLists
                          /\ None \notin {"other", "delete"}
                          /\ Garbage \notin Windows \cup Names \cup KnownTypes \cup {None}
                          /\ MaxChanges \in Nat /\ TypeLists \subseteq Seq(STRING)
                          /\ {"NORMAL", "DIALOG"} \subseteq KnownTypes

VARIABLES
  prop,      \* properties of each window at the server
  alive,     \* windows that exist at the server
  selected,  \* windows whose property changes we are told of
  queue,     \* events not yet read
  changes,   \* changes left to the applications
  lib,       \* xcwm_window_t of each window
  managed,   \* windows in the list
  born,      \* windows the library has seen
  task,      \* what the event thread does: none, create, or the atom of an event
  cur,       \* the window it does it for
  todo       \* readings it has still to make

serverVars == <<prop, alive, selected>>
threadVars == <<managed, born, task, cur, todo>>
vars == <<serverVars, queue, changes, lib, threadVars>>

\* The atoms, as the fields of prop; the library has a handler for all but
\* WM_TRANSIENT_FOR.
Atoms == {"protocols", "netName", "name", "transient", "types", "hints", "opacity"}
Values(atom) == CASE atom = "protocols" -> {None, "other", "delete"}
                  [] atom \in {"netName", "name"} -> Names \cup {None}
                  [] atom = "transient" -> Windows \cup {None}
                  [] atom = "types" -> TypeLists \cup {None}
                  [] atom \in {"hints", "opacity"} -> Settings \cup {None}

\* The readings that each handler of the table consists of.
Reading == [protocols |-> <<"protocols">>, netName |-> <<"netName">>,
            name |-> <<"netName">>, types |-> <<"transient", "types">>,
            hints |-> <<"hints">>, opacity |-> <<"opacity">>]

\* _xcwm_atoms_init_window: the readings of the handlers in the order of the table,
\* in which the handler of the name is twice.
AllReadings == <<"protocols", "netName", "netName", "transient", "types", "hints", "opacity">>

----------------------------------------------------------------------------
(* The applications (external) *)

Changed(w, atom) ==
  queue' = IF w \in selected THEN Append(queue, [type |-> "property", w |-> w, atom |-> atom])
                             ELSE queue

ChangeProperty(w, atom) ==
  /\ w \in alive
  /\ changes > 0 /\ changes' = changes - 1
  /\ \E v \in Values(atom) \ {prop[w][atom]} : prop' = [prop EXCEPT ![w][atom] = v]
  /\ Changed(w, atom)
  /\ UNCHANGED <<alive, selected, lib, threadVars>>

Gone(w) == /\ alive' = alive \ {w}
           /\ queue' = Append(queue, [type |-> "gone", w |-> w, atom |-> "none"])

DestroyWindow(w) ==
  /\ w \in alive
  /\ changes > 0 /\ changes' = changes - 1
  /\ Gone(w)
  /\ UNCHANGED <<prop, selected, lib, threadVars>>

----------------------------------------------------------------------------
(* The event thread: creating a window *)

\* The memory of a new window, of which only the opacity is set.
Malloced(delete) == [name |-> Garbage, delete |-> delete, type |-> Garbage,
                     transient |-> Garbage, hints |-> Garbage, opacity |-> None]

\* Seeded fault: property changes are not selected before the window is listed.
StartCreate_Late(w) ==
  /\ task = "none" /\ w \in alive \ born
  /\ born' = born \cup {w}
  /\ \E delete \in {0, 1, Garbage} : lib' = [lib EXCEPT ![w] = Malloced(delete)]
  /\ task' = "create" /\ cur' = w /\ todo' = AllReadings
  /\ UNCHANGED <<serverVars, queue, changes, managed>>

\* The malloc'ed window, and the event mask.
StartCreate(w) ==
  /\ task = "none" /\ w \in alive \ born
  /\ born' = born \cup {w}
  /\ selected' = selected \cup {w}
  /\ \E delete \in {0, 1, Garbage} : lib' = [lib EXCEPT ![w] = Malloced(delete)]
  /\ task' = "create" /\ cur' = w /\ todo' = AllReadings
  /\ UNCHANGED <<prop, alive, queue, changes, managed>>

\* The window is listed, or the client called back.
Finish ==
  /\ task # "none" /\ todo = <<>>
  /\ managed' = IF task = "create" THEN managed \cup {cur} ELSE managed
  /\ task' = "none"
  /\ UNCHANGED <<serverVars, queue, changes, lib, born, cur, todo>>

----------------------------------------------------------------------------
(* The readings.  A window that is gone has no properties. *)

Value(atom) == IF cur \in alive THEN prop[cur][atom] ELSE None

Read(what) == todo # <<>> /\ Head(todo) = what

ReadMore == /\ UNCHANGED <<serverVars, queue, changes, managed, born, task, cur>>

Store(field, v) == lib' = [lib EXCEPT ![cur][field] = v]

\* _xcwm_atoms_set_wm_delete: without WM_DELETE_WINDOW among the protocols the
\* flag stays as it is.
ReadProtocols ==
  /\ Read("protocols") /\ todo' = Tail(todo)
  /\ CASE Value("protocols") = None -> Store("delete", 0)
       [] Value("protocols") = "other" -> UNCHANGED lib
       [] Value("protocols") = "delete" -> Store("delete", 1)
  /\ ReadMore

\* set_window_name: _NET_WM_NAME first, then WM_NAME, then the empty name.
ReadNetName ==
  /\ Read("netName")
  /\ IF Value("netName") # None
       THEN Store("name", Value("netName")) /\ todo' = Tail(todo)
       ELSE todo' = <<"name">> \o Tail(todo) /\ UNCHANGED lib
  /\ ReadMore

ReadName ==
  /\ Read("name") /\ todo' = Tail(todo)
  /\ Store("name", Value("name"))
  /\ ReadMore

\* Seeded fault: a window that is transient for none keeps what the field held.
ReadTransient_NoNull ==
  /\ Read("transient") /\ todo' = Tail(todo)
  /\ LET t == Value("transient") IN
       lib' = [lib EXCEPT ![cur].transient = IF t \in managed THEN t ELSE @,
                          ![cur].type = IF t = None THEN "NORMAL" ELSE "DIALOG"]
  /\ ReadMore

\* setup_window_type: a window it is transient for, and the type from that ...
ReadTransient ==
  /\ Read("transient") /\ todo' = Tail(todo)
  /\ LET t == Value("transient") IN
       lib' = [lib EXCEPT ![cur].transient = IF t \in managed THEN t ELSE None,
                          ![cur].type = IF t = None THEN "NORMAL" ELSE "DIALOG"]
  /\ ReadMore

KnownIn(types) == IF types = None THEN {} ELSE {i \in DOMAIN types : types[i] \in KnownTypes}
First(S) == CHOOSE i \in S : \A j \in S : i <= j

\* ... and then the first of the types it names that the library knows.
ReadTypes ==
  /\ Read("types") /\ todo' = Tail(todo)
  /\ LET known == KnownIn(Value("types")) IN
       IF known = {} THEN UNCHANGED lib ELSE Store("type", Value("types")[First(known)])
  /\ ReadMore

\* set_window_size_hints and set_window_opacity: without the property the field
\* stays as it is.
ReadSetting(atom) ==
  /\ Read(atom) /\ todo' = Tail(todo)
  /\ IF Value(atom) = None THEN UNCHANGED lib ELSE Store(atom, Value(atom))
  /\ ReadMore

----------------------------------------------------------------------------
(* The event thread: events *)

\* Seeded fault: WM_PROTOCOLS is only read when the window is created.
HandlePropertyNotify_NoProtocols ==
  /\ task = "none" /\ queue # <<>> /\ Head(queue).type = "property"
  /\ LET e == Head(queue) IN
       IF e.w \in managed /\ e.atom \in DOMAIN Reading \ {"protocols"}
         THEN task' = e.atom /\ cur' = e.w /\ todo' = Reading[e.atom]
         ELSE UNCHANGED <<task, cur, todo>>
  /\ queue' = Tail(queue)
  /\ UNCHANGED <<serverVars, changes, lib, managed, born>>

HandlePropertyNotify ==
  /\ task = "none" /\ queue # <<>> /\ Head(queue).type = "property"
  /\ LET e == Head(queue) IN
       IF e.w \in managed /\ e.atom \in DOMAIN Reading
         THEN task' = e.atom /\ cur' = e.w /\ todo' = Reading[e.atom]
         ELSE UNCHANGED <<task, cur, todo>>
  /\ queue' = Tail(queue)
  /\ UNCHANGED <<serverVars, changes, lib, managed, born>>

\* _xcwm_window_remove and _xcwm_window_release
HandleGone ==
  /\ task = "none" /\ queue # <<>> /\ Head(queue).type = "gone"
  /\ managed' = managed \ {Head(queue).w}
  /\ queue' = Tail(queue)
  /\ UNCHANGED <<serverVars, changes, lib, born, task, cur, todo>>

\* xcwm_window_request_close, from the main thread: by WM_DELETE_WINDOW, which the
\* application may heed, or by xcb_kill_client.
RequestClose(w) ==
  /\ w \in managed
  /\ changes > 0 /\ changes' = changes - 1
  /\ \/ lib[w].delete = 0 /\ w \in alive /\ Gone(w)
     \/ lib[w].delete = 1 /\ w \in alive /\ prop[w].protocols = "delete" /\ Gone(w)
     \/ lib[w].delete # 0 /\ UNCHANGED <<alive, queue>>
  /\ UNCHANGED <<prop, selected, lib, threadVars>>

----------------------------------------------------------------------------
Init ==
  /\ \E ps \in {None, "other", "delete"}, hs \in Settings \cup {None} :
       prop = [w \in Windows |-> [protocols |-> ps, netName |-> None, name |-> None,
                                  transient |-> None, types |-> None, hints |-> hs,
                                  opacity |-> None]]
  /\ alive = Windows /\ selected = {} /\ queue = <<>> /\ changes = MaxChanges
  /\ lib = [w \in Windows |-> None]
  /\ managed = {} /\ born = {}
  /\ task = "none" /\ cur = None /\ todo = <<>>

Applications == \E w \in Windows : (\E a \in Atoms : ChangeProperty(w, a)) \/ DestroyWindow(w)
Readings == \/ ReadProtocols \/ ReadNetName \/ ReadName \/ ReadTransient \/ ReadTypes
            \/ ReadSetting("hints") \/ ReadSetting("opacity")
EventThread == \/ (\E w \in Windows : StartCreate(w)) \/ Readings \/ Finish
               \/ HandlePropertyNotify \/ HandleGone

Next == Applications \/ EventThread \/ \E w \in Windows : RequestClose(w)

Spec == Init /\ [][Next]_vars

----------------------------------------------------------------------------
(* Properties *)

TypeOK ==
  /\ \A w \in Windows, a \in Atoms : prop[w][a] \in Values(a)
  /\ alive \subseteq Windows /\ selected \subseteq born /\ managed \subseteq born
  /\ \A i \in DOMAIN queue : queue[i].w \in Windows
  /\ changes \in 0 .. MaxChanges
  /\ \A w \in born : /\ lib[w].name \in Names \cup {None, Garbage}
                     /\ lib[w].delete \in {0, 1, Garbage}
                     /\ lib[w].type \in KnownTypes \cup {Garbage}
                     /\ lib[w].hints \in Settings \cup {Garbage}
                     /\ lib[w].opacity \in Settings \cup {None}
  /\ \A w \in managed : lib[w].name # Garbage /\ lib[w].type # Garbage
                        /\ lib[w].transient \in Windows \cup {None}
  /\ task \in {"none", "create"} \cup DOMAIN Reading
  /\ todo \in Seq(Atoms)

\* No news of w is under way: no event about it is queued, nor is it being read.
Settled(w) == /\ w \in managed \cap alive
              /\ cur = w => todo = <<>>
              /\ \A i \in DOMAIN queue : queue[i].w # w

\* However changes of properties, events of them and readings interleave, and
\* whenever the window was created, once no news of it is under way (the client's
\* callback included) the library holds the name, the type, the hints and the
\* opacity that the application gave last.
PropertiesAgree ==
  \A w \in Windows : Settled(w) =>
    LET p == prop[w] IN
    /\ lib[w].name = IF p.netName # None THEN p.netName ELSE p.name
    /\ IF KnownIn(p.types) = {} THEN lib[w].type \in {"NORMAL", "DIALOG"}
                                ELSE lib[w].type = p.types[First(KnownIn(p.types))]
    /\ \A a \in {"hints", "opacity"} : p[a] # None => lib[w][a] = p[a]

\* A window that has announced WM_DELETE_WINDOW is asked to close by it and
\* not killed, whenever it announced it.
NotKilled ==
  \A w \in Windows : Settled(w) /\ prop[w].protocols = "delete" => lib[w].delete = 1
=============================================================================
