-------------------------------- MODULE Startup --------------------------------
(***************************************************************************)
(* xcwm_context_open in several processes at once: what each of them takes *)
(* from the server, of which there is one for all, and gives back when it  *)
(* closes, exits half-way or is killed.                                    *)
(***************************************************************************)
EXTENDS Integers, Sequences

CONSTANTS Managers,     \* processes that open a context on the display
          Compositors,  \* other programs that want the selection
          Nobody

ASSUME StartupAssumption == /\ Nobody \notin Managers \cup Compositors
                            /\ Managers \cap Compositors = {}

VARIABLES
  present,     \* extensions the server has
  redirect,    \* who has SubstructureRedirect on the root window
  manual,      \* who redirects the windows manually
  owner,       \* who owns the selection _NET_WM_CM_Sn
  supporting,  \* whose window _NET_SUPPORTING_WM_CHECK of the root names
  stage,       \* how far each manager is
  shaken,      \* how many extensions it has found
  claimed,     \* did it claim the selection?
  compositor   \* what each compositor does: off, looked, active, over

serverState == <<present, redirect, manual, owner, supporting>>
stVars == <<serverState, stage, shaken, claimed, compositor>>

\* The order in which xcwm_context_open asks for them.
Extensions == <<"Composite", "DAMAGE", "XFIXES", "SHAPE", "XTEST", "XKEYBOARD">>

\* Stages between the mask of the root and the end of the connection.
Managing == {"masked", "atoms", "claiming", "open", "released"}
Ended == {"exited", "closed"}

\* The server's part of a connection's end: the property stays.
Drop(m) ==
  LET Without(who) == IF who = m THEN Nobody ELSE who IN
  /\ redirect' = Without(redirect) /\ manual' = Without(manual)
  /\ owner' = Without(owner)
  /\ UNCHANGED <<present, supporting>>

GoOn(m, s) == stage' = [stage EXCEPT ![m] = s]

----------------------------------------------------------------------------
(* xcwm_context_open *)

Connect(m) ==
  /\ stage[m] = "idle"
  /\ \E s \in {"connected", "exited"} : GoOn(m, s)
  /\ UNCHANGED <<serverState, shaken, claimed, compositor>>

\* _xcwm_request_check: the server refuses the mask if another client has it.
Refused(m) == redirect \notin {Nobody, m}

\* Seeded fault: the answer is not waited for.
SetRootMask_Unchecked(m) ==
  /\ stage[m] = "connected"
  /\ redirect' = IF Refused(m) THEN redirect ELSE m
  /\ GoOn(m, "masked")
  /\ UNCHANGED <<present, manual, owner, supporting, shaken, claimed, compositor>>

SetRootMask(m) ==
  /\ stage[m] = "connected"
  /\ \/ /\ ~Refused(m)
        /\ redirect' = m /\ GoOn(m, "masked")
        /\ UNCHANGED <<present, manual, owner, supporting>>
     \/ /\ Refused(m)
        /\ Drop(m) /\ GoOn(m, "exited")
  /\ UNCHANGED <<shaken, claimed, compositor>>

\* _xcwm_init_composite and its like: the process exits if the extension is not
\* there; nobody looks whether the server grants manual redirection.
Handshake(m) ==
  /\ stage[m] = "masked" /\ shaken[m] < Len(Extensions)
  /\ LET extension == Extensions[shaken[m] + 1] IN
       \/ /\ extension \in present
          /\ shaken' = [shaken EXCEPT ![m] = @ + 1]
          /\ manual' = IF extension = "Composite" /\ manual = Nobody THEN m ELSE manual
          /\ UNCHANGED <<present, redirect, owner, supporting, stage>>
       \/ /\ extension \notin present
          /\ Drop(m) /\ GoOn(m, "exited")
          /\ UNCHANGED shaken
  /\ UNCHANGED <<claimed, compositor>>

\* _xcwm_atoms_init: the atoms, _NET_SUPPORTED, and the table of properties. If the
\* first request fails it returns an error that xcwm_context_open does not look at.
InternAtoms(m) ==
  /\ stage[m] = "masked" /\ shaken[m] = Len(Extensions)
  /\ \E s \in {"atoms", "open"} : GoOn(m, s)
  /\ UNCHANGED <<serverState, shaken, claimed, compositor>>

\* check_wm_cm_owner: with an owner there, _xcwm_atoms_init stops half-way and says
\* so, and xcwm_context_open goes on all the same.
CheckOwner(m) ==
  /\ stage[m] = "atoms"
  /\ GoOn(m, IF owner = Nobody THEN "claiming" ELSE "open")
  /\ UNCHANGED <<serverState, shaken, claimed, compositor>>

\* create_wm_cm_window: whoever owns the selection by now loses it.
CreateWmCmWindow(m) ==
  /\ stage[m] = "claiming"
  /\ supporting' = m /\ owner' = m
  /\ claimed' = [claimed EXCEPT ![m] = TRUE]
  /\ GoOn(m, "open")
  /\ UNCHANGED <<present, redirect, manual, shaken, compositor>>

----------------------------------------------------------------------------
(* The end of a context *)

\* _xcwm_atoms_release: the request to destroy the window that owns the selection
\* may reach the server now, or never.
ReleaseAtoms(m) ==
  /\ stage[m] = "open"
  /\ \/ owner' = owner
     \/ claimed[m] /\ owner' = (IF owner = m THEN Nobody ELSE owner)
  /\ GoOn(m, "released")
  /\ UNCHANGED <<present, redirect, manual, supporting, shaken, claimed, compositor>>

\* xcb_disconnect
CloseConnection(m) ==
  /\ stage[m] = "released"
  /\ Drop(m) /\ GoOn(m, "closed")
  /\ UNCHANGED <<shaken, claimed, compositor>>

\* The process is killed.
Killed(m) ==
  /\ stage[m] \notin {"idle"} \cup Ended
  /\ Drop(m) /\ GoOn(m, "exited")
  /\ UNCHANGED <<shaken, claimed, compositor>>

----------------------------------------------------------------------------
(* Another program that wants the selection (external): it looks first, too. *)

Acts(c, from, to) ==
  /\ compositor[c] = from /\ compositor' = [compositor EXCEPT ![c] = to]
  /\ UNCHANGED <<stage, shaken, claimed>>

CompositorLooks(c) ==
  /\ owner = Nobody /\ Acts(c, "off", "looked") /\ UNCHANGED serverState

CompositorTakes(c) ==
  /\ Acts(c, "looked", "active")
  /\ owner' = c /\ manual' = IF manual = Nobody THEN c ELSE manual
  /\ UNCHANGED <<present, redirect, supporting>>

CompositorQuits(c) == Acts(c, "active", "over") /\ Drop(c)

----------------------------------------------------------------------------
StInit ==
  /\ \E lacking \in {{}} \cup {{Extensions[i]} : i \in DOMAIN Extensions} :
       present = {Extensions[i] : i \in DOMAIN Extensions} \ lacking
  /\ redirect = Nobody /\ manual = Nobody /\ owner = Nobody /\ supporting = Nobody
  /\ stage = [m \in Managers |-> "idle"] /\ shaken = [m \in Managers |-> 0]
  /\ claimed = [m \in Managers |-> FALSE]
  /\ compositor = [c \in Compositors |-> "off"]

Opening(m) == \/ Connect(m) \/ SetRootMask(m) \/ Handshake(m) \/ InternAtoms(m)
              \/ CheckOwner(m) \/ CreateWmCmWindow(m)

Compositing == \E c \in Compositors :
                 CompositorLooks(c) \/ CompositorTakes(c) \/ CompositorQuits(c)

StNext == \/ \E m \in Managers : Opening(m) \/ ReleaseAtoms(m) \/ CloseConnection(m) \/ Killed(m)
          \/ Compositing

----------------------------------------------------------------------------
(* Properties *)

\* However processes open contexts, close them, exit half-way and are killed, at
\* most one manages the windows: from the root's mask to the end of its connection
\* no other has the redirection, the selection or the manual redirection.  Once it
\* has claimed the selection the root names its window, and as long as it does not
\* close, the selection is its own unless some compositor has taken it.
OneManager ==
  \A m \in Managers : stage[m] \in Managing =>
    /\ \A n \in Managers \ {m} : stage[n] \notin Managing
    /\ redirect = m
    /\ owner \in {m, Nobody} \cup Compositors /\ manual \in {m, Nobody} \cup Compositors
    /\ claimed[m] => supporting = m
    /\ claimed[m] /\ stage[m] = "open" /\ owner # m =>
         \E c \in Compositors : compositor[c] \in {"active", "over"}
=============================================================================
