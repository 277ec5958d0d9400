-------------------------- MODULE CallbackContract --------------------------
(***************************************************************************)
(* What libxcwm promises to the window manager built on it: the stream of  *)
(* callbacks made through the function given to xcwm_event_start_loop.     *)
(*                                                                         *)
(* Callbacks never overlap.  A window is announced by one CREATE, stays    *)
(* announced until one DESTROY, and every other callback about a window    *)
(* falls between the two.  The root window is the exception: the client    *)
(* has it from xcwm_context_open, without a CREATE.                        *)
(***************************************************************************)
CONSTANTS Windows, Root, NoWindow

VARIABLES announced, \* the windows the client has been told of
          cb         \* the callback in progress

vars == <<announced, cb>>

NoteTypes == {"damage", "shape", "property"}

NoCallback == [type |-> "none", w |-> NoWindow]

Init == announced = {} /\ cb = NoCallback

(* A callback begins only when none is in progress. *)
Call(type, w) == cb = NoCallback /\ cb' = [type |-> type, w |-> w]

BeginCreate(w) == w \notin announced /\ Call("create", w) /\ UNCHANGED announced

EndCreate == /\ cb.type = "create"
             /\ announced' = announced \cup {cb.w}
             /\ cb' = NoCallback

BeginDestroy(w) == w \in announced /\ Call("destroy", w) /\ UNCHANGED announced

EndDestroy == /\ cb.type = "destroy"
              /\ announced' = announced \ {cb.w}
              /\ cb' = NoCallback

BeginNote(type, w) == /\ w \in announced \cup {Root}
                      /\ Call(type, w)
                      /\ UNCHANGED announced

BeginCursor == Call("cursor", NoWindow) /\ UNCHANGED announced

EndNote == /\ cb.type \in NoteTypes \cup {"cursor"}
           /\ cb' = NoCallback
           /\ UNCHANGED announced

Next == \/ \E w \in Windows : BeginCreate(w) \/ BeginDestroy(w)
        \/ \E w \in Windows \cup {Root}, type \in NoteTypes : BeginNote(type, w)
        \/ BeginCursor
        \/ EndCreate \/ EndDestroy \/ EndNote

Spec == Init /\ [][Next]_vars
=============================================================================
