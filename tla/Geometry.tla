------------------------------ MODULE Geometry ------------------------------
(***************************************************************************)
(* Where a window is: for the X server, for the library (window->bounds),  *)
(* and for Cocoa.  Applications ask for a place by ConfigureWindow, which  *)
(* the server passes on to the event thread as a ConfigureRequest; the     *)
(* user moves and resizes the Cocoa window, which the main thread passes   *)
(* on by xcwm_window_configure.  A place is a top edge and a height: what  *)
(* holds of them holds of the left edge and the width, which nobody        *)
(* converts.                                                               *)
(***************************************************************************)
EXTENDS Integers, Sequences, FiniteSets

CONSTANTS Windows,     \* top-level windows
          None,        \* no window
          Screen,      \* height of the Mac's screen
          Tops,        \* top edges that applications and user choose from
          Heights,     \* heights that they choose from
          MaxOps       \* bound: how often applications and user do something

ASSUME GeometryAssumption == /\ None \notin Windows /\ MaxOps \in Nat
                             /\ Screen \in Int /\ Tops \subseteq Int /\ Heights \subseteq Int

WindowBar == 22        \* of the menu bar, and of the title bar of a window

VARIABLES
  override,  \* override-redirect windows
  shown,     \* windows mapped, or asked to be
  server,    \* place of each window at the server
  queue,     \* events not yet read
  wire,      \* ConfigureWindow requests of the library, not yet executed
  task,      \* the window the event thread is creating
  step,      \* and how far it is: none, query or callback
  bounds,    \* window->bounds of the windows in the list
  frame,     \* Cocoa windows: bottom edge and height, title bar included
  main,      \* [NSApp mainWindow]
  ops,       \* the bound's counter
  drifted,   \* history: windows configured for an application since the library's last say
  unseen     \* history: windows moved while another window was main

thread == <<task, step>>
library == <<bounds, frame, main, unseen>>
vars == <<override, shown, server, queue, wire, thread, library, ops, drifted>>

Place == [y : Int, h : Int]
Framed == DOMAIN frame
Titled(w) == w \notin override

About(s, w) == {i \in DOMAIN s : s[i].w = w}

----------------------------------------------------------------------------
(* The applications (external) *)

Act == ops < MaxOps /\ ops' = ops + 1

\* An event of MapRequest, MapNotify or UnmapNotify.
Event(kind, w) == [kind |-> kind, w |-> w, place |-> server[w], asked |-> {}, overtaken |-> FALSE]

\* Each comes to the library whether it manages the window or not.
ShowWindow(w) ==
  /\ Act /\ w \notin shown
  /\ shown' = shown \cup {w}
  /\ queue' = Append(queue, Event("map", w))
  /\ UNCHANGED <<override, server, wire, thread, library, drifted>>

HideWindow(w) ==
  /\ Act /\ w \in shown
  /\ ~ \E i \in About(queue, w) : queue[i].kind = "map"
  /\ shown' = shown \ {w}
  /\ queue' = Append(queue, Event("unmap", w))
  /\ UNCHANGED <<override, server, wire, thread, library, drifted>>

Chosen(old, fields, y, h) == [y |-> IF "y" \in fields THEN y ELSE old.y,
                              h |-> IF "h" \in fields THEN h ELSE old.h]

\* Values the application leaves out are those the server has now.  The event is
\* overtaken if another change of the window is on its way.
AskConfigure(w, fields, y, h) ==
  /\ Act /\ fields # {}
  /\ LET place == Chosen(server[w], fields, y, h) IN
       \/ /\ w \in override
          /\ server' = [server EXCEPT ![w] = place]
          /\ drifted' = drifted \cup {w}
          /\ UNCHANGED queue
       \/ /\ w \notin override
          /\ queue' = Append(queue,
               [kind |-> "configure", w |-> w, place |-> place, asked |-> fields,
                overtaken |-> About(wire, w) # {} \/
                  \E i \in About(queue, w) : queue[i].kind = "configure"])
          /\ UNCHANGED <<server, drifted>>
  /\ UNCHANGED <<override, shown, wire, thread, library>>

----------------------------------------------------------------------------
(* The library's requests *)

\* _xcwm_resize_window, which flushes.
Resize(w, place, granted, event) ==
  wire' = Append(wire, [w |-> w, place |-> place, granted |-> granted,
                        asked |-> event.asked, overtaken |-> event.overtaken])

Overtake(w) ==
  queue' = [i \in DOMAIN queue |->
              IF queue[i].w = w THEN [queue[i] EXCEPT !.overtaken = TRUE] ELSE queue[i]]

\* Seeded fault: a request is only made for a new size.
Configure_SizeOnly(w, place) ==
  /\ bounds' = [bounds EXCEPT ![w] = place]
  /\ IF place.h = bounds[w].h THEN UNCHANGED wire
     ELSE Resize(w, place, FALSE, [asked |-> {"y", "h"}, overtaken |-> FALSE])
  /\ Overtake(w)
  /\ drifted' = drifted \ {w}

\* xcwm_window_configure
Configure(w, place) ==
  /\ bounds' = [bounds EXCEPT ![w] = place]
  /\ Resize(w, place, FALSE, [asked |-> {"y", "h"}, overtaken |-> FALSE])
  /\ Overtake(w)
  /\ drifted' = drifted \ {w}

Exec ==
  /\ wire # <<>>
  /\ server' = [server EXCEPT ![Head(wire).w] = Head(wire).place]
  /\ wire' = Tail(wire)
  /\ UNCHANGED <<override, shown, queue, thread, library, ops, drifted>>

----------------------------------------------------------------------------
(* The event thread *)

Receive(kind) ==
  /\ step = "none" /\ queue # <<>> /\ Head(queue).kind = kind
  /\ queue' = Tail(queue)

\* Seeded fault: a field the application left out is filled in from bounds.
HandleConfigureRequest_FromBounds ==
  /\ Receive("configure")
  /\ LET e == Head(queue)
         known == IF e.w \in DOMAIN bounds THEN bounds[e.w] ELSE e.place
     IN /\ Resize(e.w, Chosen(known, e.asked, e.place.y, e.place.h), TRUE, e)
        /\ drifted' = drifted \cup {e.w}
  /\ UNCHANGED <<override, shown, server, thread, library, ops>>

\* XCB_CONFIGURE_REQUEST: all four values are sent, those not asked for included.
HandleConfigureRequest ==
  /\ Receive("configure")
  /\ LET e == Head(queue) IN
       /\ Resize(e.w, e.place, TRUE, e)
       /\ drifted' = drifted \cup {e.w}
  /\ UNCHANGED <<override, shown, server, thread, library, ops>>

\* XCB_MAP_REQUEST and XCB_MAP_NOTIFY: a window that is not in the list is created.
HandleMap ==
  /\ Receive("map")
  /\ LET w == Head(queue).w IN
       IF w \in DOMAIN bounds THEN UNCHANGED thread
                              ELSE task' = w /\ step' = "query"
  /\ UNCHANGED <<override, shown, server, wire, library, ops, drifted>>

\* _xcwm_window_create waits for the geometry, and so for all requests before.
ReadGeometry ==
  /\ step = "query" /\ wire = <<>>
  /\ bounds' = [w \in DOMAIN bounds \cup {task} |->
                  IF w = task THEN server[task] ELSE bounds[w]]
  /\ drifted' = drifted \ {task}
  /\ step' = "callback"
  /\ UNCHANGED <<override, shown, server, queue, wire, task, frame, main, ops, unseen>>

XserverToOSX(place) == Screen - place.h - place.y

\* Seeded fault: the window is not configured to where Cocoa shows it.
CreateNewWindow_NotMoved ==
  /\ step = "callback"
  /\ LET b == bounds[task] IN
       /\ frame' = [w \in Framed \cup {task} |->
            IF w # task THEN frame[w]
            ELSE IF Titled(task) THEN [y |-> XserverToOSX(b), h |-> b.h + WindowBar]
            ELSE [y |-> XserverToOSX(b) - WindowBar, h |-> b.h]]
       /\ UNCHANGED <<bounds, wire, queue, drifted>>
       /\ main' \in IF Titled(task) THEN {main, task} ELSE {main}
  /\ unseen' = unseen \ {task}
  /\ task' = None /\ step' = "none"
  /\ UNCHANGED <<override, shown, server, ops>>

\* createNewWindow: the content of the Cocoa window is where the window was before
\* it is configured; it may become the main window if it has a title bar.
CreateNewWindow ==
  /\ step = "callback"
  /\ LET b == bounds[task] IN
       /\ frame' = [w \in Framed \cup {task} |->
            IF w # task THEN frame[w]
            ELSE IF Titled(task) THEN [y |-> XserverToOSX(b), h |-> b.h + WindowBar]
            ELSE [y |-> XserverToOSX(b) - WindowBar, h |-> b.h]]
       /\ IF Titled(task) THEN Configure(task, [b EXCEPT !.y = @ - WindowBar])
                          ELSE UNCHANGED <<bounds, wire, queue, drifted>>
       /\ main' \in IF Titled(task) THEN {main, task} ELSE {main}
  /\ unseen' = unseen \ {task}
  /\ task' = None /\ step' = "none"
  /\ UNCHANGED <<override, shown, server, ops>>

Drop(f, w) == [v \in DOMAIN f \ {w} |-> f[v]]

\* Seeded fault: the Cocoa window is left open.
HandleUnmap_LeftOpen ==
  /\ Receive("unmap")
  /\ bounds' = Drop(bounds, Head(queue).w)
  /\ UNCHANGED <<override, shown, server, wire, thread, frame, main, ops, drifted, unseen>>

\* XCB_UNMAP_NOTIFY: the window leaves the list and destroyWindow closes the Cocoa
\* window; AppKit may make another one main.
HandleUnmap ==
  /\ Receive("unmap")
  /\ LET w == Head(queue).w IN
       /\ bounds' = Drop(bounds, w) /\ frame' = Drop(frame, w)
       /\ main' \in IF main = w THEN {v \in DOMAIN frame' : Titled(v)} \cup {None} ELSE {main}
       /\ unseen' = unseen \ {w}
  /\ UNCHANGED <<override, shown, server, wire, thread, ops, drifted>>

----------------------------------------------------------------------------
(* The main thread *)

OsxToXserver(y) == Screen - y

\* What reshape makes of the frame of a window.
Reshaped(f) == LET height == f.h - WindowBar
               IN [y |-> OsxToXserver(f.y) - WindowBar - height, h |-> height]

\* windowDidMove and windowDidResize call reshape, which looks at the main window,
\* whatever window has moved.
MoveOrResize(w, y, h) ==
  /\ Act /\ w \in Framed /\ Titled(w)
  /\ frame' = [frame EXCEPT ![w] = [y |-> y, h |-> h + WindowBar]]
  /\ \/ main = None /\ unseen' = unseen \cup {w} /\ UNCHANGED <<bounds, wire, queue, drifted>>
     \/ /\ main # None
        /\ Configure(main, Reshaped(frame'[main]))
        /\ unseen' = (unseen \cup {w}) \ {main}
  /\ UNCHANGED <<override, shown, server, thread, main>>

\* The user clicks into a window.
BecomeMain(w) ==
  /\ Act /\ w \in Framed /\ Titled(w) /\ main # w
  /\ main' = w
  /\ UNCHANGED <<override, shown, server, queue, wire, thread, bounds, frame, drifted, unseen>>

----------------------------------------------------------------------------
Init ==
  /\ override \in SUBSET Windows /\ shown = {}
  /\ \E p \in [y : Tops, h : Heights] : server = [w \in Windows |-> p]
  /\ queue = <<>> /\ wire = <<>> /\ task = None /\ step = "none"
  /\ bounds = [w \in {} |-> None] /\ frame = [w \in {} |-> None] /\ main = None
  /\ ops = 0 /\ drifted = {} /\ unseen = {}

Applications ==
  \E w \in Windows :
    \/ ShowWindow(w) \/ HideWindow(w)
    \/ \E fields \in SUBSET {"y", "h"}, y \in Tops, h \in Heights : AskConfigure(w, fields, y, h)
User == \E w \in Windows : BecomeMain(w) \/ \E y \in Tops, h \in Heights : MoveOrResize(w, y, h)
EventThread ==
  \/ HandleConfigureRequest \/ HandleMap \/ ReadGeometry \/ CreateNewWindow \/ HandleUnmap

Next == Applications \/ User \/ EventThread \/ Exec

Spec == Init /\ [][Next]_vars

----------------------------------------------------------------------------
(* Properties *)

TypeOK ==
  /\ override \subseteq Windows /\ shown \subseteq Windows
  /\ server \in [Windows -> Place]
  /\ \A i \in DOMAIN queue : queue[i].w \in Windows /\ queue[i].place \in Place
  /\ \A i \in DOMAIN wire : wire[i].w \in Windows /\ wire[i].place \in Place
  /\ step \in {"none", "query", "callback"} /\ task \in Windows \cup {None}
  /\ DOMAIN bounds \subseteq Windows /\ bounds \in [DOMAIN bounds -> Place]
  /\ frame \in [Framed -> Place] /\ Framed \subseteq DOMAIN bounds
  /\ main \in {w \in Framed : Titled(w)} \cup {None}
  /\ drifted \subseteq Windows /\ unseen \subseteq Framed

\* Where the pointer, by mouseMovedInApp, is at the server when it is at the top
\* of what Cocoa shows of a window.
Content(w) ==
  LET height == IF Titled(w) THEN frame[w].h - WindowBar ELSE frame[w].h
  IN [y |-> Screen - WindowBar - (frame[w].y + height), h |-> height]

\* Through every conversion between the two coordinate systems, at creation, moves
\* and resizes, the library has each window where Cocoa shows it and the pointer
\* finds it, except a window moved while it was not the main window.
ShownInPlace == \A w \in Framed \ unseen : bounds[w] = Content(w)

\* Once requests are executed the server has a window where the library has it,
\* except one that has been configured for an application since: the library never
\* learns of that, until the user moves the window and so undoes it.
ServerInPlace ==
  \A w \in Framed \ drifted : About(wire, w) = {} => server[w] = bounds[w]

\* Granting an application's request changes only what it asked for, unless another
\* change of the window was under way when it asked, or the client has configured
\* the window since: the values left out are those from when it asked.
UnaskedKept ==
  [][wire # <<>> /\ wire' = Tail(wire) /\ Head(wire).granted /\ ~Head(wire).overtaken =>
       LET r == Head(wire) IN
         /\ "y" \notin r.asked => server'[r.w].y = server[r.w].y
         /\ "h" \notin r.asked => server'[r.w].h = server[r.w].h]_vars
=============================================================================
