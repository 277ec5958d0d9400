--------------------------- MODULE GeometryProofs ---------------------------
(***************************************************************************)
(* Theorems about Geometry, for any windows, screen and places, and any    *)
(* number of steps of applications and user.                               *)
(***************************************************************************)
EXTENDS Geometry, TLAPS

Fields == {"y", "h"}
Events == [kind : {"map", "unmap", "configure"}, w : Windows, place : Place,
           asked : SUBSET Fields, overtaken : BOOLEAN]
Requests == [w : Windows, place : Place, granted : BOOLEAN, asked : SUBSET Fields,
             overtaken : BOOLEAN]

\* Types, exactly enough of them for an induction; and which windows the event
\* thread and the two threads' tables are about.
Types ==
  /\ override \subseteq Windows /\ shown \subseteq Windows
  /\ server \in [Windows -> Place]
  /\ queue \in Seq(Events) /\ wire \in Seq(Requests)
  /\ bounds \in [DOMAIN bounds -> Place] /\ frame \in [Framed -> Place]
  /\ Framed \subseteq Windows
  /\ main \in {w \in Framed : Titled(w)} \cup {None}
  /\ drifted \subseteq Windows /\ unseen \subseteq Framed
  /\ step \in {"none", "query", "callback"} /\ task \in Windows \cup {None}

Creating == IF step = "callback" THEN {task} ELSE {}

Tables ==
  /\ DOMAIN bounds = Framed \cup Creating
  /\ step # "none" => task \in Windows \ Framed

TInv == Types /\ Tables

----------------------------------------------------------------------------
(* What the operators do to the types *)

\* A request that is appended to the wire is one of a known window.
LEMMA ResizeTypes ==
  ASSUME Types, NEW w \in Windows, NEW place \in Place, NEW granted \in BOOLEAN,
         NEW event, event.asked \in SUBSET Fields, event.overtaken \in BOOLEAN,
         Resize(w, place, granted, event)
  PROVE  wire' \in Seq(Requests)
<1> DEFINE r == [w |-> w, place |-> place, granted |-> granted, asked |-> event.asked,
                 overtaken |-> event.overtaken]
<1>1. r \in Requests
  BY DEF Requests
<1>2. wire' = Append(wire, r)
  BY DEF Resize
<1> HIDE DEF r
<1> QED
  BY <1>1, <1>2 DEF Types

\* Marking events as overtaken changes nothing else about them.
LEMMA OvertakeTypes ==
  ASSUME Types, NEW w, Overtake(w)
  PROVE  /\ queue' \in Seq(Events) /\ Len(queue') = Len(queue)
         /\ \A i \in 1 .. Len(queue) :
              /\ queue'[i].kind = queue[i].kind /\ queue'[i].w = queue[i].w
              /\ queue'[i].place = queue[i].place /\ queue'[i].asked = queue[i].asked
              /\ queue'[i].overtaken = (queue[i].overtaken \/ queue[i].w = w)
<1> DEFINE marked(e) == IF e.w = w THEN [e EXCEPT !.overtaken = TRUE] ELSE e
<1>1. queue' = [i \in 1 .. Len(queue) |-> marked(queue[i])]
  BY DEF Overtake, Types
<1>2. \A e \in Events : /\ marked(e) \in Events
                        /\ marked(e).kind = e.kind /\ marked(e).w = e.w
                        /\ marked(e).place = e.place /\ marked(e).asked = e.asked
                        /\ marked(e).overtaken = (e.overtaken \/ e.w = w)
  BY DEF Events
<1>3. \A i \in 1 .. Len(queue) : queue[i] \in Events
  BY DEF Types
<1> HIDE DEF marked
<1>4. Len(queue) \in Nat
  BY DEF Types
<1>5. \A i \in 1 .. Len(queue) : queue'[i] = marked(queue[i])
  BY <1>1
<1>6. queue' \in Seq(Events) /\ Len(queue') = Len(queue)
  BY <1>1, <1>2, <1>3, <1>4
<1> QED
  BY <1>2, <1>3, <1>5, <1>6

\* xcwm_window_configure keeps the types and the set of listed windows.
LEMMA ConfigureTypes ==
  ASSUME Types, NEW w \in DOMAIN bounds, w \in Windows, NEW place \in Place, Configure(w, place)
  PROVE  /\ bounds' \in [DOMAIN bounds -> Place] /\ DOMAIN bounds' = DOMAIN bounds
         /\ wire' \in Seq(Requests) /\ queue' \in Seq(Events) /\ drifted' \subseteq Windows
<1>1. bounds' \in [DOMAIN bounds -> Place]
  BY DEF Configure, Types
<1>2. wire' \in Seq(Requests)
  <2> DEFINE e == [asked |-> {"y", "h"}, overtaken |-> FALSE]
  <2>1. Resize(w, place, FALSE, e) /\ e.asked \in SUBSET Fields /\ e.overtaken \in BOOLEAN
    BY DEF Configure, Fields
  <2> HIDE DEF e
  <2> QED
    BY <2>1, ResizeTypes
<1>3. queue' \in Seq(Events)
  BY OvertakeTypes DEF Configure
<1>4. drifted' \subseteq Windows
  BY DEF Configure, Types
<1> QED
  BY <1>1, <1>2, <1>3, <1>4

----------------------------------------------------------------------------
(* The types are an invariant *)

\* A place chosen from known values is a place.
LEMMA ChosenPlace ==
  ASSUME NEW old \in Place, NEW fields, NEW y \in Int, NEW h \in Int
  PROVE  Chosen(old, fields, y, h) \in Place
BY DEF Chosen, Place

\* What is received is a known event, and what is left are known events.
LEMMA ReceiveTypes ==
  ASSUME Types, NEW kind, Receive(kind)
  PROVE  /\ Head(queue) \in Events /\ queue' \in Seq(Events)
         /\ Head(queue).w \in Windows /\ Head(queue).place \in Place
         /\ Head(queue).asked \in SUBSET Fields /\ Head(queue).overtaken \in BOOLEAN
<1>1. Head(queue) \in Events /\ queue' \in Seq(Events)
  BY DEF Receive, Types
<1> QED
  BY <1>1 DEF Events

\* The types at the start.
LEMMA TInvInit == Init => TInv
<1> SUFFICES ASSUME Init PROVE TInv
  OBVIOUS
<1> USE GeometryAssumption DEF Init, Framed
<1>1. PICK p \in [y : Tops, h : Heights] : server = [w \in Windows |-> p]
  OBVIOUS
<1>2. p \in Place
  BY DEF Place
<1>3. server \in [Windows -> Place]
  BY <1>1, <1>2
<1>4. DOMAIN bounds = {} /\ DOMAIN frame = {}
  OBVIOUS
<1>5. bounds \in [DOMAIN bounds -> Place] /\ frame \in [Framed -> Place]
  BY <1>4
<1>6. queue \in Seq(Events) /\ wire \in Seq(Requests)
  OBVIOUS
<1>7. main \in {w \in Framed : Titled(w)} \cup {None}
  OBVIOUS
<1>8. Types
  BY <1>3, <1>4, <1>5, <1>6, <1>7 DEF Types
<1>9. Tables
  BY <1>4 DEF Tables, Creating
<1> QED
  BY <1>8, <1>9 DEF TInv

\* Applications: they change the server's places and append known events.
LEMMA ApplicationTypes ==
  ASSUME TInv, NEW w \in Windows,
         \/ ShowWindow(w) \/ HideWindow(w)
         \/ \E fields \in SUBSET {"y", "h"}, y \in Tops, h \in Heights :
              AskConfigure(w, fields, y, h)
  PROVE  TInv'
<1> USE DEF TInv
<1>1. server[w] \in Place
  BY DEF Types
<1>2. \A kind \in {"map", "unmap"} : Event(kind, w) \in Events
  BY <1>1 DEF Event, Events
<1>3. CASE ShowWindow(w)
  <2>1. queue' \in Seq(Events)
    BY <1>2, <1>3 DEF ShowWindow, Types
  <2>2. Types'
    BY <1>3, <2>1 DEF ShowWindow, Types, thread, library, Framed, Titled
  <2>3. Tables'
    BY <1>3 DEF ShowWindow, Tables, Creating, thread, library, Framed
  <2> QED
    BY <2>2, <2>3
<1>4. CASE HideWindow(w)
  <2>1. queue' \in Seq(Events)
    BY <1>2, <1>4 DEF HideWindow, Types
  <2>2. Types'
    BY <1>4, <2>1 DEF HideWindow, Types, thread, library, Framed, Titled
  <2>3. Tables'
    BY <1>4 DEF HideWindow, Tables, Creating, thread, library, Framed
  <2> QED
    BY <2>2, <2>3
<1>5. ASSUME NEW fields \in SUBSET {"y", "h"}, NEW y \in Tops, NEW h \in Heights,
             AskConfigure(w, fields, y, h)
      PROVE  TInv'
  <2> DEFINE place == Chosen(server[w], fields, y, h)
             e == [kind |-> "configure", w |-> w, place |-> place, asked |-> fields,
                   overtaken |-> About(wire, w) # {} \/
                     \E i \in About(queue, w) : queue[i].kind = "configure"]
  <2>1. place \in Place
    BY <1>1, ChosenPlace, GeometryAssumption
  <2>2. e \in Events
    BY <2>1 DEF Events, Fields
  <2>3. \/ /\ server' = [server EXCEPT ![w] = place] /\ drifted' = drifted \cup {w}
           /\ queue' = queue
        \/ /\ queue' = Append(queue, e) /\ server' = server /\ drifted' = drifted
    BY <1>5 DEF AskConfigure
  <2> HIDE DEF place, e
  <2>4. server' \in [Windows -> Place] /\ drifted' \subseteq Windows /\ queue' \in Seq(Events)
    <3>1. server' \in [Windows -> Place]
      BY <2>1, <2>3 DEF Types
    <3>2. drifted' \subseteq Windows
      BY <2>3 DEF Types
    <3>3. Append(queue, e) \in Seq(Events)
      BY <2>2 DEF Types
    <3>4. queue' \in Seq(Events)
      BY <2>3, <3>3 DEF Types
    <3> QED
      BY <3>1, <3>2, <3>4
  <2>5. UNCHANGED <<override, shown, wire, thread, library>>
    BY <1>5 DEF AskConfigure
  <2>6. Types'
    BY <2>4, <2>5 DEF Types, thread, library, Framed, Titled
  <2>7. Tables'
    BY <2>5 DEF Tables, Creating, thread, library, Framed
  <2> QED
    BY <2>6, <2>7
<1> QED
  BY <1>3, <1>4, <1>5

\* User: the frame of a listed window, and the bounds of the main one.
LEMMA UserTypes ==
  ASSUME TInv, NEW w \in Windows,
         BecomeMain(w) \/ \E y \in Tops, h \in Heights : MoveOrResize(w, y, h)
  PROVE  TInv'
<1> USE DEF TInv
<1>1. CASE BecomeMain(w)
  <2>1. Types'
    BY <1>1 DEF BecomeMain, Types, thread, Framed, Titled
  <2>2. Tables'
    BY <1>1 DEF BecomeMain, Tables, Creating, thread, Framed
  <2> QED
    BY <2>1, <2>2
<1>2. ASSUME NEW y \in Tops, NEW h \in Heights, MoveOrResize(w, y, h)
      PROVE  TInv'
  <2>1. UNCHANGED <<override, shown, server, thread, main>> /\ w \in Framed
    BY <1>2 DEF MoveOrResize
  <2>2. [y |-> y, h |-> h + WindowBar] \in Place
    BY GeometryAssumption DEF Place, WindowBar
  <2>3. frame' \in [Framed -> Place] /\ Framed' = Framed
    BY <1>2, <2>1, <2>2 DEF MoveOrResize, Types, Framed
  <2>4. CASE main = None /\ UNCHANGED <<bounds, wire, queue, drifted>> /\ unseen' = unseen \cup {w}
    <3>1. Types'
      BY <2>1, <2>3, <2>4 DEF Types, thread, Framed, Titled
    <3>2. Tables'
      BY <2>1, <2>3, <2>4 DEF Tables, Creating, thread
    <3> QED
      BY <3>1, <3>2
  <2>5. CASE main # None /\ Configure(main, Reshaped(frame'[main])) /\ unseen' = (unseen \cup {w}) \ {main}
    <3>1. main \in Framed /\ main \in DOMAIN bounds /\ main \in Windows
      BY <2>5 DEF Types, Tables
    <3>2. Reshaped(frame'[main]) \in Place
      BY <2>3, <3>1, GeometryAssumption DEF Reshaped, Place, OsxToXserver, WindowBar
    <3>3. /\ bounds' \in [DOMAIN bounds -> Place] /\ DOMAIN bounds' = DOMAIN bounds
          /\ wire' \in Seq(Requests) /\ queue' \in Seq(Events) /\ drifted' \subseteq Windows
      BY <2>5, <3>1, <3>2, ConfigureTypes
    <3>4. Types'
      BY <2>1, <2>3, <2>5, <3>3 DEF Types, thread, Titled
    <3>5. Tables'
      BY <2>1, <2>3, <3>3 DEF Tables, Creating, thread
    <3> QED
      BY <3>4, <3>5
  <2> QED
    BY <1>2, <2>4, <2>5 DEF MoveOrResize
<1> QED
  BY <1>1, <1>2

\* Event thread and server: what a handler takes from a known event is known.
LEMMA LibraryTypes ==
  ASSUME TInv, EventThread \/ Exec
  PROVE  TInv'
<1> USE DEF TInv
<1>1. CASE HandleConfigureRequest
  <2>1. /\ queue' \in Seq(Events)
        /\ Head(queue).w \in Windows /\ Head(queue).place \in Place
        /\ Head(queue).asked \in SUBSET Fields /\ Head(queue).overtaken \in BOOLEAN
    BY <1>1, ReceiveTypes DEF HandleConfigureRequest
  <2>2. wire' \in Seq(Requests)
    BY <1>1, <2>1, ResizeTypes DEF HandleConfigureRequest
  <2>3. drifted' \subseteq Windows
    BY <1>1, <2>1 DEF HandleConfigureRequest, Types
  <2>4. UNCHANGED <<override, shown, server, thread, library>>
    BY <1>1 DEF HandleConfigureRequest
  <2>5. Types'
    BY <2>1, <2>2, <2>3, <2>4 DEF Types, thread, library, Framed, Titled
  <2>6. Tables'
    BY <2>4 DEF Tables, Creating, thread, library, Framed
  <2> QED
    BY <2>5, <2>6
<1>2. CASE HandleMap
  <2>1. queue' \in Seq(Events) /\ Head(queue).w \in Windows
    BY <1>2, ReceiveTypes DEF HandleMap
  <2>2. UNCHANGED <<override, shown, server, wire, library, drifted>> /\ step = "none"
    BY <1>2 DEF HandleMap, Receive
  <2>3. \/ UNCHANGED <<task, step>>
        \/ Head(queue).w \notin DOMAIN bounds /\ task' = Head(queue).w /\ step' = "query"
    BY <1>2 DEF HandleMap, thread
  <2>4. Types'
    BY <2>1, <2>2, <2>3 DEF Types, library, Framed, Titled
  <2>5. Tables'
    BY <2>1, <2>2, <2>3 DEF Tables, Creating, library, Framed
  <2> QED
    BY <2>4, <2>5
<1>3. CASE ReadGeometry
  <2>1. task \in Windows \ Framed /\ DOMAIN bounds = Framed
    BY <1>3 DEF ReadGeometry, Tables, Creating
  <2>2. UNCHANGED <<override, shown, server, queue, wire, task, frame, main, unseen>> /\ step' = "callback"
    BY <1>3 DEF ReadGeometry
  <2>3. server[task] \in Place
    BY <2>1 DEF Types
  <2>4. bounds' \in [DOMAIN bounds \cup {task} -> Place]
    BY <1>3, <2>3 DEF ReadGeometry, Types
  <2>5. drifted' \subseteq Windows
    BY <1>3 DEF ReadGeometry, Types
  <2>6. Types'
    BY <2>2, <2>4, <2>5 DEF Types, Framed, Titled
  <2>7. Tables'
    BY <2>1, <2>2, <2>4 DEF Tables, Creating, Framed
  <2> QED
    BY <2>6, <2>7
<1>4. CASE CreateNewWindow
  <2>1. task \in Windows /\ DOMAIN bounds = Framed \cup {task}
    BY <1>4 DEF CreateNewWindow, Tables, Creating
  <2>2. bounds[task] \in Place
    BY <2>1 DEF Types
  <2>3. frame' \in [Framed \cup {task} -> Place]
    <3> DEFINE b == bounds[task]
               f == IF Titled(task) THEN [y |-> XserverToOSX(b), h |-> b.h + WindowBar]
                    ELSE [y |-> XserverToOSX(b) - WindowBar, h |-> b.h]
    <3>1. f \in Place
      BY <2>2, GeometryAssumption DEF Place, XserverToOSX, WindowBar
    <3>2. frame' = [w \in Framed \cup {task} |-> IF w # task THEN frame[w] ELSE f]
      BY <1>4 DEF CreateNewWindow
    <3> HIDE DEF f
    <3> QED
      BY <3>1, <3>2 DEF Types
  <2>4. /\ bounds' \in [DOMAIN bounds -> Place] /\ DOMAIN bounds' = DOMAIN bounds
        /\ wire' \in Seq(Requests) /\ queue' \in Seq(Events) /\ drifted' \subseteq Windows
    <3> DEFINE place == [bounds[task] EXCEPT !.y = @ - WindowBar]
    <3>1. place \in Place
      BY <2>2 DEF Place, WindowBar
    <3>2. \/ Configure(task, place)
          \/ UNCHANGED <<bounds, wire, queue, drifted>>
      BY <1>4 DEF CreateNewWindow
    <3> HIDE DEF place
    <3> QED
      BY <2>1, <3>1, <3>2, ConfigureTypes DEF Types
  <2>5. /\ UNCHANGED <<override, shown, server>> /\ task' = None /\ step' = "none"
        /\ unseen' = unseen \ {task}
        /\ main' \in IF Titled(task) THEN {main, task} ELSE {main}
    BY <1>4 DEF CreateNewWindow
  <2>6. main' \in {w \in Framed \cup {task} : Titled(w)} \cup {None}
    BY <2>5 DEF Types
  <2>7. Types'
    BY <2>1, <2>3, <2>4, <2>5, <2>6 DEF Types, Framed, Titled
  <2>8. Tables'
    BY <2>1, <2>3, <2>4, <2>5 DEF Tables, Creating, Framed
  <2> QED
    BY <2>7, <2>8
<1>5. CASE HandleUnmap
  <2>1. queue' \in Seq(Events) /\ step = "none"
    BY <1>5, ReceiveTypes DEF HandleUnmap, Receive
  <2> DEFINE w == Head(queue).w
  <2>2. bounds' = Drop(bounds, w) /\ frame' = Drop(frame, w) /\ unseen' = unseen \ {w}
    BY <1>5 DEF HandleUnmap
  <2>3. UNCHANGED <<override, shown, server, wire, task, step, drifted>>
    BY <1>5 DEF HandleUnmap, thread
  <2>4. main' \in IF main = w THEN {v \in DOMAIN frame' : Titled(v)} \cup {None} ELSE {main}
    BY <1>5 DEF HandleUnmap
  <2> HIDE DEF w
  <2>5. /\ bounds' \in [DOMAIN bounds \ {w} -> Place] /\ frame' \in [Framed \ {w} -> Place]
    BY <2>2 DEF Types, Drop, Framed
  <2>6. Framed' = Framed \ {w} /\ DOMAIN bounds' = DOMAIN bounds \ {w}
    BY <2>5 DEF Framed
  <2>7. main' \in {v \in Framed' : Titled(v)} \cup {None}
    BY <2>4, <2>6 DEF Types, Framed
  <2>8. Types'
    BY <2>1, <2>2, <2>3, <2>5, <2>6, <2>7 DEF Types, Titled
  <2>9. Tables'
    BY <2>1, <2>3, <2>6 DEF Tables, Creating
  <2> QED
    BY <2>8, <2>9
<1>6. CASE Exec
  <2>1. Head(wire) \in Requests /\ wire' \in Seq(Requests)
    BY <1>6 DEF Exec, Types
  <2>2. Head(wire).w \in Windows /\ Head(wire).place \in Place
    BY <2>1 DEF Requests
  <2>3. server' \in [Windows -> Place]
    BY <1>6, <2>2 DEF Exec, Types
  <2>4. UNCHANGED <<override, shown, queue, thread, library, drifted>>
    BY <1>6 DEF Exec
  <2>5. Types'
    BY <2>1, <2>3, <2>4 DEF Types, thread, library, Framed, Titled
  <2>6. Tables'
    BY <2>4 DEF Tables, Creating, thread, library, Framed
  <2> QED
    BY <2>5, <2>6
<1> QED
  BY <1>1, <1>2, <1>3, <1>4, <1>5, <1>6 DEF EventThread

\* The types are an invariant of the specification.
THEOREM TInvHolds == Spec => []TInv
<1>1. TInv /\ [Next]_vars => TInv'
  <2> SUFFICES ASSUME TInv, [Next]_vars PROVE TInv'
    OBVIOUS
  <2>1. CASE Applications
    BY <2>1, ApplicationTypes DEF Applications
  <2>2. CASE User
    BY <2>2, UserTypes DEF User
  <2>3. CASE EventThread \/ Exec
    BY <2>3, LibraryTypes
  <2>4. CASE UNCHANGED vars
    <3>1. Types'
      BY <2>4 DEF vars, thread, library, TInv, Types, Framed, Titled
    <3>2. Tables'
      BY <2>4 DEF vars, thread, library, TInv, Tables, Creating, Framed
    <3> QED
      BY <3>1, <3>2 DEF TInv
  <2> QED
    BY <2>1, <2>2, <2>3, <2>4 DEF Next
<1> QED
  BY <1>1, TInvInit, PTL DEF Spec

\* TypeOK holds for any windows, places and number of steps: what the event thread,
\* the main thread and the requests between them are about are windows that exist,
\* and no Cocoa window is left of a window that has gone from the list.
THEOREM TypeCorrect == Spec => []TypeOK
<1>1. TInv => TypeOK
  <2> SUFFICES ASSUME TInv PROVE TypeOK
    OBVIOUS
  <2> USE DEF TInv
  <2>1. \A i \in DOMAIN queue : queue[i] \in Events
    BY DEF Types
  <2>2. \A i \in DOMAIN queue : queue[i].w \in Windows /\ queue[i].place \in Place
    BY <2>1 DEF Events
  <2>3. \A i \in DOMAIN wire : wire[i] \in Requests
    BY DEF Types
  <2>4. \A i \in DOMAIN wire : wire[i].w \in Windows /\ wire[i].place \in Place
    BY <2>3 DEF Requests
  <2>5. DOMAIN bounds \subseteq Windows /\ Framed \subseteq DOMAIN bounds
    BY DEF Types, Tables, Creating
  <2> QED
    BY <2>2, <2>4, <2>5 DEF TypeOK, Types
<1> QED
  BY <1>1, TInvHolds, PTL

----------------------------------------------------------------------------
(* The library has windows where Cocoa shows them *)

\* Where the content is depends on the frame, the window's kind and the screen only.
LEMMA ContentSame ==
  ASSUME NEW w, override' = override, frame'[w] = frame[w]
  PROVE  Content(w)' = Content(w)
BY DEF Content, Titled

\* ShownInPlace holds for any screen, places and number of steps: the four
\* conversions of createNewWindow, reshape and mouseMovedInApp fit together.
THEOREM ShownInPlaceCorrect == Spec => []ShownInPlace
<1>1. Init => ShownInPlace
  BY DEF Init, ShownInPlace, Framed
<1>2. TInv /\ TInv' /\ ShownInPlace /\ [Next]_vars => ShownInPlace'
  <2> SUFFICES ASSUME TInv, TInv', ShownInPlace, [Next]_vars,
                      NEW v \in Framed' \ unseen'
               PROVE  bounds'[v] = Content(v)'
    BY DEF ShownInPlace
  <2> USE DEF TInv
  <2>1. CASE UNCHANGED <<override, frame, bounds, unseen>>
    <3>1. v \in Framed \ unseen /\ frame'[v] = frame[v]
      BY <2>1 DEF Framed
    <3> QED
      BY <2>1, <3>1, ContentSame DEF ShownInPlace
  <2>2. ASSUME NEW w \in Windows, NEW y \in Tops, NEW h \in Heights, MoveOrResize(w, y, h)
        PROVE  bounds'[v] = Content(v)'
    <3>1. /\ override' = override /\ main' = main /\ w \in Framed
          /\ frame' = [frame EXCEPT ![w] = [y |-> y, h |-> h + WindowBar]]
          /\ \/ unseen' = unseen \cup {w} /\ bounds' = bounds
             \/ /\ main # None /\ Configure(main, Reshaped(frame'[main]))
                /\ unseen' = (unseen \cup {w}) \ {main}
      BY <2>2 DEF MoveOrResize
    <3>2. Framed' = Framed /\ v \in Framed
      BY <3>1 DEF Framed
    <3>3. CASE v = main /\ main # None /\ Configure(main, Reshaped(frame'[main]))
      <4>1. bounds'[v] = Reshaped(frame'[v])
        BY <3>2, <3>3 DEF Configure, Types, Tables
      <4>2. frame'[v] \in Place
        BY <3>2 DEF Types
      <4>3. Titled(v)'
        BY <3>1, <3>3 DEF Types, Titled
      <4>4. /\ Content(v)' = [y |-> Screen - WindowBar - (frame'[v].y + (frame'[v].h - WindowBar)),
                             h |-> frame'[v].h - WindowBar]
            /\ Reshaped(frame'[v]) = [y |-> Screen - frame'[v].y - WindowBar - (frame'[v].h - WindowBar),
                                      h |-> frame'[v].h - WindowBar]
        BY <4>3 DEF Content, Reshaped, OsxToXserver
      <4>5. frame'[v].y \in Int /\ frame'[v].h \in Int /\ Screen \in Int /\ WindowBar \in Int
        BY <4>2, GeometryAssumption DEF Place, WindowBar
      <4>6. Screen - WindowBar - (frame'[v].y + (frame'[v].h - WindowBar))
              = Screen - frame'[v].y - WindowBar - (frame'[v].h - WindowBar)
        BY <4>5
      <4> QED
        BY <4>1, <4>4, <4>6
    <3>4. CASE v # w /\ bounds'[v] = bounds[v] /\ v \notin unseen
      <4>1. frame'[v] = frame[v]
        BY <3>1, <3>2, <3>4 DEF Types
      <4> QED
        BY <3>1, <3>2, <3>4, <4>1, ContentSame DEF ShownInPlace
    <3>5. v # main => bounds'[v] = bounds[v]
      BY <3>1, <3>2 DEF Configure, Types, Tables
    <3>6. \/ v = main /\ main # None /\ Configure(main, Reshaped(frame'[main]))
          \/ v # w /\ bounds'[v] = bounds[v] /\ v \notin unseen
      <4>1. CASE unseen' = unseen \cup {w} /\ bounds' = bounds
        BY <4>1
      <4>2. CASE main # None /\ Configure(main, Reshaped(frame'[main])) /\ unseen' = (unseen \cup {w}) \ {main}
        BY <3>5, <4>2
      <4> QED
        BY <3>1, <4>1, <4>2
    <3> QED
      BY <3>3, <3>4, <3>6
  <2>3. CASE ReadGeometry
    <3>1. /\ UNCHANGED <<override, frame, unseen>> /\ task \notin Framed
          /\ bounds' = [w \in DOMAIN bounds \cup {task} |->
                          IF w = task THEN server[task] ELSE bounds[w]]
      BY <2>3 DEF ReadGeometry, Tables
    <3>2. v \in Framed \ unseen /\ frame'[v] = frame[v]
      BY <3>1 DEF Framed
    <3>3. bounds'[v] = bounds[v]
      BY <3>1, <3>2 DEF Tables
    <3> QED
      BY <3>1, <3>2, <3>3, ContentSame DEF ShownInPlace
  <2>4. CASE CreateNewWindow
    <3> DEFINE b == bounds[task]
    <3>1. /\ frame' = [w \in Framed \cup {task} |->
               IF w # task THEN frame[w]
               ELSE IF Titled(task) THEN [y |-> XserverToOSX(b), h |-> b.h + WindowBar]
               ELSE [y |-> XserverToOSX(b) - WindowBar, h |-> b.h]]
          /\ IF Titled(task) THEN Configure(task, [b EXCEPT !.y = @ - WindowBar])
                             ELSE bounds' = bounds
          /\ override' = override /\ unseen' = unseen \ {task}
      BY <2>4 DEF CreateNewWindow
    <3>2. DOMAIN bounds = Framed \cup {task}
      BY <2>4 DEF CreateNewWindow, Tables, Creating
    <3>3. b \in Place
      BY <3>2 DEF Types
    <3>4. v \in Framed \cup {task}
      BY <3>1 DEF Framed
    <3> HIDE DEF b
    <3>5. CASE v # task
      <4>1. frame'[v] = frame[v] /\ v \in Framed \ unseen
        BY <3>1, <3>4, <3>5
      <4>2. bounds'[v] = bounds[v]
        BY <3>1, <3>2, <3>4, <3>5 DEF Configure, Types
      <4> QED
        BY <3>1, <4>1, <4>2, ContentSame DEF ShownInPlace
    <3>6. CASE v = task
      <4>1. /\ b.y \in Int /\ b.h \in Int /\ Screen \in Int /\ WindowBar \in Int
            /\ b = [y |-> b.y, h |-> b.h]
        BY <3>3, GeometryAssumption DEF Place, WindowBar
      <4>2. CASE Titled(task)
        <5>1. bounds'[v] = [y |-> b.y - WindowBar, h |-> b.h]
          BY <3>1, <3>2, <3>6, <4>1, <4>2 DEF Configure, Types
        <5>2. frame'[v] = [y |-> Screen - b.h - b.y, h |-> b.h + WindowBar]
          BY <3>1, <3>6, <4>2 DEF XserverToOSX
        <5>3. Titled(v)'
          BY <3>1, <3>6, <4>2 DEF Titled
        <5>4. Content(v)' = [y |-> Screen - WindowBar - (frame'[v].y + (frame'[v].h - WindowBar)),
                             h |-> frame'[v].h - WindowBar]
          BY <5>3 DEF Content
        <5>5. frame'[v].y = Screen - b.h - b.y /\ frame'[v].h = b.h + WindowBar
          BY <5>2
        <5>6. /\ frame'[v].h - WindowBar = b.h
              /\ Screen - WindowBar - (frame'[v].y + (frame'[v].h - WindowBar)) = b.y - WindowBar
          BY <4>1, <5>5
        <5> QED
          BY <5>1, <5>4, <5>6
      <4>3. CASE ~Titled(task)
        <5>1. bounds'[v] = b
          BY <3>1, <3>6, <4>3 DEF b
        <5>2. frame'[v] = [y |-> Screen - b.h - b.y - WindowBar, h |-> b.h]
          BY <3>1, <3>6, <4>3 DEF XserverToOSX
        <5>3. ~Titled(v)'
          BY <3>1, <3>6, <4>3 DEF Titled
        <5>4. Content(v)' = [y |-> Screen - WindowBar - (Screen - b.h - b.y - WindowBar + b.h),
                             h |-> b.h]
          BY <5>2, <5>3 DEF Content
        <5>5. Screen - WindowBar - (Screen - b.h - b.y - WindowBar + b.h) = b.y
          BY <4>1
        <5> QED
          BY <4>1, <5>1, <5>4, <5>5
      <4> QED
        BY <4>2, <4>3
    <3> QED
      BY <3>5, <3>6
  <2>5. CASE HandleUnmap
    <3> DEFINE w == Head(queue).w
    <3>1. /\ bounds' = Drop(bounds, w) /\ frame' = Drop(frame, w)
          /\ unseen' = unseen \ {w} /\ override' = override
      BY <2>5 DEF HandleUnmap
    <3> HIDE DEF w
    <3>2. v \in Framed \ {w}
      BY <3>1 DEF Drop, Framed
    <3>3. frame'[v] = frame[v] /\ bounds'[v] = bounds[v] /\ v \notin unseen
      BY <3>1, <3>2 DEF Drop, Framed, Tables
    <3> QED
      BY <3>1, <3>2, <3>3, ContentSame DEF ShownInPlace
  <2>6. CASE Applications
    BY <2>1, <2>6 DEF Applications, ShowWindow, HideWindow, AskConfigure, library
  <2>7. CASE \E w \in Windows : BecomeMain(w)
    BY <2>1, <2>7 DEF BecomeMain
  <2>8. CASE HandleConfigureRequest \/ HandleMap \/ Exec
    BY <2>1, <2>8 DEF HandleConfigureRequest, HandleMap, Exec, library
  <2>9. CASE UNCHANGED vars
    BY <2>1, <2>9 DEF vars, library
  <2> QED
    BY <2>2, <2>3, <2>4, <2>5, <2>6, <2>7, <2>8, <2>9 DEF Next, User, EventThread
<1> QED
  BY <1>1, <1>2, TInvHolds, PTL DEF Spec

----------------------------------------------------------------------------
(* The server gets windows to where the library has them *)

\* What appending to a sequence leaves and adds.
LEMMA AppendAt ==
  ASSUME NEW S, NEW s \in Seq(S), NEW e \in S
  PROVE  /\ DOMAIN s = 1 .. Len(s) /\ DOMAIN Append(s, e) = 1 .. Len(s) + 1
         /\ \A i \in 1 .. Len(s) : Append(s, e)[i] = s[i]
         /\ Append(s, e)[Len(s) + 1] = e
         /\ Len(s) \in Nat
OBVIOUS

\* What taking the head of a sequence leaves.
LEMMA TailAt ==
  ASSUME NEW S, NEW s \in Seq(S), s # <<>>
  PROVE  /\ DOMAIN s = 1 .. Len(s) /\ DOMAIN Tail(s) = 1 .. Len(s) - 1
         /\ \A i \in 1 .. Len(s) - 1 : Tail(s)[i] = s[i + 1]
         /\ Head(s) = s[1] /\ Head(s) \in S
         /\ Len(s) \in Nat \ {0}
<1>1. Len(s) \in Nat \ {0} /\ DOMAIN s = 1 .. Len(s) /\ Tail(s) \in Seq(S)
  OBVIOUS
<1>2. Len(Tail(s)) = Len(s) - 1
  OBVIOUS
<1>3. Head(s) = s[1] /\ Head(s) \in S
  OBVIOUS
<1>4. \A i \in 1 .. Len(s) - 1 : Tail(s)[i] = s[i + 1]
  OBVIOUS
<1> QED
  BY <1>1, <1>2, <1>3, <1>4

\* The last request about a window asks for what the library has in bounds.
Said(w) ==
  /\ About(wire, w) = {} => server[w] = bounds[w]
  /\ \A i \in About(wire, w) :
       (\A j \in About(wire, w) : j <= i) => wire[i].place = bounds[w]

LastSaid == \A w \in DOMAIN bounds \ drifted : Said(w)

\* A request about another window says nothing of this one.
LEMMA SaidOther ==
  ASSUME Types, NEW v, Said(v), server'[v] = server[v], bounds'[v] = bounds[v],
         NEW r \in Requests, wire' = Append(wire, r), r.w # v
  PROVE  Said(v)'
<1>1. wire \in Seq(Requests)
  BY DEF Types
<1>2. /\ DOMAIN wire = 1 .. Len(wire) /\ DOMAIN wire' = 1 .. Len(wire) + 1
      /\ \A i \in 1 .. Len(wire) : wire'[i] = wire[i]
      /\ wire'[Len(wire) + 1] = r /\ Len(wire) \in Nat
  BY <1>1, AppendAt
<1>3. About(wire', v) = About(wire, v)
  BY <1>2 DEF About
<1>4. \A i \in About(wire, v) : wire'[i] = wire[i]
  BY <1>2 DEF About
<1> QED
  BY <1>3, <1>4 DEF Said

\* What the library asks for itself is the last said about the window.
LEMMA SaidOwn ==
  ASSUME Types, NEW v, NEW r \in Requests, wire' = Append(wire, r), r.w = v, r.place = bounds'[v]
  PROVE  Said(v)'
<1>1. wire \in Seq(Requests)
  BY DEF Types
<1>2. /\ DOMAIN wire = 1 .. Len(wire) /\ DOMAIN wire' = 1 .. Len(wire) + 1
      /\ wire'[Len(wire) + 1] = r /\ Len(wire) \in Nat
  BY <1>1, AppendAt
<1>3. Len(wire) + 1 \in About(wire', v)
  BY <1>2 DEF About
<1>4. \A i \in About(wire', v) : i \in Nat /\ i <= Len(wire) + 1
  BY <1>2 DEF About
<1>5. \A i \in About(wire', v) : (\A j \in About(wire', v) : j <= i) => i = Len(wire) + 1
  BY <1>2, <1>3, <1>4
<1> QED
  BY <1>2, <1>3, <1>5 DEF Said

\* xcwm_window_configure: the window's own request, or another window's.
LEMMA SaidConfigure ==
  ASSUME Types, LastSaid, NEW w \in Windows, w \in DOMAIN bounds, NEW place \in Place,
         Configure(w, place), server' = server,
         NEW v \in DOMAIN bounds' \ drifted'
  PROVE  Said(v)'
<1> DEFINE r == [w |-> w, place |-> place, granted |-> FALSE, asked |-> {"y", "h"},
                 overtaken |-> FALSE]
<1>1. r \in Requests
  BY DEF Requests, Fields
<1>2. wire' = Append(wire, r) /\ bounds' = [bounds EXCEPT ![w] = place] /\ drifted' = drifted \ {w}
  BY DEF Configure, Resize
<1>3. r.w = w /\ r.place = place
  OBVIOUS
<1> HIDE DEF r
<1>4. CASE v = w
  <2>1. bounds'[v] = place
    BY <1>2, <1>4 DEF Types
  <2> QED
    BY <1>1, <1>2, <1>3, <1>4, <2>1, SaidOwn
<1>5. CASE v # w
  <2>1. v \in DOMAIN bounds \ drifted /\ bounds'[v] = bounds[v]
    BY <1>2, <1>5 DEF Types
  <2>2. Said(v)
    BY <2>1 DEF LastSaid
  <2> QED
    BY <1>1, <1>2, <1>3, <1>5, <2>1, <2>2, SaidOther
<1> QED
  BY <1>4, <1>5

\* The server executes the oldest request; if it was the last about the window, the
\* window is where the library has it.
LEMMA SaidExec ==
  ASSUME Types, Exec, NEW v \in DOMAIN bounds \ drifted, v \in Windows, Said(v)
  PROVE  Said(v)'
<1>1. /\ wire # <<>> /\ server' = [server EXCEPT ![Head(wire).w] = Head(wire).place]
      /\ wire' = Tail(wire) /\ bounds' = bounds
  BY DEF Exec, library
<1>2. /\ DOMAIN wire = 1 .. Len(wire) /\ DOMAIN wire' = 1 .. Len(wire) - 1
      /\ \A i \in 1 .. Len(wire) - 1 : wire'[i] = wire[i + 1]
      /\ Head(wire) = wire[1] /\ Len(wire) \in Nat \ {0}
  BY <1>1, TailAt DEF Types
<1>3. \A i \in About(wire', v) : i \in Nat \ {0} /\ i + 1 \in About(wire, v) /\ wire'[i] = wire[i + 1]
  BY <1>2 DEF About
<1>4. \A i \in About(wire, v) : i = 1 \/ (i \in Nat /\ i - 1 \in About(wire', v))
  BY <1>2 DEF About
<1>5. About(wire', v) = {} => server'[v] = bounds'[v]
  <2> SUFFICES ASSUME About(wire', v) = {} PROVE server'[v] = bounds[v]
    BY <1>1
  <2>1. \A i \in About(wire, v) : i = 1
    BY <1>4
  <2>2. CASE About(wire, v) = {}
    <3>1. Head(wire).w # v
      BY <1>2, <2>2 DEF About
    <3> QED
      BY <1>1, <2>2, <3>1 DEF Said, Types
  <2>3. CASE About(wire, v) # {}
    <3>1. 1 \in About(wire, v)
      BY <2>1, <2>3
    <3>2. Head(wire).w = v
      BY <1>2, <3>1 DEF About
    <3>3. wire[1].place = bounds[v]
      BY <2>1, <3>1 DEF Said
    <3> QED
      BY <1>1, <1>2, <3>2, <3>3 DEF Types
  <2> QED
    BY <2>2, <2>3
<1>6. ASSUME NEW i \in About(wire', v), \A j \in About(wire', v) : j <= i
      PROVE  wire'[i].place = bounds'[v]
  <2>1. i + 1 \in About(wire, v) /\ wire'[i] = wire[i + 1] /\ i \in Nat \ {0}
    BY <1>3
  <2>2. \A j \in About(wire, v) : j <= i + 1
    BY <1>4, <1>6, <2>1
  <2> QED
    BY <1>1, <2>1, <2>2 DEF Said
<1> QED
  BY <1>5, <1>6 DEF Said

\* What is said of a window does not depend on the others.
LEMMA SaidSame ==
  ASSUME NEW v, wire' = wire, server'[v] = server[v], bounds'[v] = bounds[v], Said(v)
  PROVE  Said(v)'
BY DEF Said

\* ServerInPlace holds for any number of requests under way: of those about one
\* window the last one tells the place the library has it.
THEOREM ServerInPlaceCorrect == Spec => []ServerInPlace
<1>1. Init => LastSaid
  BY DEF Init, LastSaid
<1>2. TInv /\ TInv' /\ LastSaid /\ [Next]_vars => LastSaid'
  <2> SUFFICES ASSUME TInv, TInv', LastSaid, [Next]_vars, NEW v \in DOMAIN bounds' \ drifted'
               PROVE  Said(v)'
    BY DEF LastSaid
  <2> USE DEF TInv
  <2>1. CASE UNCHANGED <<server, wire, bounds, drifted>>
    BY <2>1, SaidSame DEF LastSaid
  <2>2. ASSUME NEW w \in Windows, NEW fields \in SUBSET {"y", "h"}, NEW y \in Tops, NEW h \in Heights,
               AskConfigure(w, fields, y, h)
        PROVE  Said(v)'
    <3>1. \/ drifted' = drifted \cup {w} /\ \E p : server' = [server EXCEPT ![w] = p]
          \/ server' = server /\ drifted' = drifted
      BY <2>2 DEF AskConfigure
    <3>2. wire' = wire /\ bounds' = bounds
      BY <2>2 DEF AskConfigure, library
    <3>3. v \in DOMAIN bounds \ drifted
      BY <3>1, <3>2
    <3>4. v \in Windows
      BY <3>3 DEF Types, Tables, Creating
    <3>5. server'[v] = server[v]
      BY <3>1, <3>4 DEF Types
    <3> QED
      BY <3>2, <3>3, <3>5, SaidSame DEF LastSaid
  <2>3. ASSUME NEW w \in Windows, NEW y \in Tops, NEW h \in Heights, MoveOrResize(w, y, h)
        PROVE  Said(v)'
    <3>1. /\ server' = server /\ main' = main
          /\ frame' = [frame EXCEPT ![w] = [y |-> y, h |-> h + WindowBar]]
          /\ \/ UNCHANGED <<bounds, wire, drifted>>
             \/ main # None /\ Configure(main, Reshaped(frame'[main]))
      BY <2>3 DEF MoveOrResize
    <3>2. CASE main # None /\ Configure(main, Reshaped(frame'[main]))
      <4>1. main \in Framed /\ main \in DOMAIN bounds /\ main \in Windows
        BY <3>2 DEF Types, Tables
      <4>2. frame'[main] \in Place
        BY <3>1, <4>1 DEF Types, Framed
      <4>3. Reshaped(frame'[main]) \in Place
        BY <4>2, GeometryAssumption DEF Reshaped, Place, OsxToXserver, WindowBar
      <4> QED
        BY <3>1, <3>2, <4>1, <4>3, SaidConfigure
    <3> QED
      BY <2>1, <3>1, <3>2
  <2>4. CASE HandleConfigureRequest
    <3> DEFINE e == Head(queue)
               r == [w |-> e.w, place |-> e.place, granted |-> TRUE, asked |-> e.asked,
                     overtaken |-> e.overtaken]
    <3>1. /\ e.w \in Windows /\ e.place \in Place /\ e.asked \in SUBSET Fields /\ e.overtaken \in BOOLEAN
      BY <2>4, ReceiveTypes DEF HandleConfigureRequest
    <3>2. r \in Requests /\ r.w = e.w
      BY <3>1 DEF Requests
    <3>3. /\ wire' = Append(wire, r) /\ drifted' = drifted \cup {e.w}
          /\ server' = server /\ bounds' = bounds
      BY <2>4 DEF HandleConfigureRequest, Resize, library
    <3> HIDE DEF e, r
    <3>4. v \in DOMAIN bounds \ drifted /\ r.w # v
      BY <3>2, <3>3
    <3> QED
      BY <3>2, <3>3, <3>4, SaidOther DEF LastSaid
  <2>5. CASE ReadGeometry
    <3>1. /\ wire = <<>> /\ wire' = wire /\ server' = server /\ drifted' = drifted \ {task}
          /\ bounds' = [w \in DOMAIN bounds \cup {task} |->
                          IF w = task THEN server[task] ELSE bounds[w]]
      BY <2>5 DEF ReadGeometry
    <3>2. About(wire', v) = {}
      BY <3>1 DEF About
    <3>3. CASE v = task
      BY <3>1, <3>2, <3>3 DEF Said
    <3>4. CASE v # task
      <4>1. v \in DOMAIN bounds \ drifted /\ bounds'[v] = bounds[v]
        BY <3>1, <3>4
      <4> QED
        BY <3>1, <4>1, SaidSame DEF LastSaid
    <3> QED
      BY <3>3, <3>4
  <2>6. CASE CreateNewWindow
    <3> DEFINE place == [bounds[task] EXCEPT !.y = @ - WindowBar]
    <3>1. task \in Windows /\ task \in DOMAIN bounds
      BY <2>6 DEF CreateNewWindow, Tables, Creating
    <3>2. place \in Place
      <4>1. bounds[task] \in Place
        BY <3>1 DEF Types
      <4> QED
        BY <4>1 DEF Place, WindowBar
    <3>3. server' = server /\ (Configure(task, place) \/ UNCHANGED <<bounds, wire, drifted>>)
      BY <2>6 DEF CreateNewWindow
    <3> HIDE DEF place
    <3>4. CASE Configure(task, place)
      BY <3>1, <3>2, <3>3, <3>4, SaidConfigure
    <3> QED
      BY <2>1, <3>3, <3>4
  <2>7. CASE HandleUnmap
    <3>1. /\ bounds' = Drop(bounds, Head(queue).w) /\ UNCHANGED <<server, wire, drifted>>
      BY <2>7 DEF HandleUnmap
    <3>2. v \in DOMAIN bounds \ drifted /\ bounds'[v] = bounds[v]
      BY <3>1 DEF Drop
    <3> QED
      BY <3>1, <3>2, SaidSame DEF LastSaid
  <2>8. CASE Exec
    <3>1. v \in DOMAIN bounds \ drifted
      BY <2>8 DEF Exec, library
    <3>2. v \in Windows
      BY <3>1 DEF Types, Tables, Creating
    <3> QED
      BY <2>8, <3>1, <3>2, SaidExec DEF LastSaid
  <2>9. CASE \E w \in Windows : ShowWindow(w) \/ HideWindow(w) \/ BecomeMain(w)
    BY <2>1, <2>9 DEF ShowWindow, HideWindow, BecomeMain, library
  <2>10. CASE HandleMap
    BY <2>1, <2>10 DEF HandleMap, library
  <2>11. CASE UNCHANGED vars
    BY <2>1, <2>11 DEF vars, library
  <2> QED
    BY <2>2, <2>3, <2>4, <2>5, <2>6, <2>7, <2>8, <2>9, <2>10, <2>11
       DEF Next, Applications, User, EventThread
<1>3. TInv /\ LastSaid => ServerInPlace
  BY DEF TInv, Tables, LastSaid, Said, ServerInPlace
<1> QED
  BY <1>1, <1>2, <1>3, TInvHolds, PTL DEF Spec

----------------------------------------------------------------------------
(* A granted request changes what was asked for *)

\* What the application left out of its request is as the place has it.
Keeps(e, place) == /\ "y" \notin e.asked => e.place.y = place.y
                   /\ "h" \notin e.asked => e.place.h = place.h

Asks(i) == queue[i].kind = "configure"

\* An event that is not overtaken is the only change of its window under way.
EventKept(i) ==
  Asks(i) =>
    /\ queue[i].w \notin override
    /\ ~queue[i].overtaken =>
         /\ About(wire, queue[i].w) = {}
         /\ \A j \in 1 .. i - 1 : Asks(j) => queue[j].w # queue[i].w
         /\ Keeps(queue[i], server[queue[i].w])

\* A granted request that is not overtaken is the next change of its window.
RequestKept(i) ==
  /\ wire[i].w \notin override
  /\ wire[i].granted /\ ~wire[i].overtaken =>
       /\ \A j \in 1 .. i - 1 : wire[j].w # wire[i].w
       /\ Keeps(wire[i], server[wire[i].w])

AllKept == /\ \A i \in 1 .. Len(queue) : EventKept(i)
           /\ \A i \in 1 .. Len(wire) : RequestKept(i)

\* The event thread takes an event: those behind it are still alone with their
\* windows if the request that it makes is about another one.
LEMMA EventsTaken ==
  ASSUME Types, AllKept, queue # <<>>, queue' = Tail(queue), UNCHANGED <<override, server>>,
         \A w : (\A j \in 1 .. 1 : Asks(j) => queue[j].w # w) /\ About(wire, w) = {}
                   => About(wire', w) = {},
         NEW i \in 1 .. Len(queue')
  PROVE  EventKept(i)'
<1>1. /\ DOMAIN queue' = 1 .. Len(queue) - 1
      /\ \A k \in 1 .. Len(queue) - 1 : queue'[k] = queue[k + 1]
      /\ Len(queue) \in Nat \ {0}
  BY TailAt DEF Types
<1>2. Len(queue') = Len(queue) - 1
  BY <1>1 DEF Types
<1>3. i \in Nat \ {0} /\ i + 1 \in 1 .. Len(queue) /\ queue'[i] = queue[i + 1] /\ EventKept(i + 1)
  BY <1>1, <1>2 DEF AllKept
<1>4. Asks(i)' <=> Asks(i + 1)
  BY <1>3 DEF Asks
<1>5. CASE Asks(i + 1) /\ ~queue[i + 1].overtaken
  <2>1. /\ queue[i + 1].w \notin override /\ About(wire, queue[i + 1].w) = {}
        /\ \A j \in 1 .. i : Asks(j) => queue[j].w # queue[i + 1].w
        /\ Keeps(queue[i + 1], server[queue[i + 1].w])
    <3>1. /\ queue[i + 1].w \notin override /\ About(wire, queue[i + 1].w) = {}
          /\ \A j \in 1 .. (i + 1) - 1 : Asks(j) => queue[j].w # queue[i + 1].w
          /\ Keeps(queue[i + 1], server[queue[i + 1].w])
      BY <1>3, <1>5 DEF EventKept
    <3>2. (i + 1) - 1 = i
      BY <1>3
    <3> QED
      BY <3>1, <3>2
  <2>2. \A j \in 1 .. 1 : Asks(j) => queue[j].w # queue[i + 1].w
    BY <1>3, <2>1
  <2>3. About(wire', queue[i + 1].w) = {}
    BY <2>1, <2>2
  <2>4. \A j \in 1 .. i - 1 : Asks(j)' => queue'[j].w # queue[i + 1].w
    <3> SUFFICES ASSUME NEW j \in 1 .. i - 1, Asks(j)' PROVE queue'[j].w # queue[i + 1].w
      OBVIOUS
    <3>1. j + 1 \in 1 .. i /\ queue'[j] = queue[j + 1]
      BY <1>1, <1>2, <1>3
    <3>2. Asks(j + 1)
      BY <3>1 DEF Asks
    <3> QED
      BY <2>1, <3>1, <3>2
  <2>5. queue'[i].w \notin override' /\ About(wire', queue'[i].w) = {}
    BY <1>3, <2>1, <2>3
  <2>6. Keeps(queue'[i], server'[queue'[i].w])
    BY <1>3, <2>1
  <2>7. \A j \in 1 .. i - 1 : Asks(j)' => queue'[j].w # queue'[i].w
    BY <1>3, <2>4
  <2> QED
    BY <2>5, <2>6, <2>7 DEF EventKept
<1>6. CASE ~Asks(i + 1)
  BY <1>4, <1>6 DEF EventKept
<1>7. CASE Asks(i + 1) /\ queue[i + 1].overtaken
  <2>1. queue[i + 1].w \notin override
    BY <1>3, <1>7 DEF EventKept
  <2> QED
    BY <1>3, <1>7, <2>1 DEF EventKept
<1> QED
  BY <1>5, <1>6, <1>7

\* An event arrives.
LEMMA EventsArrive ==
  ASSUME Types, AllKept, NEW e \in Events, queue' = Append(queue, e),
         UNCHANGED <<override, server, wire>>,
         e.kind = "configure" =>
           /\ e.w \notin override
           /\ ~e.overtaken => /\ About(wire, e.w) = {}
                              /\ \A j \in 1 .. Len(queue) : Asks(j) => queue[j].w # e.w
                              /\ Keeps(e, server[e.w])
  PROVE  AllKept'
<1>1. /\ DOMAIN queue' = 1 .. Len(queue) + 1
      /\ \A k \in 1 .. Len(queue) : queue'[k] = queue[k]
      /\ queue'[Len(queue) + 1] = e
      /\ Len(queue) \in Nat
  BY AppendAt DEF Types
<1>2. Len(queue') = Len(queue) + 1
  BY <1>1 DEF Types
<1>3. \A j \in 1 .. Len(queue) : Asks(j)' <=> Asks(j)
  BY <1>1 DEF Asks
<1>4. ASSUME NEW i \in 1 .. Len(queue)
      PROVE  EventKept(i)'
  <2>1. EventKept(i) /\ queue'[i] = queue[i] /\ (Asks(i)' <=> Asks(i))
    BY <1>1, <1>3 DEF AllKept
  <2>2. \A j \in 1 .. i - 1 : (Asks(j)' <=> Asks(j)) /\ queue'[j] = queue[j]
    BY <1>1, <1>3
  <2> QED
    BY <2>1, <2>2 DEF EventKept
<1>5. ASSUME NEW n, n = Len(queue) + 1
      PROVE  EventKept(n)'
  <2>1. queue'[n] = e /\ (Asks(n)' <=> e.kind = "configure")
    BY <1>1, <1>5 DEF Asks
  <2>2. \A j \in 1 .. n - 1 : (Asks(j)' <=> Asks(j)) /\ queue'[j] = queue[j] /\ j \in 1 .. Len(queue)
    BY <1>1, <1>3, <1>5
  <2>3. CASE e.kind = "configure" /\ ~e.overtaken
    <3>1. queue'[n].w \notin override' /\ About(wire', queue'[n].w) = {}
      BY <2>1, <2>3
    <3>2. Keeps(queue'[n], server'[queue'[n].w])
      BY <2>1, <2>3
    <3>3. \A j \in 1 .. n - 1 : Asks(j)' => queue'[j].w # queue'[n].w
      BY <2>1, <2>2, <2>3
    <3> QED
      BY <3>1, <3>2, <3>3 DEF EventKept
  <2> QED
    BY <2>1, <2>3 DEF EventKept
<1>6. \A i \in 1 .. Len(queue') : EventKept(i)'
  <2> SUFFICES ASSUME NEW i \in 1 .. Len(queue') PROVE EventKept(i)'
    OBVIOUS
  <2>1. i \in 1 .. Len(queue) \/ i = Len(queue) + 1
    BY <1>1, <1>2
  <2> QED
    BY <1>4, <1>5, <2>1
<1>7. \A i \in 1 .. Len(wire') : RequestKept(i)'
  <2> SUFFICES ASSUME NEW i \in 1 .. Len(wire) PROVE RequestKept(i)'
    OBVIOUS
  <2>1. RequestKept(i)
    BY DEF AllKept
  <2> QED
    BY <2>1 DEF RequestKept
<1> QED
  BY <1>6, <1>7 DEF AllKept

\* Events and requests wait while nothing happens to windows that are managed.
LEMMA KeptWaiting ==
  ASSUME AllKept, UNCHANGED <<override, queue, wire>>,
         \A w : w \notin override => server'[w] = server[w]
  PROVE  AllKept'
<1>1. ASSUME NEW i \in 1 .. Len(queue) PROVE EventKept(i)'
  <2>1. EventKept(i) /\ (Asks(i)' <=> Asks(i))
    BY DEF AllKept, Asks
  <2>2. \A j \in 1 .. i - 1 : Asks(j)' <=> Asks(j)
    BY DEF Asks
  <2> QED
    BY <2>1, <2>2 DEF EventKept
<1>2. ASSUME NEW i \in 1 .. Len(wire) PROVE RequestKept(i)'
  <2>1. RequestKept(i)
    BY DEF AllKept
  <2> QED
    BY <2>1 DEF RequestKept
<1> QED
  BY <1>1, <1>2 DEF AllKept

\* A request is made: those before it have not changed.
LEMMA RequestsMade ==
  ASSUME Types, AllKept, NEW r \in Requests, wire' = Append(wire, r), UNCHANGED <<override, server>>,
         r.w \notin override,
         r.granted /\ ~r.overtaken => About(wire, r.w) = {} /\ Keeps(r, server[r.w]),
         NEW i \in 1 .. Len(wire')
  PROVE  RequestKept(i)'
<1>1. /\ DOMAIN wire = 1 .. Len(wire) /\ DOMAIN wire' = 1 .. Len(wire) + 1
      /\ \A k \in 1 .. Len(wire) : wire'[k] = wire[k]
      /\ wire'[Len(wire) + 1] = r /\ Len(wire) \in Nat
  BY AppendAt DEF Types
<1>2. Len(wire') = Len(wire) + 1
  BY <1>1 DEF Types
<1>3. CASE i \in 1 .. Len(wire)
  <2>1. RequestKept(i) /\ wire'[i] = wire[i]
    BY <1>1, <1>3 DEF AllKept
  <2>2. \A j \in 1 .. i - 1 : wire'[j] = wire[j]
    BY <1>1, <1>3
  <2> QED
    BY <2>1, <2>2 DEF RequestKept
<1>4. CASE i = Len(wire) + 1
  <2>1. wire'[i] = r
    BY <1>1, <1>4
  <2>2. ASSUME About(wire, r.w) = {} PROVE \A j \in 1 .. i - 1 : wire'[j].w # wire'[i].w
    BY <1>1, <1>4, <2>1, <2>2 DEF About
  <2> QED
    BY <2>1, <2>2 DEF RequestKept
<1> QED
  BY <1>1, <1>2, <1>3, <1>4

\* A request leaves nothing on its way about another window.
LEMMA AboutOther ==
  ASSUME Types, NEW r \in Requests, wire' = Append(wire, r), NEW w, r.w # w, About(wire, w) = {}
  PROVE  About(wire', w) = {}
<1>1. /\ DOMAIN wire = 1 .. Len(wire) /\ DOMAIN wire' = 1 .. Len(wire) + 1
      /\ \A k \in 1 .. Len(wire) : wire'[k] = wire[k]
      /\ wire'[Len(wire) + 1] = r /\ Len(wire) \in Nat
  BY AppendAt DEF Types
<1> QED
  BY <1>1 DEF About

\* xcwm_window_configure overtakes what the application has asked for.
LEMMA KeptConfigure ==
  ASSUME Types, AllKept, NEW w \in Windows, Titled(w), NEW place \in Place, Configure(w, place),
         UNCHANGED <<override, server>>
  PROVE  AllKept'
<1> DEFINE r == [w |-> w, place |-> place, granted |-> FALSE, asked |-> {"y", "h"},
                 overtaken |-> FALSE]
<1>1. r \in Requests /\ ~r.granted /\ r.w = w
  BY DEF Requests, Fields
<1>2. wire' = Append(wire, r) /\ Overtake(w)
  BY DEF Configure, Resize
<1> HIDE DEF r
<1>3. \A i \in 1 .. Len(wire') : RequestKept(i)'
  BY <1>1, <1>2, RequestsMade DEF Titled
<1>4. /\ Len(queue') = Len(queue)
      /\ \A i \in 1 .. Len(queue) :
              /\ queue'[i].kind = queue[i].kind /\ queue'[i].w = queue[i].w
              /\ queue'[i].place = queue[i].place /\ queue'[i].asked = queue[i].asked
              /\ queue'[i].overtaken = (queue[i].overtaken \/ queue[i].w = w)
  BY <1>2, OvertakeTypes
<1>5. \A i \in 1 .. Len(queue) : Asks(i)' <=> Asks(i)
  BY <1>4 DEF Asks
<1>6. ASSUME NEW i \in 1 .. Len(queue) PROVE EventKept(i)'
  <2>1. EventKept(i) /\ (Asks(i)' <=> Asks(i))
    BY <1>5 DEF AllKept
  <2>2. CASE Asks(i) /\ ~queue[i].overtaken /\ queue[i].w # w
    <3>1. /\ queue[i].w \notin override /\ About(wire, queue[i].w) = {}
          /\ \A j \in 1 .. i - 1 : Asks(j) => queue[j].w # queue[i].w
          /\ Keeps(queue[i], server[queue[i].w])
      BY <2>1, <2>2 DEF EventKept
    <3>2. queue'[i].w \notin override' /\ About(wire', queue'[i].w) = {}
      BY <1>1, <1>2, <1>4, <2>2, <3>1, AboutOther
    <3>3. Keeps(queue'[i], server'[queue'[i].w])
      BY <1>4, <3>1 DEF Keeps
    <3>4. \A j \in 1 .. i - 1 : j \in 1 .. Len(queue)
      BY <1>4 DEF Types
    <3>5. \A j \in 1 .. i - 1 : Asks(j)' => queue'[j].w # queue'[i].w
      BY <1>4, <1>5, <3>1, <3>4
    <3> QED
      BY <3>2, <3>3, <3>5 DEF EventKept
  <2>3. CASE ~Asks(i)
    BY <2>1, <2>3 DEF EventKept
  <2>4. CASE Asks(i) /\ (queue[i].overtaken \/ queue[i].w = w)
    <3>1. queue'[i].w \notin override' /\ queue'[i].overtaken
      BY <1>4, <2>1, <2>4 DEF EventKept
    <3> QED
      BY <3>1 DEF EventKept
  <2> QED
    BY <2>2, <2>3, <2>4
<1> QED
  BY <1>3, <1>4, <1>6 DEF AllKept

\* The server executes the oldest request: the other windows stay where they are, and
\* nothing of this one that is not overtaken was still waiting.
LEMMA KeptExec ==
  ASSUME Types, AllKept, Exec
  PROVE  AllKept'
<1>1. /\ wire # <<>> /\ server' = [server EXCEPT ![Head(wire).w] = Head(wire).place]
      /\ wire' = Tail(wire) /\ UNCHANGED <<override, queue>>
  BY DEF Exec
<1>2. /\ DOMAIN wire = 1 .. Len(wire) /\ DOMAIN wire' = 1 .. Len(wire) - 1
      /\ \A i \in 1 .. Len(wire) - 1 : wire'[i] = wire[i + 1]
      /\ Head(wire) = wire[1] /\ Len(wire) \in Nat \ {0}
  BY <1>1, TailAt DEF Types
<1>3. Len(wire') = Len(wire) - 1
  BY <1>1, <1>2 DEF Types
<1>4. \A w \in Windows : w # wire[1].w => server'[w] = server[w]
  BY <1>1, <1>2 DEF Types
<1>5. ASSUME NEW i \in 1 .. Len(queue) PROVE EventKept(i)'
  <2>1. EventKept(i) /\ (Asks(i)' <=> Asks(i)) /\ \A j \in 1 .. i - 1 : Asks(j)' <=> Asks(j)
    BY <1>1 DEF AllKept, Asks
  <2>2. CASE Asks(i) /\ ~queue[i].overtaken
    <3>1. /\ queue[i].w \notin override /\ About(wire, queue[i].w) = {}
          /\ \A j \in 1 .. i - 1 : Asks(j) => queue[j].w # queue[i].w
          /\ Keeps(queue[i], server[queue[i].w])
      BY <2>1, <2>2 DEF EventKept
    <3>2. queue[i].w # wire[1].w /\ About(wire', queue[i].w) = {}
      <4>1. \A k \in 1 .. Len(wire) : wire[k].w # queue[i].w
        BY <1>2, <3>1 DEF About
      <4>2. \A k \in 1 .. Len(wire) - 1 : wire'[k].w # queue[i].w
        BY <1>2, <4>1
      <4> QED
        BY <1>2, <4>1, <4>2 DEF About
    <3>3. queue[i] \in Events
      BY DEF Types
    <3>4. server'[queue[i].w] = server[queue[i].w]
      BY <1>4, <3>2, <3>3 DEF Events
    <3>5. \A j \in 1 .. i - 1 : Asks(j)' => queue'[j].w # queue'[i].w
      BY <1>1, <2>1, <3>1
    <3> QED
      BY <1>1, <3>1, <3>2, <3>4, <3>5 DEF EventKept
  <2>3. CASE ~Asks(i) \/ queue[i].overtaken
    BY <1>1, <2>1, <2>3 DEF EventKept
  <2> QED
    BY <2>2, <2>3
<1>6. ASSUME NEW i \in 1 .. Len(wire') PROVE RequestKept(i)'
  <2>1. i \in Nat \ {0} /\ i + 1 \in 1 .. Len(wire) /\ wire'[i] = wire[i + 1]
    BY <1>2, <1>3
  <2>2. RequestKept(i + 1)
    BY <2>1 DEF AllKept
  <2>3. wire[i + 1].w \notin override
    BY <2>2 DEF RequestKept
  <2>4. CASE wire[i + 1].granted /\ ~wire[i + 1].overtaken
    <3>1. /\ \A j \in 1 .. (i + 1) - 1 : wire[j].w # wire[i + 1].w
          /\ Keeps(wire[i + 1], server[wire[i + 1].w])
      BY <2>2, <2>4 DEF RequestKept
    <3>2. \A j \in 1 .. i : wire[j].w # wire[i + 1].w
      <4>1. (i + 1) - 1 = i
        BY <2>1
      <4> QED
        BY <3>1, <4>1
    <3>3. wire[1].w # wire[i + 1].w
      BY <2>1, <3>2
    <3>4. wire[i + 1] \in Requests
      BY <2>1 DEF Types
    <3>5. server'[wire[i + 1].w] = server[wire[i + 1].w]
      BY <1>4, <3>3, <3>4 DEF Requests
    <3>6. \A j \in 1 .. i - 1 : wire'[j].w # wire'[i].w
      <4> SUFFICES ASSUME NEW j \in 1 .. i - 1 PROVE wire'[j].w # wire'[i].w
        OBVIOUS
      <4>1. j + 1 \in 1 .. i /\ wire'[j] = wire[j + 1]
        BY <1>2, <1>3, <2>1
      <4> QED
        BY <2>1, <3>2, <4>1
    <3> QED
      BY <1>1, <2>1, <2>3, <3>1, <3>5, <3>6 DEF RequestKept
  <2>5. CASE ~(wire[i + 1].granted /\ ~wire[i + 1].overtaken)
    BY <1>1, <2>1, <2>3, <2>5 DEF RequestKept
  <2> QED
    BY <2>4, <2>5
<1> QED
  BY <1>1, <1>5, <1>6 DEF AllKept

\* XCB_CONFIGURE_REQUEST: the event's window is alone with the request made of it.
LEMMA KeptGrant ==
  ASSUME Types, AllKept, HandleConfigureRequest
  PROVE  AllKept'
<1> DEFINE e == Head(queue)
           r == [w |-> e.w, place |-> e.place, granted |-> TRUE, asked |-> e.asked,
                 overtaken |-> e.overtaken]
<1>1. /\ queue # <<>> /\ e.kind = "configure" /\ queue' = Tail(queue)
      /\ wire' = Append(wire, r) /\ UNCHANGED <<override, server>>
  BY DEF HandleConfigureRequest, Receive, Resize
<1>2. /\ e.w \in Windows /\ e.place \in Place /\ e.asked \in SUBSET Fields /\ e.overtaken \in BOOLEAN
  BY ReceiveTypes DEF HandleConfigureRequest
<1>3. r \in Requests
  BY <1>2 DEF Requests
<1>4. /\ r.w = e.w /\ r.overtaken = e.overtaken /\ r.asked = e.asked /\ r.place = e.place
  OBVIOUS
<1>5. e = queue[1] /\ 1 \in 1 .. Len(queue)
  BY <1>1, TailAt DEF Types
<1> HIDE DEF e, r
<1>6. Asks(1) /\ EventKept(1)
  BY <1>1, <1>5 DEF Asks, AllKept
<1>7. e.w \notin override
  BY <1>5, <1>6 DEF EventKept
<1>8. ~e.overtaken => About(wire, e.w) = {} /\ Keeps(e, server[e.w])
  BY <1>5, <1>6 DEF EventKept
<1>9. ~r.overtaken => About(wire, r.w) = {} /\ Keeps(r, server[r.w])
  BY <1>4, <1>8 DEF Keeps
<1>10. \A i \in 1 .. Len(wire') : RequestKept(i)'
  BY <1>1, <1>3, <1>4, <1>7, <1>9, RequestsMade
<1>11. ASSUME NEW w, \A j \in 1 .. 1 : Asks(j) => queue[j].w # w, About(wire, w) = {}
       PROVE  About(wire', w) = {}
  <2>1. r.w # w
    BY <1>4, <1>5, <1>6, <1>11
  <2> QED
    BY <1>1, <1>3, <1>11, <2>1, AboutOther
<1>12. \A i \in 1 .. Len(queue') : EventKept(i)'
  BY <1>1, <1>11, EventsTaken
<1> QED
  BY <1>10, <1>12 DEF AllKept

\* The other handlers take an event and make no request.
LEMMA KeptTaken ==
  ASSUME Types, AllKept, queue # <<>>, queue' = Tail(queue), UNCHANGED <<override, server, wire>>
  PROVE  AllKept'
<1>1. \A i \in 1 .. Len(queue') : EventKept(i)'
  BY EventsTaken
<1>2. ASSUME NEW i \in 1 .. Len(wire) PROVE RequestKept(i)'
  <2>1. RequestKept(i)
    BY DEF AllKept
  <2> QED
    BY <2>1 DEF RequestKept
<1> QED
  BY <1>1, <1>2 DEF AllKept

\* What waits, events and requests, is alone with its window or marked.
THEOREM AllKeptHolds == Spec => []AllKept
<1>1. Init => AllKept
  BY DEF Init, AllKept
<1>2. TInv /\ TInv' /\ AllKept /\ [Next]_vars => AllKept'
  <2> SUFFICES ASSUME TInv, TInv', AllKept, [Next]_vars PROVE AllKept'
    OBVIOUS
  <2> USE DEF TInv
  <2>1. CASE UNCHANGED <<override, queue, wire, server>>
    BY <2>1, KeptWaiting
  <2>2. ASSUME NEW w \in Windows, ShowWindow(w) \/ HideWindow(w) PROVE AllKept'
    <3>1. \A kind \in {"map", "unmap"} : Event(kind, w) \in Events /\ Event(kind, w).kind # "configure"
      BY DEF Event, Events, Types
    <3>2. PICK e \in Events : queue' = Append(queue, e) /\ e.kind # "configure"
      BY <2>2, <3>1 DEF ShowWindow, HideWindow
    <3>3. UNCHANGED <<override, server, wire>>
      BY <2>2 DEF ShowWindow, HideWindow
    <3> QED
      BY <3>2, <3>3, EventsArrive
  <2>3. ASSUME NEW w \in Windows, NEW fields \in SUBSET {"y", "h"}, NEW y \in Tops, NEW h \in Heights,
               AskConfigure(w, fields, y, h)
        PROVE  AllKept'
    <3> DEFINE place == Chosen(server[w], fields, y, h)
               e == [kind |-> "configure", w |-> w, place |-> place, asked |-> fields,
                     overtaken |-> About(wire, w) # {} \/
                       \E i \in About(queue, w) : queue[i].kind = "configure"]
    <3>1. place \in Place
      BY ChosenPlace, GeometryAssumption DEF Types
    <3>2. e \in Events
      BY <3>1 DEF Events, Fields
    <3>3. /\ UNCHANGED <<override, wire>>
          /\ \/ w \in override /\ server' = [server EXCEPT ![w] = place] /\ queue' = queue
             \/ w \notin override /\ queue' = Append(queue, e) /\ server' = server
      BY <2>3 DEF AskConfigure
    <3>4. /\ e.w = w /\ e.asked = fields /\ e.place = place
          /\ ~e.overtaken => /\ About(wire, w) = {}
                             /\ \A i \in About(queue, w) : queue[i].kind # "configure"
      OBVIOUS
    <3>5. Keeps(e, server[w])
      BY <3>4 DEF Keeps, Chosen
    <3> HIDE DEF place, e
    <3>6. CASE w \in override /\ server' = [server EXCEPT ![w] = place] /\ queue' = queue
      <4>1. \A v : v \notin override => server'[v] = server[v]
        BY <3>6 DEF Types
      <4> QED
        BY <3>3, <3>6, <4>1, KeptWaiting
    <3>7. CASE w \notin override /\ queue' = Append(queue, e) /\ server' = server
      <4>1. ~e.overtaken => \A j \in 1 .. Len(queue) : Asks(j) => queue[j].w # w
        BY <3>4 DEF Asks, About, Types
      <4> QED
        BY <3>2, <3>3, <3>4, <3>5, <3>7, <4>1, EventsArrive
    <3> QED
      BY <3>3, <3>6, <3>7
  <2>4. ASSUME NEW w \in Windows, NEW y \in Tops, NEW h \in Heights, MoveOrResize(w, y, h)
        PROVE  AllKept'
    <3>1. /\ UNCHANGED <<override, server>> /\ main' = main
          /\ frame' = [frame EXCEPT ![w] = [y |-> y, h |-> h + WindowBar]]
          /\ \/ UNCHANGED <<wire, queue>>
             \/ main # None /\ Configure(main, Reshaped(frame'[main]))
      BY <2>4 DEF MoveOrResize
    <3>2. CASE main # None /\ Configure(main, Reshaped(frame'[main]))
      <4>1. main \in Framed /\ main \in Windows /\ Titled(main)
        BY <3>2 DEF Types
      <4>2. frame'[main] \in Place
        BY <3>1, <4>1 DEF Types, Framed
      <4>3. Reshaped(frame'[main]) \in Place
        BY <4>2, GeometryAssumption DEF Reshaped, Place, OsxToXserver, WindowBar
      <4> QED
        BY <3>1, <3>2, <4>1, <4>3, KeptConfigure
    <3> QED
      BY <2>1, <3>1, <3>2
  <2>5. CASE CreateNewWindow
    <3> DEFINE place == [bounds[task] EXCEPT !.y = @ - WindowBar]
    <3>1. task \in Windows /\ task \in DOMAIN bounds
      BY <2>5 DEF CreateNewWindow, Tables, Creating
    <3>2. place \in Place
      <4>1. bounds[task] \in Place
        BY <3>1 DEF Types
      <4> QED
        BY <4>1 DEF Place, WindowBar
    <3>3. /\ UNCHANGED <<override, server>>
          /\ \/ Titled(task) /\ Configure(task, place)
             \/ UNCHANGED <<wire, queue>>
      BY <2>5 DEF CreateNewWindow
    <3> HIDE DEF place
    <3>4. CASE Titled(task) /\ Configure(task, place)
      BY <3>1, <3>2, <3>3, <3>4, KeptConfigure
    <3> QED
      BY <2>1, <3>3, <3>4
  <2>6. CASE HandleConfigureRequest
    BY <2>6, KeptGrant
  <2>7. CASE HandleMap \/ HandleUnmap
    <3>1. queue # <<>> /\ queue' = Tail(queue) /\ UNCHANGED <<override, server, wire>>
      BY <2>7 DEF HandleMap, HandleUnmap, Receive
    <3> QED
      BY <3>1, KeptTaken
  <2>8. CASE Exec
    BY <2>8, KeptExec
  <2>9. CASE ReadGeometry
    BY <2>1, <2>9 DEF ReadGeometry
  <2>10. CASE \E w \in Windows : BecomeMain(w)
    BY <2>1, <2>10 DEF BecomeMain
  <2>11. CASE UNCHANGED vars
    BY <2>1, <2>11 DEF vars
  <2> QED
    BY <2>2, <2>3, <2>4, <2>5, <2>6, <2>7, <2>8, <2>9, <2>10, <2>11
       DEF Next, Applications, User, EventThread
<1> QED
  BY <1>1, <1>2, TInvHolds, PTL DEF Spec

\* UnaskedKept holds however many requests and windows there are: HandleConfigureRequest
\* sends all four values and still leaves alone what the application left out.
THEOREM UnaskedKeptCorrect == Spec => UnaskedKept
<1> DEFINE Granted == wire # <<>> /\ wire' = Tail(wire) /\ Head(wire).granted /\ ~Head(wire).overtaken
           Left == /\ "y" \notin Head(wire).asked => server'[Head(wire).w].y = server[Head(wire).w].y
                   /\ "h" \notin Head(wire).asked => server'[Head(wire).w].h = server[Head(wire).w].h
<1>1. TInv /\ AllKept /\ [Next]_vars => [Granted => Left]_vars
  <2> SUFFICES ASSUME TInv, AllKept, Next, Granted PROVE Left
    OBVIOUS
  <2>1. wire \in Seq(Requests) /\ wire # <<>>
    BY DEF TInv, Types
  <2>2. Len(wire) \in Nat \ {0} /\ Head(wire) = wire[1] /\ Head(wire) \in Requests
    BY <2>1, TailAt
  <2>3. RequestKept(1)
    BY <2>2 DEF AllKept
  <2>4. Keeps(Head(wire), server[Head(wire).w])
    BY <2>2, <2>3 DEF RequestKept
  <2>5. wire' # wire
    <3>1. Len(Tail(wire)) = Len(wire) - 1
      BY <2>1
    <3>2. wire' = Tail(wire)
      OBVIOUS
    <3>3. Len(wire) - 1 # Len(wire)
      BY <2>2
    <3> QED
      BY <3>1, <3>2, <3>3
  <2>6. CASE Exec
    <3>1. server'[Head(wire).w] = Head(wire).place
      BY <2>2, <2>6 DEF Exec, Requests, TInv, Types
    <3> QED
      BY <2>4, <3>1 DEF Keeps
  <2>7. CASE UNCHANGED server
    BY <2>7
  <2>8. CASE wire' = wire
    BY <2>5, <2>8
  <2>9. CASE Applications
    BY <2>8, <2>9 DEF Applications, ShowWindow, HideWindow, AskConfigure
  <2>10. CASE User
    BY <2>7, <2>10 DEF User, BecomeMain, MoveOrResize
  <2>11. CASE EventThread
    BY <2>7, <2>11 DEF EventThread, HandleConfigureRequest, HandleMap, ReadGeometry, CreateNewWindow, HandleUnmap
  <2> QED
    BY <2>6, <2>9, <2>10, <2>11 DEF Next
<1>2. [][Granted => Left]_vars => UnaskedKept
  BY PTL DEF UnaskedKept
<1> QED
  BY <1>1, <1>2, TInvHolds, AllKeptHolds, PTL DEF Spec
=============================================================================
