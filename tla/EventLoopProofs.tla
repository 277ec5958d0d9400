--------------------------- MODULE EventLoopProofs ---------------------------
(***************************************************************************)
(* Proofs about EventLoop, for any windows, pixmaps and bounds: its type   *)
(* correctness, with the inductive invariant that says what a handler      *)
(* knows between two of its steps (IInv); that it implements               *)
(* CallbackContract; that its list (LInv) and its pixmaps (PInv) agree     *)
(* with the server once all is read and executed; and that no pixmap is    *)
(* left at the server without an owner (XInv).                             *)
(***************************************************************************)
EXTENDS EventLoop, SequenceTheorems, TLAPS

IInv == TypeOK /\ Control

Names == [Pixmaps -> [w : Windows \cup {NoWindow}, fresh : BOOLEAN]]

LEMMA EventTyped ==
  /\ \A t \in EventTypes \ {"DamageNotify", "CursorNotify"}, w \in Windows, f \in BOOLEAN :
       Ev(t, w, f) \in Event
  /\ \A w \in Windows, f \in BOOLEAN : Ev("DamageNotify", w, f) \in Event
  /\ Ev("DamageNotify", Root, FALSE) \in Event
  /\ Ev("CursorNotify", NoWindow, FALSE) \in Event
  BY DEF Ev, Event, EventTypes

LEMMA Appended ==
  ASSUME NEW S, NEW q \in Seq(S), NEW e \in S
  PROVE  /\ <<e>> \in Seq(S)
         /\ Append(q, e) \in Seq(S)
         /\ q \o <<e>> \in Seq(S)
  BY ConcatProperties, <<e>> \in Seq(S)

LEMMA OutdatedTyped ==
  ASSUME named \in Names, NEW w \in Windows
  PROVE  Outdated(w) \in Names
  BY DEF Outdated, Names

LEMMA SpendTyped ==
  ASSUME budget \in 0 .. MaxOps, Spend
  PROVE  budget' \in 0 .. MaxOps
  BY BoundAssumption DEF Spend

\* Emit, for the events an action of the applications can cause.
LEMMA ApplicationsEmit ==
  ASSUME queue \in Seq(Event), Applications
  PROVE  queue' \in Seq(Event)
<1>1. ASSUME NEW e \in Event, Emit(<<e>>) PROVE queue' \in Seq(Event)
  BY <1>1, Appended DEF Emit
<1>2. ASSUME NEW w \in Windows PROVE UnmapEvents(w) \in Seq(Event)
  <2>1. <<>> \in Seq(Event)
    BY EmptySeq
  <2>2. Ev("UnmapNotify", w, FALSE) \in Event
    BY EventTyped DEF EventTypes
  <2>. QED BY <2>1, <2>2, Appended DEF UnmapEvents
<1>3. ASSUME NEW es \in Seq(Event), Emit(es) PROVE queue' \in Seq(Event)
  BY <1>3, ConcatProperties DEF Emit
<1>4. ASSUME NEW w \in Windows, NEW t \in {"UnmapNotify", "DestroyNotify"}
      PROVE  Append(UnmapEvents(w), Ev(t, w, FALSE)) \in Seq(Event)
  <2>1. Ev(t, w, FALSE) \in Event
    BY EventTyped DEF EventTypes
  <2>. QED BY <1>2, <2>1, Appended
<1>5. ASSUME NEW w \in Windows, MapWindow(w) PROVE queue' \in Seq(Event)
  BY <1>1, <1>5, EventTyped DEF MapWindow, EventTypes
<1>6. ASSUME NEW w \in Windows, UnmapWindow(w) PROVE queue' \in Seq(Event)
  BY <1>2, <1>3, <1>6 DEF UnmapWindow
<1>7. ASSUME NEW w \in Windows, WithdrawWindow(w) PROVE queue' \in Seq(Event)
  BY <1>3, <1>4, <1>7 DEF WithdrawWindow
<1>8. ASSUME NEW w \in Windows, DestroyWindow(w) PROVE queue' \in Seq(Event)
  BY <1>3, <1>4, <1>8 DEF DestroyWindow
<1>9. ASSUME NEW w \in Windows, ConfigureWindow(w) PROVE queue' \in Seq(Event)
  BY <1>1, <1>9, EventTyped DEF ConfigureWindow, EventTypes
<1>10. ASSUME NEW w \in Windows, ChangeShapeOrProperty(w) PROVE queue' \in Seq(Event)
  BY <1>1, <1>10, EventTyped DEF ChangeShapeOrProperty, EventTypes
<1>11. ASSUME NEW w \in Windows \cup {Root}, DrawInWindow(w) PROVE queue' \in Seq(Event)
  BY <1>1, <1>11, EventTyped DEF DrawInWindow
<1>12. ASSUME ChangeCursor PROVE queue' \in Seq(Event)
  BY <1>1, <1>12, EventTyped DEF ChangeCursor
<1>13. ASSUME NEW w \in Windows, CreateWindow(w) PROVE queue' \in Seq(Event)
  BY <1>13 DEF CreateWindow
<1>. QED
  BY <1>5, <1>6, <1>7, <1>8, <1>9, <1>10, <1>11, <1>12, <1>13 DEF Applications

LEMMA ApplicationsTyped ==
  ASSUME ServerTypeOK, Applications
  PROVE  ServerTypeOK'
<1>. USE DEF ServerTypeOK
<1>1. budget' \in 0 .. MaxOps
  <2>1. Spend BY DEF Applications, CreateWindow, MapWindow, UnmapWindow, WithdrawWindow,
     DestroyWindow, ConfigureWindow, ChangeShapeOrProperty, DrawInWindow, ChangeCursor
  <2> QED BY <2>1, SpendTyped
<1>2. queue' \in Seq(Event)
  BY ApplicationsEmit
<1>3. named' \in [Pixmaps -> [w : Windows \cup {NoWindow}, fresh : BOOLEAN]]
  <2>1. named' = named \/ \E w \in Windows : named' = Outdated(w)
    BY DEF Applications, CreateWindow, MapWindow, UnmapWindow, WithdrawWindow,
       DestroyWindow, ConfigureWindow, ChangeShapeOrProperty, DrawInWindow, ChangeCursor,
       serverVars
  <2>2. named \in Names BY DEF Names
  <2>3. named' \in Names BY <2>1, <2>2, OutdatedTyped
  <2> QED BY <2>3 DEF Names
<1>4. st' \in [Windows -> {"free", "unmapped", "mapped", "dead"}]
  BY DEF Applications, CreateWindow, MapWindow, UnmapWindow, WithdrawWindow,
     DestroyWindow, ConfigureWindow, ChangeShapeOrProperty, DrawInWindow, ChangeCursor, serverVars
<1>5. kind' \in [Windows -> Kinds]
  BY DEF Applications, CreateWindow, MapWindow, UnmapWindow, WithdrawWindow,
     DestroyWindow, ConfigureWindow, ChangeShapeOrProperty, DrawInWindow, ChangeCursor, serverVars
<1>6. dmgObj' \subseteq Windows \cup {Root}
  BY DEF Applications, CreateWindow, MapWindow, UnmapWindow, WithdrawWindow,
     DestroyWindow, ConfigureWindow, ChangeShapeOrProperty, DrawInWindow, ChangeCursor, serverVars
<1>7. listening' \subseteq {"PropertyNotify", "ShapeNotify"} \X Windows
  BY DEF Applications, CreateWindow, MapWindow, UnmapWindow, WithdrawWindow,
     DestroyWindow, ConfigureWindow, ChangeShapeOrProperty, DrawInWindow, ChangeCursor, serverVars
<1>8. out' \in Seq(Request)
  BY DEF Applications, CreateWindow, MapWindow, UnmapWindow, WithdrawWindow,
     DestroyWindow, ConfigureWindow, ChangeShapeOrProperty, DrawInWindow, ChangeCursor, serverVars
<1>. QED BY <1>1, <1>2, <1>3, <1>4, <1>5, <1>6, <1>7, <1>8

LEMMA ExecTyped ==
  ASSUME ServerTypeOK, Exec
  PROVE  ServerTypeOK'
<1>. DEFINE r == Head(out)
<1>. USE DEF ServerTypeOK
<1>1. /\ r \in Request
      /\ out' \in Seq(Request)
  <2>1. out # <<>> /\ out' = Tail(out)
    BY DEF Exec
  <2>. QED BY <2>1, HeadTailProperties
<1>2. budget' \in 0 .. MaxOps
  BY DEF Exec
<1>3. r.op \in Ops
  BY <1>1 DEF Request, Ops
<1>e. \A e \in Event : queue \o <<e>> \in Seq(Event)
  BY Appended
<1>4. ASSUME r.op = "map" PROVE ServerTypeOK'
  <2>1. ExecMap(r.w)
    BY <1>4 DEF Exec
  <2>2. queue' \in Seq(Event)
    <3>1. r.w \in Windows => Ev("MapNotify", r.w, FALSE) \in Event
      BY EventTyped DEF EventTypes
    <3>. QED BY <2>1, <3>1, <1>e DEF ExecMap, Emit
  <2>. QED BY <1>1, <1>2, <2>1, <2>2 DEF ExecMap, serverVars
<1>5. ASSUME r.op = "resize" PROVE ServerTypeOK'
  <2>1. ExecResize(r.w)
    BY <1>5 DEF Exec
  <2>2. queue' \in Seq(Event)
    <3>1. r.w \in Windows => Ev("ConfigureNotify", r.w, FALSE) \in Event
      BY EventTyped DEF EventTypes
    <3>. QED BY <2>1, <3>1, <1>e DEF ExecResize, Emit
  <2>3. named' \in Names
    BY <2>1, OutdatedTyped DEF ExecResize, serverVars, Names
  <2>. QED BY <1>1, <1>2, <2>1, <2>2, <2>3 DEF ExecResize, serverVars, Names
<1>6. ASSUME r.op = "name" PROVE ServerTypeOK'
  <2>1. ExecName(r.w, r.p)
    BY <1>6 DEF Exec
  <2>2. named' \in [Pixmaps -> [w : Windows \cup {NoWindow}, fresh : BOOLEAN]]
    <3>1. r.w \in Windows => [w |-> r.w, fresh |-> TRUE]
                               \in [w : Windows \cup {NoWindow}, fresh : BOOLEAN]
      OBVIOUS
    <3>. HIDE DEF r
    <3>. QED BY <2>1, <3>1 DEF ExecName
  <2>. QED BY <1>1, <1>2, <2>1, <2>2 DEF ExecName
<1>7. ASSUME r.op = "freepix" PROVE ServerTypeOK'
  <2>1. ExecFreePixmap(r.p)
    BY <1>7 DEF Exec
  <2>. QED BY <1>1, <1>2, <2>1 DEF ExecFreePixmap, Unbound
<1>8. ASSUME r.op = "dmgdestroy" PROVE ServerTypeOK'
  <2>1. ExecDamageDestroy(r.w)
    BY <1>8 DEF Exec
  <2>. QED BY <1>1, <1>2, <2>1 DEF ExecDamageDestroy
<1>9. ASSUME r.op = "dmgadd" PROVE ServerTypeOK'
  <2>1. ExecDamageAdd(r.w)
    BY <1>9 DEF Exec
  <2>2. queue' \in Seq(Event)
    <3>1. r.w \in dmgObj => Ev("DamageNotify", r.w, FALSE) \in Event
      BY EventTyped
    <3>. QED BY <2>1, <3>1, <1>e DEF ExecDamageAdd, Emit
  <2>. QED BY <1>1, <1>2, <2>1, <2>2 DEF ExecDamageAdd, serverVars
<1>. QED
  BY <1>3, <1>4, <1>5, <1>6, <1>7, <1>8, <1>9 DEF Ops

----------------------------------------------------------------------------
(* The event thread *)

\* What is at the head of the queue.
LEMMA Received ==
  ASSUME queue \in Seq(Event), NEW t \in EventTypes, Receive(t)
  PROVE  /\ queue' \in Seq(Event)
         /\ Head(queue) \in Event
         /\ t \notin {"DamageNotify", "CursorNotify"} => Head(queue).w \in Windows
         /\ t = "DamageNotify" => Head(queue).w \in Windows \cup {Root}
         /\ Head(queue).flag \in BOOLEAN
<1>1. /\ queue' \in Seq(Event)
      /\ Head(queue) \in Event
      /\ Head(queue).type = t
  BY HeadTailProperties DEF Receive
<1>2. ASSUME NEW e \in Event
      PROVE  /\ e.type \notin {"DamageNotify", "CursorNotify"} => e.w \in Windows
             /\ e.type = "DamageNotify" => e.w \in Windows \cup {Root}
             /\ e.flag \in BOOLEAN
  BY DEF Event
<1>. QED BY <1>1, <1>2

LEMMA RequestTyped ==
  /\ \A op \in Ops \ {"name", "freepix"}, w \in Windows \cup {Root} :
       Req(op, w, NoPixmap) \in Request
  /\ \A w \in Windows, p \in Pixmaps : Req("name", w, p) \in Request
  /\ \A p \in Pixmaps : Req("freepix", NoWindow, p) \in Request
  BY DEF Req, Request, Ops

PixmapTyped == pixmap \in [Windows -> Pixmaps \cup {NoPixmap}]

LEMMA ReleaseTyped ==
  ASSUME PixmapTyped, NEW w \in Windows
  PROVE  ReleaseRequests(w) \in Seq(Request)
<1>1. <<>> \in Seq(Request)
  BY EmptySeq
<1>2. pixmap[w] # NoPixmap => Req("freepix", NoWindow, pixmap[w]) \in Request
  BY RequestTyped DEF PixmapTyped
<1>. QED BY <1>1, <1>2, Appended DEF ReleaseRequests

LEMMA PixmapUpdateTyped ==
  ASSUME PixmapTyped, out \in Seq(Request), NEW w, PixmapUpdate(w)
  PROVE  PixmapTyped' /\ out' \in Seq(Request)
<1>1. PICK p \in Pixmaps : /\ out' = out \o Append(ReleaseRequests(w), Req("name", w, p))
                           /\ pixmap' = [pixmap EXCEPT ![w] = p]
  BY DEF PixmapUpdate, UnusedPixmaps
<1>2. w \in Windows
  BY DEF PixmapUpdate
<1>3. Append(ReleaseRequests(w), Req("name", w, p)) \in Seq(Request)
  BY <1>2, ReleaseTyped, RequestTyped, Appended
<1>. QED BY <1>1, <1>2, <1>3, ConcatProperties DEF PixmapTyped

\* The thread's own variables, other than pixmap.
ThreadTyped ==
  /\ managed \subseteq Windows \cup {Root}
  /\ initial \subseteq Windows \cup {Root}
  /\ pc \in PcValues
  /\ cur \in Windows \cup {Root, NoWindow}
  /\ via \in ViaValues
  /\ todo \subseteq Windows

LEMMA ThreadPreserves ==
  ASSUME IInv, EventThread
  PROVE  ThreadTyped' /\ Control'
<1>. USE WindowAssumption DEF IInv, TypeOK, ServerTypeOK, ThreadTyped, Control, PcValues,
     ViaValues, Goto, Stay, Resume, StartCreate, Lookup
<1>1. ASSUME AdoptQuery PROVE ThreadTyped' /\ Control'
  BY <1>1 DEF AdoptQuery
<1>2. ASSUME NEW w \in Windows, AdoptNext(w) PROVE ThreadTyped' /\ Control'
  BY <1>2 DEF AdoptNext
<1>3. ASSUME AdoptDone PROVE ThreadTyped' /\ Control'
  BY <1>3 DEF AdoptDone
<1>4. ASSUME HandleMapRequest PROVE ThreadTyped' /\ Control'
  <2>1. Receive("MapRequest")
    BY <1>4 DEF HandleMapRequest
  <2>2. Head(queue).w \in Windows
    BY <2>1, Received DEF EventTypes
  <2>. QED BY <1>4, <2>1, <2>2 DEF HandleMapRequest, Receive
<1>5. ASSUME HandleMapNotify PROVE ThreadTyped' /\ Control'
  <2>1. Receive("MapNotify")
    BY <1>5 DEF HandleMapNotify
  <2>2. Head(queue).w \in Windows
    BY <2>1, Received DEF EventTypes
  <2>. QED BY <1>5, <2>1, <2>2 DEF HandleMapNotify, Receive
<1>6. ASSUME CreateAttributes PROVE ThreadTyped' /\ Control'
  BY <1>6 DEF CreateAttributes
<1>7. ASSUME CreateGeometry PROVE ThreadTyped' /\ Control'
  BY <1>7 DEF CreateGeometry
<1>8. ASSUME CreateProperties PROVE ThreadTyped' /\ Control'
  BY <1>8 DEF CreateProperties
<1>9. ASSUME CreateShape PROVE ThreadTyped' /\ Control'
  BY <1>9 DEF CreateShape
<1>10. ASSUME CreateFinish PROVE ThreadTyped' /\ Control'
  BY <1>10 DEF CreateFinish
<1>11. ASSUME NEW t \in {"UnmapNotify", "DestroyNotify"}, NEW h \in {"unmap", "destroy"},
             Remove(t, h) PROVE ThreadTyped' /\ Control'
  <2>1. Receive(t)
    BY <1>11 DEF Remove
  <2>2. Head(queue).w \in Windows
    BY <2>1, Received DEF EventTypes
  <2>. QED BY <1>11, <2>1, <2>2 DEF Remove, Receive
<1>12. ASSUME HandleConfigureRequest PROVE ThreadTyped' /\ Control'
  <2>1. Receive("ConfigureRequest")
    BY <1>12 DEF HandleConfigureRequest
  <2>2. Head(queue).w \in Windows
    BY <2>1, Received DEF EventTypes
  <2>. QED BY <1>12, <2>1, <2>2 DEF HandleConfigureRequest, Receive, threadVars
<1>13. ASSUME HandleConfigureNotify PROVE ThreadTyped' /\ Control'
  <2>1. Receive("ConfigureNotify")
    BY <1>13 DEF HandleConfigureNotify
  <2>2. Head(queue).w \in Windows
    BY <2>1, Received DEF EventTypes
  <2>. QED BY <1>13, <2>1, <2>2 DEF HandleConfigureNotify, Receive
<1>14. ASSUME HandleDamageNotify PROVE ThreadTyped' /\ Control'
  <2>1. Receive("DamageNotify")
    BY <1>14 DEF HandleDamageNotify
  <2>2. Head(queue).w \in Windows \cup {Root}
    BY <2>1, Received DEF EventTypes
  <2>. QED BY <1>14, <2>1, <2>2 DEF HandleDamageNotify, Receive
<1>15. ASSUME HandleShapeNotify PROVE ThreadTyped' /\ Control'
  <2>1. Receive("ShapeNotify")
    BY <1>15 DEF HandleShapeNotify
  <2>2. Head(queue).w \in Windows
    BY <2>1, Received DEF EventTypes
  <2>. QED BY <1>15, <2>1, <2>2 DEF HandleShapeNotify, Receive
<1>16. ASSUME Reshape PROVE ThreadTyped' /\ Control'
  BY <1>16 DEF Reshape
<1>17. ASSUME HandlePropertyNotify PROVE ThreadTyped' /\ Control'
  <2>1. Receive("PropertyNotify")
    BY <1>17 DEF HandlePropertyNotify
  <2>2. Head(queue).w \in Windows
    BY <2>1, Received DEF EventTypes
  <2>. QED BY <1>17, <2>1, <2>2 DEF HandlePropertyNotify, Receive
<1>18. ASSUME HandleCursorNotify PROVE ThreadTyped' /\ Control'
  BY <1>18 DEF HandleCursorNotify, Receive
<1>19. ASSUME CallbackReturn PROVE ThreadTyped' /\ Control'
  BY <1>19 DEF CallbackReturn
<1>20. ASSUME DestroyReturn PROVE ThreadTyped' /\ Control'
  BY <1>20 DEF DestroyReturn
<1>. QED
  BY <1>1, <1>2, <1>3, <1>4, <1>5, <1>6, <1>7, <1>8, <1>9, <1>10,
     <1>11, <1>12, <1>13, <1>14, <1>15, <1>16, <1>17, <1>18, <1>19, <1>20
     DEF EventThread, HandleUnmapNotify, HandleDestroyNotify

LEMMA ThreadRequests ==
  ASSUME IInv, EventThread
  PROVE  out' \in Seq(Request) /\ PixmapTyped'
<1>. USE DEF IInv, TypeOK, ServerTypeOK, Control, PixmapTyped
<1>1. CASE UNCHANGED <<out, pixmap>>
  BY <1>1
<1>2. ASSUME NEW w, PixmapUpdate(w) PROVE out' \in Seq(Request) /\ PixmapTyped'
  BY <1>2, PixmapUpdateTyped
<1>3. ASSUME NEW r \in Request, out' = Append(out, r), UNCHANGED pixmap
      PROVE  out' \in Seq(Request) /\ PixmapTyped'
  BY <1>3, Appended
<1>4. CASE HandleMapRequest
  <2>1. Head(queue).w \in Windows
    BY <1>4, Received DEF HandleMapRequest, EventTypes
  <2>2. Req("map", Head(queue).w, NoPixmap) \in Request
    BY <2>1, RequestTyped DEF Ops
  <2>. QED BY <1>4, <2>2, <1>3 DEF HandleMapRequest
<1>5. ASSUME NEW t \in {"UnmapNotify", "DestroyNotify"}, NEW h, Remove(t, h)
      PROVE  out' \in Seq(Request) /\ PixmapTyped'
  <2>1. Head(queue).w \in Windows
    BY <1>5, Received DEF Remove, EventTypes
  <2>2. Req("dmgdestroy", Head(queue).w, NoPixmap) \in Request
    BY <2>1, RequestTyped DEF Ops
  <2>. QED BY <1>5, <2>2, <1>1, <1>3 DEF Remove
<1>6. CASE HandleConfigureRequest
  <2>1. Head(queue).w \in Windows
    BY <1>6, Received DEF HandleConfigureRequest, EventTypes
  <2>2. Req("resize", Head(queue).w, NoPixmap) \in Request
    BY <2>1, RequestTyped DEF Ops
  <2>. QED BY <1>6, <2>2, <1>1, <1>3 DEF HandleConfigureRequest, threadVars
<1>7. CASE HandleDamageNotify
  <2>1. Head(queue).w \in Windows \cup {Root}
    BY <1>7, Received DEF HandleDamageNotify, EventTypes
  <2>2. Req("dmgadd", Head(queue).w, NoPixmap) \in Request
    BY <2>1, RequestTyped DEF Ops
  <2>. QED BY <1>7, <2>2, <1>1, <1>3 DEF HandleDamageNotify
<1>8. CASE DestroyReturn
  <2>1. cur \in Windows /\ ReleaseRequests(cur) \in Seq(Request)
    BY <1>8, ReleaseTyped DEF DestroyReturn
  <2>2. out' \in Seq(Request)
    BY <1>8, <2>1, ConcatProperties DEF DestroyReturn
  <2>. QED BY <1>8, <2>1, <2>2 DEF DestroyReturn
<1>9. CASE HandleMapNotify \/ HandleConfigureNotify \/ CreateFinish
  BY <1>9, <1>1, <1>2 DEF HandleMapNotify, HandleConfigureNotify, CreateFinish
<1>. QED
  BY <1>1, <1>4, <1>5, <1>6, <1>7, <1>8, <1>9 DEF EventThread, AdoptQuery, AdoptNext,
     AdoptDone, CreateAttributes, CreateGeometry, CreateProperties, CreateShape,
     HandleUnmapNotify, HandleDestroyNotify, HandleShapeNotify, Reshape,
     HandlePropertyNotify, HandleCursorNotify, CallbackReturn

LEMMA ThreadServerTyped ==
  ASSUME IInv, EventThread
  PROVE  ServerTypeOK'
<1>. USE DEF IInv, TypeOK, ServerTypeOK, Control
<1>1. CASE CreateProperties
  <2>1. cur \in Windows
    BY <1>1 DEF CreateProperties
  <2>2. \A f \in BOOLEAN : queue \o <<Ev("DamageNotify", cur, f)>> \in Seq(Event)
    BY <2>1, EventTyped, Appended
  <2>3. queue' \in Seq(Event)
    BY <1>1, <2>2 DEF CreateProperties, Emit
  <2>4. /\ dmgObj' \subseteq Windows \cup {Root}
        /\ listening' \subseteq {"PropertyNotify", "ShapeNotify"} \X Windows
    BY <1>1, <2>1 DEF CreateProperties
  <2>. QED BY <1>1, <2>3, <2>4 DEF CreateProperties
<1>2. CASE CreateFinish
  <2>1. cur \in Windows
    BY <1>2 DEF CreateFinish
  <2>2. listening' \subseteq {"PropertyNotify", "ShapeNotify"} \X Windows
    BY <1>2, <2>1 DEF CreateFinish
  <2>. QED BY <1>2, <2>2, ThreadRequests DEF CreateFinish
<1>3. ASSUME NEW t \in EventTypes, Receive(t), UNCHANGED <<serverVars, budget>>
      PROVE  ServerTypeOK'
  BY <1>3, Received, ThreadRequests DEF serverVars
<1>4. ASSUME UNCHANGED <<serverVars, queue, budget>> PROVE ServerTypeOK'
  BY <1>4, ThreadRequests DEF serverVars
<1>5. \/ HandleMapRequest \/ HandleMapNotify \/ HandleUnmapNotify \/ HandleDestroyNotify
      \/ HandleConfigureRequest \/ HandleConfigureNotify \/ HandleDamageNotify
      \/ HandleShapeNotify \/ HandlePropertyNotify \/ HandleCursorNotify
      => \E t \in EventTypes : Receive(t) /\ UNCHANGED <<serverVars, budget>>
  BY DEF HandleMapRequest, HandleMapNotify, HandleUnmapNotify, HandleDestroyNotify,
     Remove, HandleConfigureRequest, HandleConfigureNotify, HandleDamageNotify,
     HandleShapeNotify, HandlePropertyNotify, HandleCursorNotify, EventTypes
<1>. QED
  BY <1>1, <1>2, <1>3, <1>4, <1>5 DEF EventThread, AdoptQuery, AdoptNext, AdoptDone,
     CreateAttributes, CreateGeometry, CreateShape, Reshape, CallbackReturn, DestroyReturn

----------------------------------------------------------------------------
(* The invariant *)

LEMMA InitIInv == Init => IInv
<1>. SUFFICES ASSUME Init PROVE IInv
  OBVIOUS
<1>1. ServerTypeOK
  BY BoundAssumption, EmptySeq DEF Init, ServerInit, ServerTypeOK, Unbound
<1>2. TypeOK
  BY <1>1 DEF Init, TypeOK, PcValues, ViaValues
<1>3. Control
  BY DEF Init, Control
<1>. QED BY <1>2, <1>3 DEF IInv

LEMMA NextIInv == IInv /\ [Next]_vars => IInv'
<1>. SUFFICES ASSUME IInv, [Next]_vars PROVE IInv'
  OBVIOUS
<1>1. ASSUME ServerTypeOK', UNCHANGED threadVars PROVE IInv'
  BY <1>1 DEF IInv, TypeOK, Control, threadVars
<1>2. CASE Outside
  BY <1>1, <1>2, ApplicationsTyped, ExecTyped DEF Outside, IInv, TypeOK
<1>3. ASSUME NEW w \in Windows, ClientConfigure(w) PROVE IInv'
  <2>1. Req("resize", w, NoPixmap) \in Request
    BY RequestTyped DEF Ops
  <2>2. out' \in Seq(Request)
    BY <1>3, <2>1, Appended DEF ClientConfigure, IInv, TypeOK, ServerTypeOK
  <2>3. budget' \in 0 .. MaxOps
    BY <1>3, SpendTyped DEF ClientConfigure, IInv, TypeOK, ServerTypeOK
  <2>4. ServerTypeOK'
    BY <1>3, <2>2, <2>3 DEF ClientConfigure, serverVars, IInv, TypeOK, ServerTypeOK
  <2>. QED BY <1>1, <1>3, <2>4 DEF ClientConfigure
<1>4. CASE EventThread
  BY <1>4, ThreadPreserves, ThreadServerTyped, ThreadRequests
     DEF IInv, TypeOK, ThreadTyped, PixmapTyped
<1>5. CASE UNCHANGED vars
  BY <1>5 DEF vars, serverVars, threadVars, IInv, TypeOK, ServerTypeOK, Control
<1>. QED BY <1>2, <1>3, <1>4, <1>5 DEF Next

\* The handlers stay on windows they have a right to, whatever the server and
\* the applications do between their steps.
THEOREM IInvHolds == Spec => []IInv
  BY InitIInv, NextIInv, PTL DEF Spec

\* The variables keep their types; in particular every request names a window
\* or a pixmap, never XCB_NONE.
THEOREM TypeCorrect == Spec => []TypeOK
  BY IInvHolds, PTL DEF IInv

----------------------------------------------------------------------------
(* Refinement of CallbackContract *)

LEMMA InitContract == Init => Contract!Init
  BY DEF Init, Contract!Init, AnnouncedBar, CbBar, Contract!NoCallback

\* The environment touches neither the list nor the callback in progress.
LEMMA StutterContract ==
  ASSUME UNCHANGED <<managed, pc, cur, via>>
  PROVE  UNCHANGED Contract!vars
  BY DEF Contract!vars, AnnouncedBar, CbBar

\* Every step of the thread begins a callback the contract allows, ends the
\* one in progress, or does nothing the client can see.
LEMMA ThreadContract ==
  ASSUME IInv, EventThread
  PROVE  Contract!Next \/ UNCHANGED Contract!vars
<1>. USE WindowAssumption DEF IInv, TypeOK, ServerTypeOK, Control, AnnouncedBar, CbBar,
     Goto, Stay, Resume
<1>1. ASSUME pc \notin {"cbCreate", "cbDestroy", "cbNote"},
             pc' \notin {"cbCreate", "cbDestroy", "cbNote"},
             UNCHANGED managed
      PROVE  UNCHANGED Contract!vars
  BY <1>1 DEF Contract!vars
<1>2. CASE CreateFinish
  <2>1. Contract!BeginCreate(cur)
    BY <1>2 DEF CreateFinish, Contract!BeginCreate, Contract!Call, Contract!NoCallback
  <2>. QED BY <1>2, <2>1 DEF CreateFinish, Contract!Next
<1>3. ASSUME NEW t \in {"UnmapNotify", "DestroyNotify"}, NEW h, Remove(t, h)
      PROVE  Contract!Next \/ UNCHANGED Contract!vars
  <2>1. Head(queue).w \in Windows /\ pc = "wait"
    BY <1>3, Received DEF Remove, Receive, EventTypes
  <2>2. CASE ~Lookup(Head(queue).w)
    BY <1>3, <2>1, <2>2, StutterContract DEF Remove
  <2>3. CASE Lookup(Head(queue).w)
    <3>1. Contract!BeginDestroy(Head(queue).w)
      BY <1>3, <2>1, <2>3 DEF Remove, Lookup, Contract!BeginDestroy, Contract!Call,
         Contract!NoCallback
    <3>. QED BY <2>1, <3>1 DEF Contract!Next
  <2>. QED BY <2>2, <2>3
<1>4. ASSUME pc \in {"wait", "reshape"}, pc' = "cbNote", cur' \in managed,
             via' \in {"damage", "shape", "property"}, UNCHANGED managed
      PROVE  Contract!Next
  <2>1. Contract!BeginNote(via', cur')
    BY <1>4 DEF Contract!BeginNote, Contract!Call, Contract!NoCallback
  <2>. QED BY <1>4, <2>1 DEF Contract!Next, Contract!NoteTypes
<1>5. CASE HandleCursorNotify
  <2>1. Contract!BeginCursor
    BY <1>5 DEF HandleCursorNotify, Receive, Contract!BeginCursor, Contract!Call,
       Contract!NoCallback
  <2>. QED BY <2>1 DEF Contract!Next
<1>6. CASE CallbackReturn
  <2>1. CASE pc = "cbCreate"
    <3>1. Contract!EndCreate
      BY <1>6, <2>1 DEF CallbackReturn, Contract!EndCreate, Contract!NoCallback
    <3>. QED BY <3>1 DEF Contract!Next
  <2>2. CASE pc = "cbNote"
    <3>1. Contract!EndNote
      BY <1>6, <2>2 DEF CallbackReturn, Contract!EndNote, Contract!NoCallback,
         Contract!NoteTypes
    <3>. QED BY <3>1 DEF Contract!Next
  <2>. QED BY <1>6, <2>1, <2>2 DEF CallbackReturn
<1>7. CASE DestroyReturn
  <2>1. Contract!EndDestroy
    BY <1>7 DEF DestroyReturn, Contract!EndDestroy, Contract!NoCallback
  <2>. QED BY <2>1 DEF Contract!Next
<1>8. CASE HandleDamageNotify
  BY <1>8, <1>4, StutterContract DEF HandleDamageNotify, Receive, Lookup
<1>9. CASE HandleShapeNotify
  BY <1>9, <1>1, <1>4 DEF HandleShapeNotify, Receive, Lookup
<1>10. CASE Reshape
  BY <1>10, <1>1, <1>4 DEF Reshape
<1>11. CASE HandlePropertyNotify
  BY <1>11, <1>4, StutterContract DEF HandlePropertyNotify, Receive, Lookup
<1>12. CASE HandleMapRequest \/ HandleMapNotify \/ (\E w \in Windows : AdoptNext(w))
  BY <1>12, <1>1 DEF HandleMapRequest, HandleMapNotify, AdoptNext, Receive, StartCreate
<1>13. CASE \/ AdoptQuery \/ AdoptDone \/ CreateAttributes \/ CreateGeometry
            \/ CreateProperties \/ CreateShape
  BY <1>13, <1>1 DEF AdoptQuery, AdoptDone, CreateAttributes, CreateGeometry,
     CreateProperties, CreateShape
<1>14. CASE HandleConfigureRequest \/ HandleConfigureNotify
  BY <1>14, StutterContract DEF HandleConfigureRequest, HandleConfigureNotify, threadVars
<1>. QED
  BY <1>2, <1>3, <1>5, <1>6, <1>7, <1>8, <1>9, <1>10, <1>11, <1>12, <1>13, <1>14
     DEF EventThread, HandleUnmapNotify, HandleDestroyNotify

LEMMA NextContract ==
  ASSUME IInv, [Next]_vars
  PROVE  Contract!Next \/ UNCHANGED Contract!vars
<1>1. CASE Outside \/ (\E w \in Windows : ClientConfigure(w)) \/ UNCHANGED vars
  BY <1>1, StutterContract DEF Outside, ClientConfigure, vars, threadVars
<1>2. CASE EventThread
  BY <1>2, ThreadContract
<1>. QED BY <1>1, <1>2 DEF Next

\* The client gets its callbacks in the order of the contract, for any number
\* of windows and any interleaving with the server.
THEOREM ContractCorrect == Spec => ContractHolds
<1>1. IInv /\ [Next]_vars => [Contract!Next]_Contract!vars
  BY NextContract
<1>. QED
  BY <1>1, InitContract, IInvHolds, PTL DEF Spec, ContractHolds, Contract!Spec

----------------------------------------------------------------------------
(* The queue and the requests under way *)

\* Some event of one of these types is under way about w.
Has(q, T, w) == \E i \in 1 .. Len(q) : q[i].w = w /\ q[i].type \in T
\* Each event of a type in S about w has one of a type in T behind it.
After(q, S, T, w) ==
  \A i \in 1 .. Len(q) : q[i].w = w /\ q[i].type \in S =>
    \E j \in 1 .. Len(q) : i < j /\ q[j].w = w /\ q[j].type \in T
\* A request is among those not yet executed.
In(s, x) == \E i \in 1 .. Len(s) : s[i] = x

\* An event put at the end adds what it is about, and nothing else.
LEMMA HasAppend ==
  ASSUME NEW q \in Seq(Event), NEW e \in Event, NEW T, NEW w
  PROVE  Has(Append(q, e), T, w) <=> Has(q, T, w) \/ (e.w = w /\ e.type \in T)
<1>. DEFINE r == Append(q, e)
<1>1. /\ Len(q) \in Nat
      /\ Len(r) = Len(q) + 1
      /\ \A i \in 1 .. Len(q) : r[i] = q[i]
      /\ r[Len(q) + 1] = e
  BY AppendProperties, LenProperties
<1>. HIDE DEF r
<1>2. ASSUME Has(r, T, w) PROVE Has(q, T, w) \/ (e.w = w /\ e.type \in T)
  BY <1>1, <1>2 DEF Has
<1>3. ASSUME Has(q, T, w) PROVE Has(r, T, w)
  BY <1>1, <1>3 DEF Has
<1>4. ASSUME e.w = w, e.type \in T PROVE Has(r, T, w)
  <2>1. Len(q) + 1 \in 1 .. Len(r)
    BY <1>1
  <2>. QED BY <1>1, <1>4, <2>1 DEF Has
<1>. QED BY <1>2, <1>3, <1>4 DEF r

\* An event at the end can follow all that is before it.
LEMMA AfterAppend ==
  ASSUME NEW q \in Seq(Event), NEW e \in Event, NEW S, NEW T, NEW w
  PROVE  /\ After(q, S, T, w) /\ ~(e.w = w /\ e.type \in S) => After(Append(q, e), S, T, w)
         /\ e.w = w /\ e.type \in T /\ e.type \notin S => After(Append(q, e), S, T, w)
<1>. DEFINE r == Append(q, e)
<1>1. /\ Len(q) \in Nat
      /\ Len(r) = Len(q) + 1
      /\ \A i \in 1 .. Len(q) : r[i] = q[i]
      /\ r[Len(q) + 1] = e
  BY AppendProperties, LenProperties
<1>. HIDE DEF r
<1>2. \A i \in 1 .. Len(r) : i \in 1 .. Len(q) \/ i = Len(q) + 1
  BY <1>1
<1>5. \A i \in 1 .. Len(q) : i \in 1 .. Len(r) /\ i < Len(q) + 1
  BY <1>1
<1>6. Len(q) + 1 \in 1 .. Len(r)
  BY <1>1
<1>3. ASSUME After(q, S, T, w), ~(e.w = w /\ e.type \in S) PROVE After(r, S, T, w)
  <2>. SUFFICES ASSUME NEW i \in 1 .. Len(r), r[i].w = w, r[i].type \in S
                PROVE  \E j \in 1 .. Len(r) : i < j /\ r[j].w = w /\ r[j].type \in T
    BY DEF After
  <2>1. i \in 1 .. Len(q) /\ r[i] = q[i]
    BY <1>1, <1>2, <1>3
  <2>2. PICK j \in 1 .. Len(q) : i < j /\ q[j].w = w /\ q[j].type \in T
    BY <1>3, <2>1 DEF After
  <2>. QED BY <1>1, <1>5, <2>2
<1>4. ASSUME e.w = w, e.type \in T, e.type \notin S PROVE After(r, S, T, w)
  <2>. SUFFICES ASSUME NEW i \in 1 .. Len(r), r[i].w = w, r[i].type \in S
                PROVE  \E j \in 1 .. Len(r) : i < j /\ r[j].w = w /\ r[j].type \in T
    BY DEF After
  <2>1. i \in 1 .. Len(q)
    BY <1>1, <1>2, <1>4
  <2>2. i < Len(q) + 1
    BY <2>1, <1>5
  <2>. QED BY <1>1, <1>4, <1>6, <2>2
<1>. QED BY <1>3, <1>4 DEF r

\* Reading the head takes away what the head is about, at most.
LEMMA HasTail ==
  ASSUME NEW q \in Seq(Event), q # <<>>, NEW T, NEW w
  PROVE  /\ Has(Tail(q), T, w) => Has(q, T, w)
         /\ Has(q, T, w) => Has(Tail(q), T, w) \/ (Head(q).w = w /\ Head(q).type \in T)
<1>. DEFINE r == Tail(q)
<1>1. /\ Len(q) \in Nat /\ Len(r) \in Nat
      /\ Len(q) = Len(r) + 1
      /\ \A i \in 1 .. Len(r) : r[i] = q[i + 1]
      /\ Head(q) = q[1]
  BY HeadTailProperties, LenProperties, EmptySeq
<1>. HIDE DEF r
<1>2. ASSUME Has(r, T, w) PROVE Has(q, T, w)
  <2>1. PICK i \in 1 .. Len(r) : r[i].w = w /\ r[i].type \in T
    BY <1>2 DEF Has
  <2>2. i + 1 \in 1 .. Len(q)
    BY <1>1
  <2>. QED BY <1>1, <2>1, <2>2 DEF Has
<1>3. ASSUME Has(q, T, w), ~(Head(q).w = w /\ Head(q).type \in T) PROVE Has(r, T, w)
  <2>1. PICK i \in 1 .. Len(q) : q[i].w = w /\ q[i].type \in T
    BY <1>3 DEF Has
  <2>2. i # 1
    BY <1>1, <1>3, <2>1
  <2>3. i - 1 \in 1 .. Len(r) /\ (i - 1) + 1 = i
    BY <1>1, <2>2
  <2>. QED BY <1>1, <2>1, <2>3 DEF Has
<1>. QED BY <1>2, <1>3 DEF r

\* Reading the head leaves what followed it in the queue.
LEMMA AfterTail ==
  ASSUME NEW q \in Seq(Event), q # <<>>, NEW S, NEW T, NEW w, After(q, S, T, w)
  PROVE  /\ After(Tail(q), S, T, w)
         /\ Head(q).w = w /\ Head(q).type \in S => Has(Tail(q), T, w)
<1>. DEFINE r == Tail(q)
<1>1. /\ Len(q) \in Nat /\ Len(r) \in Nat
      /\ Len(q) = Len(r) + 1
      /\ \A i \in 1 .. Len(r) : r[i] = q[i + 1]
      /\ Head(q) = q[1]
  BY HeadTailProperties, LenProperties, EmptySeq
<1>. HIDE DEF r
<1>2. \A j \in 1 .. Len(q) : 1 < j => j - 1 \in 1 .. Len(r) /\ q[j] = r[j - 1]
  BY <1>1
<1>3. After(r, S, T, w)
  <2>. SUFFICES ASSUME NEW i \in 1 .. Len(r), r[i].w = w, r[i].type \in S
                PROVE  \E j \in 1 .. Len(r) : i < j /\ r[j].w = w /\ r[j].type \in T
    BY DEF After
  <2>1. i + 1 \in 1 .. Len(q) /\ r[i] = q[i + 1]
    BY <1>1
  <2>2. PICK j \in 1 .. Len(q) : i + 1 < j /\ q[j].w = w /\ q[j].type \in T
    BY <2>1 DEF After
  <2>3. 1 < j /\ i < j - 1
    BY <2>2, <1>1
  <2>. QED BY <1>2, <2>2, <2>3
<1>4. ASSUME Head(q).w = w, Head(q).type \in S PROVE Has(r, T, w)
  <2>1. 1 \in 1 .. Len(q)
    BY <1>1
  <2>2. PICK j \in 1 .. Len(q) : 1 < j /\ q[j].w = w /\ q[j].type \in T
    BY <2>1, <1>1, <1>4 DEF After
  <2>. QED BY <1>2, <2>2 DEF Has
<1>. QED BY <1>3, <1>4 DEF r

\* A request put at the end is in, and nothing else is new.
LEMMA InAppend ==
  ASSUME NEW s \in Seq(Request), NEW r \in Request, NEW x
  PROVE  In(Append(s, r), x) <=> In(s, x) \/ x = r
<1>. DEFINE t == Append(s, r)
<1>1. /\ Len(s) \in Nat
      /\ Len(t) = Len(s) + 1
      /\ \A i \in 1 .. Len(s) : t[i] = s[i]
      /\ t[Len(s) + 1] = r
  BY AppendProperties, LenProperties
<1>. HIDE DEF t
<1>2. In(t, x) => In(s, x) \/ x = r
  BY <1>1 DEF In
<1>3. In(s, x) => In(t, x)
  BY <1>1 DEF In
<1>4. In(t, r)
  <2>1. Len(s) + 1 \in 1 .. Len(t)
    BY <1>1
  <2>. QED BY <1>1, <2>1 DEF In
<1>. QED BY <1>2, <1>3, <1>4 DEF t

\* Executing the head takes the head away, at most.
LEMMA InTail ==
  ASSUME NEW s \in Seq(Request), s # <<>>, NEW x
  PROVE  /\ In(Tail(s), x) => In(s, x)
         /\ In(s, x) => In(Tail(s), x) \/ x = Head(s)
         /\ In(s, Head(s))
<1>. DEFINE t == Tail(s)
<1>1. /\ Len(s) \in Nat /\ Len(t) \in Nat
      /\ Len(s) = Len(t) + 1
      /\ \A i \in 1 .. Len(t) : t[i] = s[i + 1]
      /\ Head(s) = s[1]
  BY HeadTailProperties, LenProperties, EmptySeq
<1>. HIDE DEF t
<1>2. ASSUME In(t, x) PROVE In(s, x)
  <2>1. PICK i \in 1 .. Len(t) : t[i] = x
    BY <1>2 DEF In
  <2>2. i + 1 \in 1 .. Len(s)
    BY <1>1
  <2>. QED BY <1>1, <2>1, <2>2 DEF In
<1>3. ASSUME In(s, x), x # Head(s) PROVE In(t, x)
  <2>1. PICK i \in 1 .. Len(s) : s[i] = x
    BY <1>3 DEF In
  <2>2. i # 1
    BY <1>1, <1>3, <2>1
  <2>3. i - 1 \in 1 .. Len(t) /\ (i - 1) + 1 = i
    BY <1>1, <2>2
  <2>. QED BY <1>1, <2>1, <2>3 DEF In
<1>4. In(s, Head(s))
  <2>1. 1 \in 1 .. Len(s)
    BY <1>1
  <2>. QED BY <1>1, <2>1 DEF In
<1>. QED BY <1>2, <1>3, <1>4 DEF t

\* Nothing is among no requests, or among no events.
LEMMA InNone == ASSUME NEW x PROVE ~In(<<>>, x)
  BY DEF In

\* No event is under way in an empty queue.
LEMMA HasNone == ASSUME NEW T, NEW w PROVE ~Has(<<>>, T, w)
  BY DEF Has

\* Concatenations, as appends.
LEMMA ConcatOne ==
  ASSUME NEW S, NEW q \in Seq(S), NEW e \in S
  PROVE  q \o <<e>> = Append(q, e)
  BY AppendIsConcat

\* Two events one after the other are two appends.
LEMMA ConcatTwo ==
  ASSUME NEW S, NEW q \in Seq(S), NEW a \in S, NEW e \in S
  PROVE  /\ Append(<<a>>, e) \in Seq(S)
         /\ q \o Append(<<a>>, e) = Append(Append(q, a), e)
<1>1. <<a>> \in Seq(S) /\ <<e>> \in Seq(S)
  OBVIOUS
<1>2. Append(<<a>>, e) = <<a>> \o <<e>>
  BY <1>1, AppendIsConcat
<1>3. q \o (<<a>> \o <<e>>) = (q \o <<a>>) \o <<e>>
  BY <1>1, ConcatAssociative
<1>4. q \o <<a>> = Append(q, a) /\ Append(q, a) \in Seq(S)
  BY AppendIsConcat, AppendProperties
<1>5. Append(q, a) \o <<e>> = Append(Append(q, a), e)
  BY <1>4, AppendIsConcat
<1>6. Append(<<a>>, e) \in Seq(S)
  BY <1>1, AppendProperties
<1>. QED BY <1>2, <1>3, <1>4, <1>5, <1>6

\* The first of a sequence built with Append.
LEMMA ConcatFirst ==
  ASSUME NEW S, NEW q \in Seq(S), NEW e \in S
  PROVE  q \o Append(<<>>, e) = Append(q, e)
<1>1. Append(<<>>, e) = <<e>>
  BY EmptySeq
<1>. QED BY <1>1, ConcatOne

----------------------------------------------------------------------------
(* What the applications and the server leave in the queue *)

Leaving == {"UnmapNotify", "DestroyNotify"}
Changing == Leaving \cup {"MapNotify", "ConfigureNotify"}
Structural == Changing \cup {"MapRequest"}

HasD(w) == Has(queue, {"DestroyNotify"}, w)
Leaves(w) == Has(queue, Leaving, w)
Maps(w) == Has(queue, {"MapNotify"}, w)
Changes(w) == Has(queue, Changing, w)
Undone(w) == After(queue, {"MapNotify"}, Leaving, w)
Redone(w) == After(queue, Leaving, {"MapNotify"}, w)
Void(w) == After(queue, {"MapRequest"}, Leaving, w)
Followed(w) == After(queue, {"MapRequest"}, Changing, w)

\* What is under way about a window stays so.
Grown(w) ==
  /\ HasD(w) => HasD(w)'
  /\ Leaves(w) => Leaves(w)'
  /\ Maps(w) => Maps(w)'
  /\ Changes(w) => Changes(w)'
SameWindow(w) == st'[w] = st[w] /\ kind'[w] = kind[w]

EffectNone(w) == /\ SameWindow(w)
                 /\ Undone(w) => Undone(w)'
                 /\ Redone(w) => Redone(w)'
                 /\ Void(w) => Void(w)'
                 /\ Followed(w) => Followed(w)'
EffectCreated(w) == /\ st[w] = "free" /\ st'[w] = "unmapped"
                    /\ Undone(w) => Undone(w)'
EffectRequested(w) == /\ SameWindow(w) /\ st[w] = "unmapped"
                      /\ Undone(w) => Undone(w)'
EffectMapped(w) == /\ kind'[w] = kind[w] /\ st[w] = "unmapped" /\ st'[w] = "mapped"
                   /\ Redone(w)' /\ Followed(w)' /\ Maps(w)' /\ Changes(w)'
EffectUnmapped(w) == /\ kind'[w] = kind[w] /\ Live(w) /\ st'[w] = "unmapped"
                     /\ Undone(w)' /\ Void(w)' /\ Leaves(w)'
EffectDestroyed(w) == /\ Live(w) /\ st'[w] \in {"free", "dead"}
                      /\ Undone(w)' /\ Void(w)' /\ Leaves(w)' /\ HasD(w)'
\* All that a step of the environment can do to a window.
Effect(w) ==
  /\ Grown(w)
  /\ \/ EffectNone(w) \/ EffectCreated(w) \/ EffectRequested(w)
     \/ EffectMapped(w) \/ EffectUnmapped(w) \/ EffectDestroyed(w)

\* The queue only grows at its end.
LEMMA GrownAppend ==
  ASSUME queue \in Seq(Event), NEW e \in Event, queue' = Append(queue, e), NEW w
  PROVE  Grown(w)
  BY HasAppend DEF Grown, HasD, Leaves, Maps, Changes

\* The same for two events of one action.
LEMMA GrownAppendTwo ==
  ASSUME queue \in Seq(Event), NEW a \in Event, NEW e \in Event,
         queue' = Append(Append(queue, a), e), NEW w
  PROVE  Grown(w)
  BY HasAppend, AppendProperties DEF Grown, HasD, Leaves, Maps, Changes

\* Nothing happens to w when neither it nor the queue changes.
LEMMA QuietSame ==
  ASSUME queue' = queue, NEW w, SameWindow(w)
  PROVE  Effect(w)
  BY DEF Effect, EffectNone, Grown, HasD, Leaves, Maps, Changes, Undone, Redone, Void, Followed

\* An event that is not of the structure of w does nothing to it.
LEMMA QuietOne ==
  ASSUME queue \in Seq(Event), NEW e \in Event, queue' = Append(queue, e), NEW w,
         e.w # w \/ e.type \notin Structural \ {"ConfigureNotify"}, SameWindow(w)
  PROVE  Effect(w)
<1>1. EffectNone(w)
  <2>1. Undone(w) => Undone(w)'
    BY AfterAppend DEF Undone, Structural, Changing, Leaving
  <2>2. Redone(w) => Redone(w)'
    BY AfterAppend DEF Redone, Structural, Changing, Leaving
  <2>3. Void(w) => Void(w)'
    BY AfterAppend DEF Void, Structural, Changing, Leaving
  <2>4. Followed(w) => Followed(w)'
    BY AfterAppend DEF Followed, Structural, Changing, Leaving
  <2>. QED BY <2>1, <2>2, <2>3, <2>4 DEF EffectNone
<1>. QED BY <1>1, GrownAppend DEF Effect

\* The same for two events of one action.
LEMMA QuietTwo ==
  ASSUME queue \in Seq(Event), NEW a \in Event, NEW e \in Event,
         queue' = Append(Append(queue, a), e), NEW w,
         a.w # w, e.w # w, SameWindow(w)
  PROVE  Effect(w)
<1>1. Append(queue, a) \in Seq(Event)
  BY AppendProperties
<1>2. EffectNone(w)
  <2>1. Undone(w) => Undone(w)'
    BY <1>1, AfterAppend DEF Undone
  <2>2. Redone(w) => Redone(w)'
    BY <1>1, AfterAppend DEF Redone
  <2>3. Void(w) => Void(w)'
    BY <1>1, AfterAppend DEF Void
  <2>4. Followed(w) => Followed(w)'
    BY <1>1, AfterAppend DEF Followed
  <2>. QED BY <2>1, <2>2, <2>3, <2>4 DEF EffectNone
<1>. QED BY <1>2, GrownAppendTwo DEF Effect

\* A MapNotify makes up for what went before it; so does what takes it away.
LEMMA AppendedMap ==
  ASSUME queue \in Seq(Event), NEW w, NEW e \in Event, e.w = w, e.type = "MapNotify",
         queue' = Append(queue, e)
  PROVE  Redone(w)' /\ Followed(w)' /\ Maps(w)' /\ Changes(w)'
<1>1. Redone(w)'
  BY AfterAppend DEF Redone, Leaving
<1>2. Followed(w)'
  BY AfterAppend DEF Followed, Changing
<1>3. Maps(w)'
  BY HasAppend DEF Maps
<1>4. Changes(w)'
  BY HasAppend DEF Changes, Changing
<1>. QED BY <1>1, <1>2, <1>3, <1>4

\* An unmap or destroy event at the end has the last word.
LEMMA AppendedLeave ==
  ASSUME NEW q \in Seq(Event), NEW w, NEW e \in Event, e.w = w, e.type \in Leaving,
         queue' = Append(q, e)
  PROVE  /\ Undone(w)' /\ Void(w)' /\ Leaves(w)'
         /\ e.type = "DestroyNotify" => HasD(w)'
<1>1. Undone(w)'
  BY AfterAppend DEF Undone, Leaving
<1>2. Void(w)'
  BY AfterAppend DEF Void, Leaving
<1>3. Leaves(w)'
  BY HasAppend DEF Leaves
<1>4. e.type = "DestroyNotify" => HasD(w)'
  BY HasAppend DEF HasD
<1>. QED BY <1>1, <1>2, <1>3, <1>4

\* A MapRequest undoes nothing.
LEMMA AppendedRequest ==
  ASSUME queue \in Seq(Event), NEW w, NEW e \in Event, e.type = "MapRequest",
         queue' = Append(queue, e)
  PROVE  Undone(w) => Undone(w)'
  BY AfterAppend DEF Undone

\* One event about v.
LEMMA EmitEffect ==
  ASSUME queue \in Seq(Event), NEW e \in Event, Emit(<<e>>)
  PROVE  queue' = Append(queue, e)
  BY ConcatOne DEF Emit

\* The fields of an event are those it was made from.
LEMMA EvFields == \A t, w, f : /\ Ev(t, w, f).type = t
                               /\ Ev(t, w, f).w = w
                               /\ Ev(t, w, f).flag = f
  BY DEF Ev

\* A structure event of a window, and its fields.
LEMMA NewEvent ==
  ASSUME NEW t \in EventTypes \ {"DamageNotify", "CursorNotify"}, NEW w \in Windows
  PROVE  /\ Ev(t, w, FALSE) \in Event
         /\ Ev(t, w, FALSE).w = w
         /\ Ev(t, w, FALSE).type = t
<1>1. Ev(t, w, FALSE) \in Event
  BY EventTyped
<1>. QED BY <1>1 DEF Ev

\* A damage event of a window or of the root, and its fields.
LEMMA NewDamage ==
  ASSUME NEW w \in Windows \cup {Root}
  PROVE  /\ Ev("DamageNotify", w, FALSE) \in Event
         /\ Ev("DamageNotify", w, FALSE).w = w
         /\ Ev("DamageNotify", w, FALSE).type = "DamageNotify"
<1>1. Ev("DamageNotify", w, FALSE) \in Event
  BY EventTyped
<1>. QED BY <1>1 DEF Ev

\* MapWindow: MapNotify, or MapRequest for the window manager.
LEMMA MapEffect ==
  ASSUME ServerTypeOK, NEW v \in Windows, MapWindow(v) , NEW w \in Windows
  PROVE  Effect(w)
<1>. USE DEF ServerTypeOK
<1>1. CASE kind[v] = "override"
  <2>. DEFINE e == Ev("MapNotify", v, FALSE)
  <2>1. e \in Event /\ e.w = v /\ e.type = "MapNotify"
    BY NewEvent DEF EventTypes
  <2>2. /\ st' = [st EXCEPT ![v] = "mapped"] /\ kind' = kind /\ st[v] = "unmapped"
        /\ Emit(<<e>>)
    BY <1>1 DEF MapWindow
  <2>. HIDE DEF e
  <2>3. queue' = Append(queue, e)
    BY <2>1, <2>2, EmitEffect
  <2>4. CASE w = v
    <3>1. EffectMapped(w)
      BY <2>1, <2>2, <2>3, <2>4, AppendedMap DEF EffectMapped
    <3>. QED BY <3>1, <2>1, <2>3, GrownAppend DEF Effect
  <2>5. CASE w # v
    BY <2>1, <2>2, <2>3, <2>5, QuietOne DEF SameWindow
  <2>. QED BY <2>4, <2>5
<1>2. CASE kind[v] # "override"
  <2>. DEFINE e == Ev("MapRequest", v, FALSE)
  <2>1. e \in Event /\ e.w = v /\ e.type = "MapRequest"
    BY NewEvent DEF EventTypes
  <2>2. st' = st /\ kind' = kind /\ st[v] = "unmapped" /\ Emit(<<e>>)
    BY <1>2 DEF MapWindow
  <2>. HIDE DEF e
  <2>3. queue' = Append(queue, e)
    BY <2>1, <2>2, EmitEffect
  <2>4. CASE w = v
    <3>1. EffectRequested(w)
      BY <2>1, <2>2, <2>3, <2>4, AppendedRequest DEF EffectRequested, SameWindow
    <3>. QED BY <3>1, <2>1, <2>3, GrownAppend DEF Effect
  <2>5. CASE w # v
    BY <2>1, <2>2, <2>3, <2>5, QuietOne DEF SameWindow
  <2>. QED BY <2>4, <2>5
<1>. QED BY <1>1, <1>2

\* What the server queues before it withdraws or destroys v.
Unmapped(q, v) ==
  \/ q = queue /\ st[v] # "mapped"
  \/ \E a \in Event : a.w = v /\ a.type = "UnmapNotify" /\ q = Append(queue, a)

\* Every leaving event is the last of what its action reports.
LEMMA LeaveEvents ==
  ASSUME queue \in Seq(Event), NEW v \in Windows, NEW t \in Leaving,
         Emit(Append(UnmapEvents(v), Ev(t, v, FALSE)))
  PROVE  \E q \in Seq(Event), e \in Event :
           e.w = v /\ e.type = t /\ queue' = Append(q, e) /\ Unmapped(q, v)
<1>. DEFINE e == Ev(t, v, FALSE)
            a == Ev("UnmapNotify", v, FALSE)
<1>1. e \in Event /\ e.w = v /\ e.type = t
  BY NewEvent DEF EventTypes, Leaving
<1>2. a \in Event /\ a.w = v /\ a.type = "UnmapNotify"
  BY NewEvent DEF EventTypes
<1>3. UnmapEvents(v) = <<a>> \/ (UnmapEvents(v) = <<>> /\ st[v] # "mapped")
  BY DEF UnmapEvents
<1>4. queue' = queue \o Append(UnmapEvents(v), e)
  BY DEF Emit
<1>. HIDE DEF e, a
<1>5. CASE UnmapEvents(v) = <<a>>
  <2>1. queue' = Append(Append(queue, a), e)
    BY <1>1, <1>2, <1>4, <1>5, ConcatTwo
  <2>2. Append(queue, a) \in Seq(Event)
    BY <1>2, AppendProperties
  <2>. QED BY <1>1, <1>2, <2>1, <2>2 DEF Unmapped
<1>6. CASE UnmapEvents(v) = <<>> /\ st[v] # "mapped"
  <2>1. queue' = Append(queue, e)
    BY <1>1, <1>4, <1>6, ConcatFirst
  <2>. QED BY <1>1, <1>6, <2>1 DEF Unmapped
<1>. QED BY <1>3, <1>5, <1>6

\* The windows other than v, and v, when events of LeaveEvents are queued.
LEMMA LeaveEffect ==
  ASSUME queue \in Seq(Event), NEW v \in Windows, NEW t \in Leaving,
         Emit(Append(UnmapEvents(v), Ev(t, v, FALSE)))
  PROVE  /\ \A w \in Windows \ {v} : SameWindow(w) => Effect(w)
         /\ Grown(v) /\ Undone(v)' /\ Void(v)' /\ Leaves(v)'
         /\ t = "DestroyNotify" => HasD(v)'
<1>1. PICK q \in Seq(Event), e \in Event :
           e.w = v /\ e.type = t /\ queue' = Append(q, e) /\ Unmapped(q, v)
  BY LeaveEvents
<1>2. /\ Undone(v)' /\ Void(v)' /\ Leaves(v)'
      /\ t = "DestroyNotify" => HasD(v)'
  BY <1>1, AppendedLeave
<1>3. CASE q = queue
  <2>1. Grown(v)
    BY <1>1, <1>3, GrownAppend
  <2>2. ASSUME NEW w \in Windows \ {v}, SameWindow(w) PROVE Effect(w)
    BY <1>1, <1>3, <2>2, QuietOne
  <2>. QED BY <1>2, <2>1, <2>2
<1>4. CASE \E a \in Event : a.w = v /\ a.type = "UnmapNotify" /\ q = Append(queue, a)
  <2>0. PICK a \in Event : a.w = v /\ a.type = "UnmapNotify" /\ q = Append(queue, a)
    BY <1>4
  <2>1. Grown(v)
    BY <1>1, <2>0, GrownAppendTwo
  <2>2. ASSUME NEW w \in Windows \ {v}, SameWindow(w) PROVE Effect(w)
    BY <1>1, <2>0, <2>2, QuietTwo
  <2>. QED BY <1>2, <2>1, <2>2
<1>. QED BY <1>1, <1>3, <1>4 DEF Unmapped

\* UnmapWindow reports the unmap.
LEMMA UnmapEffect ==
  ASSUME ServerTypeOK, NEW v \in Windows, UnmapWindow(v), NEW w \in Windows
  PROVE  Effect(w)
<1>. USE DEF ServerTypeOK
<1>. DEFINE e == Ev("UnmapNotify", v, FALSE)
<1>1. e \in Event /\ e.w = v /\ e.type = "UnmapNotify"
  BY NewEvent DEF EventTypes
<1>2. /\ st' = [st EXCEPT ![v] = "unmapped"] /\ kind' = kind /\ Live(v)
      /\ Emit(<<e>>)
  BY DEF UnmapWindow, UnmapEvents, Live
<1>. HIDE DEF e
<1>3. queue' = Append(queue, e)
  BY <1>1, <1>2, EmitEffect
<1>4. CASE w = v
  <2>1. Undone(w)' /\ Void(w)' /\ Leaves(w)'
    BY <1>1, <1>3, <1>4, AppendedLeave DEF Leaving
  <2>2. EffectUnmapped(w)
    BY <1>2, <1>4, <2>1 DEF EffectUnmapped
  <2>. QED BY <2>2, <1>1, <1>3, GrownAppend DEF Effect
<1>5. CASE w # v
  BY <1>1, <1>2, <1>3, <1>5, QuietOne DEF SameWindow
<1>. QED BY <1>4, <1>5

\* WithdrawWindow reports the synthetic UnmapNotify as well.
LEMMA WithdrawEffect ==
  ASSUME ServerTypeOK, NEW v \in Windows, WithdrawWindow(v), NEW w \in Windows
  PROVE  Effect(w)
<1>. USE DEF ServerTypeOK
<1>1. /\ st' = [st EXCEPT ![v] = "unmapped"] /\ kind' = kind /\ Live(v)
      /\ Emit(Append(UnmapEvents(v), Ev("UnmapNotify", v, FALSE)))
  BY DEF WithdrawWindow
<1>2. /\ \A u \in Windows \ {v} : SameWindow(u) => Effect(u)
      /\ Grown(v) /\ Undone(v)' /\ Void(v)' /\ Leaves(v)'
  BY <1>1, LeaveEffect DEF Leaving
<1>3. CASE w = v
  BY <1>1, <1>2, <1>3 DEF Effect, EffectUnmapped
<1>4. CASE w # v
  BY <1>1, <1>2, <1>4 DEF SameWindow
<1>. QED BY <1>3, <1>4

\* DestroyWindow reports the destroy, after the unmap.
LEMMA DestroyEffect ==
  ASSUME ServerTypeOK, NEW v \in Windows, DestroyWindow(v), NEW w \in Windows
  PROVE  Effect(w)
<1>. USE DEF ServerTypeOK
<1>1. /\ st' = [st EXCEPT ![v] = IF ReuseXids THEN "free" ELSE "dead"]
      /\ kind' = kind /\ Live(v)
      /\ Emit(Append(UnmapEvents(v), Ev("DestroyNotify", v, FALSE)))
  BY DEF DestroyWindow
<1>2. /\ \A u \in Windows \ {v} : SameWindow(u) => Effect(u)
      /\ Grown(v) /\ Undone(v)' /\ Void(v)' /\ Leaves(v)' /\ HasD(v)'
  BY <1>1, LeaveEffect DEF Leaving
<1>3. CASE w = v
  BY <1>1, <1>2, <1>3 DEF Effect, EffectDestroyed
<1>4. CASE w # v
  BY <1>1, <1>2, <1>4 DEF SameWindow
<1>. QED BY <1>3, <1>4

\* A new window has no past in the queue that contradicts it.
LEMMA CreateEffect ==
  ASSUME ServerTypeOK, NEW v \in Windows, CreateWindow(v), NEW w \in Windows
  PROVE  Effect(w)
<1>. USE DEF ServerTypeOK
<1>1. /\ st[v] = "free" /\ st' = [st EXCEPT ![v] = "unmapped"] /\ queue' = queue
      /\ \E k \in Kinds : kind' = [kind EXCEPT ![v] = k]
  BY DEF CreateWindow
<1>2. CASE w = v
  <2>1. Grown(w) /\ (Undone(w) => Undone(w)')
    BY <1>1 DEF Grown, HasD, Leaves, Maps, Changes, Undone
  <2>. QED BY <1>1, <1>2, <2>1 DEF Effect, EffectCreated
<1>3. CASE w # v
  BY <1>1, <1>3, QuietSame DEF SameWindow
<1>. QED BY <1>2, <1>3

\* The other actions: one event, that maps nothing and takes nothing away.
LEMMA QuietEffect ==
  ASSUME ServerTypeOK, UNCHANGED <<st, kind>>, NEW e \in Event, Emit(<<e>>),
         e.type \notin Structural \ {"ConfigureNotify"}, NEW w
  PROVE  Effect(w)
<1>1. queue' = Append(queue, e)
  BY EmitEffect DEF ServerTypeOK
<1>. QED BY <1>1, QuietOne DEF SameWindow, ServerTypeOK

\* ConfigureWindow reports, and unmaps nothing.
LEMMA ConfigureEffect ==
  ASSUME ServerTypeOK, NEW v \in Windows, ConfigureWindow(v), NEW w \in Windows
  PROVE  Effect(w)
<1>1. PICK t \in {"ConfigureNotify", "ConfigureRequest"}, f \in BOOLEAN : Emit(<<Ev(t, v, f)>>)
  BY DEF ConfigureWindow
<1>2. Ev(t, v, f) \in Event /\ Ev(t, v, f).type \notin Structural \ {"ConfigureNotify"}
  BY EventTyped, EvFields DEF EventTypes, Structural, Changing, Leaving
<1>3. UNCHANGED <<st, kind>>
  BY DEF ConfigureWindow
<1>. QED BY <1>1, <1>2, <1>3, QuietEffect

\* What applications do that is about neither map nor unmap.
LEMMA OtherEffect ==
  ASSUME ServerTypeOK, NEW w \in Windows,
         \/ \E v \in Windows : ChangeShapeOrProperty(v)
         \/ \E v \in Windows \cup {Root} : DrawInWindow(v)
         \/ ChangeCursor
  PROVE  Effect(w)
<1>1. UNCHANGED <<st, kind>>
  BY DEF ChangeShapeOrProperty, DrawInWindow, ChangeCursor, serverVars
<1>2. ASSUME NEW v \in Windows, ChangeShapeOrProperty(v) PROVE Effect(w)
  <2>1. PICK t \in {"ShapeNotify", "PropertyNotify"}, f \in BOOLEAN : Emit(<<Ev(t, v, f)>>)
    BY <1>2 DEF ChangeShapeOrProperty
  <2>2. Ev(t, v, f) \in Event /\ Ev(t, v, f).type \notin Structural \ {"ConfigureNotify"}
    BY EventTyped, EvFields DEF EventTypes, Structural, Changing, Leaving
  <2>. QED BY <1>1, <2>1, <2>2, QuietEffect
<1>3. ASSUME NEW v \in Windows \cup {Root}, DrawInWindow(v) PROVE Effect(w)
  <2>1. PICK f \in BOOLEAN : (v = Root => ~f) /\ Emit(<<Ev("DamageNotify", v, f)>>)
    BY <1>3 DEF DrawInWindow
  <2>2. /\ Ev("DamageNotify", v, f) \in Event
        /\ Ev("DamageNotify", v, f).type \notin Structural \ {"ConfigureNotify"}
    BY <2>1, EventTyped, EvFields DEF Structural, Changing, Leaving
  <2>. QED BY <1>1, <2>1, <2>2, QuietEffect
<1>4. ASSUME ChangeCursor PROVE Effect(w)
  <2>1. Emit(<<Ev("CursorNotify", NoWindow, FALSE)>>)
    BY <1>4 DEF ChangeCursor
  <2>2. /\ Ev("CursorNotify", NoWindow, FALSE) \in Event
        /\ Ev("CursorNotify", NoWindow, FALSE).type \notin Structural \ {"ConfigureNotify"}
    BY EventTyped, EvFields DEF Structural, Changing, Leaving
  <2>. QED BY <1>1, <2>1, <2>2, QuietEffect
<1>. QED BY <1>2, <1>3, <1>4

\* Whatever applications do is in the queue.
LEMMA ApplicationsEffect ==
  ASSUME ServerTypeOK, Applications, NEW w \in Windows
  PROVE  Effect(w)
  BY CreateEffect, MapEffect, UnmapEffect, WithdrawEffect, DestroyEffect, ConfigureEffect,
     OtherEffect DEF Applications

\* A server that executes a request does no more to a window.
LEMMA ExecEffect ==
  ASSUME ServerTypeOK, Exec, NEW w \in Windows
  PROVE  Effect(w)
<1>. DEFINE r == Head(out)
<1>1. r.op \in Ops
  <2>1. out # <<>> /\ r \in Request
    BY HeadTailProperties DEF Exec, ServerTypeOK
  <2>. QED BY <2>1 DEF Request, Ops
<1>. USE DEF ServerTypeOK
<1>2. ASSUME r.op = "map" PROVE Effect(w)
  <2>. DEFINE v == r.w
              e == Ev("MapNotify", v, FALSE)
  <2>1. ExecMap(v)
    BY <1>2 DEF Exec
  <2>. HIDE DEF v
  <2>2. CASE v \in Windows /\ st[v] = "unmapped"
    <3>1. e \in Event /\ e.w = v /\ e.type = "MapNotify"
      BY <2>2, NewEvent DEF EventTypes
    <3>2. /\ st' = [st EXCEPT ![v] = "mapped"] /\ kind' = kind
          /\ Emit(<<e>>)
      BY <2>1, <2>2 DEF ExecMap
    <3>. HIDE DEF e
    <3>3. queue' = Append(queue, e)
      BY <3>1, <3>2, EmitEffect
    <3>4. CASE w = v
      <4>1. EffectMapped(w)
        BY <2>2, <3>1, <3>2, <3>3, <3>4, AppendedMap DEF EffectMapped
      <4>. QED BY <4>1, <3>1, <3>3, GrownAppend DEF Effect
    <3>5. CASE w # v
      BY <3>1, <3>2, <3>3, <3>5, QuietOne DEF SameWindow
    <3>. QED BY <3>4, <3>5
  <2>3. CASE ~(v \in Windows /\ st[v] = "unmapped")
    <3>1. UNCHANGED <<serverVars, queue>>
      BY <2>1, <2>3 DEF ExecMap
    <3>. QED BY <3>1, QuietSame DEF SameWindow, serverVars
  <2>. QED BY <2>2, <2>3
<1>3. ASSUME r.op = "resize" PROVE Effect(w)
  <2>1. ExecResize(r.w)
    BY <1>3 DEF Exec
  <2>2. CASE r.w \in Windows /\ Live(r.w)
    <3>1. /\ Ev("ConfigureNotify", r.w, FALSE) \in Event
          /\ Ev("ConfigureNotify", r.w, FALSE).type \notin Structural \ {"ConfigureNotify"}
      BY <2>2, NewEvent DEF EventTypes, Structural, Changing, Leaving
    <3>2. Emit(<<Ev("ConfigureNotify", r.w, FALSE)>>) /\ UNCHANGED <<st, kind>>
      BY <2>1, <2>2 DEF ExecResize
    <3>. QED BY <3>1, <3>2, QuietEffect
  <2>3. CASE ~(r.w \in Windows /\ Live(r.w))
    BY <2>1, <2>3, QuietSame DEF ExecResize, SameWindow, serverVars
  <2>. QED BY <2>2, <2>3
<1>4. ASSUME r.op = "name" PROVE Effect(w)
  <2>1. ExecName(r.w, r.p)
    BY <1>4 DEF Exec
  <2>. QED BY <2>1, QuietSame DEF ExecName, SameWindow
<1>5. ASSUME r.op = "freepix" PROVE Effect(w)
  <2>1. ExecFreePixmap(r.p)
    BY <1>5 DEF Exec
  <2>. QED BY <2>1, QuietSame DEF ExecFreePixmap, SameWindow
<1>6. ASSUME r.op = "dmgdestroy" PROVE Effect(w)
  <2>1. ExecDamageDestroy(r.w)
    BY <1>6 DEF Exec
  <2>. QED BY <2>1, QuietSame DEF ExecDamageDestroy, SameWindow
<1>7. ASSUME r.op = "dmgadd" PROVE Effect(w)
  <2>1. ExecDamageAdd(r.w)
    BY <1>7 DEF Exec
  <2>2. CASE r.w \in dmgObj
    <3>0. r.w \in Windows \cup {Root}
      BY <2>2
    <3>1. /\ Ev("DamageNotify", r.w, FALSE) \in Event
          /\ Ev("DamageNotify", r.w, FALSE).type \notin Structural \ {"ConfigureNotify"}
      BY <3>0, NewDamage DEF Structural, Changing, Leaving
    <3>2. Emit(<<Ev("DamageNotify", r.w, FALSE)>>) /\ UNCHANGED <<st, kind>>
      BY <2>1, <2>2 DEF ExecDamageAdd, serverVars
    <3>. QED BY <3>1, <3>2, QuietEffect
  <2>3. CASE r.w \notin dmgObj
    BY <2>1, <2>3, QuietSame DEF ExecDamageAdd, SameWindow, serverVars
  <2>. QED BY <2>2, <2>3
<1>. QED BY <1>1, <1>2, <1>3, <1>4, <1>5, <1>6, <1>7 DEF Ops

----------------------------------------------------------------------------
(* The list against the server: the invariant *)

Steps == {"attrs", "geom", "props", "shape", "select"}
Creating(w) == pc \in Steps /\ cur = w
Made(w) == w \in managed \/ (pc \in Steps \ {"attrs"} /\ cur = w)
Asked(op, w) == In(out, Req(op, w, NoPixmap))

\* What the queue says of a window, in order, ends in what the window is now:
\* of a mapped one a MapNotify is the last word, of one that is not an unmap
\* or destroy.
QInv(w) ==
  /\ st[w] = "mapped" => Redone(w) /\ Followed(w)
  /\ st[w] # "mapped" => Undone(w)
  /\ ~Live(w) => Void(w)

\* A viewable window that is not in the list is about to be: the thread has yet
\* to look at it, is creating it, or has its MapNotify to read.
Listed(w) ==
  st[w] = "mapped" /\ kind[w] # "inputonly" =>
    pc \in {"start", "crashed"} \/ w \in todo \/ w \in managed \/ Creating(w) \/ Maps(w)
\* A window in the list that is not mapped has an event that will remove it; one
\* that has not lost its server side altogether has all its events and its
\* damage object; a damage object not in the list is about to be destroyed.
Late(w) == Made(w) /\ st[w] # "mapped" => Leaves(w)
Equipped(w) ==
  /\ Live(w) /\ kind[w] # "inputonly"
  /\ w \in managed \/ pc \in {"shape", "select"} =>
       w \in dmgObj /\ <<"PropertyNotify", w>> \in listening
  /\ w \in managed => <<"ShapeNotify", w>> \in listening
Sound(w) == Made(w) => HasD(w) \/ Equipped(w)
Marked(w) == w \in dmgObj => \/ w \in managed
                             \/ pc \in {"shape", "select", "crashed"} /\ cur = w
                             \/ Asked("dmgdestroy", w)
NotAsked(w) == Asked("dmgdestroy", w) => ~Made(w)
Pending(w) == pc = "attrs" /\ cur = w /\ st[w] # "mapped" =>
                Leaves(w) \/ (st[w] = "unmapped" /\ Asked("map", w))
TInv(w) == /\ Listed(w) /\ Late(w) /\ Sound(w)
           /\ Marked(w) /\ NotAsked(w) /\ Pending(w)

AdoptInv == /\ todo # {} => pc \in {"adopt", "crashed"} \/ via = "adopt"
            /\ pc \in {"start", "adopt", "wait"} => via = "none"
RootInv == Root \in dmgObj /\ ~Asked("dmgdestroy", Root)

\* Each window is in the list as it should be, or what will see to it is under way.
LInv == /\ AdoptInv /\ RootInv
        /\ \A w \in Windows : QInv(w) /\ TInv(w)

----------------------------------------------------------------------------
\* What is taken from the queue.
LEMMA ReceiveFacts ==
  ASSUME queue \in Seq(Event), NEW t, Receive(t), NEW w
  PROVE  /\ HasD(w) => HasD(w)' \/ (Head(queue).w = w /\ t = "DestroyNotify")
         /\ Leaves(w) => Leaves(w)' \/ (Head(queue).w = w /\ t \in Leaving)
         /\ Maps(w) => Maps(w)' \/ (Head(queue).w = w /\ t = "MapNotify")
         /\ Changes(w) => Changes(w)' \/ (Head(queue).w = w /\ t \in Changing)
         /\ Undone(w) => Undone(w)' /\ (Head(queue).w = w /\ t = "MapNotify" => Leaves(w)')
         /\ Redone(w) => Redone(w)' /\ (Head(queue).w = w /\ t \in Leaving => Maps(w)')
         /\ Void(w) => Void(w)' /\ (Head(queue).w = w /\ t = "MapRequest" => Leaves(w)')
         /\ Followed(w) => Followed(w)' /\ (Head(queue).w = w /\ t = "MapRequest" => Changes(w)')
<1>1. queue # <<>> /\ queue' = Tail(queue) /\ Head(queue).type = t
  BY DEF Receive
<1>2. HasD(w) => HasD(w)' \/ (Head(queue).w = w /\ t = "DestroyNotify")
  BY <1>1, HasTail DEF HasD
<1>3. Leaves(w) => Leaves(w)' \/ (Head(queue).w = w /\ t \in Leaving)
  BY <1>1, HasTail DEF Leaves
<1>4. Maps(w) => Maps(w)' \/ (Head(queue).w = w /\ t = "MapNotify")
  BY <1>1, HasTail DEF Maps
<1>5. Changes(w) => Changes(w)' \/ (Head(queue).w = w /\ t \in Changing)
  BY <1>1, HasTail DEF Changes
<1>6. Undone(w) => Undone(w)' /\ (Head(queue).w = w /\ t = "MapNotify" => Leaves(w)')
  BY <1>1, AfterTail DEF Undone, Leaves
<1>7. Redone(w) => Redone(w)' /\ (Head(queue).w = w /\ t \in Leaving => Maps(w)')
  BY <1>1, AfterTail DEF Redone, Maps
<1>8. Void(w) => Void(w)' /\ (Head(queue).w = w /\ t = "MapRequest" => Leaves(w)')
  BY <1>1, AfterTail DEF Void, Leaves
<1>9. Followed(w) => Followed(w)' /\ (Head(queue).w = w /\ t = "MapRequest" => Changes(w)')
  BY <1>1, AfterTail DEF Followed, Changes
<1>. QED BY <1>2, <1>3, <1>4, <1>5, <1>6, <1>7, <1>8, <1>9

\* The same queue says the same.
LEMMA SameQueue ==
  ASSUME queue' = queue, NEW w
  PROVE  /\ HasD(w)' <=> HasD(w)
         /\ Leaves(w)' <=> Leaves(w)
         /\ Maps(w)' <=> Maps(w)
         /\ Changes(w)' <=> Changes(w)
  BY DEF HasD, Leaves, Maps, Changes

\* The environment keeps events and windows in step.
LEMMA EffectQInv ==
  ASSUME NEW w \in Windows, QInv(w), Effect(w)
  PROVE  QInv(w)'
<1>1. CASE EffectNone(w)
  BY <1>1 DEF QInv, EffectNone, SameWindow, Live
<1>2. CASE EffectCreated(w)
  BY <1>2 DEF QInv, EffectCreated, Live
<1>3. CASE EffectRequested(w)
  BY <1>3 DEF QInv, EffectRequested, SameWindow, Live
<1>4. CASE EffectMapped(w)
  BY <1>4 DEF QInv, EffectMapped, Live
<1>5. CASE EffectUnmapped(w)
  BY <1>5 DEF QInv, EffectUnmapped, Live
<1>6. CASE EffectDestroyed(w)
  BY <1>6 DEF QInv, EffectDestroyed, Live
<1>. QED BY <1>1, <1>2, <1>3, <1>4, <1>5, <1>6 DEF Effect

\* So does the thread, that reads one event.
LEMMA ReceiveQInv ==
  ASSUME queue \in Seq(Event), NEW t, Receive(t), UNCHANGED st, NEW w, QInv(w)
  PROVE  QInv(w)'
  BY ReceiveFacts DEF QInv, Live

\* The damage object, the selections and the requests, as the environment
\* leaves them.
Kept(w) ==
  /\ w \in dmgObj' => w \in dmgObj
  /\ HasD(w)' \/ /\ \A t : <<t, w>> \in listening => <<t, w>> \in listening'
                 /\ w \in dmgObj /\ ~Asked("dmgdestroy", w) => w \in dmgObj'
  /\ \A op : Asked(op, w)' => Asked(op, w)
  /\ w \in dmgObj' /\ Asked("dmgdestroy", w) => Asked("dmgdestroy", w)'
  /\ Asked("map", w) /\ st[w] = "unmapped" => Asked("map", w)' \/ st'[w] = "mapped"

\* Applications take nothing from the server that the thread relies on, without an event.
LEMMA ApplicationsKept ==
  ASSUME ServerTypeOK, Applications, NEW w \in Windows
  PROVE  Kept(w)
<1>1. \A op : Asked(op, w)' <=> Asked(op, w)
  <2>1. out' = out
    BY DEF Applications, CreateWindow, MapWindow, UnmapWindow, WithdrawWindow,
       DestroyWindow, ConfigureWindow, ChangeShapeOrProperty, DrawInWindow, ChangeCursor
  <2>. QED BY <2>1 DEF Asked
<1>2. CASE UNCHANGED <<dmgObj, listening>>
  BY <1>1, <1>2 DEF Kept
<1>3. ASSUME NEW v \in Windows, DestroyWindow(v) PROVE Kept(w)
  <2>1. /\ dmgObj' = dmgObj \ {v}
        /\ listening' = {l \in listening : l[2] # v}
    BY <1>3 DEF DestroyWindow
  <2>2. CASE w = v
    <3>1. Emit(Append(UnmapEvents(v), Ev("DestroyNotify", v, FALSE)))
      BY <1>3 DEF DestroyWindow
    <3>2. HasD(v)'
      BY <3>1, LeaveEffect DEF Leaving, ServerTypeOK
    <3>. QED BY <1>1, <2>1, <2>2, <3>2 DEF Kept
  <2>3. CASE w # v
    <3>1. \A t : <<t, w>> \in listening => <<t, w>> \in listening'
      BY <2>1, <2>3
    <3>. QED BY <1>1, <2>1, <2>3, <3>1 DEF Kept
  <2>. QED BY <2>2, <2>3
<1>. QED
  BY <1>2, <1>3 DEF Applications, CreateWindow, MapWindow, UnmapWindow, WithdrawWindow,
     ConfigureWindow, ChangeShapeOrProperty, DrawInWindow, ChangeCursor, serverVars

\* What the head of the requests can be.
LEMMA HeadRequest ==
  ASSUME out \in Seq(Request), out # <<>>
  PROVE  /\ Head(out) \in Request
         /\ Head(out).op \notin {"name", "freepix"} =>
              Head(out) = Req(Head(out).op, Head(out).w, NoPixmap)
         /\ Head(out).op = "name" =>
              /\ Head(out).w \in Windows /\ Head(out).p \in Pixmaps
              /\ Head(out) = Req("name", Head(out).w, Head(out).p)
         /\ Head(out).op = "freepix" =>
              /\ Head(out).p \in Pixmaps
              /\ Head(out) = Req("freepix", NoWindow, Head(out).p)
<1>1. Head(out) \in Request
  BY HeadTailProperties
<1>2. ASSUME NEW r \in Request
      PROVE  /\ r.op \notin {"name", "freepix"} => r = Req(r.op, r.w, NoPixmap)
             /\ r.op = "name" =>
                  r.w \in Windows /\ r.p \in Pixmaps /\ r = Req("name", r.w, r.p)
             /\ r.op = "freepix" => r.p \in Pixmaps /\ r = Req("freepix", NoWindow, r.p)
  BY DEF Request, Req
<1>. QED BY <1>1, <1>2

\* The fields of a request are those it was made from.
LEMMA ReqFields == \A op, w, p : /\ Req(op, w, p).op = op
                                 /\ Req(op, w, p).w = w
                                 /\ Req(op, w, p).p = p
  BY DEF Req

\* The damage objects and the selections, when a request is executed.
LEMMA ExecDamage ==
  ASSUME ServerTypeOK, Exec
  PROVE  /\ listening' = listening
         /\ dmgObj' = IF Head(out).op = "dmgdestroy" THEN dmgObj \ {Head(out).w} ELSE dmgObj
<1>1. Head(out).op \in Ops
  <2>1. Head(out) \in Request
    BY HeadRequest DEF Exec, ServerTypeOK
  <2>. QED BY <2>1 DEF Request, Ops
<1>2. CASE Head(out).op = "dmgdestroy"
  BY <1>2 DEF Exec, ExecDamageDestroy
<1>3. CASE Head(out).op # "dmgdestroy"
  BY <1>1, <1>3 DEF Ops, Exec, ExecMap, ExecResize, ExecName, ExecFreePixmap, ExecDamageAdd,
     serverVars
<1>. QED BY <1>2, <1>3

\* The server executes a request and keeps the rest.
LEMMA ExecKept ==
  ASSUME ServerTypeOK, Exec, NEW w \in Windows \cup {Root}
  PROVE  /\ w \in Windows => Kept(w)
         /\ w \in dmgObj /\ ~Asked("dmgdestroy", w) => w \in dmgObj'
         /\ Asked("dmgdestroy", w)' => Asked("dmgdestroy", w)
<1>1. out \in Seq(Request) /\ out # <<>> /\ out' = Tail(out)
  BY DEF Exec, ServerTypeOK
<1>2. \A op : Asked(op, w)' => Asked(op, w)
  BY <1>1, InTail DEF Asked
<1>3. \A op : Asked(op, w) => Asked(op, w)' \/ Head(out) = Req(op, w, NoPixmap)
  BY <1>1, InTail DEF Asked
<1>4. w \in dmgObj /\ w \notin dmgObj' => Asked("dmgdestroy", w)
  <2>1. ASSUME w \in dmgObj, w \notin dmgObj' PROVE Head(out) = Req("dmgdestroy", w, NoPixmap)
    <3>1. Head(out).op = "dmgdestroy" /\ Head(out).w = w
      BY <2>1, ExecDamage
    <3>. QED BY <1>1, <3>1, HeadRequest
  <2>2. In(out, Head(out))
    BY <1>1, InTail
  <2>. QED BY <2>1, <2>2 DEF Asked
<1>5. w \in dmgObj' /\ Asked("dmgdestroy", w) => Asked("dmgdestroy", w)'
  <2>1. ASSUME Head(out) = Req("dmgdestroy", w, NoPixmap) PROVE w \notin dmgObj'
    <3>1. Head(out).op = "dmgdestroy" /\ Head(out).w = w
      BY <2>1, ReqFields
    <3>. QED BY <3>1, ExecDamage
  <2>. QED BY <2>1, <1>3
<1>6. ASSUME Asked("map", w), st[w] = "unmapped", ~Asked("map", w)' , w \in Windows
      PROVE  st'[w] = "mapped"
  <2>1. Head(out).op = "map" /\ Head(out).w = w
    BY <1>3, <1>6, ReqFields
  <2>2. ExecMap(w)
    BY <2>1 DEF Exec
  <2>. QED BY <1>6, <2>2 DEF ExecMap, ServerTypeOK
<1>. QED BY <1>2, <1>4, <1>5, <1>6, ExecDamage DEF Kept

\* What a step of the environment leaves of a window's state.
LEMMA EffectCases ==
  ASSUME NEW w, Effect(w)
  PROVE  /\ Grown(w)
         /\ \/ st'[w] = st[w] /\ kind'[w] = kind[w]
            \/ st[w] = "free" /\ st'[w] = "unmapped"
            \/ /\ st[w] = "unmapped" /\ st'[w] = "mapped" /\ kind'[w] = kind[w]
               /\ Maps(w)' /\ Changes(w)'
            \/ Live(w) /\ st'[w] = "unmapped" /\ kind'[w] = kind[w] /\ Leaves(w)'
            \/ Live(w) /\ st'[w] \in {"free", "dead"} /\ Leaves(w)' /\ HasD(w)'
  BY DEF Effect, EffectNone, EffectCreated, EffectRequested, EffectMapped, EffectUnmapped,
     EffectDestroyed, SameWindow

\* What the thread knows of a window survives the environment.
LEMMA EnvironmentTInv ==
  ASSUME NEW w \in Windows, TInv(w), Effect(w), Kept(w), UNCHANGED threadVars
  PROVE  TInv(w)'
<1>. USE DEF TInv, threadVars
<1>0. /\ Made(w)' <=> Made(w)
      /\ Creating(w)' <=> Creating(w)
  BY DEF Made, Creating
<1>1. Listed(w)'
  BY <1>0, EffectCases DEF Listed, Grown
<1>2. Late(w)'
  BY <1>0, EffectCases DEF Late, Grown
<1>3. Sound(w)'
  <2>1. CASE HasD(w)'
    BY <2>1 DEF Sound
  <2>2. CASE ~HasD(w)' /\ Made(w)
    <3>1. Equipped(w) /\ ~Asked("dmgdestroy", w)
      BY <2>2, EffectCases DEF Sound, NotAsked, Grown
    <3>2. Live(w)' /\ kind'[w] = kind[w]
      BY <2>2, <3>1, EffectCases DEF Equipped, Live
    <3>. QED BY <2>2, <3>1, <3>2 DEF Equipped, Kept, Sound
  <2>3. CASE ~Made(w)
    BY <2>3, <1>0 DEF Sound
  <2>. QED BY <2>1, <2>2, <2>3
<1>4. Marked(w)'
  BY DEF Marked, Kept
<1>5. NotAsked(w)'
  BY <1>0 DEF NotAsked, Kept
<1>6. Pending(w)'
  <2>1. CASE Leaves(w)'
    BY <2>1 DEF Pending
  <2>2. CASE ~Leaves(w)' /\ pc = "attrs" /\ cur = w /\ st'[w] # "mapped"
    <3>1. st'[w] = st[w] \/ (st[w] = "free" /\ st'[w] = "unmapped")
      BY <2>2, EffectCases
    <3>2. st[w] # "mapped" /\ ~Leaves(w)
      BY <2>2, <3>1, EffectCases DEF Grown
    <3>3. st[w] = "unmapped" /\ Asked("map", w)
      BY <2>2, <3>2 DEF Pending
    <3>. QED BY <2>2, <3>1, <3>3 DEF Pending, Kept
  <2>. QED BY <2>1, <2>2 DEF Pending
<1>. QED BY <1>1, <1>2, <1>3, <1>4, <1>5, <1>6

\* Applications and server preserve the invariant.
LEMMA OutsideLInv ==
  ASSUME IInv, LInv, Outside
  PROVE  LInv'
<1>0. ServerTypeOK
  BY DEF IInv, TypeOK
<1>1. ASSUME NEW w \in Windows PROVE Effect(w) /\ Kept(w)
  BY <1>0, ApplicationsEffect, ExecEffect, ApplicationsKept, ExecKept DEF Outside
<1>2. \A w \in Windows : QInv(w)' /\ TInv(w)'
  BY <1>1, EffectQInv, EnvironmentTInv DEF LInv, Outside
<1>3. AdoptInv'
  BY DEF LInv, AdoptInv, Outside, threadVars
<1>4. RootInv'
  <2>1. CASE Exec
    BY <1>0, <2>1, ExecKept DEF LInv, RootInv
  <2>2. CASE Applications
    <3>1. out' = out
      BY <2>2 DEF Applications, CreateWindow, MapWindow, UnmapWindow, WithdrawWindow,
         DestroyWindow, ConfigureWindow, ChangeShapeOrProperty, DrawInWindow, ChangeCursor
    <3>2. dmgObj' = dmgObj \/ \E v \in Windows : dmgObj' = dmgObj \ {v}
      BY <2>2 DEF Applications, CreateWindow, MapWindow, UnmapWindow, WithdrawWindow,
         DestroyWindow, ConfigureWindow, ChangeShapeOrProperty, DrawInWindow, ChangeCursor,
         serverVars
    <3>. QED BY <3>1, <3>2, WindowAssumption DEF LInv, RootInv, Asked
  <2>. QED BY <2>1, <2>2 DEF Outside
<1>. QED BY <1>2, <1>3, <1>4 DEF LInv

----------------------------------------------------------------------------
\* Requests that are added.
LEMMA AskedAppend ==
  ASSUME out \in Seq(Request), NEW r \in Request, out' = Append(out, r)
  PROVE  \A op, w : Asked(op, w)' <=> Asked(op, w) \/ r = Req(op, w, NoPixmap)
  BY InAppend DEF Asked

\* How the requests of _xcwm_window_composite_pixmap_release follow the others.
LEMMA ReleaseAppend ==
  ASSUME PixmapTyped, NEW s \in Seq(Request), NEW w \in Windows
  PROVE  /\ pixmap[w] = NoPixmap => s \o ReleaseRequests(w) = s
         /\ pixmap[w] # NoPixmap =>
              /\ Req("freepix", NoWindow, pixmap[w]) \in Request
              /\ s \o ReleaseRequests(w) = Append(s, Req("freepix", NoWindow, pixmap[w]))
<1>1. CASE pixmap[w] = NoPixmap
  BY <1>1, ConcatEmptySeq DEF ReleaseRequests
<1>2. CASE pixmap[w] # NoPixmap
  <2>1. Req("freepix", NoWindow, pixmap[w]) \in Request
    BY <1>2, RequestTyped DEF PixmapTyped
  <2>. QED BY <1>2, <2>1, ConcatOne DEF ReleaseRequests
<1>. QED BY <1>1, <1>2

\* A pixmap update appends one or two requests.
LEMMA UpdateAppend ==
  ASSUME PixmapTyped, NEW s \in Seq(Request), NEW w \in Windows, NEW r \in Request
  PROVE  /\ pixmap[w] = NoPixmap => s \o Append(ReleaseRequests(w), r) = Append(s, r)
         /\ pixmap[w] # NoPixmap =>
              /\ Req("freepix", NoWindow, pixmap[w]) \in Request
              /\ s \o Append(ReleaseRequests(w), r)
                   = Append(Append(s, Req("freepix", NoWindow, pixmap[w])), r)
<1>1. CASE pixmap[w] = NoPixmap
  BY <1>1, ConcatFirst DEF ReleaseRequests
<1>2. CASE pixmap[w] # NoPixmap
  <2>1. Req("freepix", NoWindow, pixmap[w]) \in Request
    BY <1>2, RequestTyped DEF PixmapTyped
  <2>. QED BY <1>2, <2>1, ConcatTwo DEF ReleaseRequests
<1>. QED BY <1>1, <1>2

\* The requests of a pixmap update.
LEMMA InUpdate ==
  ASSUME PixmapTyped, NEW s \in Seq(Request), NEW w \in Windows, NEW r \in Request, NEW x
  PROVE  In(s \o Append(ReleaseRequests(w), r), x) <=>
           \/ In(s, x) \/ x = r
           \/ pixmap[w] # NoPixmap /\ x = Req("freepix", NoWindow, pixmap[w])
<1>1. CASE pixmap[w] = NoPixmap
  <2>1. s \o Append(ReleaseRequests(w), r) = Append(s, r)
    BY <1>1, UpdateAppend
  <2>2. In(Append(s, r), x) <=> In(s, x) \/ x = r
    BY InAppend
  <2>. QED BY <1>1, <2>1, <2>2
<1>2. CASE pixmap[w] # NoPixmap
  <2>. DEFINE f == Req("freepix", NoWindow, pixmap[w])
  <2>1. f \in Request /\ s \o Append(ReleaseRequests(w), r) = Append(Append(s, f), r)
    BY <1>2, UpdateAppend
  <2>. HIDE DEF f
  <2>2. Append(s, f) \in Seq(Request)
    BY <2>1, AppendProperties
  <2>3. In(Append(Append(s, f), r), x) <=> In(s, x) \/ x = f \/ x = r
    BY <2>1, <2>2, InAppend
  <2>. QED BY <1>2, <2>1, <2>3 DEF f
<1>. QED BY <1>1, <1>2

\* The request that releases a pixmap.
LEMMA InRelease ==
  ASSUME PixmapTyped, NEW s \in Seq(Request), NEW w \in Windows, NEW x
  PROVE  In(s \o ReleaseRequests(w), x) <=>
           \/ In(s, x)
           \/ pixmap[w] # NoPixmap /\ x = Req("freepix", NoWindow, pixmap[w])
<1>1. CASE pixmap[w] = NoPixmap
  BY <1>1, ReleaseAppend
<1>2. CASE pixmap[w] # NoPixmap
  <2>. DEFINE f == Req("freepix", NoWindow, pixmap[w])
  <2>1. f \in Request /\ s \o ReleaseRequests(w) = Append(s, f)
    BY <1>2, ReleaseAppend
  <2>. HIDE DEF f
  <2>2. In(Append(s, f), x) <=> In(s, x) \/ x = f
    BY <2>1, InAppend
  <2>. QED BY <1>2, <2>1, <2>2 DEF f
<1>. QED BY <1>1, <1>2

\* A pixmap update asks for nothing else.
LEMMA AskedUpdate ==
  ASSUME PixmapTyped, out \in Seq(Request), NEW v, PixmapUpdate(v),
         NEW op \in Ops \ {"name", "freepix"}
  PROVE  \A w : Asked(op, w)' <=> Asked(op, w)
<1>1. PICK p \in Pixmaps : out' = out \o Append(ReleaseRequests(v), Req("name", v, p))
  BY DEF PixmapUpdate, UnusedPixmaps
<1>2. v \in Windows
  BY DEF PixmapUpdate
<1>3. Req("name", v, p) \in Request
  BY <1>2, RequestTyped
<1>4. \A w : /\ Req(op, w, NoPixmap) # Req("name", v, p)
             /\ Req(op, w, NoPixmap) # Req("freepix", NoWindow, pixmap[v])
  BY DEF Req
<1>. QED BY <1>1, <1>2, <1>3, <1>4, InUpdate DEF Asked

\* So does a release.
LEMMA AskedRelease ==
  ASSUME PixmapTyped, out \in Seq(Request), NEW v \in Windows,
         out' = out \o ReleaseRequests(v), NEW op \in Ops \ {"name", "freepix"}
  PROVE  \A w : Asked(op, w)' <=> Asked(op, w)
<1>1. \A w : Req(op, w, NoPixmap) # Req("freepix", NoWindow, pixmap[v])
  BY DEF Req
<1>. QED BY <1>1, InRelease DEF Asked

----------------------------------------------------------------------------
(* The list against the server: the steps of the thread *)

\* Steps of the thread that read nothing.
LEMMA SilentQInv ==
  ASSUME UNCHANGED <<st, queue>>, NEW w, QInv(w)
  PROVE  QInv(w)'
  BY DEF QInv, Live, Undone, Redone, Void, Followed

\* The same requests ask for the same.
LEMMA SameAsked ==
  ASSUME out' = out
  PROVE  \A op, w : Asked(op, w)' <=> Asked(op, w)
  BY DEF Asked

\* No requests, nothing asked.
LEMMA NothingAsked ==
  ASSUME out = <<>>
  PROVE  \A op, w : ~Asked(op, w)
  BY InNone DEF Asked

\* Adoption: what is mapped when it is looked at is created.
LEMMA AdoptLInv ==
  ASSUME IInv, LInv, \/ AdoptQuery \/ AdoptDone
                     \/ \E v \in Windows : AdoptNext(v)
  PROVE  LInv'
<1>. USE DEF LInv
<1>1. UNCHANGED <<serverVars, queue, out, managed>>
  BY DEF AdoptQuery, AdoptNext, AdoptDone
<1>2. /\ \A op, w : Asked(op, w)' <=> Asked(op, w)
      /\ \A w : (HasD(w)' <=> HasD(w)) /\ (Leaves(w)' <=> Leaves(w)) /\ (Maps(w)' <=> Maps(w))
  BY <1>1, SameAsked, SameQueue
<1>3. RootInv'
  BY <1>1, <1>2 DEF RootInv, serverVars
<1>4. AdoptInv'
  BY DEF AdoptInv, AdoptQuery, AdoptNext, AdoptDone, StartCreate, Goto, Stay
<1>5. \A w \in Windows : QInv(w)'
  BY <1>1, SilentQInv DEF serverVars
<1>6. ASSUME NEW w \in Windows PROVE TInv(w)'
  <2>1. TInv(w)
    OBVIOUS
  <2>2. CASE AdoptQuery
    BY <2>1, <2>2, <1>1, <1>2 DEF AdoptQuery, TInv, Listed, Late, Sound, Equipped, Marked,
       NotAsked, Pending, Made, Creating, Steps, Live, serverVars
  <2>3. CASE AdoptDone
    BY <2>1, <2>3, <1>1, <1>2 DEF AdoptDone, TInv, Listed, Late, Sound, Equipped, Marked,
       NotAsked, Pending, Made, Creating, Steps, Live, serverVars
  <2>4. ASSUME NEW v \in Windows, AdoptNext(v) PROVE TInv(w)'
    BY <2>1, <2>4, <1>1, <1>2 DEF AdoptNext, StartCreate, Goto, Stay, Lookup, TInv, Listed,
       Late, Sound, Equipped, Marked, NotAsked, Pending, Made, Creating, Steps, Live, serverVars
  <2>. QED BY <2>2, <2>3, <2>4
<1>. QED BY <1>3, <1>4, <1>5, <1>6

\* The queries of a create, a failed one included.
LEMMA CreateLInv ==
  ASSUME IInv, LInv, \/ CreateAttributes \/ CreateGeometry \/ CreateShape
                     \/ Reshape \/ CallbackReturn
  PROVE  LInv'
<1>. USE DEF LInv
<1>1. UNCHANGED <<serverVars, queue, out, managed, todo>>
  BY DEF CreateAttributes, CreateGeometry, CreateShape, Reshape, CallbackReturn
<1>2. /\ \A op, w : Asked(op, w)' <=> Asked(op, w)
      /\ \A w : (HasD(w)' <=> HasD(w)) /\ (Leaves(w)' <=> Leaves(w)) /\ (Maps(w)' <=> Maps(w))
  BY <1>1, SameAsked, SameQueue
<1>3. RootInv'
  BY <1>1, <1>2 DEF RootInv, serverVars
<1>4. AdoptInv'
  BY <1>1 DEF AdoptInv, IInv, Control, CreateAttributes, CreateGeometry, CreateShape, Reshape,
     CallbackReturn,
     Goto, Resume
<1>5. \A w \in Windows : QInv(w)'
  BY <1>1, SilentQInv DEF serverVars
<1>6. ASSUME NEW w \in Windows PROVE TInv(w)'
  <2>1. TInv(w)
    OBVIOUS
  <2>2. CASE CreateAttributes
    <3>1. \A op : ~Asked(op, w)
      BY <2>2, NothingAsked DEF CreateAttributes
    <3>. QED
      BY <2>1, <2>2, <3>1, <1>1, <1>2 DEF CreateAttributes, Goto, Resume, TInv, Listed, Late,
         Sound, Equipped, Marked, NotAsked, Pending, Made, Creating, Steps, Live, serverVars,
         IInv, Control
  <2>3. CASE CreateGeometry
    BY <2>1, <2>3, <1>1, <1>2 DEF CreateGeometry, Goto, Resume, TInv, Listed, Late,
       Sound, Equipped, Marked, NotAsked, Pending, Made, Creating, Steps, Live, serverVars,
       IInv, Control
  <2>4. CASE CreateShape
    BY <2>1, <2>4, <1>1, <1>2 DEF CreateShape, Goto, Resume, TInv, Listed, Late,
       Sound, Equipped, Marked, NotAsked, Pending, Made, Creating, Steps, Live, serverVars,
       IInv, Control
  <2>5. CASE Reshape \/ CallbackReturn
    BY <2>1, <2>5, <1>1, <1>2 DEF Reshape, CallbackReturn, Goto, Resume, TInv, Listed, Late,
       Sound, Equipped, Marked, NotAsked, Pending, Made, Creating, Steps, Live, serverVars,
       IInv, Control
  <2>. QED BY <2>2, <2>3, <2>4, <2>5
<1>. QED BY <1>3, <1>4, <1>5, <1>6

\* The damage object and the property events.
LEMMA PropertiesLInv ==
  ASSUME IInv, LInv, CreateProperties
  PROVE  LInv'
<1>. USE DEF LInv
<1>0. UNCHANGED <<st, kind, out, managed, todo>> /\ out = <<>> /\ cur \in Windows \ managed
      /\ ServerTypeOK
  BY DEF CreateProperties, IInv, Control, TypeOK
<1>1. \A w \in Windows : Effect(w)
  <2>1. CASE st[cur] = "mapped"
    <3>1. PICK f \in BOOLEAN : Emit(<<Ev("DamageNotify", cur, f)>>)
      BY <2>1 DEF CreateProperties
    <3>2. Ev("DamageNotify", cur, f) \in Event
      BY <1>0, EventTyped
    <3>3. Ev("DamageNotify", cur, f).type \notin Structural \ {"ConfigureNotify"}
      BY EvFields DEF Structural, Changing, Leaving
    <3>. QED BY <1>0, <3>1, <3>2, <3>3, QuietEffect
  <2>2. CASE st[cur] # "mapped"
    BY <1>0, <2>2, QuietSame DEF CreateProperties, SameWindow
  <2>. QED BY <2>1, <2>2
<1>2. \A op, w : ~Asked(op, w) /\ ~Asked(op, w)'
  BY <1>0, NothingAsked, SameAsked
<1>3. RootInv'
  BY <1>2 DEF RootInv, CreateProperties
<1>4. AdoptInv'
  BY DEF AdoptInv, CreateProperties, Goto
<1>5. \A w \in Windows : QInv(w)'
  BY <1>1, EffectQInv
<1>6. ASSUME NEW w \in Windows PROVE TInv(w)'
  <2>1. TInv(w) /\ Grown(w)
    BY <1>1 DEF Effect
  <2>2. /\ pc = "props" /\ pc' = "shape" /\ cur' = cur /\ via' = via
        /\ dmgObj' = IF Live(cur) THEN dmgObj \cup {cur} ELSE dmgObj
        /\ listening' = IF Live(cur) THEN listening \cup {<<"PropertyNotify", cur>>} ELSE listening
    BY DEF CreateProperties, Goto
  <2>. QED
    BY <2>1, <2>2, <1>0, <1>2 DEF Grown, TInv, Listed, Late,
       Sound, Equipped, Marked, NotAsked, Pending, Made, Creating, Steps, Live
<1>. QED BY <1>3, <1>4, <1>5, <1>6

\* The window enters the list.
LEMMA FinishLInv ==
  ASSUME IInv, LInv, CreateFinish
  PROVE  LInv'
<1>. USE DEF LInv
<1>0. /\ UNCHANGED <<st, kind, dmgObj, queue, todo>> /\ out = <<>> /\ cur \in Windows \ managed
      /\ PixmapTyped /\ out \in Seq(Request)
  BY DEF CreateFinish, IInv, Control, TypeOK, ServerTypeOK, PixmapTyped
<1>2. \A w : ~Asked("dmgdestroy", w)' /\ ~Asked("dmgdestroy", w)
  <2>1. \A w : ~Asked("dmgdestroy", w)
    BY <1>0, NothingAsked
  <2>2. CASE out' = out
    BY <2>1, <2>2, SameAsked
  <2>3. CASE PixmapUpdate(cur)
    BY <1>0, <2>1, <2>3, AskedUpdate DEF Ops
  <2>. QED BY <2>1, <2>2, <2>3 DEF CreateFinish
<1>2a. \A w : (HasD(w)' <=> HasD(w)) /\ (Leaves(w)' <=> Leaves(w)) /\ (Maps(w)' <=> Maps(w))
  BY <1>0, SameQueue
<1>3. RootInv'
  BY <1>0, <1>2 DEF RootInv
<1>4. AdoptInv'
  BY DEF AdoptInv, CreateFinish, Goto
<1>5. \A w \in Windows : QInv(w)'
  BY <1>0, SilentQInv
<1>6. ASSUME NEW w \in Windows PROVE TInv(w)'
  <2>1. TInv(w)
    OBVIOUS
  <2>2. /\ pc = "select" /\ pc' = "cbCreate" /\ cur' = cur /\ managed' = managed \cup {cur}
        /\ listening' = IF Live(cur) THEN listening \cup {<<"ShapeNotify", cur>>} ELSE listening
    BY DEF CreateFinish, Goto
  <2>. QED
    BY <2>1, <2>2, <1>0, <1>2, <1>2a DEF TInv, Listed, Late,
       Sound, Equipped, Marked, NotAsked, Pending, Made, Creating, Steps, Live
<1>. QED BY <1>3, <1>4, <1>5, <1>6

\* The window is released.
LEMMA DestroyReturnLInv ==
  ASSUME IInv, LInv, DestroyReturn
  PROVE  LInv'
<1>. USE DEF LInv
<1>0. /\ UNCHANGED <<serverVars, queue, managed, todo>> /\ cur \in Windows \ managed
      /\ PixmapTyped /\ out \in Seq(Request)
  BY DEF DestroyReturn, IInv, Control, TypeOK, ServerTypeOK, PixmapTyped
<1>1. \A w : Asked("dmgdestroy", w)' <=> Asked("dmgdestroy", w)
  BY <1>0, SameAsked, AskedRelease DEF DestroyReturn, Ops
<1>2. \A w : (HasD(w)' <=> HasD(w)) /\ (Leaves(w)' <=> Leaves(w)) /\ (Maps(w)' <=> Maps(w))
  BY <1>0, SameQueue
<1>3. RootInv'
  BY <1>0, <1>1 DEF RootInv, serverVars
<1>4. AdoptInv'
  BY <1>0 DEF AdoptInv, DestroyReturn, Resume, Goto
<1>5. \A w \in Windows : QInv(w)'
  BY <1>0, SilentQInv DEF serverVars
<1>6. ASSUME NEW w \in Windows PROVE TInv(w)'
  <2>1. TInv(w)
    OBVIOUS
  <2>2. pc = "cbDestroy" /\ pc' \in {"adopt", "wait"}
    BY DEF DestroyReturn, Resume, Goto
  <2>. QED
    BY <2>1, <2>2, <1>0, <1>1, <1>2 DEF TInv, Listed, Late, serverVars,
       Sound, Equipped, Marked, NotAsked, Pending, Made, Creating, Steps, Live
<1>. QED BY <1>3, <1>4, <1>5, <1>6

\* The head of the queue, of a type that only the applications' windows have.
LEMMA HeadWindow ==
  ASSUME IInv, NEW t \in EventTypes \ {"DamageNotify", "CursorNotify"}, Receive(t)
  PROVE  Head(queue).w \in Windows /\ pc = "wait"
  BY Received DEF Receive, IInv, TypeOK, ServerTypeOK

\* A MapRequest maps the window, and creates it if it is new.
LEMMA MapRequestLInv ==
  ASSUME IInv, LInv, HandleMapRequest
  PROVE  LInv'
<1>. USE DEF LInv
<1>. DEFINE h == Head(queue).w
<1>0. Receive("MapRequest")
  BY DEF HandleMapRequest
<1>1. h \in Windows /\ pc = "wait"
  BY <1>0, HeadWindow DEF EventTypes
<1>2. /\ UNCHANGED <<st, kind, dmgObj, listening, managed, todo>>
      /\ out' = Append(out, Req("map", h, NoPixmap))
      /\ StartCreate(h, "maprequest")
  BY DEF HandleMapRequest, serverVars
<1>3. queue \in Seq(Event) /\ out \in Seq(Request)
  BY DEF IInv, TypeOK, ServerTypeOK
<1>4. Req("map", h, NoPixmap) \in Request
  BY <1>1, RequestTyped DEF Ops
<1>. HIDE DEF h
<1>5. \A w : /\ Asked("dmgdestroy", w)' <=> Asked("dmgdestroy", w)
             /\ Asked("map", w)' <=> Asked("map", w) \/ w = h
  <2>1. \A op, w : Asked(op, w)' <=> Asked(op, w) \/ Req("map", h, NoPixmap) = Req(op, w, NoPixmap)
    BY <1>2, <1>3, <1>4, AskedAppend
  <2>2. \A op, w : Req("map", h, NoPixmap) = Req(op, w, NoPixmap) <=> op = "map" /\ w = h
    BY DEF Req
  <2>. QED BY <2>1, <2>2
<1>6. RootInv'
  BY <1>2, <1>5 DEF RootInv
<1>7. AdoptInv'
  BY <1>1, <1>2 DEF AdoptInv, StartCreate, Goto, Stay
<1>8. \A w \in Windows : QInv(w)'
  BY <1>0, <1>2, <1>3, ReceiveQInv
<1>9. ASSUME NEW w \in Windows PROVE TInv(w)'
  <2>1. TInv(w) /\ QInv(w)
    OBVIOUS
  <2>2. /\ HasD(w) => HasD(w)'
        /\ Leaves(w) => Leaves(w)'
        /\ Maps(w) => Maps(w)'
        /\ h = w /\ Void(w) => Leaves(w)'
    BY <1>0, <1>3, ReceiveFacts DEF Leaving, h
  <2>3. CASE h = w
    BY <2>1, <2>2, <2>3, <1>1, <1>2, <1>5 DEF QInv, TInv, Listed, Late, StartCreate, Goto, Stay,
       Lookup, Sound, Equipped, Marked, NotAsked, Pending, Made, Creating, Steps, Live
  <2>4. CASE h # w
    BY <2>1, <2>2, <2>4, <1>1, <1>2, <1>5 DEF TInv, Listed, Late, StartCreate, Goto, Stay,
       Lookup, Sound, Equipped, Marked, NotAsked, Pending, Made, Creating, Steps, Live
  <2>. QED BY <2>3, <2>4
<1>. QED BY <1>6, <1>7, <1>8, <1>9

\* A MapNotify creates the window if it is new.
LEMMA MapNotifyLInv ==
  ASSUME IInv, LInv, HandleMapNotify
  PROVE  LInv'
<1>. USE DEF LInv
<1>. DEFINE h == Head(queue).w
<1>0. Receive("MapNotify")
  BY DEF HandleMapNotify
<1>1. h \in Windows /\ pc = "wait"
  BY <1>0, HeadWindow DEF EventTypes
<1>2. /\ UNCHANGED <<st, kind, dmgObj, listening, managed, todo>>
      /\ StartCreate(h, "mapnotify")
      /\ PixmapUpdate(h) \/ out' = out
  BY DEF HandleMapNotify, serverVars
<1>3. queue \in Seq(Event) /\ out \in Seq(Request) /\ PixmapTyped
  BY DEF IInv, TypeOK, ServerTypeOK, PixmapTyped
<1>. HIDE DEF h
<1>5. \A w : Asked("dmgdestroy", w)' <=> Asked("dmgdestroy", w)
  BY <1>2, <1>3, AskedUpdate, SameAsked DEF Ops
<1>6. RootInv'
  BY <1>2, <1>5 DEF RootInv
<1>7. AdoptInv'
  BY <1>1, <1>2 DEF AdoptInv, StartCreate, Goto, Stay
<1>8. \A w \in Windows : QInv(w)'
  BY <1>0, <1>2, <1>3, ReceiveQInv
<1>9. ASSUME NEW w \in Windows PROVE TInv(w)'
  <2>1. TInv(w) /\ QInv(w)
    OBVIOUS
  <2>2. /\ HasD(w) => HasD(w)'
        /\ Leaves(w) => Leaves(w)'
        /\ Maps(w) => Maps(w)' \/ h = w
        /\ h = w /\ Undone(w) => Leaves(w)'
    BY <1>0, <1>3, ReceiveFacts DEF Leaving, h
  <2>. QED
    BY <2>1, <2>2, <1>1, <1>2, <1>5 DEF QInv, TInv, Listed, Late, StartCreate, Goto, Stay, Lookup,
       Sound, Equipped, Marked, NotAsked, Pending, Made, Creating, Steps, Live
<1>. QED BY <1>6, <1>7, <1>8, <1>9

\* An UnmapNotify or DestroyNotify takes the window off the list.
LEMMA RemoveLInv ==
  ASSUME IInv, LInv, NEW t \in Leaving, NEW how \in {"unmap", "destroy"}, Remove(t, how)
  PROVE  LInv'
<1>. USE DEF LInv
<1>. DEFINE h == Head(queue).w
<1>0. Receive(t)
  BY DEF Remove
<1>1. h \in Windows /\ pc = "wait"
  BY <1>0, HeadWindow DEF EventTypes, Leaving
<1>2. /\ UNCHANGED <<st, kind, dmgObj, listening, todo>>
      /\ IF h \in managed
           THEN /\ managed' = managed \ {h}
                /\ out' = Append(out, Req("dmgdestroy", h, NoPixmap))
                /\ Goto("cbDestroy", h, how)
           ELSE Stay /\ UNCHANGED <<managed, out>>
  BY DEF Remove, serverVars, Lookup
<1>3. queue \in Seq(Event) /\ out \in Seq(Request)
  BY DEF IInv, TypeOK, ServerTypeOK
<1>4. Req("dmgdestroy", h, NoPixmap) \in Request
  BY <1>1, RequestTyped DEF Ops
<1>. HIDE DEF h
<1>5. \A w : Asked("dmgdestroy", w)' <=> Asked("dmgdestroy", w) \/ (w = h /\ h \in managed)
  <2>1. CASE h \in managed
    <3>1. \A w : Req("dmgdestroy", h, NoPixmap) = Req("dmgdestroy", w, NoPixmap) <=> w = h
      BY DEF Req
    <3>2. \A w : Asked("dmgdestroy", w)' <=>
            \/ Asked("dmgdestroy", w)
            \/ Req("dmgdestroy", h, NoPixmap) = Req("dmgdestroy", w, NoPixmap)
      BY <1>2, <1>3, <1>4, <2>1, AskedAppend
    <3>. QED BY <2>1, <3>1, <3>2
  <2>2. CASE h \notin managed
    BY <1>2, <2>2, SameAsked
  <2>. QED BY <2>1, <2>2
<1>6. RootInv'
  BY <1>1, <1>2, <1>5, WindowAssumption DEF RootInv
<1>7. AdoptInv'
  BY <1>1, <1>2 DEF AdoptInv, Goto, Stay
<1>8. \A w \in Windows : QInv(w)'
  BY <1>0, <1>2, <1>3, ReceiveQInv
<1>9. ASSUME NEW w \in Windows PROVE TInv(w)'
  <2>1. TInv(w) /\ QInv(w)
    OBVIOUS
  <2>2. /\ HasD(w) => HasD(w)' \/ h = w
        /\ Leaves(w) => Leaves(w)' \/ h = w
        /\ Maps(w) => Maps(w)'
        /\ h = w /\ Redone(w) => Maps(w)'
    BY <1>0, <1>3, ReceiveFacts DEF Leaving, h
  <2>3. CASE h = w /\ h \in managed
    BY <2>1, <2>2, <2>3, <1>1, <1>2, <1>5 DEF QInv, TInv, Listed, Late, Goto, Stay,
       Sound, Equipped, Marked, NotAsked, Pending, Made, Creating, Steps, Live
  <2>4. CASE h # w /\ h \in managed
    BY <2>1, <2>2, <2>4, <1>1, <1>2, <1>5 DEF QInv, TInv, Listed, Late, Goto, Stay,
       Sound, Equipped, Marked, NotAsked, Pending, Made, Creating, Steps, Live
  <2>5. CASE h \notin managed
    BY <2>1, <2>2, <2>5, <1>1, <1>2, <1>5 DEF QInv, TInv, Listed, Late, Goto, Stay,
       Sound, Equipped, Marked, NotAsked, Pending, Made, Creating, Steps, Live
  <2>. QED BY <2>3, <2>4, <2>5
<1>. QED BY <1>6, <1>7, <1>8, <1>9

\* The other handlers take no window in or out.
NoteHandlers == \/ HandleConfigureRequest \/ HandleConfigureNotify \/ HandleDamageNotify
                \/ HandleShapeNotify \/ HandlePropertyNotify \/ HandleCursorNotify

\* The other handlers touch neither windows nor list.
LEMMA NoteSteps ==
  ASSUME IInv, NoteHandlers
  PROVE  /\ UNCHANGED <<st, kind, named, dmgObj, listening, managed, todo>>
         /\ \E t \in EventTypes \ (Leaving \cup {"MapNotify", "MapRequest"}) : Receive(t)
         /\ (pc' = "wait" /\ via' = via) \/ pc' \in {"cbNote", "reshape", "crashed"}
  BY DEF NoteHandlers, HandleConfigureRequest, HandleConfigureNotify, HandleDamageNotify,
     HandleShapeNotify, HandlePropertyNotify, HandleCursorNotify, serverVars, threadVars,
     Receive, Goto, Stay, EventTypes, Leaving

\* The other handlers take no damage object away.
LEMMA NoteAsked ==
  ASSUME IInv, NoteHandlers
  PROVE  \A w : Asked("dmgdestroy", w)' <=> Asked("dmgdestroy", w)
<1>0. out \in Seq(Request) /\ PixmapTyped
  BY DEF IInv, TypeOK, ServerTypeOK, PixmapTyped
<1>1. CASE out' = out
  BY <1>1, SameAsked
<1>2. ASSUME NEW r \in Request, out' = Append(out, r), r.op # "dmgdestroy"
      PROVE  \A w : Asked("dmgdestroy", w)' <=> Asked("dmgdestroy", w)
  <2>1. \A w : r # Req("dmgdestroy", w, NoPixmap)
    BY <1>2, ReqFields
  <2>. QED BY <1>0, <1>2, <2>1, AskedAppend
<1>3. CASE HandleConfigureRequest
  <2>1. Head(queue).w \in Windows
    BY <1>3, HeadWindow DEF HandleConfigureRequest, EventTypes
  <2>2. Req("resize", Head(queue).w, NoPixmap) \in Request
    BY <2>1, RequestTyped DEF Ops
  <2>3. Req("resize", Head(queue).w, NoPixmap).op # "dmgdestroy"
    BY ReqFields
  <2>. QED BY <1>1, <1>2, <1>3, <2>2, <2>3 DEF HandleConfigureRequest
<1>4. CASE HandleConfigureNotify
  BY <1>0, <1>1, <1>4, AskedUpdate DEF HandleConfigureNotify, Ops
<1>5. CASE HandleDamageNotify
  <2>1. Head(queue).w \in Windows \cup {Root}
    BY <1>5, Received DEF HandleDamageNotify, EventTypes, IInv, TypeOK, ServerTypeOK
  <2>2. Req("dmgadd", Head(queue).w, NoPixmap) \in Request
    BY <2>1, RequestTyped DEF Ops
  <2>3. Req("dmgadd", Head(queue).w, NoPixmap).op # "dmgdestroy"
    BY ReqFields
  <2>. QED BY <1>1, <1>2, <1>5, <2>2, <2>3 DEF HandleDamageNotify
<1>6. CASE HandleShapeNotify \/ HandlePropertyNotify \/ HandleCursorNotify
  BY <1>1, <1>6 DEF HandleShapeNotify, HandlePropertyNotify, HandleCursorNotify
<1>. QED BY <1>3, <1>4, <1>5, <1>6 DEF NoteHandlers

\* The other handlers preserve the invariant.
LEMMA NoteLInv ==
  ASSUME IInv, LInv, NoteHandlers
  PROVE  LInv'
<1>. USE DEF LInv
<1>0. PICK t \in EventTypes \ (Leaving \cup {"MapNotify", "MapRequest"}) : Receive(t)
  BY NoteSteps
<1>1. pc = "wait"
  BY <1>0 DEF Receive
<1>2. /\ UNCHANGED <<st, kind, dmgObj, listening, managed, todo>>
      /\ (pc' = "wait" /\ via' = via) \/ pc' \in {"cbNote", "reshape", "crashed"}
  BY NoteSteps
<1>3. queue \in Seq(Event)
  BY DEF IInv, TypeOK, ServerTypeOK
<1>5. \A w : Asked("dmgdestroy", w)' <=> Asked("dmgdestroy", w)
  BY NoteAsked
<1>6. RootInv'
  BY <1>2, <1>5 DEF RootInv
<1>7. AdoptInv'
  BY <1>1, <1>2 DEF AdoptInv
<1>8. \A w \in Windows : QInv(w)'
  BY <1>0, <1>2, <1>3, ReceiveQInv
<1>9. ASSUME NEW w \in Windows PROVE TInv(w)'
  <2>1. TInv(w)
    OBVIOUS
  <2>2. /\ HasD(w) => HasD(w)'
        /\ Leaves(w) => Leaves(w)'
        /\ Maps(w) => Maps(w)'
    BY <1>0, <1>3, ReceiveFacts DEF Leaving
  <2>. QED
    BY <2>1, <2>2, <1>1, <1>2, <1>5 DEF TInv, Listed, Late,
       Sound, Equipped, Marked, NotAsked, Pending, Made, Creating, Steps, Live
<1>. QED BY <1>6, <1>7, <1>8, <1>9

\* So does the window manager when it moves a window.
LEMMA ClientLInv ==
  ASSUME IInv, LInv, NEW v \in Windows, ClientConfigure(v)
  PROVE  LInv'
<1>. USE DEF LInv
<1>1. /\ UNCHANGED <<serverVars, queue, threadVars>>
      /\ out' = Append(out, Req("resize", v, NoPixmap))
  BY DEF ClientConfigure
<1>2. \A op \in Ops \ {"resize"}, w \in Windows \cup {Root} : Asked(op, w)' <=> Asked(op, w)
  <2>1. Req("resize", v, NoPixmap) \in Request
    BY RequestTyped DEF Ops
  <2>2. \A op \in Ops \ {"resize"}, w \in Windows \cup {Root} :
          Req("resize", v, NoPixmap) # Req(op, w, NoPixmap)
    BY DEF Req
  <2>. QED BY <1>1, <2>1, <2>2, AskedAppend DEF IInv, TypeOK, ServerTypeOK
<1>3. RootInv'
  BY <1>1, <1>2 DEF RootInv, serverVars, Ops
<1>4. AdoptInv'
  BY <1>1 DEF AdoptInv, threadVars
<1>5. \A w \in Windows : QInv(w)'
  BY <1>1, SilentQInv DEF serverVars
<1>6. ASSUME NEW w \in Windows PROVE TInv(w)'
  <2>1. TInv(w)
    OBVIOUS
  <2>2. (HasD(w)' <=> HasD(w)) /\ (Leaves(w)' <=> Leaves(w)) /\ (Maps(w)' <=> Maps(w))
    BY <1>1, SameQueue
  <2>3. /\ Asked("map", w)' <=> Asked("map", w)
        /\ Asked("dmgdestroy", w)' <=> Asked("dmgdestroy", w)
    BY <1>2 DEF Ops
  <2>. QED
    BY <2>1, <2>2, <2>3, <1>1 DEF TInv, Listed, Late, serverVars, threadVars,
       Sound, Equipped, Marked, NotAsked, Pending, Made, Creating, Steps, Live
<1>. QED BY <1>3, <1>4, <1>5, <1>6

\* Every step preserves the invariant.
LEMMA NextLInv == IInv /\ LInv /\ [Next]_vars => LInv'
<1>. SUFFICES ASSUME IInv, LInv, [Next]_vars PROVE LInv'
  OBVIOUS
<1>1. CASE EventThread
  BY <1>1, AdoptLInv, CreateLInv, PropertiesLInv, FinishLInv, DestroyReturnLInv,
     MapRequestLInv, MapNotifyLInv, RemoveLInv, NoteLInv
     DEF EventThread, NoteHandlers, HandleUnmapNotify, HandleDestroyNotify, Leaving
<1>2. CASE UNCHANGED vars
  BY <1>2 DEF LInv, RootInv, AdoptInv, QInv, Redone, Followed, Undone, Void, TInv, Listed, Late,
       Sound, Equipped, Marked, NotAsked, Pending, Made, Creating, Live, HasD, Leaves, Maps, Asked,
       vars, serverVars, threadVars
<1>. QED BY <1>1, <1>2, OutsideLInv, ClientLInv DEF Next

\* It holds when the thread starts.
LEMMA InitLInv == Init => LInv
<1>. SUFFICES ASSUME Init PROVE LInv
  OBVIOUS
<1>1. queue = <<>> /\ out = <<>> /\ pc = "start" /\ managed = {Root} /\ dmgObj = {Root}
      /\ todo = {} /\ via = "none"
  BY DEF Init, ServerInit
<1>2. \A op, w : ~Asked(op, w)
  BY <1>1, NothingAsked
<1>3. \A w : Redone(w) /\ Followed(w) /\ Undone(w) /\ Void(w)
  BY <1>1 DEF Redone, Followed, Undone, Void, After
<1>. QED
  BY <1>1, <1>2, <1>3, WindowAssumption DEF LInv, RootInv, AdoptInv, QInv, TInv, Listed, Late,
     Sound, Marked, NotAsked, Pending, Made, Creating, Steps

\* For any number of windows, and however the steps of the thread, the server and
\* the applications interleave: wherever the list and the server differ, the event
\* or the request that will settle it is under way, in an order that settles it.
THEOREM LInvHolds == Spec => []LInv
  BY InitLInv, NextLInv, IInvHolds, PTL DEF Spec

\* With nothing under way, nothing differs.
LEMMA LInvList == IInv /\ LInv => ListMatchesServer
<1>. SUFFICES ASSUME IInv, LInv, Quiescent
              PROVE  /\ managed \ {Root} = Viewable
                     /\ dmgObj = managed
                     /\ \A w \in Viewable, t \in {"PropertyNotify", "ShapeNotify"} :
                          <<t, w>> \in listening
  BY DEF ListMatchesServer
<1>1. /\ queue = <<>> /\ out = <<>> /\ pc = "wait" /\ todo = {}
      /\ Root \in managed /\ Root \in dmgObj
      /\ managed \subseteq Windows \cup {Root} /\ dmgObj \subseteq Windows \cup {Root}
  BY DEF Quiescent, LInv, AdoptInv, RootInv, IInv, TypeOK, ServerTypeOK, Control
<1>2. \A w : ~HasD(w) /\ ~Leaves(w) /\ ~Maps(w) /\ \A op : ~Asked(op, w)
  BY <1>1, HasNone, InNone DEF HasD, Leaves, Maps, Asked
<1>3. ASSUME NEW w \in Windows
      PROVE  /\ w \in managed <=> w \in Viewable
             /\ w \in dmgObj <=> w \in managed
             /\ w \in managed => /\ <<"PropertyNotify", w>> \in listening
                                 /\ <<"ShapeNotify", w>> \in listening
  <2>1. TInv(w)
    BY DEF LInv
  <2>2. w \in managed => Equipped(w) /\ st[w] = "mapped"
    BY <2>1, <1>2 DEF TInv, Sound, Late, Made
  <2>3. w \in Viewable => w \in managed
    BY <2>1, <1>1, <1>2 DEF TInv, Listed, Viewable, Creating, Steps
  <2>4. w \in dmgObj => w \in managed
    BY <2>1, <1>1, <1>2 DEF TInv, Marked
  <2>. QED BY <2>2, <2>3, <2>4 DEF Equipped, Viewable
<1>4. managed \ {Root} = Viewable
  BY <1>1, <1>3, WindowAssumption DEF Viewable
<1>5. \A w : w \in dmgObj <=> w \in managed
  BY <1>1, <1>3
<1>6. \A w \in Viewable, t \in {"PropertyNotify", "ShapeNotify"} : <<t, w>> \in listening
  BY <1>3 DEF Viewable
<1>. QED BY <1>4, <1>5, <1>6

\* Once the thread has read every event and the server has executed every request,
\* the list (add_window, _xcwm_window_remove) holds the viewable windows, each
\* with its damage object and its events, and there is no other damage object.
THEOREM ListMatches == Spec => []ListMatchesServer
  BY LInvHolds, IInvHolds, LInvList, PTL

----------------------------------------------------------------------------
(* The pixmaps are current *)

\* The pixmap of w is what w is drawn into; it is asked for; a mapped window has
\* one of the two, or an event that will have it replaced.
Fresh(w) == pixmap[w] # NoPixmap /\ named[pixmap[w]] = [w |-> w, fresh |-> TRUE]
Naming(w) == In(out, Req("name", w, pixmap[w]))
Current(w) == w \in managed /\ st[w] = "mapped" => Changes(w) \/ Naming(w) \/ Fresh(w)
Owed(w) == Creating(w) /\ via = "maprequest" /\ st[w] = "mapped" => Changes(w)
\* No two windows have one pixmap, none of theirs is about to be freed, and
\* each is named for its own window.
Distinct == \A v, w \in Windows : pixmap[v] = pixmap[w] /\ pixmap[v] # NoPixmap => v = w
NotFreed == \A w \in Windows :
              pixmap[w] # NoPixmap => ~In(out, Req("freepix", NoWindow, pixmap[w]))
NamedFor == \A v, w \in Windows :
              pixmap[w] # NoPixmap /\ In(out, Req("name", v, pixmap[w])) => v = w

Held == Distinct /\ NotFreed /\ NamedFor
PInv == Held /\ \A w \in Windows : Current(w) /\ Owed(w)

\* The parts of the type invariant the lemmas below use.
LEMMA TypedState ==
  ASSUME IInv
  PROVE  /\ ServerTypeOK /\ PixmapTyped
         /\ queue \in Seq(Event) /\ out \in Seq(Request)
  BY DEF IInv, TypeOK, ServerTypeOK, PixmapTyped

\* A new pixmap is one nobody has used; the old one is freed.
LEMMA UpdateFacts ==
  ASSUME PixmapTyped, out \in Seq(Request), NEW v, PixmapUpdate(v)
  PROVE  /\ v \in Windows
         /\ \E p \in Pixmaps :
              /\ pixmap' = [pixmap EXCEPT ![v] = p]
              /\ out' = out \o Append(ReleaseRequests(v), Req("name", v, p))
              /\ Req("name", v, p) \in Request
              /\ named[p] = Unbound
              /\ \A w \in Windows : pixmap[w] # p
              /\ \A w : ~In(out, Req("name", w, p)) /\ ~In(out, Req("freepix", w, p))
              /\ \A x : In(out', x) <=>
                   \/ In(out, x) \/ x = Req("name", v, p)
                   \/ pixmap[v] # NoPixmap /\ x = Req("freepix", NoWindow, pixmap[v])
<1>. DEFINE p == CHOOSE q \in UnusedPixmaps : TRUE
<1>1. /\ v \in Windows /\ p \in UnusedPixmaps
      /\ pixmap' = [pixmap EXCEPT ![v] = p]
      /\ out' = out \o Append(ReleaseRequests(v), Req("name", v, p))
  BY DEF PixmapUpdate
<1>. HIDE DEF p
<1>2. /\ p \in Pixmaps /\ named[p] = Unbound
      /\ \A w \in Windows : pixmap[w] # p
      /\ \A i \in DOMAIN out : out[i].p # p
  BY <1>1 DEF UnusedPixmaps
<1>3. \A w : ~In(out, Req("name", w, p)) /\ ~In(out, Req("freepix", w, p))
  <2>1. \A i \in 1 .. Len(out) : out[i].p # p
    BY <1>2, LenProperties
  <2>. QED BY <2>1, ReqFields DEF In
<1>4. Req("name", v, p) \in Request
  BY <1>1, <1>2, RequestTyped
<1>5. \A x : In(out', x) <=>
               \/ In(out, x) \/ x = Req("name", v, p)
               \/ pixmap[v] # NoPixmap /\ x = Req("freepix", NoWindow, pixmap[v])
  BY <1>1, <1>4, InUpdate
<1>. QED BY <1>1, <1>2, <1>3, <1>4, <1>5

\* Requests about different pixmaps differ.
LEMMA ReqEqual ==
  /\ \A v, w, p, q : Req("name", v, p) = Req("name", w, q) <=> v = w /\ p = q
  /\ \A v, w, p, q : Req("freepix", v, p) = Req("freepix", w, q) <=> v = w /\ p = q
  /\ \A v, w, p, q : Req("name", v, p) # Req("freepix", w, q)
  BY DEF Req

\* A pixmap update keeps each pixmap of one window, and makes this one current.
LEMMA UpdateHeld ==
  ASSUME PixmapTyped, out \in Seq(Request), Held, NEW v, PixmapUpdate(v)
  PROVE  /\ Held' /\ Naming(v)'
         /\ \A w \in Windows \ {v} : pixmap'[w] = pixmap[w] /\ (Naming(w) => Naming(w)')
<1>1. v \in Windows
  BY UpdateFacts
<1>2. PICK p \in Pixmaps :
        /\ pixmap' = [pixmap EXCEPT ![v] = p]
        /\ \A w \in Windows : pixmap[w] # p
        /\ \A w : ~In(out, Req("name", w, p)) /\ ~In(out, Req("freepix", w, p))
        /\ \A x : In(out', x) <=>
             \/ In(out, x) \/ x = Req("name", v, p)
             \/ pixmap[v] # NoPixmap /\ x = Req("freepix", NoWindow, pixmap[v])
  BY UpdateFacts
<1>3. pixmap'[v] = p /\ \A w \in Windows \ {v} : pixmap'[w] = pixmap[w]
  BY <1>1, <1>2 DEF PixmapTyped
<1>4. Distinct'
  BY <1>2, <1>3 DEF Held, Distinct
<1>5. NotFreed'
  <2>. SUFFICES ASSUME NEW w \in Windows, pixmap'[w] # NoPixmap,
                       In(out', Req("freepix", NoWindow, pixmap'[w]))
                PROVE  FALSE
    BY DEF NotFreed
  <2>1. \/ In(out, Req("freepix", NoWindow, pixmap'[w]))
        \/ pixmap[v] # NoPixmap /\ pixmap'[w] = pixmap[v]
    BY <1>2, ReqEqual
  <2>2. CASE w = v
    BY <1>1, <1>2, <1>3, <2>1, <2>2
  <2>3. CASE w # v
    BY <1>1, <1>3, <2>1, <2>3 DEF Held, Distinct, NotFreed
  <2>. QED BY <2>2, <2>3
<1>6. NamedFor'
  <2>. SUFFICES ASSUME NEW u \in Windows, NEW w \in Windows, pixmap'[w] # NoPixmap,
                       In(out', Req("name", u, pixmap'[w]))
                PROVE  u = w
    BY DEF NamedFor
  <2>1. In(out, Req("name", u, pixmap'[w])) \/ (u = v /\ pixmap'[w] = p)
    BY <1>2, ReqEqual
  <2>2. CASE w = v
    BY <1>1, <1>2, <1>3, <2>1, <2>2
  <2>3. CASE w # v
    BY <1>1, <1>2, <1>3, <2>1, <2>3 DEF Held, NamedFor
  <2>. QED BY <2>2, <2>3
<1>7. In(out', Req("name", v, p))
  BY <1>2
<1>8. \A w \in Windows \ {v} : Naming(w) => Naming(w)'
  BY <1>2, <1>3 DEF Naming
<1>. QED BY <1>3, <1>4, <1>5, <1>6, <1>7, <1>8 DEF Held, Naming

\* Requests that have to do with no pixmap.
LEMMA PlainHeld ==
  ASSUME out \in Seq(Request), NEW r \in Request, r.op \notin {"name", "freepix"},
         out' = Append(out, r), UNCHANGED pixmap
  PROVE  /\ Held => Held'
         /\ \A w : Naming(w)' <=> Naming(w)
<1>1. /\ \A w, p : r # Req("name", w, p)
      /\ \A w, p : r # Req("freepix", w, p)
  BY ReqFields
<1>2. /\ \A w, p : In(out', Req("name", w, p)) <=> In(out, Req("name", w, p))
      /\ \A w, p : In(out', Req("freepix", w, p)) <=> In(out, Req("freepix", w, p))
  BY <1>1, InAppend
<1>. QED BY <1>2 DEF Held, Distinct, NotFreed, NamedFor, Naming

\* Same pixmaps, same requests.
LEMMA SameHeld ==
  ASSUME UNCHANGED <<out, pixmap>>
  PROVE  /\ Held => Held'
         /\ \A w : Naming(w)' <=> Naming(w)
  BY DEF Held, Distinct, NotFreed, NamedFor, Naming

\* Requests that are executed are gone.
LEMMA ExecHeld ==
  ASSUME out \in Seq(Request), out # <<>>, out' = Tail(out), UNCHANGED pixmap, Held
  PROVE  Held'
<1>1. \A x : In(out', x) => In(out, x)
  BY InTail
<1>. QED BY <1>1 DEF Held, Distinct, NotFreed, NamedFor

\* The applications outdate a pixmap only with an event that tells of it.
LEMMA OutdatedFresh ==
  ASSUME PixmapTyped, ServerTypeOK, NEW v, NEW w \in Windows, v # w, UNCHANGED pixmap,
         named' = Outdated(v), Fresh(w)
  PROVE  Fresh(w)'
<1>1. pixmap[w] \in Pixmaps /\ named[pixmap[w]].w = w
  BY DEF PixmapTyped, Fresh
<1>2. named'[pixmap[w]] = named[pixmap[w]]
  BY <1>1 DEF Outdated
<1>. QED BY <1>2 DEF Fresh

\* Same pixmaps, same contents.
LEMMA SameFresh ==
  ASSUME UNCHANGED <<pixmap, named>>
  PROVE  \A w : Fresh(w)' <=> Fresh(w)
  BY DEF Fresh

\* A resize by an application makes a pixmap stale, and says so.
LEMMA ApplicationsCurrent ==
  ASSUME PixmapTyped, ServerTypeOK, Applications, UNCHANGED pixmap,
         NEW w \in Windows, Fresh(w), st'[w] = "mapped"
  PROVE  Fresh(w)' \/ Changes(w)'
<1>1. CASE named' = named
  BY <1>1, SameFresh
<1>2. ASSUME NEW v \in Windows, UnmapWindow(v) \/ WithdrawWindow(v) \/ DestroyWindow(v)
      PROVE  Fresh(w)' \/ Changes(w)'
  <2>1. named' = Outdated(v) /\ st'[v] # "mapped"
    BY <1>2 DEF UnmapWindow, WithdrawWindow, DestroyWindow, ServerTypeOK
  <2>. QED BY <2>1, OutdatedFresh
<1>3. ASSUME NEW v \in Windows, ConfigureWindow(v), named' # named
      PROVE  Fresh(w)' \/ Changes(w)'
  <2>1. named' = Outdated(v) /\ Emit(<<Ev("ConfigureNotify", v, FALSE)>>)
    BY <1>3 DEF ConfigureWindow
  <2>2. CASE v = w
    <3>. DEFINE e == Ev("ConfigureNotify", w, FALSE)
    <3>1. e \in Event /\ e.w = w /\ e.type = "ConfigureNotify"
      BY NewEvent DEF EventTypes
    <3>. HIDE DEF e
    <3>2. queue \in Seq(Event) /\ queue' = Append(queue, e)
      BY <2>1, <2>2, <3>1, EmitEffect DEF ServerTypeOK, e
    <3>3. Changes(w)'
      BY <3>1, <3>2, HasAppend DEF Changes, Changing
    <3>. QED BY <3>3
  <2>. QED BY <2>1, <2>2, OutdatedFresh
<1>. QED
  BY <1>1, <1>2, <1>3 DEF Applications, CreateWindow, MapWindow, ChangeShapeOrProperty,
     DrawInWindow, ChangeCursor, serverVars

\* So does one by the server; naming makes the pixmap current.
LEMMA ExecCurrent ==
  ASSUME PixmapTyped, ServerTypeOK, Exec, UNCHANGED pixmap, Held,
         NEW w \in Windows, Fresh(w) \/ Naming(w), st'[w] = "mapped"
  PROVE  Changes(w)' \/ Naming(w)' \/ Fresh(w)'
<1>. DEFINE r == Head(out)
            p == pixmap[w]
<1>0. out \in Seq(Request) /\ out # <<>> /\ out' = Tail(out)
  BY DEF Exec, ServerTypeOK
<1>1. r.op \in Ops /\ In(out, r)
  <2>1. r \in Request
    BY <1>0, HeadRequest
  <2>. QED BY <1>0, <2>1, InTail DEF Request, Ops
<1>2. CASE r = Req("name", w, p)
  <2>1. r.op = "name" /\ r.w = w /\ r.p = p /\ p \in Pixmaps
    BY <1>0, <1>2, HeadRequest, ReqFields
  <2>2. ExecName(w, p)
    BY <2>1 DEF Exec
  <2>3. st' = st
    BY <2>2 DEF ExecName
  <2>4. p # NoPixmap /\ named'[p] = [w |-> w, fresh |-> TRUE]
    BY <2>1, <2>2, <2>3, WindowAssumption DEF ExecName, ServerTypeOK
  <2>. QED BY <2>4 DEF Fresh
<1>3. CASE r # Req("name", w, p) /\ Naming(w)
  <2>1. In(out', Req("name", w, p))
    BY <1>0, <1>3, InTail DEF Naming
  <2>. QED BY <2>1 DEF Naming
<1>4. CASE r # Req("name", w, p) /\ Fresh(w)
  <2>0. p \in Pixmaps /\ p # NoPixmap
    BY <1>4, WindowAssumption DEF Fresh, PixmapTyped
  <2>1. CASE r.op \in {"map", "dmgdestroy", "dmgadd"}
    <3>1. named' = named
      BY <2>1 DEF Exec, ExecMap, ExecDamageDestroy, ExecDamageAdd, serverVars
    <3>. QED BY <3>1, <1>4, SameFresh
  <2>2. CASE r.op = "resize"
    <3>1. ExecResize(r.w)
      BY <2>2 DEF Exec
    <3>2. CASE ~(r.w \in Windows /\ Live(r.w))
      <4>1. named' = named
        BY <3>1, <3>2 DEF ExecResize, serverVars
      <4>. QED BY <4>1, <1>4, SameFresh
    <3>3. CASE r.w \in Windows /\ Live(r.w) /\ r.w # w
      BY <3>1, <3>3, <1>4, OutdatedFresh DEF ExecResize
    <3>4. CASE r.w = w /\ Live(w)
      <4>. DEFINE e == Ev("ConfigureNotify", w, FALSE)
      <4>1. e \in Event /\ e.w = w /\ e.type = "ConfigureNotify"
        BY NewEvent DEF EventTypes
      <4>. HIDE DEF e
      <4>2. queue \in Seq(Event) /\ queue' = Append(queue, e)
        BY <3>1, <3>4, <4>1, EmitEffect DEF ExecResize, ServerTypeOK, e
      <4>3. Changes(w)'
        BY <4>1, <4>2, HasAppend DEF Changes, Changing
      <4>. QED BY <4>3
    <3>. QED BY <3>2, <3>3, <3>4
  <2>3. CASE r.op = "name"
    <3>1. r.w \in Windows /\ r = Req("name", r.w, r.p)
      BY <2>3, <1>0, HeadRequest
    <3>2. r.p # p
      BY <3>1, <1>1, <1>4, <2>0 DEF Held, NamedFor
    <3>3. ExecName(r.w, r.p)
      BY <2>3 DEF Exec
    <3>4. named'[p] = named[p]
      <4>1. named' = named \/ named' = [named EXCEPT ![r.p] = [w |-> r.w, fresh |-> TRUE]]
        BY <3>3 DEF ExecName
      <4>. HIDE DEF r, p
      <4>. QED BY <4>1, <3>2, <2>0 DEF ServerTypeOK
    <3>. QED BY <3>4, <1>4 DEF Fresh
  <2>4. CASE r.op = "freepix"
    <3>1. r = Req("freepix", NoWindow, r.p)
      BY <2>4, <1>0, HeadRequest
    <3>2. r.p # p
      BY <3>1, <1>1, <2>0 DEF Held, NotFreed
    <3>3. ExecFreePixmap(r.p)
      BY <2>4 DEF Exec
    <3>4. named'[p] = named[p]
      BY <3>2, <3>3 DEF ExecFreePixmap
    <3>. QED BY <3>4, <1>4 DEF Fresh
  <2>. QED BY <1>1, <2>1, <2>2, <2>3, <2>4 DEF Ops
<1>. QED BY <1>2, <1>3, <1>4

\* Applications and server preserve the invariant.
LEMMA OutsidePInv ==
  ASSUME IInv, PInv, Outside
  PROVE  PInv'
<1>0. /\ ServerTypeOK /\ PixmapTyped /\ out \in Seq(Request)
      /\ UNCHANGED <<managed, pixmap, pc, cur, via>>
  BY TypedState DEF Outside, threadVars
<1>1. Held'
  <2>1. CASE Exec
    BY <1>0, <2>1, ExecHeld DEF PInv, Exec
  <2>2. CASE Applications
    <3>1. out' = out
      BY <2>2 DEF Applications, CreateWindow, MapWindow, UnmapWindow, WithdrawWindow,
         DestroyWindow, ConfigureWindow, ChangeShapeOrProperty, DrawInWindow, ChangeCursor
    <3>. QED BY <1>0, <3>1, SameHeld DEF PInv
  <2>. QED BY <2>1, <2>2 DEF Outside
<1>2. ASSUME NEW w \in Windows PROVE Current(w)' /\ Owed(w)'
  <2>1. Effect(w)
    BY <1>0, ApplicationsEffect, ExecEffect DEF Outside
  <2>2. st'[w] = "mapped" => st[w] = "mapped" \/ Changes(w)'
    BY <2>1, EffectCases
  <2>3. Changes(w) => Changes(w)'
    BY <2>1 DEF Effect, Grown
  <2>4. Owed(w)'
    BY <1>0, <2>2, <2>3 DEF PInv, Owed, Creating
  <2>5. ASSUME st[w] = "mapped", st'[w] = "mapped", Naming(w) \/ Fresh(w)
        PROVE  Changes(w)' \/ Naming(w)' \/ Fresh(w)'
    <3>1. CASE Exec
      BY <1>0, <2>5, <3>1, ExecCurrent DEF PInv
    <3>2. CASE Applications
      <4>1. Fresh(w) => Fresh(w)' \/ Changes(w)'
        BY <1>0, <2>5, <3>2, ApplicationsCurrent
      <4>2. out' = out
        BY <3>2 DEF Applications, CreateWindow, MapWindow, UnmapWindow, WithdrawWindow,
           DestroyWindow, ConfigureWindow, ChangeShapeOrProperty, DrawInWindow, ChangeCursor
      <4>3. Naming(w) => Naming(w)'
        BY <1>0, <4>2, SameHeld
      <4>. QED BY <2>5, <4>1, <4>3
    <3>. QED BY <3>1, <3>2 DEF Outside
  <2>6. Current(w)'
    BY <1>0, <2>2, <2>3, <2>5 DEF PInv, Current
  <2>. QED BY <2>4, <2>6
<1>. QED BY <1>1, <1>2 DEF PInv

\* A request to resize has to do with no pixmap.
LEMMA ClientPInv ==
  ASSUME IInv, PInv, NEW v \in Windows, ClientConfigure(v)
  PROVE  PInv'
<1>0. out \in Seq(Request) /\ UNCHANGED <<serverVars, queue, threadVars>>
      /\ out' = Append(out, Req("resize", v, NoPixmap))
  BY TypedState DEF ClientConfigure
<1>1. Req("resize", v, NoPixmap) \in Request
  BY RequestTyped DEF Ops
<1>2. Req("resize", v, NoPixmap).op \notin {"name", "freepix"}
  BY ReqFields
<1>3. Held' /\ \A w : Naming(w)' <=> Naming(w)
  BY <1>0, <1>1, <1>2, PlainHeld DEF PInv, threadVars
<1>4. \A w : (Changes(w)' <=> Changes(w)) /\ (Fresh(w)' <=> Fresh(w))
  BY <1>0, SameQueue, SameFresh DEF serverVars, threadVars
<1>. QED BY <1>0, <1>3, <1>4 DEF PInv, Current, Owed, Creating, serverVars, threadVars

\* Steps that ask the server and change nothing there.
LEMMA SilentPInv ==
  ASSUME IInv, PInv,
         \/ AdoptQuery \/ AdoptDone \/ (\E v \in Windows : AdoptNext(v))
         \/ CreateAttributes \/ CreateGeometry \/ CreateShape \/ Reshape \/ CallbackReturn
  PROVE  PInv'
<1>1. UNCHANGED <<st, named, queue, out, managed, pixmap>>
  BY DEF AdoptQuery, AdoptNext, AdoptDone, CreateAttributes, CreateGeometry, CreateShape,
     Reshape, CallbackReturn, serverVars
<1>2. Held' /\ \A w : /\ Naming(w)' <=> Naming(w)
                      /\ Changes(w)' <=> Changes(w)
                      /\ Fresh(w)' <=> Fresh(w)
  BY <1>1, SameHeld, SameQueue, SameFresh DEF PInv
<1>3. \A w : Creating(w)' /\ via' = "maprequest" => Creating(w) /\ via = "maprequest"
  BY DEF Creating, Steps, AdoptQuery, AdoptNext, AdoptDone, CreateAttributes, CreateGeometry,
     CreateShape, Reshape, CallbackReturn, StartCreate, Goto, Stay, Resume
<1>. QED BY <1>1, <1>2, <1>3 DEF PInv, Current, Owed

\* Damage of a new window has to do with no pixmap.
LEMMA PropertiesPInv ==
  ASSUME IInv, PInv, CreateProperties
  PROVE  PInv'
<1>0. UNCHANGED <<st, named, out, managed, pixmap>>
  BY DEF CreateProperties
<1>1. \A w : Changes(w) => Changes(w)'
  <2>1. CASE st[cur] = "mapped"
    <3>1. PICK f \in BOOLEAN : Emit(<<Ev("DamageNotify", cur, f)>>)
      BY <2>1 DEF CreateProperties
    <3>2. Ev("DamageNotify", cur, f) \in Event
      <4>1. cur \in Windows
        BY DEF CreateProperties, IInv, Control
      <4>. QED BY <4>1, EventTyped
    <3>3. queue' = Append(queue, Ev("DamageNotify", cur, f)) /\ queue \in Seq(Event)
      BY <3>1, <3>2, TypedState, EmitEffect
    <3>. QED BY <3>2, <3>3, GrownAppend DEF Grown
  <2>2. CASE st[cur] # "mapped"
    BY <2>2, SameQueue DEF CreateProperties
  <2>. QED BY <2>1, <2>2
<1>2. Held' /\ \A w : /\ Naming(w)' <=> Naming(w)
                      /\ Fresh(w)' <=> Fresh(w)
  BY <1>0, SameHeld, SameFresh DEF PInv
<1>3. \A w : Creating(w)' => Creating(w) /\ via' = via
  BY DEF Creating, Steps, CreateProperties, Goto
<1>. QED BY <1>0, <1>1, <1>2, <1>3 DEF PInv, Current, Owed

\* A window created after a MapRequest enters the list without a pixmap: the
\* MapNotify that the MapRequest led to is still to be read.
LEMMA FinishPInv ==
  ASSUME IInv, PInv, CreateFinish
  PROVE  PInv'
<1>0. /\ UNCHANGED <<st, named, queue>> /\ managed' = managed \cup {cur} /\ cur \in Windows
      /\ pc = "select" /\ pc' = "cbCreate"
      /\ PixmapTyped /\ out \in Seq(Request)
  BY TypedState DEF CreateFinish, IInv, Control, Goto
<1>1. \A w : Changes(w)' <=> Changes(w)
  BY <1>0, SameQueue
<1>2. \A w : ~Creating(w)'
  BY <1>0 DEF Creating, Steps
<1>3. CASE via = "maprequest"
  <2>1. UNCHANGED <<out, pixmap>>
    BY <1>3 DEF CreateFinish
  <2>2. Held' /\ \A w : /\ Naming(w)' <=> Naming(w)
                        /\ Fresh(w)' <=> Fresh(w)
    BY <1>0, <2>1, SameHeld, SameFresh DEF PInv
  <2>3. st[cur] = "mapped" => Changes(cur)
    BY <1>0, <1>3 DEF PInv, Owed, Creating, Steps
  <2>4. ASSUME NEW w \in Windows PROVE Current(w)'
    BY <1>0, <1>1, <2>2, <2>3 DEF PInv, Current
  <2>. QED BY <2>2, <2>4, <1>2 DEF PInv, Owed
<1>4. CASE PixmapUpdate(cur)
  <2>1. /\ Held' /\ \A w : w = cur => Naming(w)'
        /\ \A w \in Windows \ {cur} : pixmap'[w] = pixmap[w] /\ (Naming(w) => Naming(w)')
    BY <1>0, <1>4, UpdateHeld DEF PInv
  <2>2. \A w \in Windows \ {cur} : Fresh(w)' <=> Fresh(w)
    BY <1>0, <2>1 DEF Fresh
  <2>3. ASSUME NEW w \in Windows PROVE Current(w)'
    BY <1>0, <1>1, <2>1, <2>2 DEF PInv, Current
  <2>. QED BY <2>1, <2>3, <1>2 DEF PInv, Owed
<1>. QED BY <1>3, <1>4 DEF CreateFinish

\* Releasing a window frees the pixmap of no other.
LEMMA DestroyReturnPInv ==
  ASSUME IInv, PInv, DestroyReturn
  PROVE  PInv'
<1>0. /\ UNCHANGED <<st, named, queue, managed>> /\ cur \in Windows \ managed
      /\ PixmapTyped /\ out \in Seq(Request)
      /\ pixmap' = [pixmap EXCEPT ![cur] = NoPixmap]
  BY TypedState DEF DestroyReturn, IInv, Control, serverVars
<1>1. /\ \A w : In(out, w) => In(out', w)
      /\ \A x : In(out', x) => In(out, x) \/ x = Req("freepix", NoWindow, pixmap[cur])
  <2>1. CASE out' = out
    BY <2>1
  <2>2. CASE out' = out \o ReleaseRequests(cur)
    BY <1>0, <2>2, InRelease
  <2>. QED BY <2>1, <2>2 DEF DestroyReturn
<1>2. pixmap'[cur] = NoPixmap /\ \A w \in Windows \ {cur} : pixmap'[w] = pixmap[w]
  BY <1>0 DEF PixmapTyped
<1>3. Distinct'
  BY <1>2 DEF PInv, Held, Distinct
<1>4. NotFreed'
  <2>. SUFFICES ASSUME NEW w \in Windows, pixmap'[w] # NoPixmap,
                       In(out', Req("freepix", NoWindow, pixmap'[w]))
                PROVE  FALSE
    BY DEF NotFreed
  <2>1. w # cur /\ pixmap'[w] = pixmap[w]
    BY <1>2
  <2>2. pixmap[w] # pixmap[cur]
    BY <1>0, <2>1 DEF PInv, Held, Distinct
  <2>3. Req("freepix", NoWindow, pixmap[w]) # Req("freepix", NoWindow, pixmap[cur])
    BY <2>2, ReqEqual
  <2>. QED BY <1>1, <2>1, <2>3 DEF PInv, Held, NotFreed
<1>5. NamedFor'
  <2>. SUFFICES ASSUME NEW u \in Windows, NEW w \in Windows, pixmap'[w] # NoPixmap,
                       In(out', Req("name", u, pixmap'[w]))
                PROVE  u = w
    BY DEF NamedFor
  <2>1. w # cur /\ pixmap'[w] = pixmap[w]
    BY <1>2
  <2>2. In(out, Req("name", u, pixmap[w]))
    BY <1>1, <2>1, ReqEqual
  <2>. QED BY <2>1, <2>2 DEF PInv, Held, NamedFor
<1>6. \A w \in Windows \ {cur} : /\ Naming(w) => Naming(w)'
                                 /\ Fresh(w) => Fresh(w)'
  BY <1>0, <1>1, <1>2 DEF Naming, Fresh
<1>7. \A w : Changes(w)' <=> Changes(w)
  BY <1>0, SameQueue
<1>8. \A w : ~Creating(w)'
  BY DEF DestroyReturn, Creating, Steps, Resume, Goto
<1>. QED BY <1>0, <1>3, <1>4, <1>5, <1>6, <1>7, <1>8 DEF PInv, Held, Current, Owed

\* A handler that reads an event about h and names a new pixmap for it, or
\* asks for nothing that has to do with a pixmap.
LEMMA ReceivePInv ==
  ASSUME IInv, PInv, NEW h, NEW t, Receive(t), h = Head(queue).w,
         UNCHANGED <<st, named>>, managed' \subseteq managed,
         \/ PixmapUpdate(h)
         \/ h \notin managed' \/ t \notin Changing,
         \/ PixmapUpdate(h)
         \/ UNCHANGED <<out, pixmap>>
         \/ UNCHANGED pixmap /\ \E r \in Request : /\ r.op \notin {"name", "freepix"}
                                                   /\ out' = Append(out, r),
         \A w \in Windows : Owed(w)'
  PROVE  PInv'
<1>0. PixmapTyped /\ out \in Seq(Request) /\ queue \in Seq(Event)
  BY TypedState
<1>1. \A w : Changes(w) => Changes(w)' \/ (w = h /\ t \in Changing)
  BY <1>0, ReceiveFacts
<1>2. CASE PixmapUpdate(h)
  <2>1. /\ Held' /\ \A w : w = h => Naming(w)'
        /\ \A w \in Windows \ {h} : pixmap'[w] = pixmap[w] /\ (Naming(w) => Naming(w)')
    BY <1>0, <1>2, UpdateHeld DEF PInv
  <2>2. \A w \in Windows \ {h} : Fresh(w)' <=> Fresh(w)
    BY <2>1 DEF Fresh
  <2>3. ASSUME NEW w \in Windows PROVE Current(w)'
    BY <1>1, <2>1, <2>2 DEF PInv, Current
  <2>. QED BY <2>1, <2>3 DEF PInv
<1>3. CASE ~PixmapUpdate(h)
  <2>1. Held' /\ \A w : /\ Naming(w)' <=> Naming(w)
                        /\ Fresh(w)' <=> Fresh(w)
    <3>1. UNCHANGED pixmap
      BY <1>3
    <3>2. Held' /\ \A w : Naming(w)' <=> Naming(w)
      BY <1>0, <1>3, SameHeld, PlainHeld DEF PInv
    <3>. QED BY <3>1, <3>2, SameFresh
  <2>2. ASSUME NEW w \in Windows PROVE Current(w)'
    BY <1>1, <1>3, <2>1 DEF PInv, Current
  <2>. QED BY <2>1, <2>2 DEF PInv
<1>. QED BY <1>2, <1>3

\* A window being created because of a MapRequest has its MapNotify to come.
LEMMA MapRequestPInv ==
  ASSUME IInv, LInv, PInv, HandleMapRequest
  PROVE  PInv'
<1>1. Receive("MapRequest") /\ Head(queue).w \in Windows /\ pc = "wait" /\ queue \in Seq(Event)
  BY HeadWindow, TypedState DEF HandleMapRequest, EventTypes
<1>2. /\ UNCHANGED <<st, named, managed, pixmap>>
      /\ out' = Append(out, Req("map", Head(queue).w, NoPixmap))
      /\ StartCreate(Head(queue).w, "maprequest")
  BY DEF HandleMapRequest, serverVars
<1>3. /\ Req("map", Head(queue).w, NoPixmap) \in Request
      /\ Req("map", Head(queue).w, NoPixmap).op = "map"
  <2>1. Req("map", Head(queue).w, NoPixmap) \in Request
    BY <1>1, RequestTyped DEF Ops
  <2>. QED BY <2>1, ReqFields
<1>4. ASSUME NEW w \in Windows PROVE Owed(w)'
  <2>1. Creating(w)' => w = Head(queue).w
    BY <1>1, <1>2 DEF Creating, Steps, StartCreate, Goto, Stay
  <2>2. w = Head(queue).w /\ Followed(w) => Changes(w)'
    BY <1>1, ReceiveFacts
  <2>. QED BY <1>2, <2>1, <2>2 DEF LInv, QInv, Owed
<1>5. \E r \in Request : r.op \notin {"name", "freepix"} /\ out' = Append(out, r)
  BY <1>2, <1>3
<1>6. "MapRequest" \notin Changing
  BY DEF Changing, Leaving
<1>. QED BY <1>1, <1>2, <1>4, <1>5, <1>6, ReceivePInv

\* A MapNotify of a listed window names a new pixmap.
LEMMA MapNotifyPInv ==
  ASSUME IInv, PInv, HandleMapNotify
  PROVE  PInv'
<1>1. Receive("MapNotify") /\ Head(queue).w \in Windows /\ pc = "wait"
  BY HeadWindow DEF HandleMapNotify, EventTypes
<1>2. /\ UNCHANGED <<st, named, managed>>
      /\ \/ PixmapUpdate(Head(queue).w)
         \/ Head(queue).w \notin managed /\ UNCHANGED <<out, pixmap>>
  BY DEF HandleMapNotify, serverVars, Lookup
<1>3. ASSUME NEW w \in Windows PROVE Owed(w)'
  BY <1>1 DEF Owed, HandleMapNotify, Creating, Steps, StartCreate, Goto, Stay
<1>. QED BY <1>1, <1>2, <1>3, ReceivePInv

\* A window that leaves the list needs no pixmap.
LEMMA RemovePInv ==
  ASSUME IInv, PInv, NEW t \in Leaving, NEW how \in {"unmap", "destroy"}, Remove(t, how)
  PROVE  PInv'
<1>1. Receive(t) /\ Head(queue).w \in Windows /\ pc = "wait"
  BY HeadWindow DEF Remove, EventTypes, Leaving
<1>2. /\ UNCHANGED <<st, named, pixmap>>
      /\ managed' \subseteq managed /\ Head(queue).w \notin managed'
  BY DEF Remove, serverVars, Lookup
<1>3. /\ Req("dmgdestroy", Head(queue).w, NoPixmap) \in Request
      /\ Req("dmgdestroy", Head(queue).w, NoPixmap).op = "dmgdestroy"
  <2>1. Req("dmgdestroy", Head(queue).w, NoPixmap) \in Request
    BY <1>1, RequestTyped DEF Ops
  <2>. QED BY <2>1, ReqFields
<1>4. \/ UNCHANGED <<out, pixmap>>
      \/ \E r \in Request : r.op \notin {"name", "freepix"} /\ out' = Append(out, r)
  BY <1>2, <1>3 DEF Remove
<1>5. ASSUME NEW w \in Windows PROVE Owed(w)'
  BY <1>1 DEF Owed, Remove, Creating, Steps, Goto, Stay
<1>. QED BY <1>1, <1>2, <1>4, <1>5, ReceivePInv

\* A ConfigureNotify names a new pixmap; the others leave them alone.
LEMMA NotePInv ==
  ASSUME IInv, PInv, NoteHandlers
  PROVE  PInv'
<1>1. PICK t \in EventTypes \ (Leaving \cup {"MapNotify", "MapRequest"}) : Receive(t)
  BY NoteSteps
<1>2. UNCHANGED <<st, named, managed>>
  BY NoteSteps
<1>3. ASSUME NEW w \in Windows PROVE Owed(w)'
  BY NoteSteps DEF Owed, Creating, Steps
<1>4. CASE HandleConfigureNotify
  <2>1. Receive("ConfigureNotify")
    BY <1>4 DEF HandleConfigureNotify
  <2>2. \/ PixmapUpdate(Head(queue).w)
        \/ Head(queue).w \notin managed' /\ UNCHANGED <<out, pixmap>>
    BY <1>2, <1>4 DEF HandleConfigureNotify, Lookup
  <2>. QED BY <1>2, <1>3, <2>1, <2>2, ReceivePInv
<1>5. CASE ~HandleConfigureNotify
  <2>1. \/ UNCHANGED <<out, pixmap>>
        \/ UNCHANGED pixmap /\ \E r \in Request : /\ r.op \notin {"name", "freepix"}
                                                  /\ out' = Append(out, r)
    <3>1. CASE HandleConfigureRequest
      <4>1. Head(queue).w \in Windows
        BY <3>1, HeadWindow DEF HandleConfigureRequest, EventTypes
      <4>2. Req("resize", Head(queue).w, NoPixmap) \in Request
        BY <4>1, RequestTyped DEF Ops
      <4>3. Req("resize", Head(queue).w, NoPixmap).op \notin {"name", "freepix"}
        BY ReqFields
      <4>. QED BY <3>1, <4>2, <4>3 DEF HandleConfigureRequest, threadVars
    <3>2. CASE HandleDamageNotify
      <4>1. Head(queue).w \in Windows \cup {Root}
        BY <3>2, TypedState, Received DEF HandleDamageNotify, EventTypes
      <4>2. Req("dmgadd", Head(queue).w, NoPixmap) \in Request
        BY <4>1, RequestTyped DEF Ops
      <4>3. Req("dmgadd", Head(queue).w, NoPixmap).op \notin {"name", "freepix"}
        BY ReqFields
      <4>. QED BY <3>2, <4>2, <4>3 DEF HandleDamageNotify
    <3>. QED BY <1>5, <3>1, <3>2 DEF NoteHandlers, HandleShapeNotify, HandlePropertyNotify,
       HandleCursorNotify
  <2>2. \E u \in EventTypes \ Changing : Receive(u)
    BY <1>5 DEF NoteHandlers, HandleConfigureRequest, HandleDamageNotify, HandleShapeNotify,
       HandlePropertyNotify, HandleCursorNotify, EventTypes, Changing, Leaving
  <2>3. PICK u \in EventTypes \ Changing : Receive(u)
    BY <2>2
  <2>. QED BY <1>2, <1>3, <2>1, <2>3, ReceivePInv
<1>. QED BY <1>4, <1>5

\* Every step preserves the invariant.
LEMMA NextPInv == IInv /\ LInv /\ PInv /\ [Next]_vars => PInv'
<1>. SUFFICES ASSUME IInv, LInv, PInv, [Next]_vars PROVE PInv'
  OBVIOUS
<1>1. CASE EventThread
  BY <1>1, SilentPInv, PropertiesPInv, FinishPInv, DestroyReturnPInv,
     MapRequestPInv, MapNotifyPInv, RemovePInv, NotePInv
     DEF EventThread, NoteHandlers, HandleUnmapNotify, HandleDestroyNotify, Leaving
<1>2. CASE UNCHANGED vars
  BY <1>2 DEF PInv, Held, Distinct, NotFreed, NamedFor, Current, Owed, Creating, Naming, Fresh,
     Changes, vars, serverVars, threadVars
<1>. QED BY <1>1, <1>2, OutsidePInv, ClientPInv DEF Next

\* No pixmaps when the thread starts.
LEMMA InitPInv == Init => PInv
<1>. SUFFICES ASSUME Init PROVE PInv
  OBVIOUS
<1>1. out = <<>> /\ pc = "start" /\ managed = {Root} /\ \A w \in Windows : pixmap[w] = NoPixmap
  BY DEF Init, ServerInit
<1>. QED BY <1>1, InNone, WindowAssumption DEF PInv, Held, Distinct, NotFreed, NamedFor, Current,
     Owed, Creating, Steps

\* For any number of windows and any interleaving: a mapped window of the list whose
\* pixmap is not the one it is drawn into has the event that will renew the pixmap
\* in the queue, or the request for it under way; and no two windows share one.
THEOREM PInvHolds == Spec => []PInv
  BY InitPInv, NextPInv, IInvHolds, LInvHolds, PTL DEF Spec

\* With nothing under way, every pixmap is the current one.
LEMMA PInvCurrent == IInv /\ LInv /\ PInv => PixmapsCurrent
<1>. SUFFICES ASSUME IInv, LInv, PInv, Quiescent, NEW w \in Viewable
              PROVE  /\ pixmap[w] # NoPixmap
                     /\ named[pixmap[w]] = [w |-> w, fresh |-> TRUE]
  BY DEF PixmapsCurrent
<1>1. queue = <<>> /\ out = <<>>
  BY DEF Quiescent
<1>2. ~Changes(w) /\ ~Naming(w)
  BY <1>1, HasNone, InNone DEF Changes, Naming
<1>3. w \in Windows /\ w \in managed /\ st[w] = "mapped"
  BY LInvList DEF ListMatchesServer, Viewable
<1>. QED BY <1>2, <1>3 DEF PInv, Current, Fresh

\* Once all is read and executed, the composite pixmap the client draws from
\* (_xcwm_window_composite_pixmap_update) is the one its window is drawn into.
THEOREM PixmapsAreCurrent == Spec => []PixmapsCurrent
  BY PInvHolds, LInvHolds, IInvHolds, PInvCurrent, PTL

----------------------------------------------------------------------------
(* No pixmap is left behind: how a window ends *)

Unmaps(w) == Has(queue, {"UnmapNotify"}, w)
\* Nothing is unmapped after it is destroyed.
Buried(q, w) ==
  \A i, j \in 1 .. Len(q) :
    i < j /\ q[i].w = w /\ q[i].type = "DestroyNotify" =>
      ~(q[j].w = w /\ q[j].type = "UnmapNotify")

\* An event at the end that is no unmap, or of a window not destroyed.
LEMMA BuriedAppend ==
  ASSUME NEW q \in Seq(Event), NEW e \in Event, NEW w, Buried(q, w),
         ~(e.w = w /\ e.type = "UnmapNotify") \/ ~Has(q, {"DestroyNotify"}, w)
  PROVE  Buried(Append(q, e), w)
<1>. DEFINE r == Append(q, e)
<1>1. /\ Len(q) \in Nat
      /\ Len(r) = Len(q) + 1
      /\ \A i \in 1 .. Len(q) : r[i] = q[i]
      /\ r[Len(q) + 1] = e
  BY AppendProperties, LenProperties
<1>. HIDE DEF r
<1>. SUFFICES ASSUME NEW i \in 1 .. Len(r), NEW j \in 1 .. Len(r), i < j,
                     r[i].w = w, r[i].type = "DestroyNotify",
                     r[j].w = w, r[j].type = "UnmapNotify"
              PROVE  FALSE
  BY DEF Buried, r
<1>2. i \in 1 .. Len(q) /\ r[i] = q[i]
  BY <1>1
<1>3. CASE j \in 1 .. Len(q)
  BY <1>1, <1>2, <1>3 DEF Buried
<1>4. CASE j = Len(q) + 1
  BY <1>1, <1>2, <1>4 DEF Has
<1>. QED BY <1>1, <1>3, <1>4

\* After the destroy is read there is no unmap left.
LEMMA BuriedTail ==
  ASSUME NEW q \in Seq(Event), q # <<>>, NEW w, Buried(q, w)
  PROVE  /\ Buried(Tail(q), w)
         /\ Head(q).w = w /\ Head(q).type = "DestroyNotify" => ~Has(Tail(q), {"UnmapNotify"}, w)
<1>. DEFINE r == Tail(q)
<1>1. /\ Len(q) \in Nat /\ Len(r) \in Nat
      /\ Len(q) = Len(r) + 1
      /\ \A i \in 1 .. Len(r) : r[i] = q[i + 1]
      /\ Head(q) = q[1]
  BY HeadTailProperties, LenProperties, EmptySeq
<1>. HIDE DEF r
<1>2. \A i \in 1 .. Len(r) : i + 1 \in 1 .. Len(q) /\ 1 < i + 1
  BY <1>1
<1>3. Buried(r, w)
  <2>. SUFFICES ASSUME NEW i \in 1 .. Len(r), NEW j \in 1 .. Len(r), i < j,
                       r[i].w = w, r[i].type = "DestroyNotify",
                       r[j].w = w, r[j].type = "UnmapNotify"
                PROVE  FALSE
    BY DEF Buried
  <2>1. i + 1 < j + 1
    BY <1>1
  <2>. QED BY <1>1, <1>2, <2>1 DEF Buried
<1>4. ASSUME Head(q).w = w, Head(q).type = "DestroyNotify", Has(r, {"UnmapNotify"}, w)
      PROVE  FALSE
  <2>1. PICK j \in 1 .. Len(r) : r[j].w = w /\ r[j].type = "UnmapNotify"
    BY <1>4 DEF Has
  <2>2. 1 \in 1 .. Len(q)
    BY <1>1
  <2>. QED BY <1>1, <1>2, <1>4, <2>1, <2>2 DEF Buried
<1>. QED BY <1>3, <1>4 DEF r

\* Where XIDs are not reused, what the environment does to a window.
Ends(w) ==
  /\ Unmaps(w) => Unmaps(w)'
  /\ HasD(w)' => HasD(w) \/ st'[w] = "dead"
  /\ st[w] = "dead" => st'[w] = "dead"
  /\ Buried(queue, w) /\ (HasD(w) => st[w] = "dead") => Buried(queue', w)
  /\ st[w] = "mapped" /\ st'[w] # "mapped" => Unmaps(w)'

\* Nothing ends.
LEMMA EndsSame ==
  ASSUME queue' = queue, NEW w, st'[w] = st[w] \/ (st[w] = "free" /\ st'[w] = "unmapped")
  PROVE  Ends(w)
  BY DEF Ends, Unmaps, HasD

\* Nothing ends with one event that is not of leaving.
LEMMA EndsOne ==
  ASSUME queue \in Seq(Event), NEW e \in Event, queue' = Append(queue, e), NEW w,
         e.w # w \/ e.type \notin Leaving,
         st'[w] = st[w] \/ (st[w] = "unmapped" /\ st'[w] = "mapped")
  PROVE  Ends(w)
<1>1. Unmaps(w) => Unmaps(w)'
  BY HasAppend DEF Unmaps
<1>2. HasD(w)' => HasD(w)
  BY HasAppend DEF HasD, Leaving
<1>3. Buried(queue, w) => Buried(queue', w)
  BY BuriedAppend DEF Leaving
<1>. QED BY <1>1, <1>2, <1>3 DEF Ends

\* Nor with two.
LEMMA EndsTwo ==
  ASSUME queue \in Seq(Event), NEW a \in Event, NEW e \in Event,
         queue' = Append(Append(queue, a), e), NEW w, a.w # w, e.w # w, st'[w] = st[w]
  PROVE  Ends(w)
<1>0. Append(queue, a) \in Seq(Event)
  BY AppendProperties
<1>1. Unmaps(w) => Unmaps(w)'
  BY <1>0, HasAppend DEF Unmaps
<1>2. HasD(w)' => HasD(w)
  BY <1>0, HasAppend DEF HasD
<1>3. Buried(queue, w) => Buried(queue', w)
  BY <1>0, BuriedAppend
<1>. QED BY <1>1, <1>2, <1>3 DEF Ends

\* v goes: it was alive, so no destruction of it is under way.
LEMMA EndsGone ==
  ASSUME queue \in Seq(Event), NEW v, NEW q \in Seq(Event), NEW e \in Event,
         e.w = v, e.type \in Leaving, queue' = Append(q, e), Live(v),
         Unmapped(q, v) \/ (q = queue /\ e.type = "UnmapNotify"),
         e.type = "DestroyNotify" => st'[v] = "dead"
  PROVE  Ends(v)
<1>1. ASSUME NEW a \in Event, a.w = v, a.type = "UnmapNotify", q = Append(queue, a)
      PROVE  /\ Has(q, {"UnmapNotify"}, v)
             /\ Has(q, {"DestroyNotify"}, v) => HasD(v)
             /\ Buried(queue, v) /\ ~HasD(v) => Buried(q, v)
  <2>1. Has(q, {"UnmapNotify"}, v)
    BY <1>1, HasAppend
  <2>2. Has(q, {"DestroyNotify"}, v) => HasD(v)
    BY <1>1, HasAppend DEF HasD
  <2>3. Buried(queue, v) /\ ~HasD(v) => Buried(q, v)
    BY <1>1, BuriedAppend DEF HasD
  <2>. QED BY <2>1, <2>2, <2>3
<1>2. /\ Unmaps(v) \/ (st[v] = "mapped" /\ e.type # "UnmapNotify") => Has(q, {"UnmapNotify"}, v)
      /\ Has(q, {"DestroyNotify"}, v) => HasD(v)
      /\ Buried(queue, v) /\ ~HasD(v) => Buried(q, v)
  BY <1>1 DEF Unmapped, Unmaps, HasD, Leaving
<1>3. Unmaps(v)' <=> Has(q, {"UnmapNotify"}, v) \/ e.type = "UnmapNotify"
  BY HasAppend DEF Unmaps
<1>4. HasD(v)' <=> Has(q, {"DestroyNotify"}, v) \/ e.type = "DestroyNotify"
  BY HasAppend DEF HasD
<1>5. Buried(q, v) /\ ~HasD(v) => Buried(queue', v)
  BY <1>2, BuriedAppend
<1>6. st[v] # "dead"
  BY DEF Live
<1>. QED BY <1>2, <1>3, <1>4, <1>5, <1>6 DEF Ends

\* A window ends once, when its XID is not used again.
LEMMA ApplicationsEnds ==
  ASSUME ServerTypeOK, ~ReuseXids, Applications, NEW w \in Windows
  PROVE  Ends(w)
<1>. USE DEF ServerTypeOK
<1>1. ASSUME NEW e \in Event, Emit(<<e>>), e.w # w \/ e.type \notin Leaving,
             st'[w] = st[w] \/ (st[w] = "unmapped" /\ st'[w] = "mapped")
      PROVE  Ends(w)
  <2>1. queue' = Append(queue, e)
    BY <1>1, EmitEffect
  <2>. QED BY <1>1, <2>1, EndsOne
<1>2. ASSUME NEW v \in Windows, CreateWindow(v) PROVE Ends(w)
  BY <1>2, EndsSame DEF CreateWindow
<1>3. ASSUME NEW v \in Windows, MapWindow(v) PROVE Ends(w)
  <2>1. PICK t \in {"MapNotify", "MapRequest"} : Emit(<<Ev(t, v, FALSE)>>)
    BY <1>3 DEF MapWindow
  <2>2. Ev(t, v, FALSE) \in Event /\ Ev(t, v, FALSE).type \notin Leaving
    BY NewEvent DEF EventTypes, Leaving
  <2>3. st'[w] = st[w] \/ (st[w] = "unmapped" /\ st'[w] = "mapped")
    BY <1>3 DEF MapWindow
  <2>. QED BY <1>1, <2>1, <2>2, <2>3
<1>4. ASSUME NEW v \in Windows, UnmapWindow(v) PROVE Ends(w)
  <2>. DEFINE e == Ev("UnmapNotify", v, FALSE)
  <2>1. e \in Event /\ e.w = v /\ e.type = "UnmapNotify"
    BY NewEvent DEF EventTypes
  <2>2. Emit(<<e>>) /\ st' = [st EXCEPT ![v] = "unmapped"] /\ st[v] = "mapped"
    BY <1>4 DEF UnmapWindow, UnmapEvents
  <2>. HIDE DEF e
  <2>3. queue' = Append(queue, e)
    BY <2>1, <2>2, EmitEffect
  <2>4. CASE w = v
    BY <2>1, <2>2, <2>3, <2>4, EndsGone DEF Leaving, Live
  <2>5. CASE w # v
    BY <1>1, <2>1, <2>2, <2>5
  <2>. QED BY <2>4, <2>5
<1>5. ASSUME NEW v \in Windows, NEW t \in Leaving, Live(v),
             Emit(Append(UnmapEvents(v), Ev(t, v, FALSE))),
             \A u \in Windows \ {v} : st'[u] = st[u],
             t = "DestroyNotify" => st'[v] = "dead"
      PROVE  Ends(w)
  <2>1. PICK q \in Seq(Event), e \in Event :
           e.w = v /\ e.type = t /\ queue' = Append(q, e) /\ Unmapped(q, v)
    BY <1>5, LeaveEvents
  <2>2. CASE w = v
    BY <1>5, <2>1, <2>2, EndsGone
  <2>3. CASE w # v /\ q = queue
    BY <1>5, <2>1, <2>3, EndsOne
  <2>4. ASSUME w # v, NEW a \in Event, a.w = v, a.type = "UnmapNotify", q = Append(queue, a)
        PROVE  Ends(w)
    BY <1>5, <2>1, <2>4, EndsTwo
  <2>. QED BY <2>1, <2>2, <2>3, <2>4 DEF Unmapped
<1>6. ASSUME NEW v \in Windows, WithdrawWindow(v) PROVE Ends(w)
  BY <1>5, <1>6 DEF WithdrawWindow, Leaving
<1>7. ASSUME NEW v \in Windows, DestroyWindow(v) PROVE Ends(w)
  BY <1>5, <1>7 DEF DestroyWindow, Leaving
<1>8. ASSUME NEW v \in Windows, ConfigureWindow(v) PROVE Ends(w)
  <2>1. PICK t \in {"ConfigureNotify", "ConfigureRequest"}, f \in BOOLEAN : Emit(<<Ev(t, v, f)>>)
    BY <1>8 DEF ConfigureWindow
  <2>2. Ev(t, v, f) \in Event /\ Ev(t, v, f).type \notin Leaving
    BY EventTyped, EvFields DEF EventTypes, Leaving
  <2>. QED BY <1>1, <1>8, <2>1, <2>2 DEF ConfigureWindow
<1>9. ASSUME NEW v \in Windows, ChangeShapeOrProperty(v) PROVE Ends(w)
  <2>1. PICK t \in {"ShapeNotify", "PropertyNotify"}, f \in BOOLEAN : Emit(<<Ev(t, v, f)>>)
    BY <1>9 DEF ChangeShapeOrProperty
  <2>2. Ev(t, v, f) \in Event /\ Ev(t, v, f).type \notin Leaving
    BY EventTyped, EvFields DEF EventTypes, Leaving
  <2>. QED BY <1>1, <1>9, <2>1, <2>2 DEF ChangeShapeOrProperty, serverVars
<1>10. ASSUME NEW v \in Windows \cup {Root}, DrawInWindow(v) PROVE Ends(w)
  <2>1. PICK f \in BOOLEAN : (v = Root => ~f) /\ Emit(<<Ev("DamageNotify", v, f)>>)
    BY <1>10 DEF DrawInWindow
  <2>2. Ev("DamageNotify", v, f) \in Event /\ Ev("DamageNotify", v, f).type \notin Leaving
    <3>1. Ev("DamageNotify", v, f) \in Event
      BY <2>1, EventTyped
    <3>. QED BY <3>1 DEF Ev, Leaving
  <2>. QED BY <1>1, <1>10, <2>1, <2>2 DEF DrawInWindow, serverVars
<1>11. ASSUME ChangeCursor PROVE Ends(w)
  <2>1. Emit(<<Ev("CursorNotify", NoWindow, FALSE)>>)
    BY <1>11 DEF ChangeCursor
  <2>2. /\ Ev("CursorNotify", NoWindow, FALSE) \in Event
        /\ Ev("CursorNotify", NoWindow, FALSE).type \notin Leaving
    <3>1. Ev("CursorNotify", NoWindow, FALSE) \in Event
      BY EventTyped
    <3>. QED BY <3>1 DEF Ev, Leaving
  <2>. QED BY <1>1, <1>11, <2>1, <2>2 DEF ChangeCursor, serverVars
<1>. QED BY <1>2, <1>3, <1>4, <1>6, <1>7, <1>8, <1>9, <1>10, <1>11 DEF Applications

\* No request ends a window.
LEMMA ExecEnds ==
  ASSUME ServerTypeOK, Exec, NEW w \in Windows
  PROVE  Ends(w)
<1>. DEFINE r == Head(out)
            v == r.w
<1>0. r.op \in Ops
  <2>1. r \in Request
    BY HeadRequest DEF Exec, ServerTypeOK
  <2>. QED BY <2>1 DEF Request, Ops
<1>1. ASSUME NEW e \in Event, Emit(<<e>>), e.type \notin Leaving,
             st'[w] = st[w] \/ (st[w] = "unmapped" /\ st'[w] = "mapped")
      PROVE  Ends(w)
  <2>1. queue' = Append(queue, e)
    BY <1>1, EmitEffect DEF ServerTypeOK
  <2>. QED BY <1>1, <2>1, EndsOne DEF ServerTypeOK
<1>2. ASSUME UNCHANGED <<st, queue>> PROVE Ends(w)
  BY <1>2, EndsSame
<1>3. CASE r.op = "map"
  <2>1. ExecMap(v)
    BY <1>3 DEF Exec
  <2>. HIDE DEF v
  <2>2. CASE v \in Windows /\ st[v] = "unmapped"
    <3>1. Ev("MapNotify", v, FALSE) \in Event /\ Ev("MapNotify", v, FALSE).type \notin Leaving
      BY <2>2, NewEvent DEF EventTypes, Leaving
    <3>2. st' = [st EXCEPT ![v] = "mapped"] /\ Emit(<<Ev("MapNotify", v, FALSE)>>)
      BY <2>1, <2>2 DEF ExecMap
    <3>3. st'[w] = st[w] \/ (st[w] = "unmapped" /\ st'[w] = "mapped")
      BY <2>2, <3>2 DEF ServerTypeOK
    <3>. QED BY <1>1, <3>1, <3>2, <3>3
  <2>. QED BY <1>2, <2>1, <2>2 DEF ExecMap, serverVars
<1>4. CASE r.op = "resize"
  <2>1. ExecResize(v)
    BY <1>4 DEF Exec
  <2>. HIDE DEF v
  <2>2. CASE v \in Windows /\ Live(v)
    <3>1. /\ Ev("ConfigureNotify", v, FALSE) \in Event
          /\ Ev("ConfigureNotify", v, FALSE).type \notin Leaving
      <4>1. Ev("ConfigureNotify", v, FALSE) \in Event
        BY <2>2, EventTyped DEF EventTypes
      <4>. QED BY <4>1 DEF Ev, Leaving
    <3>. QED BY <1>1, <2>1, <2>2, <3>1 DEF ExecResize
  <2>. QED BY <1>2, <2>1, <2>2 DEF ExecResize, serverVars
<1>5. CASE r.op \in {"name", "freepix", "dmgdestroy"}
  BY <1>2, <1>5 DEF Exec, ExecName, ExecFreePixmap, ExecDamageDestroy
<1>6. CASE r.op = "dmgadd"
  <2>1. ExecDamageAdd(v)
    BY <1>6 DEF Exec
  <2>. HIDE DEF v
  <2>2. CASE v \in dmgObj
    <3>0. v \in Windows \cup {Root}
      BY <2>2 DEF ServerTypeOK
    <3>1. /\ Ev("DamageNotify", v, FALSE) \in Event
          /\ Ev("DamageNotify", v, FALSE).type \notin Leaving
      BY <3>0, NewDamage DEF Leaving
    <3>. QED BY <1>1, <2>1, <2>2, <3>1 DEF ExecDamageAdd, serverVars
  <2>. QED BY <1>2, <2>1, <2>2 DEF ExecDamageAdd, serverVars
<1>. QED BY <1>0, <1>3, <1>4, <1>5, <1>6 DEF Ops

\* A request to name p for w that no request to free p follows.
Pend(s, w, p) ==
  \E i \in 1 .. Len(s) : /\ s[i] = Req("name", w, p)
                         /\ \A j \in 1 .. Len(s) : i < j => s[j] # Req("freepix", NoWindow, p)

\* A request at the end binds or frees its own pixmap.
LEMMA PendAppend ==
  ASSUME NEW s \in Seq(Request), NEW r \in Request, NEW w, NEW p, Pend(Append(s, r), w, p)
  PROVE  r = Req("name", w, p) \/ (Pend(s, w, p) /\ r # Req("freepix", NoWindow, p))
<1>. DEFINE t == Append(s, r)
<1>1. /\ Len(s) \in Nat
      /\ Len(t) = Len(s) + 1
      /\ \A i \in 1 .. Len(s) : t[i] = s[i]
      /\ t[Len(s) + 1] = r
  BY AppendProperties, LenProperties
<1>. HIDE DEF t
<1>2. PICK i \in 1 .. Len(t) :
        /\ t[i] = Req("name", w, p)
        /\ \A j \in 1 .. Len(t) : i < j => t[j] # Req("freepix", NoWindow, p)
  BY DEF Pend, t
<1>3. CASE i = Len(s) + 1
  BY <1>1, <1>2, <1>3
<1>4. CASE i \in 1 .. Len(s)
  <2>1. Len(s) + 1 \in 1 .. Len(t) /\ i < Len(s) + 1
    BY <1>1, <1>4
  <2>2. r # Req("freepix", NoWindow, p)
    BY <1>1, <1>2, <2>1
  <2>3. \A j \in 1 .. Len(s) : j \in 1 .. Len(t)
    BY <1>1
  <2>4. Pend(s, w, p)
    BY <1>1, <1>2, <1>4, <2>3 DEF Pend
  <2>. QED BY <2>2, <2>4
<1>. QED BY <1>1, <1>3, <1>4

\* What is left to bind after the head is executed.
LEMMA PendTail ==
  ASSUME NEW s \in Seq(Request), s # <<>>, NEW w, NEW p
  PROVE  /\ Pend(Tail(s), w, p) => Pend(s, w, p)
         /\ Head(s) = Req("name", w, p) =>
              Pend(s, w, p) \/ In(Tail(s), Req("freepix", NoWindow, p))
<1>. DEFINE t == Tail(s)
            f == Req("freepix", NoWindow, p)
            n == Req("name", w, p)
<1>1. /\ Len(s) \in Nat /\ Len(t) \in Nat
      /\ Len(s) = Len(t) + 1
      /\ \A i \in 1 .. Len(t) : t[i] = s[i + 1]
      /\ Head(s) = s[1]
  BY HeadTailProperties, LenProperties, EmptySeq
<1>. HIDE DEF t, f, n
<1>2. \A j \in 1 .. Len(s) : 1 < j => j - 1 \in 1 .. Len(t) /\ s[j] = t[j - 1]
  BY <1>1
<1>3. ASSUME Pend(t, w, p) PROVE Pend(s, w, p)
  <2>1. PICK i \in 1 .. Len(t) : t[i] = n /\ \A j \in 1 .. Len(t) : i < j => t[j] # f
    BY <1>3 DEF Pend, n, f
  <2>2. i + 1 \in 1 .. Len(s) /\ s[i + 1] = n
    BY <1>1, <2>1
  <2>3. ASSUME NEW j \in 1 .. Len(s), i + 1 < j PROVE s[j] # f
    <3>1. 1 < j /\ i < j - 1
      BY <1>1, <2>3
    <3>. QED BY <1>2, <2>1, <3>1
  <2>. QED BY <2>2, <2>3 DEF Pend, n, f
<1>4. ASSUME Head(s) = n, ~In(t, f) PROVE Pend(s, w, p)
  <2>1. 1 \in 1 .. Len(s) /\ s[1] = n
    BY <1>1, <1>4
  <2>2. ASSUME NEW j \in 1 .. Len(s), 1 < j PROVE s[j] # f
    BY <1>2, <1>4, <2>2 DEF In
  <2>. QED BY <2>1, <2>2 DEF Pend, n, f
<1>. QED BY <1>3, <1>4 DEF t, f, n

\* What is to be bound has its request under way.
LEMMA PendIn == ASSUME NEW s, NEW w, NEW p, Pend(s, w, p) PROVE In(s, Req("name", w, p))
  BY DEF Pend, In

\* The new pixmap alone can be named by the requests of an update.
LEMMA PendUpdate ==
  ASSUME PixmapTyped, NEW s \in Seq(Request), NEW v \in Windows, NEW p,
         Req("name", v, p) \in Request, NEW w, NEW q,
         Pend(s \o Append(ReleaseRequests(v), Req("name", v, p)), w, q)
  PROVE  (w = v /\ q = p) \/ (Pend(s, w, q) /\ (pixmap[v] # NoPixmap => q # pixmap[v]))
<1>. DEFINE n == Req("name", v, p)
            f == Req("freepix", NoWindow, pixmap[v])
<1>0. n = Req("name", w, q) => w = v /\ q = p
  BY ReqEqual
<1>0a. f # Req("name", w, q) /\ (q = pixmap[v] => f = Req("freepix", NoWindow, q))
  BY ReqEqual
<1>1. CASE pixmap[v] = NoPixmap
  <2>1. s \o Append(ReleaseRequests(v), n) = Append(s, n)
    BY <1>1, UpdateAppend
  <2>2. Pend(Append(s, n), w, q)
    BY <2>1
  <2>3. n \in Request
    OBVIOUS
  <2>. HIDE DEF n
  <2>4. n = Req("name", w, q) \/ Pend(s, w, q)
    BY <2>2, <2>3, PendAppend
  <2>. QED BY <2>4, <1>0, <1>1
<1>2. CASE pixmap[v] # NoPixmap
  <2>1. /\ f \in Request
        /\ s \o Append(ReleaseRequests(v), n) = Append(Append(s, f), n)
    BY <1>2, UpdateAppend
  <2>2. Pend(Append(Append(s, f), n), w, q)
    BY <2>1
  <2>3. n \in Request
    OBVIOUS
  <2>. HIDE DEF n, f
  <2>4. Append(s, f) \in Seq(Request)
    BY <2>1, AppendProperties
  <2>5. n = Req("name", w, q) \/ Pend(Append(s, f), w, q)
    BY <2>2, <2>3, <2>4, PendAppend
  <2>6. Pend(Append(s, f), w, q) => Pend(s, w, q) /\ f # Req("freepix", NoWindow, q)
    BY <2>1, <1>0a, PendAppend
  <2>. QED BY <2>5, <2>6, <1>0, <1>0a
<1>. QED BY <1>1, <1>2

\* A pixmap that is released stays unbound.
LEMMA PendRelease ==
  ASSUME PixmapTyped, NEW s \in Seq(Request), NEW v \in Windows, NEW w, NEW q,
         Pend(s \o ReleaseRequests(v), w, q)
  PROVE  Pend(s, w, q) /\ (pixmap[v] # NoPixmap => q # pixmap[v])
<1>. DEFINE f == Req("freepix", NoWindow, pixmap[v])
<1>1. CASE pixmap[v] = NoPixmap
  BY <1>1, ReleaseAppend
<1>2. CASE pixmap[v] # NoPixmap
  <2>1. f \in Request /\ s \o ReleaseRequests(v) = Append(s, f)
    BY <1>2, ReleaseAppend
  <2>2. Pend(Append(s, f), w, q)
    BY <2>1
  <2>3. f # Req("name", w, q) /\ (q = pixmap[v] => f = Req("freepix", NoWindow, q))
    BY ReqEqual
  <2>. HIDE DEF f
  <2>4. Pend(s, w, q) /\ f # Req("freepix", NoWindow, q)
    BY <2>1, <2>2, <2>3, PendAppend
  <2>. QED BY <2>3, <2>4
<1>. QED BY <1>1, <1>2

----------------------------------------------------------------------------
(* No pixmap is left behind: the invariant *)

\* A pixmap of a window in the list, or of one being released after its
\* UnmapNotify; or about to be freed.
Owned(p) == \/ \E w \in managed \cap Windows : pixmap[w] = p
            \/ pc = "cbDestroy" /\ via = "unmap" /\ pixmap[cur] = p
Freed(p) == In(out, Req("freepix", NoWindow, p))
AllOwned == \A p \in Pixmaps : named[p] # Unbound => Owned(p) \/ Freed(p)
NamesOwned == \A w \in Windows, p \in Pixmaps :
                Pend(out, w, p) /\ st[w] # "dead" => Owned(p)
Released == \A w \in Windows \ managed : pixmap[w] = NoPixmap \/ (pc = "cbDestroy" /\ cur = w)
\* A window with a DestroyNotify is dead, and its UnmapNotify comes before; while
\* a listed window that is not mapped has a bound pixmap, its UnmapNotify is
\* still to be read.
Ended(w) == (HasD(w) => st[w] = "dead") /\ Buried(queue, w)
Unmapping(w) ==
  w \in managed /\ pixmap[w] # NoPixmap /\ named[pixmap[w]] # Unbound /\ st[w] # "mapped" =>
    Unmaps(w)
XInv == /\ AllOwned /\ NamesOwned /\ Released
        /\ \A w \in Windows : Ended(w) /\ Unmapping(w)

\* Only the request for it binds a pixmap.
LEMMA OutdatedUnbound ==
  ASSUME NEW v \in Windows, NEW p \in Pixmaps, named' = Outdated(v), named[p] = Unbound
  PROVE  named'[p] = Unbound
  BY WindowAssumption DEF Outdated, Unbound

\* Applications bind no pixmap.
LEMMA ApplicationsUnbound ==
  ASSUME Applications, NEW p \in Pixmaps, named[p] = Unbound
  PROVE  named'[p] = Unbound
<1>1. named' = named \/ \E v \in Windows : named' = Outdated(v)
  BY DEF Applications, CreateWindow, MapWindow, UnmapWindow, WithdrawWindow,
     DestroyWindow, ConfigureWindow, ChangeShapeOrProperty, DrawInWindow, ChangeCursor,
     serverVars
<1>. QED BY <1>1, OutdatedUnbound

\* A bound pixmap was bound before, or is so by this request.
LEMMA ExecUnbound ==
  ASSUME ServerTypeOK, Exec, NEW p \in Pixmaps, named'[p] # Unbound
  PROVE  \/ named[p] # Unbound /\ Head(out) # Req("freepix", NoWindow, p)
         \/ \E w \in Windows : /\ st[w] = "mapped" /\ st' = st
                               /\ Head(out) = Req("name", w, p)
<1>. DEFINE r == Head(out)
<1>0. out \in Seq(Request) /\ out # <<>>
  BY DEF Exec, ServerTypeOK
<1>1. r.op \in Ops
  <2>1. r \in Request
    BY <1>0, HeadRequest
  <2>. QED BY <2>1 DEF Request, Ops
<1>2. ASSUME r.op # "freepix" PROVE r # Req("freepix", NoWindow, p)
  BY <1>2, ReqFields
<1>3. CASE r.op \in {"map", "dmgdestroy", "dmgadd"}
  <2>1. named' = named
    BY <1>3 DEF Exec, ExecMap, ExecDamageDestroy, ExecDamageAdd, serverVars
  <2>. QED BY <2>1, <1>2, <1>3
<1>4. CASE r.op = "resize"
  <2>1. ExecResize(r.w)
    BY <1>4 DEF Exec
  <2>2. named' = named \/ (r.w \in Windows /\ named' = Outdated(r.w))
    BY <2>1 DEF ExecResize, serverVars
  <2>3. named[p] # Unbound
    BY <2>2, OutdatedUnbound
  <2>. QED BY <2>3, <1>2, <1>4
<1>5. CASE r.op = "name"
  <2>1. r.w \in Windows /\ r = Req("name", r.w, r.p)
    BY <1>0, <1>5, HeadRequest
  <2>2. ExecName(r.w, r.p)
    BY <1>5 DEF Exec
  <2>3. CASE r.p = p /\ st[r.w] = "mapped"
    BY <2>1, <2>2, <2>3 DEF ExecName
  <2>4. CASE ~(r.p = p /\ st[r.w] = "mapped")
    <3>1. named'[p] = named[p]
      BY <2>2, <2>4 DEF ExecName, ServerTypeOK
    <3>. QED BY <3>1, <1>2, <1>5
  <2>. QED BY <2>3, <2>4
<1>6. CASE r.op = "freepix"
  <2>1. r = Req("freepix", NoWindow, r.p)
    BY <1>0, <1>6, HeadRequest
  <2>2. ExecFreePixmap(r.p)
    BY <1>6 DEF Exec
  <2>3. r.p # p
    BY <2>2 DEF ExecFreePixmap, ServerTypeOK
  <2>4. named'[p] = named[p]
    BY <2>2, <2>3 DEF ExecFreePixmap, ServerTypeOK
  <2>. QED BY <2>1, <2>3, <2>4, ReqEqual
<1>. QED BY <1>1, <1>3, <1>4, <1>5, <1>6 DEF Ops

\* Applications make no requests of the library.
LEMMA ApplicationsOut ==
  Applications => out' = out
  BY DEF Applications, CreateWindow, MapWindow, UnmapWindow, WithdrawWindow,
     DestroyWindow, ConfigureWindow, ChangeShapeOrProperty, DrawInWindow, ChangeCursor

\* Applications and server preserve the invariant.
LEMMA OutsideXInv ==
  ASSUME ~ReuseXids, IInv, PInv, XInv, Outside
  PROVE  XInv'
<1>0. /\ ServerTypeOK /\ PixmapTyped /\ out \in Seq(Request)
      /\ UNCHANGED <<managed, pixmap, pc, cur, via>>
  BY TypedState DEF Outside, threadVars
<1>1. \A w \in Windows : Ends(w)
  BY <1>0, ApplicationsEnds, ExecEnds DEF Outside
<1>2. \A p : Owned(p)' <=> Owned(p)
  BY <1>0 DEF Owned
<1>3. Released'
  BY <1>0 DEF XInv, Released
<1>4. \A w \in Windows : Ended(w)'
  BY <1>1 DEF XInv, Ended, Ends
<1>5. Exec => out # <<>> /\ out' = Tail(out)
  BY DEF Exec
<1>6. NamesOwned'
  <2>. SUFFICES ASSUME NEW w \in Windows, NEW p \in Pixmaps, Pend(out', w, p), st'[w] # "dead"
                PROVE  Owned(p)
    BY <1>2 DEF NamesOwned
  <2>1. st[w] # "dead"
    BY <1>1 DEF Ends
  <2>2. Pend(out, w, p)
    BY <1>0, <1>5, PendTail, ApplicationsOut DEF Outside
  <2>. QED BY <2>1, <2>2 DEF XInv, NamesOwned
<1>7. AllOwned'
  <2>. SUFFICES ASSUME NEW p \in Pixmaps, named'[p] # Unbound
                PROVE  Owned(p) \/ Freed(p)'
    BY <1>2 DEF AllOwned
  <2>1. CASE Applications
    <3>1. named[p] # Unbound
      BY <2>1, ApplicationsUnbound
    <3>2. Freed(p)' <=> Freed(p)
      BY <2>1, ApplicationsOut DEF Freed
    <3>. QED BY <3>1, <3>2 DEF XInv, AllOwned
  <2>2. CASE Exec /\ named[p] # Unbound /\ Head(out) # Req("freepix", NoWindow, p)
    <3>2. out # <<>> /\ out' = Tail(out)
      BY <1>5, <2>2
    <3>3. In(out, Req("freepix", NoWindow, p)) => In(Tail(out), Req("freepix", NoWindow, p))
      BY <1>0, <2>2, <3>2, InTail
    <3>1. Freed(p) => Freed(p)'
      BY <3>2, <3>3 DEF Freed
    <3>. QED BY <2>2, <3>1 DEF XInv, AllOwned
  <2>3. ASSUME Exec, NEW w \in Windows, st[w] = "mapped", Head(out) = Req("name", w, p)
        PROVE  Owned(p) \/ Freed(p)'
    <3>1. Pend(out, w, p) \/ Freed(p)'
      BY <1>0, <1>5, <2>3, PendTail DEF Freed
    <3>. QED BY <2>3, <3>1 DEF XInv, NamesOwned
  <2>. QED BY <1>0, <2>1, <2>2, <2>3, ExecUnbound DEF Outside
<1>8. ASSUME NEW w \in Windows PROVE Unmapping(w)'
  <2>. DEFINE p == pixmap[w]
  <2>. SUFFICES ASSUME w \in managed, p # NoPixmap, named'[p] # Unbound, st'[w] # "mapped"
                PROVE  Unmaps(w)'
    BY <1>0 DEF Unmapping
  <2>1. p \in Pixmaps
    BY <1>0 DEF PixmapTyped
  <2>2. CASE named[p] # Unbound
    BY <1>1, <2>2 DEF XInv, Unmapping, Ends
  <2>3. CASE named[p] = Unbound
    <3>1. Exec
      BY <2>1, <2>3, ApplicationsUnbound DEF Outside
    <3>2. PICK v \in Windows : st[v] = "mapped" /\ st' = st /\ Head(out) = Req("name", v, p)
      BY <1>0, <2>1, <2>3, <3>1, ExecUnbound
    <3>3. In(out, Req("name", v, p))
      BY <1>0, <1>5, <3>1, <3>2, InTail
    <3>4. v = w
      BY <3>3 DEF PInv, Held, NamedFor
    <3>. QED BY <3>2, <3>4
  <2>. QED BY <2>2, <2>3
<1>. QED BY <1>3, <1>4, <1>6, <1>7, <1>8 DEF XInv

\* Steps that leave the pixmaps, the list and a removal in progress alone.
LEMMA StillXInv ==
  ASSUME XInv, UNCHANGED <<st, named, managed, pixmap>>,
         pc # "cbDestroy", pc' # "cbDestroy",
         \A p : Freed(p) => Freed(p)',
         \A w, p : Pend(out', w, p) => Pend(out, w, p),
         \A w \in Windows : /\ HasD(w)' => HasD(w)
                            /\ Buried(queue, w) => Buried(queue', w)
                            /\ Unmaps(w) /\ w \in managed => Unmaps(w)'
  PROVE  XInv'
<1>1. \A p : Owned(p)' <=> Owned(p)
  BY DEF Owned
<1>2. AllOwned' /\ NamesOwned' /\ Released'
  BY <1>1 DEF XInv, AllOwned, NamesOwned, Released
<1>3. \A w \in Windows : Ended(w)' /\ Unmapping(w)'
  BY DEF XInv, Ended, Unmapping
<1>. QED BY <1>2, <1>3 DEF XInv

\* Same queue, same unmaps and destroys.
LEMMA QuietQueue ==
  ASSUME queue' = queue, NEW w
  PROVE  /\ HasD(w)' <=> HasD(w)
         /\ Buried(queue', w) <=> Buried(queue, w)
         /\ Unmaps(w)' <=> Unmaps(w)
  BY DEF HasD, Unmaps

\* Same requests, same pixmaps to be bound and freed.
LEMMA QuietOut ==
  ASSUME out' = out
  PROVE  /\ \A p : Freed(p)' <=> Freed(p)
         /\ \A w, p : Pend(out', w, p) <=> Pend(out, w, p)
  BY DEF Freed

\* A request that has to do with no pixmap.
LEMMA PlainOut ==
  ASSUME out \in Seq(Request), NEW r \in Request, r.op \notin {"name", "freepix"},
         out' = Append(out, r)
  PROVE  /\ \A p : Freed(p) => Freed(p)'
         /\ \A w, p : Pend(out', w, p) => Pend(out, w, p)
<1>1. \A w, p : r # Req("name", w, p)
  BY ReqFields
<1>2. \A p : Freed(p) => Freed(p)'
  BY InAppend DEF Freed
<1>3. \A w, p : Pend(Append(out, r), w, p) => Pend(out, w, p)
  BY <1>1, PendAppend
<1>. QED BY <1>2, <1>3

\* Steps that ask the server and change nothing there.
LEMMA SilentXInv ==
  ASSUME IInv, XInv,
         \/ AdoptQuery \/ AdoptDone \/ (\E v \in Windows : AdoptNext(v))
         \/ CreateAttributes \/ CreateGeometry \/ CreateShape \/ Reshape \/ CallbackReturn
  PROVE  XInv'
<1>1. UNCHANGED <<st, named, queue, out, managed, pixmap>>
  BY DEF AdoptQuery, AdoptNext, AdoptDone, CreateAttributes, CreateGeometry, CreateShape,
     Reshape, CallbackReturn, serverVars
<1>2. pc # "cbDestroy" /\ pc' # "cbDestroy"
  BY DEF AdoptQuery, AdoptNext, AdoptDone, CreateAttributes, CreateGeometry,
     CreateShape, Reshape, CallbackReturn, StartCreate, Goto, Stay, Resume
<1>. QED BY <1>1, <1>2, StillXInv, QuietQueue, QuietOut

\* Damage of a new window ends nothing.
LEMMA PropertiesXInv ==
  ASSUME IInv, XInv, CreateProperties
  PROVE  XInv'
<1>0. UNCHANGED <<st, named, out, managed, pixmap>> /\ pc # "cbDestroy" /\ pc' # "cbDestroy"
  BY DEF CreateProperties, Goto
<1>1. ASSUME NEW w \in Windows
      PROVE  /\ HasD(w)' => HasD(w)
             /\ Buried(queue, w) => Buried(queue', w)
             /\ Unmaps(w) => Unmaps(w)'
  <2>1. CASE st[cur] = "mapped"
    <3>1. PICK f \in BOOLEAN : Emit(<<Ev("DamageNotify", cur, f)>>)
      BY <2>1 DEF CreateProperties
    <3>. DEFINE e == Ev("DamageNotify", cur, f)
    <3>2. e \in Event /\ e.type = "DamageNotify"
      <4>1. cur \in Windows
        BY DEF CreateProperties, IInv, Control
      <4>2. e \in Event
        BY <4>1, EventTyped
      <4>. QED BY <4>2 DEF Ev
    <3>3. Emit(<<e>>)
      BY <3>1
    <3>. HIDE DEF e
    <3>4. queue' = Append(queue, e) /\ queue \in Seq(Event)
      BY <3>2, <3>3, TypedState, EmitEffect
    <3>5. HasD(w)' => HasD(w)
      BY <3>2, <3>4, HasAppend DEF HasD
    <3>6. Buried(queue, w) => Buried(queue', w)
      BY <3>2, <3>4, BuriedAppend
    <3>7. Unmaps(w) => Unmaps(w)'
      BY <3>2, <3>4, HasAppend DEF Unmaps
    <3>. QED BY <3>5, <3>6, <3>7
  <2>2. CASE st[cur] # "mapped"
    BY <2>2, QuietQueue DEF CreateProperties
  <2>. QED BY <2>1, <2>2
<1>. QED BY <1>0, <1>1, StillXInv, QuietOut

\* A request to resize has to do with no pixmap.
LEMMA ClientXInv ==
  ASSUME IInv, XInv, NEW v \in Windows, ClientConfigure(v)
  PROVE  XInv'
<1>0. /\ UNCHANGED <<st, named, queue, managed, pixmap, pc, cur, via>> /\ out \in Seq(Request)
      /\ out' = Append(out, Req("resize", v, NoPixmap))
  BY TypedState DEF ClientConfigure, serverVars, threadVars
<1>1. Req("resize", v, NoPixmap) \in Request
  BY RequestTyped DEF Ops
<1>2. Req("resize", v, NoPixmap).op \notin {"name", "freepix"}
  BY ReqFields
<1>3. /\ \A p : Freed(p) => Freed(p)'
      /\ \A w, p : Pend(out', w, p) => Pend(out, w, p)
  BY <1>0, <1>1, <1>2, PlainOut
<1>4. \A p : Owned(p)' <=> Owned(p)
  BY <1>0 DEF Owned
<1>5. AllOwned' /\ NamesOwned' /\ Released'
  BY <1>0, <1>3, <1>4 DEF XInv, AllOwned, NamesOwned, Released
<1>6. \A w \in Windows : Ended(w)' /\ Unmapping(w)'
  BY <1>0, QuietQueue DEF XInv, Ended, Unmapping
<1>. QED BY <1>5, <1>6 DEF XInv

----------------------------------------------------------------------------
\* A pixmap update of a window that is in the list when it is done.
LEMMA UpdateXInv ==
  ASSUME PixmapTyped, out \in Seq(Request), XInv, NEW v, PixmapUpdate(v),
         UNCHANGED <<st, named>>, managed \subseteq managed', v \in managed',
         managed' \subseteq managed \cup {v},
         pc # "cbDestroy", pc' # "cbDestroy",
         \A w \in Windows : /\ HasD(w)' => HasD(w)
                            /\ Buried(queue, w) => Buried(queue', w)
                            /\ Unmaps(w) => Unmaps(w)'
  PROVE  XInv'
<1>1. v \in Windows
  BY UpdateFacts
<1>2. PICK p \in Pixmaps :
        /\ pixmap' = [pixmap EXCEPT ![v] = p]
        /\ out' = out \o Append(ReleaseRequests(v), Req("name", v, p))
        /\ Req("name", v, p) \in Request
        /\ named[p] = Unbound
        /\ \A x : In(out', x) <=>
             \/ In(out, x) \/ x = Req("name", v, p)
             \/ pixmap[v] # NoPixmap /\ x = Req("freepix", NoWindow, pixmap[v])
  BY UpdateFacts
<1>3. pixmap'[v] = p /\ \A w \in Windows \ {v} : pixmap'[w] = pixmap[w]
  BY <1>1, <1>2 DEF PixmapTyped
<1>4. ASSUME NEW q, Owned(q), q # pixmap[v] PROVE Owned(q)'
  BY <1>3, <1>4 DEF Owned
<1>5. Owned(p)'
  BY <1>1, <1>3 DEF Owned
<1>7. AllOwned'
  <2>. SUFFICES ASSUME NEW q \in Pixmaps, named[q] # Unbound PROVE Owned(q)' \/ Freed(q)'
    BY DEF AllOwned
  <2>1. Freed(q) => Freed(q)'
    BY <1>2 DEF Freed
  <2>2. q = pixmap[v] => Freed(q)'
    <3>1. ASSUME q = pixmap[v] PROVE In(out', Req("freepix", NoWindow, q))
      BY <1>2, <3>1, WindowAssumption
    <3>. QED BY <3>1 DEF Freed
  <2>. QED BY <1>4, <2>1, <2>2 DEF XInv, AllOwned
<1>8. NamesOwned'
  <2>. SUFFICES ASSUME NEW w \in Windows, NEW q \in Pixmaps, Pend(out', w, q), st[w] # "dead"
                PROVE  Owned(q)'
    BY DEF NamesOwned
  <2>1. (w = v /\ q = p) \/ (Pend(out, w, q) /\ (pixmap[v] # NoPixmap => q # pixmap[v]))
    BY <1>1, <1>2, PendUpdate
  <2>2. q # NoPixmap
    BY WindowAssumption
  <2>. QED BY <1>4, <1>5, <2>1, <2>2 DEF XInv, NamesOwned
<1>9. Released'
  BY <1>3 DEF XInv, Released
<1>10. \A w \in Windows : Ended(w)' /\ Unmapping(w)'
  BY <1>2, <1>3 DEF XInv, Ended, Unmapping
<1>. QED BY <1>7, <1>8, <1>9, <1>10 DEF XInv

\* A window that enters the list owns the pixmap named for it.
LEMMA FinishXInv ==
  ASSUME IInv, XInv, CreateFinish
  PROVE  XInv'
<1>0. /\ UNCHANGED <<st, named, queue>> /\ managed' = managed \cup {cur}
      /\ cur \in Windows \ managed /\ pc = "select" /\ pc' = "cbCreate"
      /\ PixmapTyped /\ out \in Seq(Request)
  BY TypedState DEF CreateFinish, IInv, Control, Goto
<1>1. CASE PixmapUpdate(cur)
  BY <1>0, <1>1, UpdateXInv, QuietQueue
<1>2. CASE UNCHANGED <<out, pixmap>>
  <2>1. pixmap[cur] = NoPixmap
    BY <1>0 DEF XInv, Released
  <2>2. \A p \in Pixmaps : Owned(p) => Owned(p)'
    BY <1>0, <1>2 DEF Owned
  <2>3. AllOwned' /\ NamesOwned' /\ Released'
    BY <1>0, <1>2, <2>2, QuietOut DEF XInv, AllOwned, NamesOwned, Released
  <2>4. \A w \in Windows : Ended(w)' /\ Unmapping(w)'
    BY <1>0, <1>2, <2>1, QuietQueue DEF XInv, Ended, Unmapping
  <2>. QED BY <2>3, <2>4 DEF XInv
<1>. QED BY <1>1, <1>2 DEF CreateFinish

\* A window released after its UnmapNotify has its pixmap freed; one released after
\* its DestroyNotify has none that is bound.
LEMMA DestroyReturnXInv ==
  ASSUME IInv, XInv, DestroyReturn
  PROVE  XInv'
<1>0. /\ UNCHANGED <<st, named, queue, managed>> /\ cur \in Windows \ managed
      /\ PixmapTyped /\ out \in Seq(Request)
      /\ pixmap' = [pixmap EXCEPT ![cur] = NoPixmap]
      /\ pc = "cbDestroy" /\ pc' # "cbDestroy"
      /\ out' = IF via = "unmap" THEN out \o ReleaseRequests(cur) ELSE out
  BY TypedState DEF DestroyReturn, IInv, Control, serverVars, Resume, Goto
<1>1. pixmap'[cur] = NoPixmap /\ \A w \in Windows \ {cur} : pixmap'[w] = pixmap[w]
  BY <1>0 DEF PixmapTyped
<1>2. ASSUME NEW p \in Pixmaps, Owned(p), ~(via = "unmap" /\ pixmap[cur] = p) PROVE Owned(p)'
  <2>1. PICK w \in managed \cap Windows : pixmap[w] = p
    BY <1>2 DEF Owned
  <2>2. w \in managed' \cap Windows /\ pixmap'[w] = p
    BY <1>0, <1>1, <2>1
  <2>. QED BY <2>2 DEF Owned
<1>3. \A p : Freed(p) => Freed(p)'
  BY <1>0, InRelease DEF Freed
<1>4. ASSUME NEW p \in Pixmaps, via = "unmap", pixmap[cur] = p PROVE Freed(p)'
  <2>1. p # NoPixmap
    BY WindowAssumption
  <2>2. In(out', Req("freepix", NoWindow, p))
    BY <1>0, <1>4, <2>1, InRelease
  <2>. QED BY <2>2 DEF Freed
<1>5. AllOwned'
  BY <1>0, <1>2, <1>3, <1>4 DEF XInv, AllOwned
<1>6. NamesOwned'
  <2>. SUFFICES ASSUME NEW w \in Windows, NEW q \in Pixmaps, Pend(out', w, q), st[w] # "dead"
                PROVE  Owned(q)'
    BY <1>0 DEF NamesOwned
  <2>1. q # NoPixmap
    BY WindowAssumption
  <2>2. Pend(out, w, q) /\ (via = "unmap" => q # pixmap[cur])
    BY <1>0, <2>1, PendRelease
  <2>3. Owned(q)
    BY <2>2 DEF XInv, NamesOwned
  <2>. QED BY <1>2, <2>2, <2>3
<1>7. Released'
  BY <1>0, <1>1 DEF XInv, Released
<1>8. \A w \in Windows : Ended(w)' /\ Unmapping(w)'
  BY <1>0, <1>1, QuietQueue DEF XInv, Ended, Unmapping
<1>. QED BY <1>5, <1>6, <1>7, <1>8 DEF XInv

----------------------------------------------------------------------------
\* What is read from the queue.
LEMMA ReceiveEnds ==
  ASSUME queue \in Seq(Event), NEW t, Receive(t), NEW w
  PROVE  /\ HasD(w)' => HasD(w)
         /\ Buried(queue, w) => Buried(queue', w)
         /\ Unmaps(w) => Unmaps(w)' \/ (Head(queue).w = w /\ t = "UnmapNotify")
         /\ Head(queue).w = w /\ t = "DestroyNotify" =>
              HasD(w) /\ (Buried(queue, w) => ~Unmaps(w)')
<1>1. queue # <<>> /\ queue' = Tail(queue) /\ Head(queue).type = t
  BY DEF Receive
<1>2. HasD(w)' => HasD(w)
  BY <1>1, HasTail DEF HasD
<1>3. Buried(queue, w) => Buried(queue', w)
  BY <1>1, BuriedTail
<1>4. Unmaps(w) => Unmaps(w)' \/ (Head(queue).w = w /\ t = "UnmapNotify")
  BY <1>1, HasTail DEF Unmaps
<1>5. ASSUME Head(queue).w = w, t = "DestroyNotify" PROVE HasD(w)
  <2>1. 1 \in 1 .. Len(queue) /\ Head(queue) = queue[1]
    <3>1. Len(queue) \in Nat \ {0}
      BY <1>1, EmptySeq
    <3>. QED BY <3>1, <1>1, HeadTailProperties
  <2>. QED BY <1>1, <1>5, <2>1 DEF HasD, Has
<1>6. ASSUME Head(queue).w = w, t = "DestroyNotify", Buried(queue, w) PROVE ~Unmaps(w)'
  BY <1>1, <1>6, BuriedTail DEF Unmaps
<1>. QED BY <1>2, <1>3, <1>4, <1>5, <1>6

\* A handler that reads an event that takes nothing away.
LEMMA ReceiveXInv ==
  ASSUME IInv, XInv, NEW t, Receive(t), t \notin Leaving,
         UNCHANGED <<st, named, managed>>, pc' # "cbDestroy",
         \/ \E v \in managed : PixmapUpdate(v)
         \/ UNCHANGED <<out, pixmap>>
         \/ UNCHANGED pixmap /\ \E r \in Request : /\ r.op \notin {"name", "freepix"}
                                                   /\ out' = Append(out, r)
  PROVE  XInv'
<1>0. PixmapTyped /\ out \in Seq(Request) /\ queue \in Seq(Event) /\ pc # "cbDestroy"
  BY TypedState DEF Receive
<1>1. \A w \in Windows : /\ HasD(w)' => HasD(w)
                         /\ Buried(queue, w) => Buried(queue', w)
                         /\ Unmaps(w) => Unmaps(w)'
  BY <1>0, ReceiveEnds DEF Leaving
<1>2. ASSUME NEW v \in managed, PixmapUpdate(v) PROVE XInv'
  BY <1>0, <1>1, <1>2, UpdateXInv
<1>3. CASE UNCHANGED <<out, pixmap>>
  BY <1>0, <1>1, <1>3, StillXInv, QuietOut
<1>4. ASSUME UNCHANGED pixmap, NEW r \in Request, r.op \notin {"name", "freepix"},
             out' = Append(out, r)
      PROVE  XInv'
  <2>1. /\ \A p : Freed(p) => Freed(p)'
        /\ \A w, p : Pend(out', w, p) => Pend(out, w, p)
    BY <1>0, <1>4, PlainOut
  <2>. QED BY <1>0, <1>1, <1>4, <2>1, StillXInv
<1>. QED BY <1>2, <1>3, <1>4

\* A window leaves the list with its pixmap, to be released.
LEMMA RemoveXInv ==
  ASSUME IInv, PInv, XInv, NEW t, NEW how,
         \/ t = "UnmapNotify" /\ how = "unmap"
         \/ t = "DestroyNotify" /\ how = "destroy",
         Remove(t, how)
  PROVE  XInv'
<1>. DEFINE h == Head(queue).w
<1>0. /\ Receive(t) /\ h \in Windows /\ pc = "wait" /\ t \in Leaving
      /\ PixmapTyped /\ out \in Seq(Request) /\ queue \in Seq(Event)
  BY HeadWindow, TypedState DEF Remove, EventTypes, Leaving
<1>1. /\ UNCHANGED <<st, named, pixmap>>
      /\ IF h \in managed
           THEN /\ managed' = managed \ {h}
                /\ out' = Append(out, Req("dmgdestroy", h, NoPixmap))
                /\ pc' = "cbDestroy" /\ cur' = h /\ via' = how
           ELSE UNCHANGED <<managed, out, pc, cur, via>>
  BY DEF Remove, serverVars, Lookup, Goto, Stay
<1>2. /\ Req("dmgdestroy", h, NoPixmap) \in Request
      /\ Req("dmgdestroy", h, NoPixmap).op \notin {"name", "freepix"}
  <2>1. Req("dmgdestroy", h, NoPixmap) \in Request
    BY <1>0, RequestTyped DEF Ops
  <2>. QED BY <2>1, ReqFields
<1>3. /\ \A p : Freed(p) => Freed(p)'
      /\ \A w, p : Pend(out', w, p) => Pend(out, w, p)
  BY <1>0, <1>1, <1>2, PlainOut, QuietOut
<1>4. \A w \in Windows : /\ HasD(w)' => HasD(w)
                         /\ Buried(queue, w) => Buried(queue', w)
                         /\ Unmaps(w) => Unmaps(w)' \/ h = w
  BY <1>0, ReceiveEnds
<1>5. h \notin managed'
  BY <1>1
<1>6. \A w \in Windows : Ended(w)' /\ Unmapping(w)'
  BY <1>1, <1>4, <1>5 DEF XInv, Ended, Unmapping
<1>7. Released'
  BY <1>0, <1>1 DEF XInv, Released
\* The pixmap of a window that is destroyed is bound no more: it was unmapped
\* first, and that was read.
<1>8. ASSUME h \in managed, t = "DestroyNotify"
      PROVE  st[h] = "dead" /\ (pixmap[h] # NoPixmap => named[pixmap[h]] = Unbound)
  <2>1. HasD(h) /\ Ended(h) /\ Unmapping(h)
    BY <1>0, <1>8, ReceiveEnds DEF XInv
  <2>2. ~Unmaps(h)
    <3>1. \A w : w = h => ~Unmaps(w)' /\ (Unmaps(w) => Unmaps(w)')
      BY <1>0, <1>8, <2>1, ReceiveEnds DEF Ended
    <3>. QED BY <3>1
  <2>. QED BY <1>8, <2>1, <2>2 DEF Ended, Unmapping
<1>9. ASSUME NEW p, Owned(p), ~Owned(p)'
      PROVE  h \in managed /\ t = "DestroyNotify" /\ pixmap[h] = p
  <2>1. PICK w \in managed \cap Windows : pixmap[w] = p
    BY <1>0, <1>9 DEF Owned
  <2>2. w = h /\ h \in managed
    BY <1>1, <1>9, <2>1 DEF Owned
  <2>3. t = "DestroyNotify"
    BY <1>1, <1>9, <2>1, <2>2 DEF Owned
  <2>. QED BY <2>1, <2>2, <2>3
<1>10. AllOwned'
  <2>. SUFFICES ASSUME NEW p \in Pixmaps, named[p] # Unbound PROVE Owned(p)' \/ Freed(p)'
    BY <1>1 DEF AllOwned
  <2>1. p # NoPixmap
    BY WindowAssumption
  <2>. QED BY <1>3, <1>8, <1>9, <2>1 DEF XInv, AllOwned
<1>11. NamesOwned'
  <2>. SUFFICES ASSUME NEW w \in Windows, NEW p \in Pixmaps, Pend(out, w, p), st[w] # "dead",
                       ~Owned(p)'
                PROVE  FALSE
    BY <1>1, <1>3 DEF NamesOwned
  <2>1. p # NoPixmap /\ In(out, Req("name", w, p)) /\ Owned(p)
    BY PendIn, WindowAssumption DEF XInv, NamesOwned
  <2>2. h \in managed /\ t = "DestroyNotify" /\ pixmap[h] = p
    BY <1>9, <2>1
  <2>3. w = h
    BY <1>0, <2>1, <2>2 DEF PInv, Held, NamedFor
  <2>. QED BY <1>8, <2>2, <2>3
<1>. QED BY <1>6, <1>7, <1>10, <1>11 DEF XInv

\* A MapRequest or MapNotify.
LEMMA MapXInv ==
  ASSUME IInv, XInv, HandleMapRequest \/ HandleMapNotify
  PROVE  XInv'
<1>1. CASE HandleMapRequest
  <2>1. Receive("MapRequest") /\ Head(queue).w \in Windows /\ pc = "wait"
    BY <1>1, HeadWindow DEF HandleMapRequest, EventTypes
  <2>2. /\ UNCHANGED <<st, named, managed, pixmap>> /\ pc' # "cbDestroy"
        /\ out' = Append(out, Req("map", Head(queue).w, NoPixmap))
    BY <1>1, <2>1 DEF HandleMapRequest, serverVars, StartCreate, Goto, Stay
  <2>3. Req("map", Head(queue).w, NoPixmap) \in Request
    BY <2>1, RequestTyped DEF Ops
  <2>4. Req("map", Head(queue).w, NoPixmap).op \notin {"name", "freepix"}
    BY ReqFields
  <2>5. \E r \in Request : r.op \notin {"name", "freepix"} /\ out' = Append(out, r)
    BY <2>2, <2>3, <2>4
  <2>6. "MapRequest" \notin Leaving
    BY DEF Leaving
  <2>. QED BY <2>1, <2>2, <2>5, <2>6, ReceiveXInv
<1>2. CASE HandleMapNotify
  <2>1. Receive("MapNotify") /\ pc = "wait"
    BY <1>2, HeadWindow DEF HandleMapNotify, EventTypes
  <2>2. UNCHANGED <<st, named, managed>> /\ pc' # "cbDestroy"
    BY <1>2, <2>1 DEF HandleMapNotify, serverVars, StartCreate, Goto, Stay
  <2>3. (\E v \in managed : PixmapUpdate(v)) \/ UNCHANGED <<out, pixmap>>
    BY <1>2 DEF HandleMapNotify, Lookup
  <2>4. "MapNotify" \notin Leaving
    BY DEF Leaving
  <2>. QED BY <2>1, <2>2, <2>3, <2>4, ReceiveXInv
<1>. QED BY <1>1, <1>2

\* The other handlers.
LEMMA NoteXInv ==
  ASSUME IInv, XInv, NoteHandlers
  PROVE  XInv'
<1>1. PICK t \in EventTypes \ (Leaving \cup {"MapNotify", "MapRequest"}) : Receive(t)
  BY NoteSteps
<1>2. UNCHANGED <<st, named, managed>> /\ pc' # "cbDestroy"
  BY NoteSteps
<1>3. \/ \E v \in managed : PixmapUpdate(v)
      \/ UNCHANGED <<out, pixmap>>
      \/ UNCHANGED pixmap /\ \E r \in Request : /\ r.op \notin {"name", "freepix"}
                                                /\ out' = Append(out, r)
  <2>1. CASE HandleConfigureRequest
    <3>1. Head(queue).w \in Windows
      BY <2>1, HeadWindow DEF HandleConfigureRequest, EventTypes
    <3>2. Req("resize", Head(queue).w, NoPixmap) \in Request
      BY <3>1, RequestTyped DEF Ops
    <3>3. Req("resize", Head(queue).w, NoPixmap).op \notin {"name", "freepix"}
      BY ReqFields
    <3>. QED BY <2>1, <3>2, <3>3 DEF HandleConfigureRequest, threadVars
  <2>2. CASE HandleDamageNotify
    <3>1. Head(queue).w \in Windows \cup {Root}
      BY <2>2, TypedState, Received DEF HandleDamageNotify, EventTypes
    <3>2. Req("dmgadd", Head(queue).w, NoPixmap) \in Request
      BY <3>1, RequestTyped DEF Ops
    <3>3. Req("dmgadd", Head(queue).w, NoPixmap).op \notin {"name", "freepix"}
      BY ReqFields
    <3>. QED BY <2>2, <3>2, <3>3 DEF HandleDamageNotify
  <2>3. CASE HandleConfigureNotify
    BY <2>3 DEF HandleConfigureNotify, Lookup
  <2>. QED BY <2>1, <2>2, <2>3 DEF NoteHandlers, HandleShapeNotify, HandlePropertyNotify,
     HandleCursorNotify
<1>. QED BY <1>1, <1>2, <1>3, ReceiveXInv

\* Every step preserves the invariant.
LEMMA NextXInv == ~ReuseXids /\ IInv /\ PInv /\ XInv /\ [Next]_vars => XInv'
<1>. SUFFICES ASSUME ~ReuseXids, IInv, PInv, XInv, [Next]_vars PROVE XInv'
  OBVIOUS
<1>1. CASE EventThread
  BY <1>1, SilentXInv, PropertiesXInv, FinishXInv, DestroyReturnXInv, MapXInv, RemoveXInv,
     NoteXInv
     DEF EventThread, NoteHandlers, HandleUnmapNotify, HandleDestroyNotify
<1>2. CASE UNCHANGED vars
  BY <1>2 DEF XInv, AllOwned, NamesOwned, Released, Ended, Unmapping, Owned, Freed, HasD, Unmaps,
     vars, serverVars, threadVars
<1>. QED BY <1>1, <1>2, OutsideXInv, ClientXInv DEF Next

\* No pixmaps when the thread starts.
LEMMA InitXInv == Init => XInv
<1>. SUFFICES ASSUME Init PROVE XInv
  OBVIOUS
<1>1. /\ queue = <<>> /\ out = <<>> /\ \A w \in Windows : pixmap[w] = NoPixmap
      /\ \A p \in Pixmaps : named[p] = Unbound
  BY DEF Init, ServerInit
<1>2. \A w : ~HasD(w)
  BY <1>1, HasNone DEF HasD
<1>4. \A w : Buried(queue, w)
  <2>1. \A i : i \notin 1 .. Len(queue)
    BY <1>1
  <2>. QED BY <2>1 DEF Buried
<1>3. \A w, p : ~Pend(out, w, p)
  BY <1>1 DEF Pend
<1>. QED BY <1>1, <1>2, <1>3, <1>4 DEF XInv, AllOwned, NamesOwned, Released, Ended, Unmapping

\* A pixmap that is owned or about to be freed is not left behind.
LEMMA XInvNoLeak == XInv => NoPixmapLeak
  BY LenProperties DEF XInv, AllOwned, Owned, Freed, In, NoPixmapLeak

\* For any number of windows and any interleaving, if XIDs are not used again: every
\* bound pixmap has an owner or a request to free it, for a window is unmapped
\* before it is destroyed and the UnmapNotify is read first.
THEOREM XInvHolds ==
  ASSUME ReuseXids = FALSE
  PROVE  Spec => []XInv
<1>1. Init => XInv
  BY InitXInv
<1>2. IInv /\ PInv /\ XInv /\ [Next]_vars => XInv'
  BY NextXInv
<1>. QED BY <1>1, <1>2, IInvHolds, PInvHolds, PTL DEF Spec

\* No composite pixmap is left at the server without an owner, although the
\* DestroyNotify handler never frees one, as long as no XID is used again.
THEOREM NoLeak ==
  ASSUME ReuseXids = FALSE
  PROVE  Spec => []NoPixmapLeak
  BY XInvHolds, XInvNoLeak, PTL
=============================================================================
