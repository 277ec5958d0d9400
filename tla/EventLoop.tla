------------------------------ MODULE EventLoop ------------------------------
(***************************************************************************)
(* The event thread of libxcwm (event_loop.c, with _xcwm_window_create and *)
(* _xcwm_window_remove of window.c), against the X server.                 *)
(*                                                                         *)
(* A request that has a reply is a step of its own, enabled once out is    *)
(* empty: the server has then executed all that went before, and the       *)
(* applications may act between two such steps of one handler.             *)
(***************************************************************************)
EXTENDS XServer

VARIABLES
  managed,   \* windows of the nodes under _xcwm_window_list_head
  pixmap,    \* composite_pixmap_id of each window
  initial,   \* windows whose initial_damage flag is set
  pc,        \* where the event thread is
  cur,       \* the window its handler, or its callback, is about
  via,       \* what led it there: kind of event, or adopt
  todo       \* windows _xcwm_windows_adopt has still to look at

threadVars == <<managed, pixmap, initial, pc, cur, via, todo>>
vars == <<serverVars, queue, out, budget, threadVars>>

----------------------------------------------------------------------------
(* The event thread.  Goto moves it; Resume ends what it was doing. *)

PcValues == {"start", "adopt", "wait", "attrs", "geom", "props", "shape", "select",
             "reshape", "cbCreate", "cbDestroy", "cbNote", "crashed"}
ViaValues == {"none", "adopt", "maprequest", "mapnotify", "unmap", "destroy",
              "damage", "shape", "property", "cursor"}

Goto(where, w, how) ==
  pc' = where /\ cur' = w /\ via' = how
Stay == UNCHANGED <<pc, cur, via>>
Resume == Goto(IF via = "adopt" THEN "adopt" ELSE "wait", NoWindow, "none")

\* xcb_wait_for_event, and the dispatch on response_type.
Receive(type) == /\ pc = "wait"
                 /\ queue # <<>>
                 /\ Head(queue).type = type
                 /\ queue' = Tail(queue)

\* _xcwm_get_window_node_by_window_id
Lookup(w) == w \in managed

\* XIDs xcb_generate_id may return.
UnusedPixmaps == {p \in Pixmaps : /\ named[p] = Unbound
                                 /\ \A w \in Windows : pixmap[w] # p
                                 /\ \A i \in DOMAIN out : out[i].p # p}

\* Seeded fault: releases a pixmap the window has not got.
ReleaseRequests_Unchecked(w) == <<Req("freepix", NoWindow, pixmap[w])>>

\* _xcwm_window_composite_pixmap_release
ReleaseRequests(w) == IF pixmap[w] = NoPixmap THEN <<>>
                      ELSE <<Req("freepix", NoWindow, pixmap[w])>>

\* Seeded fault: the new pixmap is not remembered.
PixmapUpdate_Forgotten(w) ==
  /\ w \in Windows /\ UnusedPixmaps # {}
  /\ LET p == CHOOSE q \in UnusedPixmaps : TRUE IN
       out' = out \o Append(ReleaseRequests(w), Req("name", w, p))
  /\ UNCHANGED pixmap

\* _xcwm_window_composite_pixmap_update; its request is not flushed.
PixmapUpdate(w) ==
  /\ w \in Windows /\ UnusedPixmaps # {}
  /\ LET p == CHOOSE q \in UnusedPixmaps : TRUE IN
       /\ out' = out \o Append(ReleaseRequests(w), Req("name", w, p))
       /\ pixmap' = [pixmap EXCEPT ![w] = p]

\* Seeded fault: a managed window is created again.
StartCreate_Again(w, how) == Goto("attrs", w, how)

\* The first test of _xcwm_window_create: a managed window is not created.
StartCreate(w, how) ==
  IF Lookup(w) THEN Stay ELSE Goto("attrs", w, how)

AdoptQuery ==
  /\ pc = "start" /\ out = <<>>
  /\ pc' = "adopt"
  /\ todo' = {w \in Windows : Live(w)}
  /\ UNCHANGED <<serverVars, queue, out, budget, managed, pixmap, initial,
                 cur, via>>

AdoptNext(w) ==
  /\ pc = "adopt" /\ out = <<>>
  /\ w \in todo
  /\ todo' = todo \ {w}
  /\ IF st[w] = "mapped" THEN StartCreate(w, "adopt") ELSE Stay
  /\ UNCHANGED <<serverVars, queue, out, budget, managed, pixmap, initial>>

AdoptDone ==
  /\ pc = "adopt" /\ todo = {}
  /\ pc' = "wait"
  /\ UNCHANGED <<serverVars, queue, out, budget, managed, pixmap, initial,
                 cur, via, todo>>

\* Seeded fault: the window is created but not mapped.
HandleMapRequest_NoMap ==
  /\ Receive("MapRequest")
  /\ StartCreate(Head(queue).w, "maprequest")
  /\ UNCHANGED <<serverVars, out, budget, managed, pixmap, initial, todo>>

HandleMapRequest ==
  /\ Receive("MapRequest")
  /\ LET w == Head(queue).w IN
       /\ out' = Append(out, Req("map", w, NoPixmap))
       /\ StartCreate(w, "maprequest")
  /\ UNCHANGED <<serverVars, budget, managed, pixmap, initial, todo>>

\* Seeded fault: override-redirect windows, never in a MapRequest, are missed.
HandleMapNotify_KnownOnly ==
  /\ Receive("MapNotify")
  /\ IF Lookup(Head(queue).w) THEN PixmapUpdate(Head(queue).w)
                              ELSE UNCHANGED <<out, pixmap>>
  /\ Stay
  /\ UNCHANGED <<serverVars, budget, managed, initial, todo>>

HandleMapNotify ==
  /\ Receive("MapNotify")
  /\ LET w == Head(queue).w IN
       /\ StartCreate(w, "mapnotify")
       /\ IF Lookup(w) THEN PixmapUpdate(w) ELSE UNCHANGED <<out, pixmap>>
  /\ UNCHANGED <<serverVars, budget, managed, initial, todo>>

\* _xcwm_get_window_attributes: gives up on a window that is gone, or that
\* is InputOnly; otherwise notes the override_redirect flag.
CreateAttributes ==
  /\ pc = "attrs" /\ out = <<>>
  /\ IF Live(cur) /\ kind[cur] # "inputonly"
       THEN /\ Goto("geom", cur, via)
            /\ initial' = IF kind[cur] = "override" THEN initial \cup {cur}
                                                    ELSE initial
       ELSE Resume /\ UNCHANGED initial
  /\ UNCHANGED <<serverVars, queue, out, budget, managed, pixmap, todo>>

CreateGeometry ==
  /\ pc = "geom" /\ out = <<>>
  /\ IF Live(cur) THEN Goto("props", cur, via) /\ UNCHANGED initial
                  ELSE Resume /\ initial' = initial \ {cur}
  /\ UNCHANGED <<serverVars, queue, out, budget, managed, pixmap, todo>>

\* Event mask, properties, damage object.  Their failures are tolerated.  The
\* server reports what is on a mapped window as its first damage.
CreateProperties ==
  /\ pc = "props" /\ out = <<>>
  /\ IF Live(cur)
       THEN /\ listening' = listening \cup {<<"PropertyNotify", cur>>}
            /\ dmgObj' = dmgObj \cup {cur}
       ELSE UNCHANGED <<listening, dmgObj>>
  /\ IF st[cur] = "mapped"
       THEN \E f \in BOOLEAN : Emit(<<Ev("DamageNotify", cur, f)>>)
       ELSE UNCHANGED queue
  /\ Goto("shape", cur, via)
  /\ UNCHANGED <<st, kind, named, out, budget, managed, pixmap, initial, todo>>

\* _xcwm_window_set_shape uses the reply without a test for NULL.
CreateShape ==
  /\ pc = "shape" /\ out = <<>>
  /\ Goto(IF Live(cur) THEN "select" ELSE "crashed", cur, via)
  /\ UNCHANGED <<serverVars, queue, out, budget, managed, pixmap, initial, todo>>

\* Shape events, the list, and, except after a MapRequest, a pixmap; then
\* the CREATE callback.
CreateFinish ==
  /\ pc = "select" /\ out = <<>>
  /\ listening' = IF Live(cur) THEN listening \cup {<<"ShapeNotify", cur>>}
                               ELSE listening
  /\ managed' = managed \cup {cur}
  /\ IF via = "maprequest" THEN UNCHANGED <<out, pixmap>>
                           ELSE PixmapUpdate(cur)
  /\ Goto("cbCreate", cur, via)
  /\ UNCHANGED <<st, kind, named, dmgObj, queue, budget, initial, todo>>

\* Seeded fault: the damage object of a removed window is left at the server.
Remove_KeepsDamage(type, how) ==
  /\ Receive(type)
  /\ LET w == Head(queue).w IN
       IF Lookup(w)
         THEN /\ managed' = managed \ {w}
              /\ initial' = initial \ {w}
              /\ Goto("cbDestroy", w, how)
         ELSE Stay /\ UNCHANGED <<managed, initial>>
  /\ UNCHANGED <<serverVars, out, budget, pixmap, todo>>

\* _xcwm_window_remove, then the DESTROY callback.
Remove(type, how) ==
  /\ Receive(type)
  /\ LET w == Head(queue).w IN
       IF Lookup(w)
         THEN /\ managed' = managed \ {w}
              /\ initial' = initial \ {w}
              /\ out' = Append(out, Req("dmgdestroy", w, NoPixmap))
              /\ Goto("cbDestroy", w, how)
         ELSE Stay /\ UNCHANGED <<managed, initial, out>>
  /\ UNCHANGED <<serverVars, budget, pixmap, todo>>

HandleUnmapNotify == Remove("UnmapNotify", "unmap")
HandleDestroyNotify == Remove("DestroyNotify", "destroy")

HandleConfigureRequest ==
  /\ Receive("ConfigureRequest")
  /\ out' = IF Head(queue).flag
              THEN Append(out, Req("resize", Head(queue).w, NoPixmap))
              ELSE out
  /\ UNCHANGED <<serverVars, budget, threadVars>>

\* Seeded fault: a resized window keeps its pixmap.
HandleConfigureNotify_Ignored ==
  Receive("ConfigureNotify") /\ UNCHANGED <<serverVars, out, budget, threadVars>>

HandleConfigureNotify ==
  /\ Receive("ConfigureNotify")
  /\ IF Lookup(Head(queue).w) THEN PixmapUpdate(Head(queue).w)
                              ELSE UNCHANGED <<out, pixmap>>
  /\ UNCHANGED <<serverVars, budget, managed, initial, pc, cur, via, todo>>

\* Damage of an unlisted window is dropped.  The first damage of an override-
\* redirect window, and one larger than the window is thought to be, is
\* replaced at the server by damage to the whole window, to come back later.
HandleDamageNotify ==
  /\ Receive("DamageNotify")
  /\ LET e == Head(queue) IN
     \/ /\ ~Lookup(e.w)
        /\ Stay /\ UNCHANGED <<initial, out>>
     \/ /\ Lookup(e.w) /\ (e.w \in initial \/ e.flag)
        /\ initial' = initial \ {e.w}
        /\ out' = Append(out, Req("dmgadd", e.w, NoPixmap))
        /\ Stay
     \/ /\ Lookup(e.w) /\ e.w \notin initial /\ ~e.flag
        /\ Goto("cbNote", e.w, "damage")
        /\ UNCHANGED <<initial, out>>
  /\ UNCHANGED <<serverVars, budget, managed, pixmap, todo>>

\* A shape event about a window that is no longer in the list dereferences
\* NULL.
HandleShapeNotify ==
  /\ Receive("ShapeNotify")
  /\ LET e == Head(queue) IN
       IF Lookup(e.w)
         THEN Goto(IF e.flag THEN "reshape" ELSE "cbNote", e.w, "shape")
         ELSE Goto("crashed", e.w, "shape")
  /\ UNCHANGED <<serverVars, out, budget, managed, pixmap, initial, todo>>

Reshape ==
  /\ pc = "reshape" /\ out = <<>>
  /\ Goto(IF Live(cur) THEN "cbNote" ELSE "crashed", cur, via)
  /\ UNCHANGED <<serverVars, queue, out, budget, managed, pixmap, initial, todo>>

\* Seeded fault: properties of a window no longer in the list are passed on.
HandlePropertyNotify_AnyWindow ==
  /\ Receive("PropertyNotify")
  /\ IF Head(queue).flag THEN Stay ELSE Goto("cbNote", Head(queue).w, "property")
  /\ UNCHANGED <<serverVars, out, budget, managed, pixmap, initial, todo>>

\* WM_PROTOCOLS is for the library alone, and so are the properties that no
\* atom is registered for.
HandlePropertyNotify ==
  /\ Receive("PropertyNotify")
  /\ LET e == Head(queue) IN
       IF Lookup(e.w) /\ ~e.flag THEN Goto("cbNote", e.w, "property")
                                 ELSE Stay
  /\ UNCHANGED <<serverVars, out, budget, managed, pixmap, initial, todo>>

HandleCursorNotify ==
  /\ Receive("CursorNotify")
  /\ Goto("cbNote", NoWindow, "cursor")
  /\ UNCHANGED <<serverVars, out, budget, managed, pixmap, initial, todo>>

CallbackReturn ==
  /\ pc \in {"cbCreate", "cbNote"}
  /\ Resume
  /\ UNCHANGED <<serverVars, queue, out, budget, managed, pixmap, initial, todo>>

\* Seeded fault: the pixmap is not released.
DestroyReturn_KeepsPixmap ==
  /\ pc = "cbDestroy"
  /\ pixmap' = [pixmap EXCEPT ![cur] = NoPixmap]
  /\ Resume
  /\ UNCHANGED <<serverVars, queue, out, budget, managed, initial, todo>>

\* After DESTROY the window is released; its pixmap only in the UnmapNotify
\* handler.
DestroyReturn ==
  /\ pc = "cbDestroy"
  /\ out' = IF via = "unmap" THEN out \o ReleaseRequests(cur) ELSE out
  /\ pixmap' = [pixmap EXCEPT ![cur] = NoPixmap]
  /\ Resume
  /\ UNCHANGED <<serverVars, queue, budget, managed, initial, todo>>

\* The window manager moves or resizes a window from a thread of its own
\* (xcwm_window_configure, which ends in _xcwm_resize_window).
ClientConfigure(w) ==
  /\ w \in managed \ {Root}
  /\ Spend
  /\ out' = Append(out, Req("resize", w, NoPixmap))
  /\ UNCHANGED <<serverVars, queue, threadVars>>

EventThread ==
  \/ AdoptQuery \/ (\E w \in Windows : AdoptNext(w)) \/ AdoptDone
  \/ HandleMapRequest \/ HandleMapNotify
  \/ CreateAttributes \/ CreateGeometry \/ CreateProperties \/ CreateShape
  \/ CreateFinish
  \/ HandleUnmapNotify \/ HandleDestroyNotify
  \/ HandleConfigureRequest \/ HandleConfigureNotify
  \/ HandleDamageNotify \/ HandleShapeNotify \/ Reshape
  \/ HandlePropertyNotify \/ HandleCursorNotify
  \/ CallbackReturn \/ DestroyReturn

----------------------------------------------------------------------------
\* The root is in the list; initial_damage of its malloc'ed xcwm_window_t is
\* never written.
Init ==
  /\ ServerInit
  /\ managed = {Root}
  /\ pixmap = [w \in Windows |-> NoPixmap]
  /\ initial \in {{}, {Root}}
  /\ pc = "start" /\ cur = NoWindow /\ via = "none"
  /\ todo = {}

Outside == (Applications \/ Exec) /\ UNCHANGED threadVars
Next == Outside \/ (\E w \in Windows : ClientConfigure(w)) \/ EventThread

\* The thread keeps running.  The server executes what has been flushed: all
\* that precedes a request followed by xcb_flush, or a reply we wait for.
RoundTrips == {"start", "adopt", "attrs", "geom", "props", "shape", "select",
               "reshape"}
MustExec == \/ pc \in RoundTrips
            \/ \E i \in DOMAIN out : out[i].op \in {"map", "resize"}

Spec == Init /\ [][Next]_vars
FairSpec == Spec /\ WF_vars(EventThread) /\ WF_vars(MustExec /\ Exec /\ UNCHANGED threadVars)

----------------------------------------------------------------------------
(* Properties *)

\* Type invariant: among the rest, requests never carry XCB_NONE where a
\* pixmap is due, and the handlers only ever work on windows.
TypeOK ==
  /\ ServerTypeOK
  /\ managed \subseteq Windows \cup {Root}
  /\ pixmap \in [Windows -> Pixmaps \cup {NoPixmap}]
  /\ initial \subseteq Windows \cup {Root}
  /\ pc \in PcValues
  /\ cur \in Windows \cup {Root, NoWindow}
  /\ via \in ViaValues
  /\ todo \subseteq Windows

\* What the thread knows between two steps of a handler, the environment acting
\* in between: a window being created is not in the list yet, one that is
\* being reported is, and one being released is not any more.
Control ==
  /\ Root \in managed
  /\ pc \in {"attrs", "geom", "props", "shape", "select"} => cur \in Windows \ managed
  /\ pc = "cbCreate" => cur \in Windows \cap managed
  /\ pc = "cbDestroy" => cur \in Windows \ managed
  /\ pc = "reshape" => via = "shape" /\ cur \in managed
  /\ pc = "cbNote" => \/ via = "cursor" /\ cur = NoWindow
                      \/ via \in {"damage", "shape", "property"} /\ cur \in managed

\* The callbacks in the order the client gets them are those of the contract:
\* CREATE and DESTROY alternate for a window, and what else is reported of it
\* falls between the two, whatever order the events arrive in.
AnnouncedBar ==
  CASE pc = "cbCreate"  -> (managed \ {Root}) \ {cur}
    [] pc = "cbDestroy" -> (managed \ {Root}) \cup {cur}
    [] OTHER            -> managed \ {Root}
CbBar ==
  CASE pc = "cbCreate"  -> [type |-> "create", w |-> cur]
    [] pc = "cbDestroy" -> [type |-> "destroy", w |-> cur]
    [] pc = "cbNote"    -> [type |-> via, w |-> cur]
    [] OTHER            -> [type |-> "none", w |-> NoWindow]
Contract == INSTANCE CallbackContract WITH announced <- AnnouncedBar, cb <- CbBar
ContractHolds == Contract!Spec

\* The thread has read every event and the server has executed every request.
Quiescent == pc = "wait" /\ queue = <<>> /\ out = <<>>
Viewable == {w \in Windows : st[w] = "mapped" /\ kind[w] # "inputonly"}

\* However events overtake the queries of a create, and whatever came and
\* went before the thread looked, once it has caught up its list holds
\* the viewable windows, each with the events and the damage it needs, and no
\* damage object is left on any other.
ListMatchesServer ==
  Quiescent => /\ managed \ {Root} = Viewable
               /\ dmgObj = managed
               /\ \A w \in Viewable, t \in {"PropertyNotify", "ShapeNotify"} :
                    <<t, w>> \in listening

\* Once it has caught up, the composite pixmap the client reads from is the
\* one the window is drawn into now, through every map and resize.
PixmapsCurrent ==
  Quiescent => \A w \in Viewable :
                 /\ pixmap[w] # NoPixmap
                 /\ named[pixmap[w]] = [w |-> w, fresh |-> TRUE]

\* No pixmap is left at the server without an owner: each is one of a listed
\* window, or of the window being released after its UnmapNotify, or is about
\* to be freed.  (A window that is destroyed has always been unmapped first.)
NoPixmapLeak ==
  \A p \in Pixmaps :
    named[p] # Unbound =>
      \/ \E w \in managed \cap Windows : pixmap[w] = p
      \/ pc = "cbDestroy" /\ via = "unmap" /\ pixmap[cur] = p
      \/ \E i \in DOMAIN out : out[i] = Req("freepix", NoWindow, p)

\* If applications and user come to rest, the list comes to agree with the
\* server and stays so, unless the thread has dereferenced NULL.
EventuallyAgrees == <>[](pc = "crashed" \/ managed \ {Root} = Viewable)

\* xcwm_internal.h has lookups return NULL for a window that is not listed;
\* no handler dereferences such a NULL.
NeverCrashes == pc # "crashed"
=============================================================================
