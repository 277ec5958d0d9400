------------------------------- MODULE XServer -------------------------------
(***************************************************************************)
(* The X server as libxcwm sees it, and the X applications that come and   *)
(* go: all of it outside the library, and modelled from how the library    *)
(* uses it.                                                                *)
(*                                                                         *)
(* The server is asynchronous on both sides.  Its events wait in queue     *)
(* until the event thread reads them, so a handler always sees the past.   *)
(* The requests that have no reply wait in out until the server executes   *)
(* them.                                                                   *)
(***************************************************************************)
EXTENDS Naturals, Sequences

CONSTANTS Windows,    \* XIDs of the top-level windows of the applications
          Root,       \* the root window
          NoWindow,   \* no window
          Pixmaps,    \* XIDs for the composite pixmaps
          NoPixmap,   \* XCB_NONE
          MaxOps,     \* bound: how many times applications and user may act
          ReuseXids   \* may a destroyed window's XID name a new window?

ASSUME WindowAssumption == /\ Root \notin Windows
                           /\ NoWindow \notin Windows \cup {Root}
                           /\ NoPixmap \notin Pixmaps
ASSUME BoundAssumption == MaxOps \in Nat /\ ReuseXids \in BOOLEAN

VARIABLES
  st,        \* state of each window at the server
  kind,      \* normal, override(-redirect) or InputOnly
  named,     \* what the server has bound each pixmap XID to: the backing pixmap
             \* of a window, fresh until a map or a resize replaces that
  dmgObj,    \* windows that carry our damage object
  listening, \* <<event type, window>> we have selected
  queue,     \* events sent to us and not yet read
  out,       \* requests of ours not yet executed
  budget     \* actions left to applications and user

serverVars == <<st, kind, named, dmgObj, listening>>

----------------------------------------------------------------------------
(* Events and requests *)

Kinds == {"normal", "override", "inputonly"}
EventTypes == {"MapRequest", "MapNotify", "UnmapNotify", "DestroyNotify",
               "ConfigureRequest", "ConfigureNotify", "DamageNotify",
               "ShapeNotify", "PropertyNotify", "CursorNotify"}

\* flag tells a handler's branch: an area beyond the bounds of the window
\* (DamageNotify), shaped (ShapeNotify), a property the client is not told of
\* (PropertyNotify), a value_mask with position or size (ConfigureRequest).
Event ==
  [type : EventTypes \ {"DamageNotify", "CursorNotify"}, w : Windows, flag : BOOLEAN]
    \cup [type : {"DamageNotify"}, w : Windows \cup {Root}, flag : BOOLEAN]
    \cup [type : {"CursorNotify"}, w : {NoWindow}, flag : {FALSE}]
Ev(type, w, flag) == [type |-> type, w |-> w, flag |-> flag]

Ops == {"map", "resize", "name", "freepix", "dmgdestroy", "dmgadd"}
Request == [op : Ops \ {"name", "freepix"}, w : Windows \cup {Root}, p : {NoPixmap}]
           \cup [op : {"name"}, w : Windows, p : Pixmaps]
           \cup [op : {"freepix"}, w : {NoWindow}, p : Pixmaps]
Req(op, w, p) == [op |-> op, w |-> w, p |-> p]

Live(w) == st[w] \in {"unmapped", "mapped"}
Unbound == [w |-> NoWindow, fresh |-> FALSE]
\* The window gets another backing pixmap, or none: the names it has are stale.
Outdated(w) ==
  [p \in Pixmaps |-> IF named[p].w = w THEN [w |-> w, fresh |-> FALSE]
                                       ELSE named[p]]

----------------------------------------------------------------------------
(* The applications and the user (external).  Each action spends one unit  *)
(* of budget; what they do through the server queues events for us.        *)

Spend == budget > 0 /\ budget' = budget - 1

Emit(events) == queue' = queue \o events

CreateWindow(w) ==
  /\ st[w] = "free"
  /\ Spend
  /\ st' = [st EXCEPT ![w] = "unmapped"]
  /\ \E k \in Kinds : kind' = [kind EXCEPT ![w] = k]
  /\ UNCHANGED <<named, dmgObj, listening, queue, out>>

\* We hold SubstructureRedirect on the root (context.c), so the server turns
\* the request into a MapRequest, except for override-redirect windows.
MapWindow(w) ==
  /\ st[w] = "unmapped"
  /\ Spend
  /\ IF kind[w] = "override"
       THEN /\ st' = [st EXCEPT ![w] = "mapped"]
            /\ Emit(<<Ev("MapNotify", w, FALSE)>>)
       ELSE /\ Emit(<<Ev("MapRequest", w, FALSE)>>)
            /\ UNCHANGED st
  /\ UNCHANGED <<kind, named, dmgObj, listening, out>>

UnmapEvents(w) ==
  IF st[w] = "mapped" THEN <<Ev("UnmapNotify", w, FALSE)>> ELSE <<>>

UnmapWindow(w) ==
  /\ st[w] = "mapped"
  /\ Spend
  /\ Emit(UnmapEvents(w))
  /\ st' = [st EXCEPT ![w] = "unmapped"]
  /\ named' = Outdated(w)
  /\ UNCHANGED <<kind, dmgObj, listening, out>>

\* ICCCM withdrawal: after unmapping, the application also sends a synthetic
\* UnmapNotify, which the handler's mask (& ~0x80) makes look like a real one.
WithdrawWindow(w) ==
  /\ Live(w) /\ kind[w] # "override"
  /\ Spend
  /\ Emit(Append(UnmapEvents(w), Ev("UnmapNotify", w, FALSE)))
  /\ st' = [st EXCEPT ![w] = "unmapped"]
  /\ named' = Outdated(w)
  /\ UNCHANGED <<kind, dmgObj, listening, out>>

\* The server unmaps first, and drops the damage object and the selections.
DestroyWindow(w) ==
  /\ Live(w)
  /\ Spend
  /\ Emit(Append(UnmapEvents(w), Ev("DestroyNotify", w, FALSE)))
  /\ st' = [st EXCEPT ![w] = IF ReuseXids THEN "free" ELSE "dead"]
  /\ named' = Outdated(w)
  /\ dmgObj' = dmgObj \ {w}
  /\ listening' = {l \in listening : l[2] # w}
  /\ UNCHANGED <<kind, out>>

\* ConfigureWindow by the application: redirected to us unless
\* override-redirect.
ConfigureWindow(w) ==
  /\ Live(w)
  /\ Spend
  /\ IF kind[w] = "override"
       THEN /\ Emit(<<Ev("ConfigureNotify", w, FALSE)>>)
            /\ named' = Outdated(w)
       ELSE /\ \E f \in BOOLEAN : Emit(<<Ev("ConfigureRequest", w, f)>>)
            /\ UNCHANGED named
  /\ UNCHANGED <<st, kind, dmgObj, listening, out>>

DrawInWindow(w) ==
  /\ w \in dmgObj
  /\ w = Root \/ (w \in Windows /\ st[w] = "mapped")
  /\ Spend
  /\ \E f \in BOOLEAN : /\ w = Root => ~f
                       /\ Emit(<<Ev("DamageNotify", w, f)>>)
  /\ UNCHANGED <<serverVars, out>>

ChangeShapeOrProperty(w) ==
  /\ Spend
  /\ \E t \in {"ShapeNotify", "PropertyNotify"}, f \in BOOLEAN :
       <<t, w>> \in listening /\ Emit(<<Ev(t, w, f)>>)
  /\ UNCHANGED <<serverVars, out>>

ChangeCursor ==
  /\ Spend
  /\ Emit(<<Ev("CursorNotify", NoWindow, FALSE)>>)
  /\ UNCHANGED <<serverVars, out>>

Applications ==
  \/ \E w \in Windows : \/ CreateWindow(w) \/ MapWindow(w) \/ UnmapWindow(w)
                        \/ WithdrawWindow(w) \/ DestroyWindow(w)
                        \/ ConfigureWindow(w) \/ ChangeShapeOrProperty(w)
  \/ \E w \in Windows \cup {Root} : DrawInWindow(w)
  \/ ChangeCursor

----------------------------------------------------------------------------
(* The server executes the oldest request (external). *)

ExecMap(w) ==
  IF w \in Windows /\ st[w] = "unmapped"
    THEN /\ st' = [st EXCEPT ![w] = "mapped"]
         /\ Emit(<<Ev("MapNotify", w, FALSE)>>)
         /\ UNCHANGED <<kind, named, dmgObj, listening>>
    ELSE UNCHANGED <<serverVars, queue>>

ExecResize(w) ==
  IF w \in Windows /\ Live(w)
    THEN /\ named' = Outdated(w)
         /\ Emit(<<Ev("ConfigureNotify", w, FALSE)>>)
         /\ UNCHANGED <<st, kind, dmgObj, listening>>
    ELSE UNCHANGED <<serverVars, queue>>

\* Fails (BadMatch, only logged by the thread) unless the window is mapped.
ExecName(w, p) ==
  /\ IF w \in Windows /\ p \in Pixmaps /\ st[w] = "mapped"
       THEN named' = [named EXCEPT ![p] = [w |-> w, fresh |-> TRUE]]
       ELSE UNCHANGED named
  /\ UNCHANGED <<st, kind, dmgObj, listening, queue>>

ExecFreePixmap(p) ==
  /\ named' = IF p \in Pixmaps THEN [named EXCEPT ![p] = Unbound] ELSE named
  /\ UNCHANGED <<st, kind, dmgObj, listening, queue>>

ExecDamageDestroy(w) ==
  /\ dmgObj' = dmgObj \ {w}
  /\ UNCHANGED <<st, kind, named, listening, queue>>

ExecDamageAdd(w) ==
  /\ IF w \in dmgObj THEN Emit(<<Ev("DamageNotify", w, FALSE)>>)
                     ELSE UNCHANGED queue
  /\ UNCHANGED serverVars

Exec ==
  /\ out # <<>>
  /\ out' = Tail(out)
  /\ LET r == Head(out) IN
       CASE r.op = "map"        -> ExecMap(r.w)
         [] r.op = "resize"     -> ExecResize(r.w)
         [] r.op = "name"       -> ExecName(r.w, r.p)
         [] r.op = "freepix"    -> ExecFreePixmap(r.p)
         [] r.op = "dmgdestroy" -> ExecDamageDestroy(r.w)
         [] r.op = "dmgadd"     -> ExecDamageAdd(r.w)
  /\ UNCHANGED budget

----------------------------------------------------------------------------
\* xcwm_context_open has selected events on the root, and damage on it.
ServerInit ==
  /\ st \in [Windows -> {"free", "unmapped", "mapped"}]
  /\ kind \in [Windows -> Kinds]
  /\ \A w \in Windows : st[w] = "free" => kind[w] = "normal"
  /\ named = [p \in Pixmaps |-> Unbound]
  /\ dmgObj = {Root} /\ listening = {}
  /\ queue = <<>> /\ out = <<>>
  /\ budget = MaxOps

ServerTypeOK ==
  /\ st \in [Windows -> {"free", "unmapped", "mapped", "dead"}]
  /\ kind \in [Windows -> Kinds]
  /\ named \in [Pixmaps -> [w : Windows \cup {NoWindow}, fresh : BOOLEAN]]
  /\ dmgObj \subseteq Windows \cup {Root}
  /\ listening \subseteq {"PropertyNotify", "ShapeNotify"} \X Windows
  /\ queue \in Seq(Event)
  /\ out \in Seq(Request)
  /\ budget \in 0 .. MaxOps
=============================================================================
