------------------------------ MODULE DamageDraw ------------------------------
(***************************************************************************)
(* How what an application draws gets to the screen, for one window: the   *)
(* server gathers damage and reports its bounding box; the event thread    *)
(* notes the box in dmg_bounds and calls the window manager, which marks   *)
(* it as needing display; the main thread then copies the box from the     *)
(* window, draws it and subtracts it from the damage.  The main thread and *)
(* the event thread share dmg_bounds and the event thread lock.            *)
(*                                                                         *)
(* A window is a row of columns: a rectangle is its x and its width.  The  *)
(* library keeps the width of the window in bounds, and only a change by   *)
(* the user renews it: when the application changes the width, with or     *)
(* without the event thread granting it, bounds stays as it was.           *)
(* Requests wait in a buffer until some thread flushes the connection, and *)
(* then, in their order, for the server.  What is local to a handler is    *)
(* reset when it ends.                                                     *)
(***************************************************************************)
EXTENDS Naturals, Sequences

CONSTANTS Width,       \* bound: columns of the widest window
          MaxDraws,    \* bound: how many times the application draws
          MaxResizes,  \* bound: how many times it changes the width of its window
          MaxMoves,    \* bound: how many times the user moves or resizes the window
          Overrides    \* values of override_redirect that windows may have

ASSUME DamageAssumption ==
  /\ Width \in Nat \ {0}
  /\ MaxDraws \in Nat /\ MaxResizes \in Nat /\ MaxMoves \in Nat
  /\ Overrides \subseteq BOOLEAN

VARIABLES
  stale,    \* columns whose content is not what the screen shows
  damage,   \* columns in the server's damage object
  size,     \* width of the window in the server
  exists,   \* does the damage object exist?
  queue,    \* boxes of the DamageNotify events not yet read
  buffer,   \* requests in the buffer of the connection
  wire,     \* requests flushed that the server has not carried out
  override, \* override_redirect
  bounds,   \* bounds.width, which is the width of the view, too
  dmgBounds,  \* dmg_bounds
  initial,  \* initial_damage
  lock,     \* who holds _event_thread_lock
  event,    \* where the event thread is: wait, lock, set, readX, readWidth
  area,     \* the box of the event it handles
  readX,    \* what its callback has read of dmg_bounds.x
  main,     \* where the main thread is: idle, lock, copy, subtract, zeroX, zeroWidth
  needs,    \* columns that need display
  clip,     \* columns drawRect draws to
  copied,   \* columns of the image drawRect has copied
  draws, resizes, moves  \* draws, changes by the application and by the user left

eventVars == <<event, area, readX>>
mainVars == <<main, clip, copied>>
serverVars == <<stale, damage, size, exists, queue>>
requestVars == <<buffer, wire>>
windowVars == <<override, bounds, dmgBounds, initial>>
counters == <<draws, resizes, moves>>
vars == <<serverVars, requestVars, windowVars, lock, eventVars, mainVars, needs, counters>>

Columns == 0 .. Width - 1
Widths == 1 .. Width
Rect == [x : Columns, width : 0 .. Width]
Full(w) == [x |-> 0, width |-> w]
NoRect == [x |-> 0, width |-> 0]

Covered(r) == {c \in Columns : r.x <= c /\ c < r.x + r.width}
UpTo(w) == {c \in Columns : c < w}
Fits(r) == r.width > 0 /\ r.x + r.width <= size

\* Requests of the event thread to subtract a box and add all columns up to a
\* width, and those to give the window a width.
Requests == [kind : {"repair"}, box : Rect, width : Widths]
              \cup [kind : {"resize"}, width : Widths]
ResizeTo(w) == [kind |-> "resize", width |-> w]

\* The bounding box of a set of columns that is not empty.
Box(S) == LET lo == CHOOSE c \in S : \A d \in S : c <= d
              hi == CHOOSE c \in S : \A d \in S : d <= c
          IN  [x |-> lo, width |-> hi - lo + 1]

\* setNeedsDisplayInRect adds to what needs display, inside the view.
Mark(r) == needs' = needs \cup (Covered(r) \cap UpTo(bounds))

\* Whatever is in the buffer is sent, and r after it.
Flush(r) == wire' = wire \o buffer \o r /\ buffer' = <<>>

----------------------------------------------------------------------------
(* The application and the server (external).  The level of the damage     *)
(* object is BoundingBox: drawing is reported when the box grows, what is  *)
(* left of the damage is reported when some is subtracted.                 *)

Report(S) == IF S = {} THEN <<>> ELSE <<Box(S)>>
Grown(S, T) == IF S # {} /\ Box(S) = Box(T) THEN <<>> ELSE <<Box(T)>>

Draw(c) ==
  /\ exists /\ c < size
  /\ draws > 0 /\ draws' = draws - 1
  /\ stale' = stale \cup {c}
  /\ damage' = damage \cup {c}
  /\ queue' = queue \o Grown(damage, damage \cup {c})
  /\ UNCHANGED <<size, exists, requestVars, windowVars, lock, eventVars, mainVars, needs,
                 resizes, moves>>

\* The window gets another width: columns it gains are painted, and damaged; those
\* it loses are gone (their damage at once; in the server, at the next subtraction).
SetSize(w) ==
  LET gained == {c \in Columns : size <= c /\ c < w}
      after == (damage \cap UpTo(w)) \cup gained
  IN  /\ size' = w
      /\ stale' = (stale \cap UpTo(w)) \cup gained
      /\ damage' = after
      /\ queue' = queue \o (IF gained = {} THEN <<>> ELSE Grown(damage, after))
      /\ UNCHANGED exists

\* The application changes the width of an override-redirect window.
Resize(w) ==
  /\ override /\ exists /\ w # size
  /\ resizes > 0 /\ resizes' = resizes - 1
  /\ SetSize(w)
  /\ UNCHANGED <<requestVars, windowVars, lock, eventVars, mainVars, needs, draws, moves>>

\* The damage object goes: with its window, or when the event thread unlists it.
\* The application does nothing more.
Vanish ==
  /\ exists /\ exists' = FALSE
  /\ damage' = {} /\ stale' = {}
  /\ draws' = 0 /\ resizes' = 0
  /\ UNCHANGED <<size, queue, requestVars, windowVars, lock, eventVars, mainVars, needs, moves>>

\* Another thread flushes, or the buffer is full.
FlushElsewhere ==
  /\ buffer # <<>> /\ Flush(<<>>)
  /\ UNCHANGED <<serverVars, windowVars, lock, eventVars, mainVars, needs, counters>>

\* The server carries out the next request.
Repair ==
  /\ wire # <<>> /\ Head(wire).kind = "repair" /\ exists
  /\ wire' = Tail(wire)
  /\ LET left == damage \ Covered(Head(wire).box)
         all == left \cup (UpTo(Head(wire).width) \cap UpTo(size))
     IN  /\ damage' = all
         /\ queue' = queue \o Report(left) \o Grown(left, all)
  /\ UNCHANGED <<stale, size, exists, buffer, windowVars, lock, eventVars, mainVars, needs,
                 counters>>

Configure ==
  /\ wire # <<>> /\ Head(wire).kind = "resize" /\ exists
  /\ wire' = Tail(wire)
  /\ SetSize(Head(wire).width)
  /\ UNCHANGED <<buffer, windowVars, lock, eventVars, mainVars, needs, counters>>

\* Once the damage object is gone no request matters here: one to repair is an
\* error that nobody looks at.
RequestFails ==
  /\ wire # <<>> /\ ~exists
  /\ wire' = Tail(wire)
  /\ UNCHANGED <<serverVars, buffer, windowVars, lock, eventVars, mainVars, needs, counters>>

Server == Repair \/ Configure \/ RequestFails

----------------------------------------------------------------------------
(* The event thread *)

Receive ==
  /\ event = "wait" /\ queue # <<>>
  /\ area' = Head(queue) /\ queue' = Tail(queue)
  /\ event' = "lock"
  /\ UNCHANGED <<stale, damage, size, exists, requestVars, windowVars, lock, readX, mainVars,
                 needs, counters>>

\* ConfigureRequest: the width the application asks for is granted; bounds stays.
Grant(w) ==
  /\ event = "wait" /\ ~override /\ exists
  /\ resizes > 0 /\ resizes' = resizes - 1
  /\ Flush(<<ResizeTo(w)>>)
  /\ UNCHANGED <<serverVars, windowVars, lock, eventVars, mainVars, needs, draws, moves>>

EventLock ==
  /\ event = "lock" /\ lock = "free"
  /\ lock' = "event" /\ event' = "set"
  /\ UNCHANGED <<serverVars, requestVars, windowVars, area, readX, mainVars, needs, counters>>

\* The box of the first event is relative to the root, so it may cover any part
\* of the window; a later one may be wider than bounds.  It is subtracted, and
\* the columns bounds names are added.  The requests are left in the buffer.
Oversized == initial \/ area.width > bounds

SetInitial ==
  /\ event = "set" /\ Oversized
  /\ \E box \in IF initial THEN Rect ELSE {area} :
       buffer' = Append(buffer, [kind |-> "repair", box |-> box, width |-> bounds])
  /\ initial' = FALSE
  /\ lock' = "free" /\ event' = "wait" /\ area' = NoRect
  /\ UNCHANGED <<serverVars, wire, override, bounds, dmgBounds, readX, mainVars, needs,
                 counters>>

\* Seeded fault: x and width are confused.
SetBounds_Swapped ==
  /\ event = "set" /\ ~Oversized
  /\ dmgBounds' = [x |-> area.width, width |-> area.x]
  /\ lock' = "free" /\ event' = "readX" /\ area' = NoRect
  /\ UNCHANGED <<serverVars, requestVars, override, bounds, initial, readX, mainVars,
                 needs, counters>>

SetBounds ==
  /\ event = "set" /\ ~Oversized
  /\ dmgBounds' = area
  /\ lock' = "free" /\ event' = "readX" /\ area' = NoRect
  /\ UNCHANGED <<serverVars, requestVars, override, bounds, initial, readX, mainVars,
                 needs, counters>>

\* The callback, updateImage, reads dmg_bounds field by field; the lock has
\* been released.
CallbackX ==
  /\ event = "readX"
  /\ readX' = dmgBounds.x
  /\ event' = "readWidth"
  /\ UNCHANGED <<serverVars, requestVars, windowVars, lock, area, mainVars, needs, counters>>

\* Seeded fault: the view is not told.
CallbackWidth_Unmarked ==
  /\ event = "readWidth"
  /\ event' = "wait" /\ readX' = 0
  /\ UNCHANGED <<serverVars, requestVars, windowVars, lock, area, mainVars, needs,
                 counters>>

CallbackWidth ==
  /\ event = "readWidth"
  /\ Mark([x |-> readX, width |-> dmgBounds.width])
  /\ event' = "wait" /\ readX' = 0
  /\ UNCHANGED <<serverVars, requestVars, windowVars, lock, area, mainVars, counters>>

----------------------------------------------------------------------------
(* The main thread: drawRect, and xcwm_window_configure when the user has  *)
(* moved or resized the window.                                            *)

DrawRect ==
  /\ main = "idle" /\ needs # {}
  /\ clip' = needs /\ needs' = {}
  /\ main' = "lock"
  /\ UNCHANGED <<serverVars, requestVars, windowVars, lock, eventVars, copied, counters>>

\* Seeded fault: the main thread does not wait for the lock.
MainLock_Ignored ==
  /\ main = "lock"
  /\ main' = "copy"
  /\ UNCHANGED <<serverVars, requestVars, windowVars, lock, eventVars, clip, copied, needs,
                 counters>>

MainLock ==
  /\ main = "lock" /\ lock = "free"
  /\ lock' = "main" /\ main' = "copy"
  /\ UNCHANGED <<serverVars, requestVars, windowVars, eventVars, clip, copied, needs, counters>>

\* xcwm_image_copy_damaged flushes, and returns nothing if the box is empty.
CopyNothing ==
  /\ main = "copy" /\ dmgBounds.width = 0
  /\ Flush(<<>>)
  /\ lock' = "free" /\ main' = "idle" /\ clip' = {}
  /\ UNCHANGED <<serverVars, windowVars, eventVars, copied, needs, counters>>

\* The flush of xcwm_image_copy_damaged, before the image is asked for.
CopyFlush ==
  /\ main = "copy" /\ dmgBounds.width # 0 /\ buffer # <<>>
  /\ Flush(<<>>)
  /\ UNCHANGED <<serverVars, windowVars, lock, eventVars, mainVars, needs, counters>>

\* Then it waits for the image: what was requested before has been carried out.
Answered == main = "copy" /\ dmgBounds.width # 0 /\ buffer = <<>> /\ wire = <<>>

\* There is none if the box leaves the pixmap, which is taken to be current.
CopyFails ==
  /\ Answered /\ ~Fits(dmgBounds)
  /\ lock' = "free" /\ main' = "idle" /\ clip' = {}
  /\ UNCHANGED <<serverVars, requestVars, windowVars, eventVars, copied, needs, counters>>

CopyDamaged ==
  /\ Answered /\ Fits(dmgBounds)
  /\ copied' = Covered(dmgBounds)
  /\ stale' = stale \ (Covered(dmgBounds) \cap clip)
  /\ main' = "subtract" /\ clip' = {}
  /\ UNCHANGED <<damage, size, exists, queue, requestVars, windowVars, lock, eventVars, needs,
                 counters>>

\* Seeded fault: dmg_bounds is cleared but nothing is subtracted.
RemoveDamage_Forgotten ==
  /\ main = "subtract" /\ exists
  /\ main' = "zeroX" /\ copied' = {}
  /\ UNCHANGED <<serverVars, requestVars, windowVars, lock, eventVars, clip, needs, counters>>

\* xcwm_window_remove_damage: a round trip, then dmg_bounds is cleared field
\* by field.
RemoveDamage ==
  /\ main = "subtract" /\ exists
  /\ damage' = damage \ Covered(dmgBounds)
  /\ queue' = queue \o Report(damage \ Covered(dmgBounds))
  /\ main' = "zeroX" /\ copied' = {}
  /\ UNCHANGED <<stale, size, exists, requestVars, windowVars, lock, eventVars, clip, needs,
                 counters>>

\* The damage object is gone: the error is printed and dmg_bounds is left.
RemoveFails ==
  /\ main = "subtract" /\ ~exists
  /\ lock' = "free" /\ main' = "idle" /\ copied' = {}
  /\ UNCHANGED <<serverVars, requestVars, windowVars, eventVars, clip, needs, counters>>

ClearX ==
  /\ main = "zeroX"
  /\ dmgBounds' = [dmgBounds EXCEPT !.x = 0]
  /\ main' = "zeroWidth"
  /\ UNCHANGED <<serverVars, requestVars, override, bounds, initial, lock, eventVars, clip,
                 copied, needs, counters>>

ClearWidth ==
  /\ main = "zeroWidth"
  /\ dmgBounds' = [dmgBounds EXCEPT !.width = 0]
  /\ lock' = "free" /\ main' = "idle"
  /\ UNCHANGED <<serverVars, requestVars, override, bounds, initial, eventVars, clip, copied,
                 needs, counters>>

\* reshape: xcwm_window_configure with the width of the Cocoa window, which
\* flushes, then setNeedsDisplay.
Move(w) ==
  /\ main = "idle"
  /\ moves > 0 /\ moves' = moves - 1
  /\ bounds' = w
  /\ dmgBounds' = [dmgBounds EXCEPT !.width = w]
  /\ Flush(<<ResizeTo(w)>>)
  /\ needs' = UpTo(w)
  /\ UNCHANGED <<serverVars, override, initial, lock, eventVars, mainVars, draws, resizes>>

----------------------------------------------------------------------------
\* The CREATE callback has returned: the view needs display, and for a window
\* that is not override-redirect xcwm_window_configure has set dmg_bounds.  A
\* window that was mapped before has content, and is damaged all over.
Init ==
  /\ size \in Widths /\ bounds = size /\ exists = TRUE
  /\ \/ damage = {} /\ stale = {} /\ queue = <<>>
     \/ /\ damage = UpTo(size) /\ stale = UpTo(size)
        /\ queue = <<Full(size)>>
  /\ buffer = <<>> /\ wire = <<>>
  /\ override \in Overrides /\ initial = override
  /\ dmgBounds = IF initial THEN NoRect ELSE Full(size)
  /\ lock = "free"
  /\ event = "wait" /\ area = NoRect /\ readX = 0
  /\ main = "idle" /\ needs = UpTo(size) /\ clip = {} /\ copied = {}
  /\ draws = MaxDraws /\ resizes = MaxResizes /\ moves = MaxMoves

Damaged == Receive \/ EventLock \/ SetInitial \/ SetBounds \/ CallbackX \/ CallbackWidth
EventThread == Damaged \/ \E w \in Widths : Grant(w)
MainThread ==
  \/ DrawRect \/ MainLock \/ CopyNothing \/ CopyFails \/ CopyFlush \/ CopyDamaged
  \/ RemoveDamage \/ RemoveFails \/ ClearX \/ ClearWidth
Elsewhere ==
  \/ \E c \in Columns : Draw(c)
  \/ \E w \in Widths : Resize(w) \/ Move(w)
  \/ Vanish \/ FlushElsewhere

Next == Server \/ EventThread \/ MainThread \/ Elsewhere

Spec == Init /\ [][Next]_vars

\* Both threads run, AppKit calls drawRect when display is needed, and the server
\* carries out what has been flushed.  The lock is only held for a time.
FairSpec == Spec /\ WF_vars(Damaged) /\ WF_vars(MainThread) /\ WF_vars(Server)

----------------------------------------------------------------------------
(* Properties *)

TypeOK ==
  /\ stale \subseteq Columns /\ damage \subseteq Columns
  /\ size \in Widths /\ exists \in BOOLEAN /\ queue \in Seq(Rect)
  /\ buffer \in Seq(Requests) /\ wire \in Seq(Requests)
  /\ override \in BOOLEAN /\ bounds \in Widths
  /\ dmgBounds \in Rect /\ initial \in BOOLEAN
  /\ lock \in {"free", "event", "main"}
  /\ event \in {"wait", "lock", "set", "readX", "readWidth"}
  /\ area \in Rect /\ readX \in Columns
  /\ main \in {"idle", "lock", "copy", "subtract", "zeroX", "zeroWidth"}
  /\ needs \subseteq Columns /\ clip \subseteq Columns /\ copied \subseteq Columns
  /\ draws \in 0 .. MaxDraws /\ resizes \in 0 .. MaxResizes /\ moves \in 0 .. MaxMoves

\* No event, request, display or thread is left that would change anything.
AtRest == /\ event = "wait" /\ queue = <<>> /\ buffer = <<>> /\ wire = <<>>
          /\ main = "idle" /\ needs = {}

\* The box is out of reach: a move, keeping x, or a change of the width has pushed
\* it out of the window, or the application has grown the window and the box lies
\* beyond the view.
Outside == dmgBounds.width > 0 /\ (~Fits(dmgBounds) \/ dmgBounds.x >= bounds)

\* Whatever order the two threads handle reports, repairs, moves and changes of the
\* width in, at rest the server holds no damage, unless under a box out of reach:
\* since only a box that grows is reported, damage that stayed would silence all
\* later drawing inside it.
StrandedOnlyOutside == AtRest /\ damage # {} => Outside

\* Damage of a window only goes away for columns in the image just copied, though
\* events arrive, and dmg_bounds is rewritten, while the image is drawn; the
\* exceptions are columns cut off, and those a repair takes from a window that is
\* wider than the bounds the repair adds again: a box wider than the bounds is
\* subtracted uncopied, and what the application has gained beyond them is lost.
OnlyCopiedIsSubtracted ==
  [][\A c \in damage \ damage' :
       \/ main = "subtract" /\ main' # main /\ c \in copied
       \/ wire # <<>> /\ wire' = Tail(wire) /\ Head(wire).kind = "repair"
            /\ Head(wire).width <= c
       \/ size' <= c
       \/ ~exists']_vars

\* Once application and user are at rest all damage comes to be repaired, unless
\* under a box out of reach, or because a repair asked for by the event thread is
\* not flushed.
EventuallyRepaired == <>[](damage = {} \/ Outside \/ buffer # <<>>)

\* The window is updated properly: at rest, the screen shows its content.
ScreenUpToDate == AtRest => stale = {}
=============================================================================
