--------------------------- MODULE DamageDrawProofs ---------------------------
(***************************************************************************)
(* The lock of the event thread protects dmg_bounds between copying an     *)
(* image and subtracting its damage, and damage is always on its way to be *)
(* repaired, for windows of any width and any number of draws, moves and   *)
(* changes of the width.                                                   *)
(***************************************************************************)
EXTENDS DamageDraw, SequenceTheorems, WellFoundedInduction, TLAPS

(* Bounding boxes *)

LEMMA LeastColumn ==
  ASSUME NEW S \in SUBSET Columns, S # {}
  PROVE  \E c \in S : \A d \in S : c <= d
<1>1. S \subseteq Nat /\ \A c \in Columns : c \in Nat
  BY DamageAssumption DEF Columns
<1>2. PICK c \in S : \A d \in S : ~(<<d, c>> \in OpToRel(<, Nat))
  BY <1>1, NatLessThanWellFounded, WFMin
<1>3. \A d \in S : ~(d < c)
  BY <1>1, <1>2 DEF OpToRel
<1> QED BY <1>1, <1>3

LEMMA GreatestColumn ==
  ASSUME NEW S \in SUBSET Columns, S # {}
  PROVE  \E c \in S : \A d \in S : d <= c
<1> DEFINE T == {Width - 1 - c : c \in S}
<1>0. \A c \in Columns : Width - 1 - c \in Columns
  BY DamageAssumption DEF Columns
<1>1. T \in SUBSET Columns /\ T # {}
  BY <1>0
<1>2. PICK t \in T : \A u \in T : t <= u
  <2> HIDE DEF T
  <2> QED BY <1>1, LeastColumn
<1>3. PICK c \in S : t = Width - 1 - c
  OBVIOUS
<1>4. \A d \in S : Width - 1 - c <= Width - 1 - d
  BY <1>2, <1>3
<1> QED BY <1>4, DamageAssumption DEF Columns

\* Boxes inside the first n columns, not empty.
Span(n) == {r \in Rect : r.width > 0 /\ r.x + r.width <= n}
FitRects == Span(Width)

\* A box lies where its columns do and is not empty.
LEMMA BoxFits ==
  ASSUME NEW n \in 0 .. Width, NEW S \in SUBSET UpTo(n), S # {}
  PROVE  Box(S) \in Span(n)
<1> DEFINE lo == CHOOSE c \in S : \A d \in S : c <= d
           hi == CHOOSE c \in S : \A d \in S : d <= c
<1>0. S \in SUBSET Columns BY DEF UpTo
<1>1. lo \in S /\ \A d \in S : lo <= d
  BY <1>0, LeastColumn
<1>2. hi \in S /\ \A d \in S : d <= hi
  BY <1>0, GreatestColumn
<1>3. Box(S) = [x |-> lo, width |-> hi - lo + 1]
  BY DEF Box
<1> HIDE DEF lo, hi
<1>4. lo \in Columns /\ hi \in Columns /\ lo <= hi /\ hi < n
  BY <1>1, <1>2, <1>0 DEF UpTo
<1>5. hi - lo + 1 \in 0 .. Width /\ hi - lo + 1 > 0 /\ lo + (hi - lo + 1) <= n
  BY <1>4, DamageAssumption DEF Columns
<1> QED BY <1>3, <1>4, <1>5 DEF Rect, Span

\* A column to the right of all others widens the box.
LEMMA BoxGrows ==
  ASSUME NEW S \in SUBSET Columns, S # {}, NEW T \in SUBSET Columns,
         NEW c \in T, \A d \in S : d < c
  PROVE  Box(S) # Box(T)
<1> DEFINE loS == CHOOSE e \in S : \A d \in S : e <= d
           hiS == CHOOSE e \in S : \A d \in S : d <= e
           loT == CHOOSE e \in T : \A d \in T : e <= d
           hiT == CHOOSE e \in T : \A d \in T : d <= e
<1>1. loS \in S /\ hiS \in S
  BY LeastColumn, GreatestColumn
<1>2. loT \in T /\ hiT \in T /\ c <= hiT
  BY LeastColumn, GreatestColumn
<1>3. /\ Box(S) = [x |-> loS, width |-> hiS - loS + 1]
      /\ Box(T) = [x |-> loT, width |-> hiT - loT + 1]
  BY DEF Box
<1> HIDE DEF loS, hiS, loT, hiT
<1>4. loS \in Int /\ hiS \in Int /\ loT \in Int /\ hiT \in Int /\ c \in Int
  BY <1>1, <1>2, DamageAssumption DEF Columns
<1>5. hiS < hiT
  BY <1>1, <1>2, <1>4
<1>6. SUFFICES ASSUME Box(S) = Box(T) PROVE FALSE
  OBVIOUS
<1>7. loS = loT /\ hiS - loS + 1 = hiT - loT + 1
  <2>1. Box(S).x = Box(T).x /\ Box(S).width = Box(T).width BY <1>6
  <2> QED BY <1>3, <2>1
<1> QED BY <1>4, <1>5, <1>7

LEMMA ReportsFit ==
  ASSUME NEW n \in 0 .. Width, NEW S \in SUBSET UpTo(n), NEW T \in SUBSET UpTo(n), T # {}
  PROVE  /\ Report(S) \in Seq(Span(n))
         /\ Grown(S, T) \in Seq(Span(n))
         /\ S # {} => Report(S) # <<>>
         /\ S = {} => Grown(S, T) # <<>>
         /\ \A c \in T : (\A d \in S : d < c) => Grown(S, T) # <<>>
<1>1. Box(T) \in Span(n) /\ (S # {} => Box(S) \in Span(n))
  BY BoxFits
<1>2. S \in SUBSET Columns /\ T \in SUBSET Columns
  BY DEF UpTo
<1>3. ASSUME NEW c \in T, \A d \in S : d < c, S # {} PROVE Box(S) # Box(T)
  BY <1>2, <1>3, BoxGrows
<1> QED BY <1>1, <1>3 DEF Report, Grown

----------------------------------------------------------------------------
(* What holds at every step *)

\* Where each thread holds the lock, and what dmg_bounds is meanwhile.
Locked ==
  /\ lock \in {"free", "event", "main"}
  /\ event = "set" => lock = "event"
  /\ main \in {"copy", "subtract", "zeroX", "zeroWidth"} => lock = "main"
  /\ main = "subtract" => copied = Covered(dmgBounds)

\* Damage lies in the window, and is gone with it.
InWindow ==
  /\ size \in Widths /\ bounds \in Widths /\ exists \in BOOLEAN
  /\ damage \subseteq UpTo(size)
  /\ ~exists => damage = {}

\* The boxes on their way to the main thread.
Boxes == /\ queue \in Seq(FitRects)
         /\ area \in Rect /\ (event \in {"lock", "set"} => area \in FitRects)
         /\ dmgBounds \in Rect /\ readX \in Columns /\ needs \subseteq Columns

\* The requests on their way to the server.
Sent == buffer \in Seq(Requests) /\ wire \in Seq(Requests)

DInv == Locked /\ InWindow /\ Boxes /\ Sent

\* A flush keeps the requests in order.
LEMMA FlushSends ==
  ASSUME NEW T, NEW r \in Seq(T), wire \in Seq(T), buffer \in Seq(T), Flush(r)
  PROVE  wire' \in Seq(T) /\ buffer' \in Seq(T)
<1>1. wire' = (wire \o buffer) \o r /\ buffer' = <<>> BY DEF Flush
<1>2. wire \o buffer \in Seq(T) BY ConcatProperties
<1>3. (wire \o buffer) \o r \in Seq(T) BY <1>2, ConcatProperties
<1> QED BY <1>1, <1>3

LEMMA ResizeIsRequest ==
  ASSUME NEW w \in Widths PROVE <<ResizeTo(w)>> \in Seq(Requests)
<1>1. ResizeTo(w) \in Requests BY DEF ResizeTo, Requests
<1> QED BY <1>1

\* The next request to repair has a box and a width.
LEMMA NextRepair ==
  ASSUME wire \in Seq(Requests), wire # <<>>
  PROVE  /\ Tail(wire) \in Seq(Requests) /\ Head(wire) \in Requests
         /\ Head(wire).width \in Widths
         /\ Head(wire).kind = "repair" => Head(wire).box \in Rect
<1>1. Tail(wire) \in Seq(Requests) /\ Head(wire) \in Requests BY HeadTailProperties
<1> QED BY <1>1 DEF Requests

LEMMA DInvInit == Init => DInv
<1> SUFFICES ASSUME Init PROVE DInv
  OBVIOUS
<1>1. Locked BY DEF Init, Locked
<1>2. InWindow BY DEF Init, InWindow
<1>3. Sent BY DEF Init, Sent
<1>4. Boxes
  <2>1. Full(size) \in FitRects /\ NoRect \in Rect /\ 0 \in Columns
    BY DamageAssumption DEF Init, Full, NoRect, FitRects, Span, Rect, Widths, Columns
  <2>2. queue = <<>> \/ queue = <<Full(size)>> BY DEF Init
  <2>3. queue \in Seq(FitRects)
    <3>1. <<>> \in Seq(FitRects) OBVIOUS
    <3>2. <<Full(size)>> \in Seq(FitRects) BY <2>1
    <3> QED BY <2>2, <3>1, <3>2
  <2>4. dmgBounds \in Rect BY <2>1 DEF Init, FitRects, Span
  <2> QED BY <2>1, <2>3, <2>4 DEF Init, Boxes, UpTo
<1> QED BY <1>1, <1>2, <1>3, <1>4 DEF DInv

LEMMA LockedStep == Locked /\ [Next]_vars => Locked'
<1> SUFFICES ASSUME Locked, [Next]_vars PROVE Locked'
  OBVIOUS
<1> USE DEF Locked
<1>1. CASE Repair
  BY <1>1 DEF Repair, windowVars, eventVars, mainVars, counters, Covered, Columns
<1>2. CASE Configure
  BY <1>2 DEF Configure, windowVars, eventVars, mainVars, counters, Covered, Columns
<1>3. CASE RequestFails
  BY <1>3 DEF RequestFails, serverVars, windowVars, eventVars, mainVars, counters, Covered,
     Columns
<1>4. CASE Receive
  BY <1>4 DEF Receive, requestVars, windowVars, mainVars, counters, Covered, Columns
<1>5. CASE EventLock
  BY <1>5 DEF EventLock, serverVars, requestVars, windowVars, mainVars, counters, Covered,
     Columns
<1>6. CASE SetInitial
  BY <1>6 DEF SetInitial, serverVars, mainVars, counters, Covered, Columns
<1>7. CASE SetBounds
  BY <1>7 DEF SetBounds, serverVars, requestVars, mainVars, counters, Covered, Columns
<1>8. CASE CallbackX
  BY <1>8 DEF CallbackX, serverVars, requestVars, windowVars, mainVars, counters, Covered,
     Columns
<1>9. CASE CallbackWidth
  BY <1>9 DEF CallbackWidth, serverVars, requestVars, windowVars, mainVars, counters,
     Covered, Columns
<1>10. ASSUME NEW w \in Widths, Grant(w) PROVE Locked'
  BY <1>10 DEF Grant, serverVars, windowVars, eventVars, mainVars, Covered, Columns
<1>11. CASE DrawRect
  BY <1>11 DEF DrawRect, serverVars, requestVars, windowVars, eventVars, counters, Covered,
     Columns
<1>12. CASE MainLock
  BY <1>12 DEF MainLock, serverVars, requestVars, windowVars, eventVars, counters, Covered,
     Columns
<1>13. CASE CopyNothing
  BY <1>13 DEF CopyNothing, serverVars, windowVars, eventVars, counters, Covered, Columns
<1>14. CASE CopyFails
  BY <1>14 DEF CopyFails, Answered, serverVars, requestVars, windowVars, eventVars,
     counters, Covered, Columns
<1>15. CASE CopyFlush
  BY <1>15 DEF CopyFlush, serverVars, windowVars, eventVars, mainVars, counters, Covered,
     Columns
<1>16. CASE CopyDamaged
  BY <1>16 DEF CopyDamaged, Answered, requestVars, windowVars, eventVars, counters,
     Covered, Columns
<1>17. CASE RemoveDamage
  BY <1>17 DEF RemoveDamage, requestVars, windowVars, eventVars, counters, Covered, Columns
<1>18. CASE RemoveFails
  BY <1>18 DEF RemoveFails, serverVars, requestVars, windowVars, eventVars, counters,
     Covered, Columns
<1>19. CASE ClearX
  BY <1>19 DEF ClearX, serverVars, requestVars, eventVars, counters, Covered, Columns
<1>20. CASE ClearWidth
  BY <1>20 DEF ClearWidth, serverVars, requestVars, eventVars, counters, Covered, Columns
<1>21. ASSUME NEW c \in Columns, Draw(c) PROVE Locked'
  BY <1>21 DEF Draw, requestVars, windowVars, eventVars, mainVars, Covered, Columns
<1>22. ASSUME NEW w \in Widths, Resize(w) PROVE Locked'
  BY <1>22 DEF Resize, requestVars, windowVars, eventVars, mainVars, Covered, Columns
<1>23. ASSUME NEW w \in Widths, Move(w) PROVE Locked'
  BY <1>23 DEF Move, serverVars, eventVars, mainVars, Covered, Columns
<1>24. CASE Vanish
  BY <1>24 DEF Vanish, requestVars, windowVars, eventVars, mainVars, Covered, Columns
<1>25. CASE FlushElsewhere
  BY <1>25 DEF FlushElsewhere, serverVars, windowVars, eventVars, mainVars, counters,
     Covered, Columns
<1>26. CASE UNCHANGED vars
  BY <1>26 DEF vars, serverVars, requestVars, windowVars, eventVars, mainVars, counters,
     Covered, Columns
<1> QED BY <1>1, <1>2, <1>3, <1>4, <1>5, <1>6, <1>7, <1>8, <1>9, <1>10, <1>11, <1>12,
           <1>13, <1>14, <1>15, <1>16, <1>17, <1>18, <1>19, <1>20, <1>21, <1>22, <1>23,
           <1>24, <1>25, <1>26
        DEF Next, Server, EventThread, Damaged, MainThread, Elsewhere

LEMMA InWindowStep == DInv /\ [Next]_vars => InWindow'
<1> SUFFICES ASSUME DInv, [Next]_vars PROVE InWindow'
  OBVIOUS
<1> USE DEF DInv, InWindow
<1>0. ASSUME NEW w \in Widths, SetSize(w), bounds' = bounds, exists PROVE InWindow'
  <2>1. damage' \subseteq UpTo(w) BY <1>0 DEF SetSize, UpTo
  <2> QED BY <1>0, <2>1 DEF SetSize, UpTo, Columns
<1>1. CASE Repair
  BY <1>1 DEF Repair, windowVars, eventVars, mainVars, counters, UpTo, Columns
<1>2. CASE Configure
  <2>1. Head(wire).width \in Widths BY <1>2, NextRepair DEF Sent, Configure
  <2> QED BY <1>2, <2>1, <1>0 DEF Configure, windowVars
<1>3. CASE RequestFails
  BY <1>3 DEF RequestFails, serverVars, windowVars, eventVars, mainVars, counters, UpTo,
     Columns
<1>4. CASE Receive
  BY <1>4 DEF Receive, requestVars, windowVars, mainVars, counters, UpTo, Columns
<1>5. CASE EventLock
  BY <1>5 DEF EventLock, serverVars, requestVars, windowVars, mainVars, counters, UpTo,
     Columns
<1>6. CASE SetInitial BY <1>6 DEF SetInitial, serverVars, mainVars, counters, UpTo, Columns
<1>7. CASE SetBounds
  BY <1>7 DEF SetBounds, serverVars, requestVars, mainVars, counters, UpTo, Columns
<1>8. CASE CallbackX
  BY <1>8 DEF CallbackX, serverVars, requestVars, windowVars, mainVars, counters, UpTo,
     Columns
<1>9. CASE CallbackWidth
  BY <1>9 DEF CallbackWidth, serverVars, requestVars, windowVars, mainVars, counters, UpTo,
     Columns
<1>10. ASSUME NEW w \in Widths, Grant(w) PROVE InWindow'
  BY <1>10 DEF Grant, serverVars, windowVars, eventVars, mainVars, UpTo, Columns
<1>11. CASE DrawRect
  BY <1>11 DEF DrawRect, serverVars, requestVars, windowVars, eventVars, counters, UpTo,
     Columns
<1>12. CASE MainLock
  BY <1>12 DEF MainLock, serverVars, requestVars, windowVars, eventVars, counters, UpTo,
     Columns
<1>13. CASE CopyNothing
  BY <1>13 DEF CopyNothing, serverVars, windowVars, eventVars, counters, UpTo, Columns
<1>14. CASE CopyFails
  BY <1>14 DEF CopyFails, Answered, serverVars, requestVars, windowVars, eventVars,
     counters, UpTo, Columns
<1>15. CASE CopyFlush
  BY <1>15 DEF CopyFlush, serverVars, windowVars, eventVars, mainVars, counters, UpTo,
     Columns
<1>16. CASE CopyDamaged
  BY <1>16 DEF CopyDamaged, Answered, requestVars, windowVars, eventVars, counters, UpTo,
     Columns
<1>17. CASE RemoveDamage
  BY <1>17 DEF RemoveDamage, requestVars, windowVars, eventVars, counters, UpTo, Columns
<1>18. CASE RemoveFails
  BY <1>18 DEF RemoveFails, serverVars, requestVars, windowVars, eventVars, counters, UpTo,
     Columns
<1>19. CASE ClearX
  BY <1>19 DEF ClearX, serverVars, requestVars, eventVars, counters, UpTo, Columns
<1>20. CASE ClearWidth
  BY <1>20 DEF ClearWidth, serverVars, requestVars, eventVars, counters, UpTo, Columns
<1>21. ASSUME NEW c \in Columns, Draw(c) PROVE InWindow'
  BY <1>21 DEF Draw, requestVars, windowVars, eventVars, mainVars, UpTo, Columns
<1>22. ASSUME NEW w \in Widths, Resize(w) PROVE InWindow'
  BY <1>22, <1>0 DEF Resize, windowVars
<1>23. ASSUME NEW w \in Widths, Move(w) PROVE InWindow'
  BY <1>23 DEF Move, serverVars, eventVars, mainVars, UpTo, Columns
<1>24. CASE Vanish
  BY <1>24 DEF Vanish, requestVars, windowVars, eventVars, mainVars, UpTo, Columns
<1>25. CASE FlushElsewhere
  BY <1>25 DEF FlushElsewhere, serverVars, windowVars, eventVars, mainVars, counters, UpTo,
     Columns
<1>26. CASE UNCHANGED vars
  BY <1>26 DEF vars, serverVars, requestVars, windowVars, eventVars, mainVars, counters,
     UpTo, Columns
<1> QED BY <1>1, <1>2, <1>3, <1>4, <1>5, <1>6, <1>7, <1>8, <1>9, <1>10, <1>11, <1>12,
           <1>13, <1>14, <1>15, <1>16, <1>17, <1>18, <1>19, <1>20, <1>21, <1>22, <1>23,
           <1>24, <1>25, <1>26
        DEF Next, Server, EventThread, Damaged, MainThread, Elsewhere

LEMMA BoxesStep == DInv /\ [Next]_vars => Boxes'
<1> SUFFICES ASSUME DInv, [Next]_vars PROVE Boxes'
  OBVIOUS
<1> USE DEF DInv, InWindow, Boxes
<1>0. \A r \in FitRects : r \in Rect
  BY DEF FitRects, Span
<1>a. UpTo(Width) = Columns /\ Width \in 0 .. Width /\ UpTo(size) \in SUBSET Columns
  BY DamageAssumption DEF UpTo, Columns
<1>b. ASSUME NEW w \in Widths, SetSize(w) PROVE queue' \in Seq(FitRects)
  <2> DEFINE gained == {c \in Columns : size <= c /\ c < w}
             after == (damage \cap UpTo(w)) \cup gained
  <2>1. damage \in SUBSET UpTo(Width) /\ after \in SUBSET UpTo(Width)
    BY <1>a DEF UpTo
  <2>2. queue' = queue \o (IF gained = {} THEN <<>> ELSE Grown(damage, after))
    BY <1>b DEF SetSize
  <2>3. CASE gained = {} BY <2>2, <2>3
  <2>4. CASE gained # {}
    <3>1. after # {} BY <2>4
    <3> HIDE DEF after, gained
    <3>2. Grown(damage, after) \in Seq(FitRects)
      BY <1>a, <2>1, <3>1, ReportsFit DEF FitRects
    <3> QED BY <2>2, <2>4, <3>2, ConcatProperties
  <2> QED BY <2>3, <2>4
<1>1. CASE Repair
  <2> DEFINE left == damage \ Covered(Head(wire).box)
             all == left \cup (UpTo(Head(wire).width) \cap UpTo(size))
  <2>0. Head(wire).width \in Widths BY <1>1, NextRepair DEF Sent, Repair
  <2>1. left \in SUBSET UpTo(Width) /\ all \in SUBSET UpTo(Width)
    BY <1>a DEF UpTo
  <2>2. all # {}
    <3>1. 0 \in UpTo(Head(wire).width) \cap UpTo(size)
      BY <2>0, DamageAssumption DEF UpTo, Widths, Columns
    <3> QED BY <3>1
  <2>3. queue' = (queue \o Report(left)) \o Grown(left, all)
    BY <1>1 DEF Repair
  <2> HIDE DEF left, all
  <2>4. Report(left) \in Seq(FitRects) /\ Grown(left, all) \in Seq(FitRects)
    BY <1>a, <2>1, <2>2, ReportsFit DEF FitRects
  <2>5. queue' \in Seq(FitRects)
    BY <2>3, <2>4, ConcatProperties
  <2> QED BY <1>1, <2>5 DEF Repair, windowVars, eventVars
<1>2. CASE Configure
  <2>1. Head(wire).width \in Widths BY <1>2, NextRepair DEF Sent, Configure
  <2> QED BY <1>2, <2>1, <1>b DEF Configure, windowVars, eventVars
<1>3. CASE RequestFails
  BY <1>3 DEF RequestFails, serverVars, windowVars, eventVars, mainVars, counters
<1>4. CASE Receive
  <2>1. Head(queue) \in FitRects /\ Tail(queue) \in Seq(FitRects)
    BY <1>4, HeadTailProperties DEF Receive
  <2> QED BY <1>4, <2>1, <1>0 DEF Receive, windowVars
<1>5. CASE EventLock
  BY <1>5 DEF EventLock, serverVars, requestVars, windowVars, mainVars, counters
<1>6. CASE SetInitial
  <2>1. NoRect \in Rect BY DamageAssumption DEF NoRect, Rect, Columns
  <2> QED BY <1>6, <2>1 DEF SetInitial, serverVars
<1>7. CASE SetBounds
  <2>1. NoRect \in Rect BY DamageAssumption DEF NoRect, Rect, Columns
  <2> QED BY <1>7, <2>1, <1>0 DEF SetBounds, serverVars
<1>8. CASE CallbackX
  BY <1>8, <1>0 DEF CallbackX, serverVars, requestVars, windowVars, mainVars, counters, Rect
<1>9. CASE CallbackWidth
  <2>1. 0 \in Columns BY DamageAssumption DEF Columns
  <2> QED BY <1>9, <2>1 DEF CallbackWidth, Mark, UpTo, serverVars, windowVars
<1>10. ASSUME NEW w \in Widths, Grant(w) PROVE Boxes'
  BY <1>10 DEF Grant, serverVars, windowVars, eventVars, mainVars
<1>11. CASE DrawRect
  BY <1>11 DEF DrawRect, serverVars, requestVars, windowVars, eventVars, counters
<1>12. CASE MainLock
  BY <1>12 DEF MainLock, serverVars, requestVars, windowVars, eventVars, counters
<1>13. CASE CopyNothing
  BY <1>13 DEF CopyNothing, serverVars, windowVars, eventVars, counters
<1>14. CASE CopyFails
  BY <1>14 DEF CopyFails, Answered, serverVars, requestVars, windowVars, eventVars, counters
<1>15. CASE CopyFlush
  BY <1>15 DEF CopyFlush, serverVars, windowVars, eventVars, mainVars, counters
<1>16. CASE CopyDamaged
  BY <1>16 DEF CopyDamaged, Answered, requestVars, windowVars, eventVars, counters
<1>17. CASE RemoveDamage
  <2> DEFINE left == damage \ Covered(dmgBounds)
  <2>1. left \in SUBSET UpTo(Width) BY <1>a DEF UpTo
  <2>2. Columns \in SUBSET UpTo(Width) /\ Columns # {}
    BY <1>a, DamageAssumption DEF Columns
  <2>3. queue' = queue \o Report(left) BY <1>17 DEF RemoveDamage
  <2> HIDE DEF left
  <2>4. Report(left) \in Seq(FitRects)
    BY <1>a, <2>1, <2>2, ReportsFit DEF FitRects
  <2>5. queue' \in Seq(FitRects) BY <2>3, <2>4, ConcatProperties
  <2> QED BY <1>17, <2>5 DEF RemoveDamage, windowVars, eventVars
<1>18. CASE RemoveFails
  BY <1>18 DEF RemoveFails, serverVars, requestVars, windowVars, eventVars, counters
<1>19. CASE ClearX
  <2>1. dmgBounds' \in Rect
    BY <1>19, DamageAssumption DEF ClearX, Rect, Columns
  <2> QED BY <1>19, <2>1 DEF ClearX, serverVars, eventVars
<1>20. CASE ClearWidth
  <2>1. dmgBounds' \in Rect
    BY <1>20, DamageAssumption DEF ClearWidth, Rect
  <2> QED BY <1>20, <2>1 DEF ClearWidth, serverVars, eventVars
<1>21. ASSUME NEW c \in Columns, Draw(c) PROVE Boxes'
  <2>1. damage \in SUBSET UpTo(Width) /\ damage \cup {c} \in SUBSET UpTo(Width)
    BY <1>a DEF UpTo
  <2>2. Grown(damage, damage \cup {c}) \in Seq(FitRects)
    BY <1>a, <2>1, ReportsFit DEF FitRects
  <2>3. queue' \in Seq(FitRects)
    BY <1>21, <2>2, ConcatProperties DEF Draw
  <2> QED BY <1>21, <2>3 DEF Draw, windowVars, eventVars
<1>22. ASSUME NEW w \in Widths, Resize(w) PROVE Boxes'
  BY <1>22, <1>b DEF Resize, windowVars, eventVars
<1>23. ASSUME NEW w \in Widths, Move(w) PROVE Boxes'
  <2>1. dmgBounds' \in Rect
    BY <1>23, DamageAssumption DEF Move, Rect, Widths
  <2> QED BY <1>23, <2>1 DEF Move, UpTo, serverVars, eventVars
<1>24. CASE Vanish BY <1>24 DEF Vanish, requestVars, windowVars, eventVars, mainVars
<1>25. CASE FlushElsewhere
  BY <1>25 DEF FlushElsewhere, serverVars, windowVars, eventVars, mainVars, counters
<1>26. CASE UNCHANGED vars
  BY <1>26 DEF vars, serverVars, requestVars, windowVars, eventVars, mainVars, counters
<1> QED BY <1>1, <1>2, <1>3, <1>4, <1>5, <1>6, <1>7, <1>8, <1>9, <1>10, <1>11, <1>12,
           <1>13, <1>14, <1>15, <1>16, <1>17, <1>18, <1>19, <1>20, <1>21, <1>22, <1>23,
           <1>24, <1>25, <1>26
        DEF Next, Server, EventThread, Damaged, MainThread, Elsewhere

LEMMA SentStep == DInv /\ [Next]_vars => Sent'
<1> SUFFICES ASSUME DInv, [Next]_vars PROVE Sent'
  OBVIOUS
<1> USE DEF DInv, Boxes, Sent
<1>0. ASSUME Flush(<<>>) PROVE Sent'
  <2>1. <<>> \in Seq(Requests) OBVIOUS
  <2> QED BY <1>0, <2>1, FlushSends
<1>1. CASE Repair BY <1>1, NextRepair DEF Repair, windowVars, eventVars, mainVars, counters
<1>2. CASE Configure
  BY <1>2, NextRepair DEF Configure, windowVars, eventVars, mainVars, counters
<1>3. CASE RequestFails
  BY <1>3, NextRepair DEF RequestFails, serverVars, windowVars, eventVars, mainVars,
     counters
<1>4. CASE Receive BY <1>4 DEF Receive, requestVars, windowVars, mainVars, counters
<1>5. CASE EventLock
  BY <1>5 DEF EventLock, serverVars, requestVars, windowVars, mainVars, counters
<1>6. CASE SetInitial
  <2>1. PICK box \in Rect :
          buffer' = Append(buffer, [kind |-> "repair", box |-> box, width |-> bounds])
    BY <1>6 DEF SetInitial
  <2>2. [kind |-> "repair", box |-> box, width |-> bounds] \in Requests
    BY DEF InWindow, Requests
  <2>3. buffer' \in Seq(Requests) BY <2>1, <2>2, AppendProperties
  <2> QED BY <1>6, <2>3 DEF SetInitial
<1>7. CASE SetBounds BY <1>7 DEF SetBounds, serverVars, requestVars, mainVars, counters
<1>8. CASE CallbackX
  BY <1>8 DEF CallbackX, serverVars, requestVars, windowVars, mainVars, counters
<1>9. CASE CallbackWidth
  BY <1>9 DEF CallbackWidth, serverVars, requestVars, windowVars, mainVars, counters
<1>10. ASSUME NEW w \in Widths, Grant(w) PROVE Sent'
  <2>1. Flush(<<ResizeTo(w)>>) BY <1>10 DEF Grant
  <2> QED BY <2>1, ResizeIsRequest, FlushSends
<1>11. CASE DrawRect
  BY <1>11 DEF DrawRect, serverVars, requestVars, windowVars, eventVars, counters
<1>12. CASE MainLock
  BY <1>12 DEF MainLock, serverVars, requestVars, windowVars, eventVars, counters
<1>13. CASE CopyNothing BY <1>13, <1>0 DEF CopyNothing
<1>14. CASE CopyFails
  BY <1>14 DEF CopyFails, Answered, serverVars, requestVars, windowVars, eventVars, counters
<1>15. CASE CopyFlush BY <1>15, <1>0 DEF CopyFlush
<1>16. CASE CopyDamaged
  BY <1>16 DEF CopyDamaged, Answered, requestVars, windowVars, eventVars, counters
<1>17. CASE RemoveDamage
  BY <1>17 DEF RemoveDamage, requestVars, windowVars, eventVars, counters
<1>18. CASE RemoveFails
  BY <1>18 DEF RemoveFails, serverVars, requestVars, windowVars, eventVars, counters
<1>19. CASE ClearX BY <1>19 DEF ClearX, serverVars, requestVars, eventVars, counters
<1>20. CASE ClearWidth BY <1>20 DEF ClearWidth, serverVars, requestVars, eventVars, counters
<1>21. ASSUME NEW c \in Columns, Draw(c) PROVE Sent'
  BY <1>21 DEF Draw, requestVars, windowVars, eventVars, mainVars
<1>22. ASSUME NEW w \in Widths, Resize(w) PROVE Sent'
  BY <1>22 DEF Resize, requestVars, windowVars, eventVars, mainVars
<1>23. ASSUME NEW w \in Widths, Move(w) PROVE Sent'
  <2>1. Flush(<<ResizeTo(w)>>) BY <1>23 DEF Move
  <2> QED BY <2>1, ResizeIsRequest, FlushSends
<1>24. CASE Vanish BY <1>24 DEF Vanish, requestVars, windowVars, eventVars, mainVars
<1>25. CASE FlushElsewhere BY <1>25, <1>0 DEF FlushElsewhere
<1>26. CASE UNCHANGED vars
  BY <1>26 DEF vars, serverVars, requestVars, windowVars, eventVars, mainVars, counters
<1> QED BY <1>1, <1>2, <1>3, <1>4, <1>5, <1>6, <1>7, <1>8, <1>9, <1>10, <1>11, <1>12,
           <1>13, <1>14, <1>15, <1>16, <1>17, <1>18, <1>19, <1>20, <1>21, <1>22, <1>23,
           <1>24, <1>25, <1>26
        DEF Next, Server, EventThread, Damaged, MainThread, Elsewhere

LEMMA DInvStep == DInv /\ [Next]_vars => DInv'
BY LockedStep, InWindowStep, BoxesStep, SentStep DEF DInv

\* The inductive invariant: who holds the lock, that dmg_bounds is what was copied until
\* it has been subtracted, and that damage lies in the window.
THEOREM DInvHolds == Spec => []DInv
BY DInvInit, DInvStep, PTL DEF Spec

\* Of the damage of a window only what was in the image just copied is subtracted, but for
\* what a repair does not add again.
LEMMA SubtractStep ==
  DInv /\ Next =>
    \A c \in damage \ damage' :
       \/ main = "subtract" /\ main' # main /\ c \in copied
       \/ wire # <<>> /\ wire' = Tail(wire) /\ Head(wire).kind = "repair"
            /\ Head(wire).width <= c
       \/ size' <= c
       \/ ~exists'
<1> SUFFICES ASSUME DInv, Next, NEW c \in damage, c \notin damage'
             PROVE  \/ main = "subtract" /\ main' # main /\ c \in copied
                    \/ wire # <<>> /\ wire' = Tail(wire) /\ Head(wire).kind = "repair"
                         /\ Head(wire).width <= c
                    \/ size' <= c
                    \/ ~exists'
  OBVIOUS
<1>0. c \in UpTo(size) /\ c \in Nat /\ c \in Columns
  BY DamageAssumption DEF DInv, InWindow, UpTo, Columns
<1>1. ASSUME NEW w \in Widths, SetSize(w) PROVE size' <= c
  <2>1. c \notin UpTo(w) BY <1>1 DEF SetSize
  <2>2. ~(c < w) BY <2>1, <1>0 DEF UpTo
  <2> QED BY <1>1, <2>2, <1>0, DamageAssumption DEF SetSize, Widths
<1>2. CASE Repair
  <2>1. Head(wire).width \in Widths BY <1>2, NextRepair DEF DInv, Sent, Repair
  <2>2. c \notin UpTo(Head(wire).width) BY <1>2, <1>0 DEF Repair
  <2>3. ~(c < Head(wire).width) BY <2>2, <1>0 DEF UpTo
  <2>4. Head(wire).width <= c BY <2>1, <2>3, <1>0, DamageAssumption DEF Widths
  <2> QED BY <1>2, <2>4 DEF Repair
<1>3. CASE Configure
  <2>1. Head(wire).width \in Widths BY <1>3, NextRepair DEF DInv, Sent, Configure
  <2> QED BY <1>3, <2>1, <1>1 DEF Configure
<1>4. ASSUME NEW w \in Widths, Resize(w) PROVE size' <= c
  BY <1>4, <1>1 DEF Resize
<1>5. CASE RemoveDamage BY <1>5 DEF RemoveDamage, DInv, Locked
<1>6. CASE Vanish BY <1>6 DEF Vanish
<1>7. ASSUME NEW d \in Columns, Draw(d) PROVE FALSE
  BY <1>7 DEF Draw
<1>8. CASE damage' = damage BY <1>8
<1> QED BY <1>2, <1>3, <1>4, <1>5, <1>6, <1>7, <1>8
        DEF Next, Server, EventThread, Damaged, MainThread, Elsewhere, RequestFails, Receive,
            EventLock, SetInitial, SetBounds, CallbackX, CallbackWidth, Grant, DrawRect,
            MainLock, CopyNothing, CopyFails, CopyFlush, CopyDamaged, RemoveFails, ClearX,
            ClearWidth, Move, FlushElsewhere, serverVars

\* No damage is subtracted that has not been copied, whatever events come meanwhile; but
\* for what is cut off, and for what a repair takes beyond the stale bounds it adds again.
THEOREM SubtractsCorrect == Spec => OnlyCopiedIsSubtracted
<1>1. DInv /\ [Next]_vars =>
        [\A c \in damage \ damage' :
           \/ main = "subtract" /\ main' # main /\ c \in copied
           \/ wire # <<>> /\ wire' = Tail(wire) /\ Head(wire).kind = "repair"
                /\ Head(wire).width <= c
           \/ size' <= c
           \/ ~exists']_vars
  BY SubtractStep
<1> QED BY DInvHolds, <1>1, PTL DEF Spec, OnlyCopiedIsSubtracted

----------------------------------------------------------------------------
(* Damage is never stranded.  As long as there is damage, a report of it is *)
(* on its way, or it is being subtracted, or dmg_bounds is not empty and   *)
(* the view will be drawn, unless the box is out of reach.                 *)

HasRepair(s) == \E i \in 1 .. Len(s) : s[i].kind = "repair"

Reported == \/ queue # <<>> \/ event \in {"lock", "set"}
            \/ HasRepair(buffer) \/ HasRepair(wire)

ToDraw == /\ main \notin {"zeroX", "zeroWidth"}
          /\ dmgBounds.width > 0
          /\ \/ event = "readX"
             \/ event = "readWidth" /\ readX < bounds
             \/ needs # {}
             \/ main \in {"lock", "copy"}
             \/ ~Fits(dmgBounds)
             \/ dmgBounds.x >= bounds

Pending == damage # {} => Reported \/ main = "subtract" \/ ToDraw

PInv == DInv /\ Pending

\* A flush loses no repair.
LEMMA FlushKeepsRepairs ==
  ASSUME NEW r \in Seq(Requests), Sent, Flush(r), HasRepair(buffer) \/ HasRepair(wire)
  PROVE  HasRepair(wire')
<1>1. wire' = (wire \o buffer) \o r BY DEF Flush
<1>2. wire \in Seq(Requests) /\ buffer \in Seq(Requests) BY DEF Sent
<1>3. wire \o buffer \in Seq(Requests) BY <1>2, ConcatProperties
<1>4. HasRepair(wire \o buffer)
  <2>1. CASE HasRepair(wire)
    <3>1. PICK i \in 1 .. Len(wire) : wire[i].kind = "repair" BY <2>1 DEF HasRepair
    <3>2. i \in 1 .. Len(wire \o buffer) /\ (wire \o buffer)[i] = wire[i]
      BY <1>2, <3>1, ConcatProperties
    <3> QED BY <3>1, <3>2 DEF HasRepair
  <2>2. CASE HasRepair(buffer)
    <3>1. PICK i \in 1 .. Len(buffer) : buffer[i].kind = "repair" BY <2>2 DEF HasRepair
    <3>2. /\ Len(wire) + i \in 1 .. Len(wire \o buffer)
          /\ (wire \o buffer)[Len(wire) + i] = buffer[i]
      BY <1>2, <3>1, ConcatProperties
    <3> QED BY <3>1, <3>2 DEF HasRepair
  <2> QED BY <2>1, <2>2
<1>5. PICK i \in 1 .. Len(wire \o buffer) : (wire \o buffer)[i].kind = "repair"
  BY <1>4 DEF HasRepair
<1>6. i \in 1 .. Len((wire \o buffer) \o r) /\ ((wire \o buffer) \o r)[i] = (wire \o buffer)[i]
  BY <1>3, <1>5, ConcatProperties
<1> QED BY <1>1, <1>5, <1>6 DEF HasRepair

\* A repair behind the first request stays.
LEMMA TailKeepsRepairs ==
  ASSUME Sent, wire # <<>>, Head(wire).kind # "repair", HasRepair(wire)
  PROVE  HasRepair(Tail(wire))
<1>1. PICK i \in 1 .. Len(wire) : wire[i].kind = "repair" BY DEF HasRepair
<1>2. i # 1 BY <1>1, HeadTailProperties DEF Sent
<1>3. i - 1 \in 1 .. Len(Tail(wire)) /\ Tail(wire)[i - 1] = wire[i]
  BY <1>1, <1>2, HeadTailProperties DEF Sent
<1> QED BY <1>1, <1>3 DEF HasRepair

\* A change of the width reports what it damages; a box out of the window stays so, or
\* there is a report.
LEMMA SetSizeReports ==
  ASSUME DInv, NEW w \in Widths, SetSize(w), damage' # {}
  PROVE  /\ queue # <<>> => queue' # <<>>
         /\ queue' # <<>> \/ (w <= size /\ damage # {})
<1> DEFINE gained == {c \in Columns : size <= c /\ c < w}
           after == (damage \cap UpTo(w)) \cup gained
<1>1. queue' = queue \o (IF gained = {} THEN <<>> ELSE Grown(damage, after)) /\ damage' = after
  BY DEF SetSize
<1>2. damage \in SUBSET UpTo(Width) /\ after \in SUBSET UpTo(Width) /\ Width \in 0 .. Width
  BY DamageAssumption DEF DInv, InWindow, UpTo, Columns
<1>3. queue \in Seq(FitRects) BY DEF DInv, Boxes
<1>4. CASE gained = {}
  <2>1. w <= size
    <3>1. SUFFICES ASSUME size < w PROVE FALSE
      BY DamageAssumption DEF DInv, InWindow, Widths
    <3>2. size \in gained BY <3>1, DamageAssumption DEF DInv, InWindow, Widths, Columns
    <3> QED BY <1>4, <3>2
  <2>2. queue' = queue BY <1>1, <1>3, <1>4, ConcatProperties
  <2> QED BY <1>1, <1>4, <2>1, <2>2
<1>5. CASE gained # {}
  <2>1. PICK c \in gained : TRUE BY <1>5
  <2>2. c \in after /\ \A d \in damage : d < c
    BY <2>1, DamageAssumption DEF DInv, InWindow, UpTo, Columns, Widths
  <2> HIDE DEF gained, after
  <2>3. Grown(damage, after) \in Seq(FitRects) /\ Grown(damage, after) # <<>>
    BY <1>2, <2>2, ReportsFit DEF FitRects
  <2>4. queue' # <<>> BY <1>1, <1>3, <1>5, <2>3, ConcatProperties
  <2> QED BY <2>4
<1> QED BY <1>4, <1>5

LEMMA PInvInit == Init => PInv
<1> SUFFICES ASSUME Init PROVE Pending
  BY DInvInit DEF PInv
<1> QED BY DEF Init, Pending, Reported

LEMMA PendingStep == PInv /\ [Next]_vars => Pending'
<1> SUFFICES ASSUME PInv, [Next]_vars, damage' # {}
             PROVE  (Reported \/ main = "subtract" \/ ToDraw)'
  BY DEF Pending
<1> USE DEF PInv, DInv, Locked, InWindow, Boxes, Sent, Pending
<1>a. UpTo(Width) = Columns /\ Width \in 0 .. Width /\ UpTo(size) \in SUBSET Columns
  BY DamageAssumption DEF UpTo, Columns
<1>b. /\ HasRepair(buffer)' <=> HasRepair(buffer')
      /\ HasRepair(wire)' <=> HasRepair(wire')
      /\ Fits(dmgBounds)' <=> (dmgBounds'.width > 0 /\ dmgBounds'.x + dmgBounds'.width <= size')
  BY DEF HasRepair, Fits
<1>c. ASSUME Flush(<<>>), UNCHANGED <<queue, event>>, Reported
      PROVE  Reported'
  <2>1. <<>> \in Seq(Requests) OBVIOUS
  <2>2. HasRepair(buffer) \/ HasRepair(wire) => HasRepair(wire')
    BY <1>c, <2>1, FlushKeepsRepairs
  <2> QED BY <1>b, <1>c, <2>2 DEF Reported
<1>d. ASSUME NEW w \in Widths, SetSize(w),
             UNCHANGED <<buffer, windowVars, eventVars, mainVars, needs>>,
             HasRepair(wire) => HasRepair(wire')
      PROVE  (Reported \/ main = "subtract" \/ ToDraw)'
  <2>1. /\ queue # <<>> => queue' # <<>>
        /\ queue' # <<>> \/ (w <= size /\ damage # {})
    BY <1>d, SetSizeReports
  <2>2. CASE queue' # <<>> BY <2>2 DEF Reported
  <2>3. CASE queue' = <<>> /\ w <= size /\ damage # {}
    <3>1. size' = w BY <1>d DEF SetSize
    <3>2. ~Fits(dmgBounds) => ~Fits(dmgBounds)'
      BY <1>b, <1>d, <2>3, <3>1, DamageAssumption DEF Fits, windowVars, Rect, Columns, Widths
    <3>3. Reported => Reported'
      BY <1>b, <1>d, <2>1, <2>3 DEF Reported, eventVars
    <3>4. ToDraw => ToDraw'
      BY <1>d, <3>2 DEF ToDraw, windowVars, eventVars, mainVars
    <3> QED BY <1>d, <2>3, <3>3, <3>4 DEF mainVars
  <2> QED BY <2>1, <2>2, <2>3
<1>1. CASE Repair
  <2> DEFINE left == damage \ Covered(Head(wire).box)
             all == left \cup (UpTo(Head(wire).width) \cap UpTo(size))
  <2>0. Head(wire).width \in Widths BY <1>1, NextRepair DEF Repair
  <2>1. left \in SUBSET UpTo(Width) /\ all \in SUBSET UpTo(Width)
    BY <1>a DEF UpTo
  <2>2. all # {}
    <3>1. 0 \in UpTo(Head(wire).width) \cap UpTo(size)
      BY <2>0, DamageAssumption DEF UpTo, Widths, Columns
    <3> QED BY <3>1
  <2>3. queue' = (queue \o Report(left)) \o Grown(left, all)
    BY <1>1 DEF Repair
  <2> HIDE DEF left, all
  <2>4. /\ Report(left) \in Seq(FitRects) /\ Grown(left, all) \in Seq(FitRects)
        /\ Report(left) # <<>> \/ Grown(left, all) # <<>>
    BY <1>a, <2>1, <2>2, ReportsFit DEF FitRects
  <2>5. queue' # <<>>
    BY <2>3, <2>4, ConcatProperties
  <2> QED BY <2>5 DEF Reported
<1>2. CASE Configure
  <2>1. Head(wire).width \in Widths BY <1>2, NextRepair DEF Configure
  <2>2. HasRepair(wire) => HasRepair(wire')
    BY <1>2, TailKeepsRepairs DEF Configure
  <2> QED BY <1>2, <2>1, <2>2, <1>d DEF Configure
<1>3. CASE RequestFails
  BY <1>3, <1>a DEF RequestFails, serverVars, windowVars, eventVars, mainVars, counters
<1>4. CASE Receive BY <1>4 DEF Receive, Reported
<1>5. CASE EventLock BY <1>5 DEF EventLock, Reported
<1>6. CASE SetInitial
  <2>1. PICK box \in Rect :
          buffer' = Append(buffer, [kind |-> "repair", box |-> box, width |-> bounds])
    BY <1>6 DEF SetInitial
  <2> DEFINE r == [kind |-> "repair", box |-> box, width |-> bounds]
  <2>2. r \in Requests BY DEF Requests
  <2> HIDE DEF r
  <2>3. /\ Len(buffer) + 1 \in 1 .. Len(buffer')
        /\ buffer'[Len(buffer) + 1] = r
    BY <2>1, <2>2, AppendProperties DEF r
  <2>4. HasRepair(buffer')
    BY <2>3 DEF HasRepair, r
  <2> QED BY <1>b, <2>4 DEF Reported
<1>7. CASE SetBounds
  BY <1>7 DEF SetBounds, serverVars, requestVars, mainVars, counters, ToDraw, FitRects, Span
<1>8. CASE CallbackX
  <2>1. dmgBounds.x \in Nat /\ bounds \in Nat BY DamageAssumption DEF Rect, Columns, Widths
  <2> QED BY <1>8, <2>1, <1>b DEF CallbackX, serverVars, requestVars, windowVars, mainVars,
     Reported, ToDraw, Fits
<1>9. CASE CallbackWidth
  <2>1. dmgBounds.width > 0 /\ readX < bounds => needs' # {}
    <3>1. SUFFICES ASSUME dmgBounds.width > 0, readX < bounds
                   PROVE  readX \in Covered([x |-> readX,
                      width |-> dmgBounds.width]) \cap UpTo(bounds)
      BY <1>9 DEF CallbackWidth, Mark
    <3> QED BY <3>1, DamageAssumption DEF Covered, UpTo, Columns, Rect
  <2> QED BY <1>9, <2>1, <1>b DEF CallbackWidth, Mark, serverVars, requestVars, windowVars,
     mainVars, Reported, ToDraw, Fits
<1>10. ASSUME NEW w \in Widths, Grant(w) PROVE (Reported \/ main = "subtract" \/ ToDraw)'
  <2>1. Flush(<<ResizeTo(w)>>) BY <1>10 DEF Grant
  <2>2. HasRepair(buffer) \/ HasRepair(wire) => HasRepair(wire')
    BY <2>1, ResizeIsRequest, FlushKeepsRepairs
  <2> QED BY <1>10, <2>2, <1>b DEF Grant, serverVars, windowVars, eventVars, mainVars,
     Reported, ToDraw, Fits
<1>11. CASE DrawRect
  BY <1>11, <1>b DEF DrawRect, serverVars, requestVars, windowVars, eventVars, counters,
     Reported, ToDraw, Fits
<1>12. CASE MainLock
  BY <1>12, <1>b DEF MainLock, serverVars, requestVars, windowVars, eventVars, counters,
     Reported, ToDraw, Fits
<1>13. CASE CopyNothing
  <2>1. ~ToDraw BY <1>13 DEF CopyNothing, ToDraw, Rect
  <2>2. Reported BY <1>13, <2>1 DEF CopyNothing, serverVars
  <2>3. Flush(<<>>) /\ UNCHANGED <<queue, event>> BY <1>13 DEF CopyNothing, serverVars,
     eventVars
  <2> QED BY <2>2, <2>3, <1>c
<1>14. CASE CopyFails
  BY <1>14, <1>b DEF CopyFails, Answered, serverVars, requestVars, windowVars, eventVars,
     counters, Reported, ToDraw, Fits, Rect
<1>15. CASE CopyFlush
  <2>1. Flush(<<>>) /\ UNCHANGED <<queue, event>> BY <1>15 DEF CopyFlush, serverVars,
     eventVars
  <2>2. Reported => Reported' BY <2>1, <1>c
  <2> QED BY <1>15, <2>2, <1>b DEF CopyFlush, serverVars, windowVars, eventVars, mainVars,
     ToDraw, Fits
<1>16. CASE CopyDamaged BY <1>16 DEF CopyDamaged
<1>17. CASE RemoveDamage
  <2> DEFINE left == damage \ Covered(dmgBounds)
  <2>1. left \in SUBSET UpTo(Width) /\ left # {} BY <1>17, <1>a DEF UpTo, RemoveDamage
  <2>2. queue' = queue \o Report(left) BY <1>17 DEF RemoveDamage
  <2> HIDE DEF left
  <2>3. Report(left) \in Seq(FitRects) /\ Report(left) # <<>>
    BY <1>a, <2>1, ReportsFit DEF FitRects
  <2>4. queue' # <<>> BY <2>2, <2>3, ConcatProperties
  <2> QED BY <2>4 DEF Reported
<1>18. CASE RemoveFails BY <1>18 DEF RemoveFails, serverVars
<1>19. CASE ClearX
  BY <1>19, <1>b DEF ClearX, serverVars, requestVars, eventVars, counters, Reported, ToDraw
<1>20. CASE ClearWidth
  BY <1>20, <1>b DEF ClearWidth, serverVars, requestVars, eventVars, counters, Reported,
     ToDraw
<1>21. ASSUME NEW c \in Columns, Draw(c) PROVE (Reported \/ main = "subtract" \/ ToDraw)'
  <2>0. damage \in SUBSET UpTo(Width) /\ damage \cup {c} \in SUBSET UpTo(Width)
    BY <1>a
  <2>1. /\ Grown(damage, damage \cup {c}) \in Seq(FitRects)
        /\ damage = {} => Grown(damage, damage \cup {c}) # <<>>
    BY <1>a, <2>0, ReportsFit DEF FitRects
  <2>2. queue' # <<>> \/ (damage # {} /\ (queue # <<>> => queue' # <<>>))
    BY <1>21, <2>1, ConcatProperties DEF Draw
  <2> QED BY <1>21, <2>2, <1>b DEF Draw, requestVars, windowVars, eventVars, mainVars,
     Reported, ToDraw, Fits
<1>22. ASSUME NEW w \in Widths, Resize(w) PROVE (Reported \/ main = "subtract" \/ ToDraw)'
  BY <1>22, <1>d DEF Resize, requestVars
<1>23. ASSUME NEW w \in Widths, Move(w) PROVE (Reported \/ main = "subtract" \/ ToDraw)'
  <2>1. dmgBounds'.width = w /\ w > 0 /\ main' = "idle"
    BY <1>23, DamageAssumption DEF Move, Rect, Widths, mainVars
  <2>2. 0 \in needs' BY <1>23, DamageAssumption DEF Move, UpTo, Columns, Widths
  <2> QED BY <2>1, <2>2 DEF ToDraw
<1>24. CASE Vanish BY <1>24 DEF Vanish
<1>25. CASE FlushElsewhere
  <2>1. Flush(<<>>) /\ UNCHANGED <<queue, event>> BY <1>25 DEF FlushElsewhere, serverVars,
     eventVars
  <2>2. Reported => Reported' BY <2>1, <1>c
  <2> QED BY <1>25, <2>2, <1>b DEF FlushElsewhere, serverVars, windowVars, eventVars,
     mainVars, ToDraw, Fits
<1>26. CASE UNCHANGED vars
  BY <1>26, <1>b DEF vars, serverVars, requestVars, windowVars, eventVars, mainVars,
     counters, Reported, ToDraw, Fits
<1> QED BY <1>1, <1>2, <1>3, <1>4, <1>5, <1>6, <1>7, <1>8, <1>9, <1>10, <1>11, <1>12,
           <1>13, <1>14, <1>15, <1>16, <1>17, <1>18, <1>19, <1>20, <1>21, <1>22, <1>23,
           <1>24, <1>25, <1>26
        DEF Next, Server, EventThread, Damaged, MainThread, Elsewhere

\* The inductive invariant: damage is always on its way to be repaired.
THEOREM PInvHolds == Spec => []PInv
<1>1. PInv /\ [Next]_vars => PInv'
  BY DInvStep, PendingStep DEF PInv
<1> QED BY PInvInit, <1>1, PTL DEF Spec

\* At rest, damage is left only under a box out of reach: out of the window, or beyond the
\* view of a window the application has grown.
THEOREM StrandedCorrect == Spec => []StrandedOnlyOutside
<1>1. PInv => StrandedOnlyOutside
  BY DEF PInv, Pending, Reported, HasRepair, ToDraw, StrandedOnlyOutside, AtRest, Outside
<1> QED BY <1>1, PInvHolds, PTL

----------------------------------------------------------------------------
(* Types *)

\* The types of what is not in DInv.
Others ==
  /\ stale \subseteq Columns /\ clip \subseteq Columns /\ copied \subseteq Columns
  /\ override \in BOOLEAN /\ initial \in BOOLEAN
  /\ event \in {"wait", "lock", "set", "readX", "readWidth"}
  /\ main \in {"idle", "lock", "copy", "subtract", "zeroX", "zeroWidth"}
  /\ draws \in 0 .. MaxDraws /\ resizes \in 0 .. MaxResizes /\ moves \in 0 .. MaxMoves

\* The types hold at first.
LEMMA OthersInit == Init => Others
<1>1. /\ MaxDraws \in 0 .. MaxDraws /\ MaxResizes \in 0 .. MaxResizes
      /\ MaxMoves \in 0 .. MaxMoves
  BY DamageAssumption
<1> QED BY <1>1, DamageAssumption DEF Init, Others, UpTo

\* Every step keeps the types.
LEMMA OthersStep == DInv /\ Others /\ [Next]_vars => Others'
<1> SUFFICES ASSUME DInv, Others, [Next]_vars PROVE Others'
  OBVIOUS
<1> USE DEF Others
<1>0. ASSUME NEW w, SetSize(w) PROVE stale' \subseteq Columns
  BY <1>0 DEF SetSize
<1>1. CASE Repair BY <1>1 DEF Repair, windowVars, eventVars, mainVars, counters
<1>2. CASE Configure BY <1>2, <1>0 DEF Configure, windowVars, eventVars, mainVars, counters
<1>3. CASE RequestFails
  BY <1>3 DEF RequestFails, serverVars, windowVars, eventVars, mainVars, counters
<1>4. CASE Receive BY <1>4 DEF Receive, requestVars, windowVars, mainVars, counters
<1>5. CASE EventLock
  BY <1>5 DEF EventLock, serverVars, requestVars, windowVars, mainVars, counters
<1>6. CASE SetInitial BY <1>6 DEF SetInitial, serverVars, mainVars, counters
<1>7. CASE SetBounds BY <1>7 DEF SetBounds, serverVars, requestVars, mainVars, counters
<1>8. CASE CallbackX
  BY <1>8 DEF CallbackX, serverVars, requestVars, windowVars, mainVars, counters
<1>9. CASE CallbackWidth
  BY <1>9 DEF CallbackWidth, serverVars, requestVars, windowVars, mainVars, counters
<1>10. ASSUME NEW w \in Widths, Grant(w) PROVE Others'
  <2>1. resizes' \in 0 .. MaxResizes BY <1>10, DamageAssumption DEF Grant
  <2> QED BY <1>10, <2>1 DEF Grant, serverVars, windowVars, eventVars, mainVars
<1>11. CASE DrawRect
  BY <1>11 DEF DrawRect, serverVars, requestVars, windowVars, eventVars, counters, DInv,
     Boxes
<1>12. CASE MainLock
  BY <1>12 DEF MainLock, serverVars, requestVars, windowVars, eventVars, counters
<1>13. CASE CopyNothing
  BY <1>13 DEF CopyNothing, serverVars, windowVars, eventVars, counters
<1>14. CASE CopyFails
  BY <1>14 DEF CopyFails, Answered, serverVars, requestVars, windowVars, eventVars, counters
<1>15. CASE CopyFlush
  BY <1>15 DEF CopyFlush, serverVars, windowVars, eventVars, mainVars, counters
<1>16. CASE CopyDamaged
  BY <1>16 DEF CopyDamaged, Answered, requestVars, windowVars, eventVars, counters, Covered
<1>17. CASE RemoveDamage
  BY <1>17 DEF RemoveDamage, requestVars, windowVars, eventVars, counters
<1>18. CASE RemoveFails
  BY <1>18 DEF RemoveFails, serverVars, requestVars, windowVars, eventVars, counters
<1>19. CASE ClearX BY <1>19 DEF ClearX, serverVars, requestVars, eventVars, counters
<1>20. CASE ClearWidth BY <1>20 DEF ClearWidth, serverVars, requestVars, eventVars, counters
<1>21. ASSUME NEW c \in Columns, Draw(c) PROVE Others'
  <2>1. draws' \in 0 .. MaxDraws BY <1>21, DamageAssumption DEF Draw
  <2> QED BY <1>21, <2>1 DEF Draw, windowVars, eventVars, mainVars
<1>22. ASSUME NEW w \in Widths, Resize(w) PROVE Others'
  <2>1. resizes' \in 0 .. MaxResizes BY <1>22, DamageAssumption DEF Resize
  <2> QED BY <1>22, <2>1, <1>0 DEF Resize, windowVars, eventVars, mainVars
<1>23. ASSUME NEW w \in Widths, Move(w) PROVE Others'
  <2>1. moves' \in 0 .. MaxMoves BY <1>23, DamageAssumption DEF Move
  <2> QED BY <1>23, <2>1 DEF Move, serverVars, eventVars, mainVars
<1>24. CASE Vanish
  <2>1. 0 \in 0 .. MaxDraws /\ 0 \in 0 .. MaxResizes BY DamageAssumption
  <2> QED BY <1>24, <2>1 DEF Vanish, windowVars, eventVars, mainVars
<1>25. CASE FlushElsewhere
  BY <1>25 DEF FlushElsewhere, serverVars, windowVars, eventVars, mainVars, counters
<1>26. CASE UNCHANGED vars
  BY <1>26 DEF vars, serverVars, requestVars, windowVars, eventVars, mainVars, counters
<1> QED BY <1>1, <1>2, <1>3, <1>4, <1>5, <1>6, <1>7, <1>8, <1>9, <1>10, <1>11, <1>12,
           <1>13, <1>14, <1>15, <1>16, <1>17, <1>18, <1>19, <1>20, <1>21, <1>22, <1>23,
           <1>24, <1>25, <1>26
        DEF Next, Server, EventThread, Damaged, MainThread, Elsewhere

\* Every variable keeps its type, the boxes of events and of dmg_bounds and the requests
\* included, for a window of any width and any number of draws, moves and resizes.
THEOREM TypeCorrect == Spec => []TypeOK
<1>1. DInv /\ Others => TypeOK
  <2>1. \A q : q \in Seq(FitRects) => q \in Seq(Rect) BY DEF FitRects, Span
  <2> QED BY <2>1 DEF DInv, Locked, InWindow, Boxes, Sent, Others, TypeOK, UpTo
<1> QED BY OthersInit, OthersStep, <1>1, DInvHolds, PTL DEF Spec

----------------------------------------------------------------------------
(* Windows whose width does not change and that are not moved *)

NoDamageStranded == AtRest => damage = {}

Repairs == [kind : {"repair"}, box : Rect, width : Widths]

\* The box never leaves the window, nor the view.
Inside ==
  /\ moves = 0 /\ resizes = 0 /\ bounds = size
  /\ buffer \in Seq(Repairs) /\ wire \in Seq(Repairs)
  /\ queue \in Seq(Span(size)) /\ (event \in {"lock", "set"} => area \in Span(size))
  /\ dmgBounds.width > 0 => dmgBounds \in Span(size)

LEMMA InsideInit == MaxMoves = 0 /\ MaxResizes = 0 /\ Init => Inside
<1> SUFFICES ASSUME MaxMoves = 0, MaxResizes = 0, Init PROVE Inside
  OBVIOUS
<1>1. Full(size) \in Span(size)
  BY DamageAssumption DEF Init, Full, Span, Rect, Widths, Columns
<1>2. queue = <<>> \/ queue = <<Full(size)>> BY DEF Init
<1>3. queue \in Seq(Span(size))
  <2>1. <<>> \in Seq(Span(size)) OBVIOUS
  <2>2. <<Full(size)>> \in Seq(Span(size)) BY <1>1
  <2> QED BY <1>2, <2>1, <2>2
<1>4. dmgBounds.width > 0 => dmgBounds \in Span(size)
  BY <1>1 DEF Init, NoRect
<1> QED BY <1>3, <1>4 DEF Init, Inside

LEMMA InsideStep == DInv /\ Inside /\ [Next]_vars => Inside'
<1> SUFFICES ASSUME DInv, Inside, [Next]_vars PROVE Inside'
  OBVIOUS
<1> USE DEF DInv, InWindow, Boxes, Inside
<1>a. /\ size \in 0 .. Width /\ damage \in SUBSET UpTo(size)
      /\ \A n : Span(n)' = Span(n)
  BY DamageAssumption DEF Widths, Span, Rect, Columns
<1>b. ASSUME size' = size PROVE Span(size)' = Span(size)
  BY <1>b DEF Span, Rect, Columns
<1>c. ASSUME Flush(<<>>) PROVE wire' \in Seq(Repairs) /\ buffer' \in Seq(Repairs)
  <2>1. <<>> \in Seq(Repairs) OBVIOUS
  <2> QED BY <1>c, <2>1, FlushSends
<1>1. CASE Repair
  <2> DEFINE left == damage \ Covered(Head(wire).box)
             all == left \cup (UpTo(Head(wire).width) \cap UpTo(size))
  <2>0. Head(wire).width \in Widths BY <1>1, NextRepair DEF Sent, Repair
  <2>1. left \in SUBSET UpTo(size) /\ all \in SUBSET UpTo(size)
    BY <1>a
  <2>2. all # {}
    <3>1. 0 \in UpTo(Head(wire).width) \cap UpTo(size)
      BY <2>0, DamageAssumption DEF UpTo, Widths, Columns
    <3> QED BY <3>1
  <2>3. queue' = (queue \o Report(left)) \o Grown(left, all)
    BY <1>1 DEF Repair
  <2> HIDE DEF left, all
  <2>4. Report(left) \in Seq(Span(size)) /\ Grown(left, all) \in Seq(Span(size))
    BY <1>a, <2>1, <2>2, ReportsFit
  <2>5. queue' \in Seq(Span(size))
    BY <2>3, <2>4, ConcatProperties
  <2>6. wire' \in Seq(Repairs) BY <1>1, HeadTailProperties DEF Repair
  <2> QED BY <1>1, <2>5, <2>6, <1>b DEF Repair, windowVars, eventVars, counters
<1>2. CASE Configure
  <2>1. Head(wire) \in Repairs BY <1>2, HeadTailProperties DEF Configure
  <2> QED BY <1>2, <2>1 DEF Configure, Repairs
<1>3. CASE RequestFails
  <2>1. wire' \in Seq(Repairs) BY <1>3, HeadTailProperties DEF RequestFails
  <2> QED BY <1>3, <2>1, <1>b DEF RequestFails, serverVars, windowVars, eventVars, counters
<1>4. CASE Receive
  <2>1. Head(queue) \in Span(size) /\ Tail(queue) \in Seq(Span(size))
    BY <1>4, HeadTailProperties DEF Receive
  <2> QED BY <1>4, <2>1, <1>b DEF Receive, requestVars, windowVars, counters
<1>5. CASE EventLock
  BY <1>5, <1>b DEF EventLock, serverVars, requestVars, windowVars, mainVars, counters
<1>6. CASE SetInitial
  <2>1. PICK box \in Rect :
          buffer' = Append(buffer, [kind |-> "repair", box |-> box, width |-> bounds])
    BY <1>6 DEF SetInitial
  <2>2. [kind |-> "repair", box |-> box, width |-> bounds] \in Repairs
    BY DEF Repairs
  <2>3. buffer' \in Seq(Repairs) BY <2>1, <2>2, AppendProperties
  <2> QED BY <1>6, <2>3, <1>b DEF SetInitial, serverVars, counters
<1>7. CASE SetBounds
  BY <1>7, <1>b DEF SetBounds, serverVars, requestVars, mainVars, counters
<1>8. CASE CallbackX
  BY <1>8, <1>b DEF CallbackX, serverVars, requestVars, windowVars, mainVars, counters
<1>9. CASE CallbackWidth
  BY <1>9, <1>b DEF CallbackWidth, serverVars, requestVars, windowVars, mainVars, counters
<1>10. ASSUME NEW w \in Widths, Grant(w) PROVE Inside' BY <1>10 DEF Grant
<1>11. CASE DrawRect
  BY <1>11, <1>b DEF DrawRect, serverVars, requestVars, windowVars, eventVars, counters
<1>12. CASE MainLock
  BY <1>12, <1>b DEF MainLock, serverVars, requestVars, windowVars, eventVars, counters
<1>13. CASE CopyNothing
  BY <1>13, <1>b, <1>c DEF CopyNothing, serverVars, windowVars, eventVars, counters
<1>14. CASE CopyFails
  BY <1>14, <1>b DEF CopyFails, Answered, serverVars, requestVars, windowVars, eventVars,
     counters
<1>15. CASE CopyFlush
  BY <1>15, <1>b, <1>c DEF CopyFlush, serverVars, windowVars, eventVars, counters
<1>16. CASE CopyDamaged
  BY <1>16, <1>b DEF CopyDamaged, Answered, requestVars, windowVars, eventVars, counters
<1>17. CASE RemoveDamage
  <2> DEFINE left == damage \ Covered(dmgBounds)
  <2>1. left \in SUBSET UpTo(size) BY <1>a
  <2>2. UpTo(size) # {}
    <3>1. 0 \in UpTo(size) BY DamageAssumption DEF UpTo, Widths, Columns
    <3> QED BY <3>1
  <2>3. queue' = queue \o Report(left) BY <1>17 DEF RemoveDamage
  <2> HIDE DEF left
  <2>4. Report(left) \in Seq(Span(size))
    BY <1>a, <2>1, <2>2, ReportsFit
  <2>5. queue' \in Seq(Span(size)) BY <2>3, <2>4, ConcatProperties
  <2> QED BY <1>17, <2>5, <1>b DEF RemoveDamage, requestVars, windowVars, eventVars,
     counters
<1>18. CASE RemoveFails
  BY <1>18, <1>b DEF RemoveFails, serverVars, requestVars, windowVars, eventVars, counters
<1>19. CASE ClearX
  <2>1. dmgBounds' = [x |-> 0, width |-> dmgBounds.width] BY <1>19 DEF ClearX, Rect
  <2>2. dmgBounds'.width > 0 => dmgBounds' \in Span(size)
    BY <2>1, DamageAssumption DEF Span, Rect, Columns, Widths
  <2> QED BY <1>19, <2>2, <1>b DEF ClearX, serverVars, requestVars, eventVars, counters
<1>20. CASE ClearWidth
  <2>1. dmgBounds'.width = 0 BY <1>20 DEF ClearWidth, Rect
  <2> QED BY <1>20, <2>1, <1>b DEF ClearWidth, serverVars, requestVars, eventVars, counters
<1>21. ASSUME NEW c \in Columns, Draw(c) PROVE Inside'
  <2>1. damage \cup {c} \in SUBSET UpTo(size) BY <1>21, <1>a DEF Draw, UpTo
  <2>2. Grown(damage, damage \cup {c}) \in Seq(Span(size))
    BY <1>a, <2>1, ReportsFit
  <2>3. queue' \in Seq(Span(size))
    BY <1>21, <2>2, ConcatProperties DEF Draw
  <2> QED BY <1>21, <2>3, <1>b DEF Draw, requestVars, windowVars, eventVars
<1>22. ASSUME NEW w \in Widths, Resize(w) PROVE Inside' BY <1>22 DEF Resize
<1>23. ASSUME NEW w \in Widths, Move(w) PROVE Inside' BY <1>23 DEF Move
<1>24. CASE Vanish BY <1>24, <1>b DEF Vanish, requestVars, windowVars, eventVars, mainVars
<1>25. CASE FlushElsewhere
  BY <1>25, <1>b, <1>c DEF FlushElsewhere, serverVars, windowVars, eventVars, counters
<1>26. CASE UNCHANGED vars
  BY <1>26, <1>b DEF vars, serverVars, requestVars, windowVars, eventVars, mainVars,
     counters
<1> QED BY <1>1, <1>2, <1>3, <1>4, <1>5, <1>6, <1>7, <1>8, <1>9, <1>10, <1>11, <1>12,
           <1>13, <1>14, <1>15, <1>16, <1>17, <1>18, <1>19, <1>20, <1>21, <1>22, <1>23,
           <1>24, <1>25, <1>26
        DEF Next, Server, EventThread, Damaged, MainThread, Elsewhere

\* If no width changes and no window is moved, no damage is left at rest.
THEOREM NothingStranded ==
  ASSUME MaxMoves = 0, MaxResizes = 0
  PROVE  Spec => []NoDamageStranded
<1>1. Init => Inside
  BY InsideInit, MaxMoves = 0, MaxResizes = 0
<1>2. DInv /\ Inside /\ StrandedOnlyOutside => NoDamageStranded
  BY DamageAssumption
     DEF DInv, InWindow, Inside, StrandedOnlyOutside, Outside, NoDamageStranded, Fits, Span,
         Rect, Columns, Widths
<1> QED BY <1>1, <1>2, InsideStep, DInvHolds, StrandedCorrect, PTL DEF Spec
=============================================================================
