------------------------------- MODULE Sizing -------------------------------
(***************************************************************************)
(* xcwm_window_constrain_sizing: the size nearest to the one a user asks   *)
(* for that respects the WM_NORMAL_HINTS of the window.  A client calls it *)
(* again and again while the user drags the edge of the window.            *)
(*                                                                         *)
(* A size is <<width, height>>.  Of the hints only the fields named by     *)
(* their flags are looked at.  Numbers are not bounded here: with hints    *)
(* beyond 2^15 the products in the code may overflow an int.               *)
(***************************************************************************)
EXTENDS Integers

CONSTANTS WindowHints,  \* hints a window may have
          Sizes         \* widths and heights that are asked for

VARIABLES hints,  \* size_hints of the window
          asked,  \* the size asked for
          size    \* the size returned for it

vars == <<hints, asked, size>>

INT_MAX == 2147483647

\* Division in C.
Quotient(a, b) == IF a >= 0 THEN a \div b ELSE -((-a) \div b)

\* makemult
Multiple(a, b) == Quotient(a, b) * b

MinSize(h, i) == IF "min" \in h.flags THEN h.min[i]
                 ELSE IF "base" \in h.flags THEN h.base[i] ELSE 1
BaseSize(h, i) == IF "base" \in h.flags THEN h.base[i]
                  ELSE IF "min" \in h.flags THEN h.min[i] ELSE 0
MaxSize(h, i) == IF "max" \in h.flags THEN h.max[i] ELSE INT_MAX
Increment(h, i) == IF "inc" \in h.flags /\ h.inc[i] # 0 THEN h.inc[i] ELSE 1

Clamped(h, i, x) ==
  LET y == IF x < MinSize(h, i) THEN MinSize(h, i) ELSE x
  IN  IF y > MaxSize(h, i) THEN MaxSize(h, i) ELSE y

\* Seeded fault: the increments of the other direction are taken.
Fitted_Swapped(h, i, x) ==
  Multiple(Clamped(h, i, x) - BaseSize(h, i), Increment(h, 3 - i)) + BaseSize(h, i)

\* Seeded fault: the base size is taken off and not put back.
Fitted_OffBase(h, i, x) == Multiple(Clamped(h, i, x) - BaseSize(h, i), Increment(h, i))

\* Base and a number of increments.
Fitted(h, i, x) ==
  Multiple(Clamped(h, i, x) - BaseSize(h, i), Increment(h, i)) + BaseSize(h, i)

\* Seeded fault: what is added for the ratio is not a number of increments.
Adjusted_OffGrid(h, s, i, num, den) ==
  LET j == 3 - i
      more == Quotient(num * s[j], den) - s[i]
      less == Multiple(s[j] - Quotient(s[i] * den, num), Increment(h, j))
  IN  IF num * s[j] <= den * s[i] THEN s
      ELSE IF s[i] + more <= MaxSize(h, i) THEN [s EXCEPT ![i] = @ + more]
      ELSE IF s[j] - less >= MinSize(h, j) THEN [s EXCEPT ![j] = @ - less]
      ELSE s

\* Where s[i] is too small for the ratio num : den to s[j], enlarge it; if that is
\* too large, reduce s[j]; and if that is too small, leave both.
Adjusted(h, s, i, num, den) ==
  LET j == 3 - i
      more == Multiple(Quotient(num * s[j], den) - s[i], Increment(h, i))
      less == Multiple(s[j] - Quotient(s[i] * den, num), Increment(h, j))
  IN  IF num * s[j] <= den * s[i] THEN s
      ELSE IF s[i] + more <= MaxSize(h, i) THEN [s EXCEPT ![i] = @ + more]
      ELSE IF s[j] - less >= MinSize(h, j) THEN [s EXCEPT ![j] = @ - less]
      ELSE s

\* Below the least aspect the width is too small, above the greatest the height.
NotTooTall(h, s) == Adjusted(h, s, 1, h.minAspect[1], h.minAspect[2])
NotTooWide(h, s) == Adjusted(h, s, 2, h.maxAspect[2], h.maxAspect[1])

\* Seeded fault: sizes that are too wide are not corrected.
Constrained_TallOnly(h, s) ==
  LET fitted == <<Fitted(h, 1, s[1]), Fitted(h, 2, s[2])>>
  IN  IF "aspect" \in h.flags THEN NotTooTall(h, fitted) ELSE fitted

Constrained(h, s) ==
  LET fitted == <<Fitted(h, 1, s[1]), Fitted(h, 2, s[2])>>
  IN  IF "aspect" \in h.flags THEN NotTooWide(h, NotTooTall(h, fitted)) ELSE fitted

----------------------------------------------------------------------------
Pair == Nat \X Nat

\* Hints that do not contradict each other, with aspect ratios that can be
\* divided by.
SoundHints ==
  {h \in [flags : SUBSET {"min", "base", "max", "inc", "aspect"}, min : Pair, base : Pair,
          max : Pair, inc : Pair, minAspect : Pair, maxAspect : Pair] :
     /\ \A i \in 1 .. 2 : /\ BaseSize(h, i) <= MinSize(h, i)
                         /\ MinSize(h, i) <= MaxSize(h, i)
                         /\ h.minAspect[i] > 0 /\ h.maxAspect[i] > 0
     /\ h.minAspect[1] * h.maxAspect[2] <= h.maxAspect[1] * h.minAspect[2]}

ASSUME SizingAssumption == WindowHints \subseteq SoundHints /\ Sizes \subseteq Nat

\* xcwm_window_constrain_sizing, for any size or for the one it returned.
Resize(s) == /\ asked' = s
             /\ size' = Constrained(hints, s)
             /\ UNCHANGED hints

Init == /\ hints \in WindowHints
        /\ asked \in Sizes \X Sizes
        /\ size = Constrained(hints, asked)

Next == Resize(size) \/ \E s \in Sizes \X Sizes : Resize(s)

Spec == Init /\ [][Next]_vars

----------------------------------------------------------------------------
(* Properties *)

Fits(h, i, x) == /\ x <= MaxSize(h, i)
                 /\ (x - BaseSize(h, i)) % Increment(h, i) = 0
                 /\ x > MinSize(h, i) - Increment(h, i)

\* The size returned is never above the maximum, lies on the grid of increments
\* from the base size and is less than an increment below the minimum, the
\* adjustment for the aspect ratio included.
SizeFits == \A i \in 1 .. 2 : Fits(hints, i, size[i])

\* Without aspect hints it is the greatest such size that is not above the size
\* asked for, or above the minimum where less than that was asked for.
SizeNearest ==
  "aspect" \notin hints.flags =>
    \A i \in 1 .. 2 :
      LET target == IF asked[i] <= MinSize(hints, i) THEN MinSize(hints, i) ELSE asked[i]
      IN  /\ size[i] <= target
          /\ size[i] + Increment(hints, i) > target \/ size[i] + Increment(hints, i) > MaxSize(hints, i)

\* The width and the height that the limits of the aspect ratio ask for are within
\* the maximum.
RoomToGrow ==
  LET wanted(i, num, den) == (num * Clamped(hints, 3 - i, asked[3 - i])) \div den
  IN  /\ wanted(1, hints.minAspect[1], hints.minAspect[2]) <= MaxSize(hints, 1)
      /\ wanted(2, hints.maxAspect[2], hints.maxAspect[1]) <= MaxSize(hints, 2)

\* With aspect hints, and room to grow, it is within the limits of the aspect
\* ratio, give or take one increment, after both corrections.
AspectKept ==
  "aspect" \in hints.flags /\ RoomToGrow =>
    /\ hints.minAspect[1] * size[2] < hints.minAspect[2] * (size[1] + Increment(hints, 1))
    /\ hints.maxAspect[2] * size[1] < hints.maxAspect[1] * (size[2] + Increment(hints, 2))

\* Constraining a size that has been returned gives that size, unless there are
\* both aspect hints and increments: a window does not creep while it is dragged.
SizeStable ==
  [][~({"aspect", "inc"} \subseteq hints.flags) /\ asked' = size => size' = size]_vars
=============================================================================
