---------------------------- MODULE SizingProofs ----------------------------
(***************************************************************************)
(* Proofs about Sizing: what xcwm_window_constrain_sizing returns, for     *)
(* every size and all hints that do not contradict each other.             *)
(***************************************************************************)
EXTENDS Sizing, TLAPS

(***************************************************************************)
(* Division: of a number that is not negative, in C and here alike.        *)
(***************************************************************************)
LEMMA MultipleBounds ==
  ASSUME NEW a \in Nat, NEW b \in Nat \ {0}
  PROVE  /\ Multiple(a, b) \in Nat
         /\ Multiple(a, b) <= a /\ a < Multiple(a, b) + b
         /\ Multiple(a, b) % b = 0
<1>1. a \div b \in Nat /\ (a \div b) * b <= a /\ a < (a \div b) * b + b
  OBVIOUS
<1>2. ((a \div b) * b) % b = 0
  OBVIOUS
<1>3. Multiple(a, b) = (a \div b) * b
  BY DEF Multiple, Quotient
<1>4. QED
  BY <1>1, <1>2, <1>3

LEMMA QuotientBound ==
  ASSUME NEW a \in Nat, NEW b \in Nat \ {0}, NEW c \in Nat
  PROVE  /\ a > b * c => Quotient(a, b) >= c
         /\ b * c > a => Quotient(a, b) <= c
         /\ Quotient(a, b) \in Nat
<1>1. a \div b \in Nat /\ (a \div b) * b <= a /\ a < (a \div b) * b + b
  OBVIOUS
<1> DEFINE q == a \div b
<1>2. q \in Nat /\ q * b <= a /\ a < (q + 1) * b
  BY <1>1
<1> HIDE DEF q
<1>3. a > b * c => q >= c
  <2>1. SUFFICES ASSUME a > b * c, q + 1 <= c PROVE FALSE
    BY <1>2
  <2>2. (q + 1) * b <= c * b
    BY <1>2, <2>1
  <2>3. QED
    BY <1>2, <2>1, <2>2
<1>4. b * c > a => q <= c
  <2>1. SUFFICES ASSUME b * c > a, c + 1 <= q PROVE FALSE
    BY <1>2
  <2>2. c * b <= q * b
    BY <1>2, <2>1
  <2>3. QED
    BY <1>2, <2>1, <2>2
<1>5. Quotient(a, b) = q
  BY DEF Quotient, q
<1>6. QED
  BY <1>2, <1>3, <1>4, <1>5

LEMMA MultiplesAdd ==
  ASSUME NEW a \in Int, NEW c \in Int, NEW b \in Nat \ {0}, a % b = 0, c % b = 0
  PROVE  (a + c) % b = 0 /\ (a - c) % b = 0
<1>1. PICK m \in Int : a = m * b
  BY a = (a \div b) * b + (a % b)
<1>2. PICK n \in Int : c = n * b
  BY c = (c \div b) * b + (c % b)
<1>3. a + c = (m + n) * b /\ a - c = (m - n) * b
  BY <1>1, <1>2
<1>4. \A k \in Int : (k * b) % b = 0
  OBVIOUS
<1>5. QED
  BY <1>1, <1>2, <1>3, <1>4

----------------------------------------------------------------------------
(***************************************************************************)
(* One direction.                                                          *)
(***************************************************************************)
LEMMA HintsSound ==
  ASSUME NEW h \in SoundHints, NEW i \in 1 .. 2
  PROVE  /\ MinSize(h, i) \in Nat /\ BaseSize(h, i) \in Nat /\ MaxSize(h, i) \in Nat
         /\ Increment(h, i) \in Nat \ {0}
         /\ BaseSize(h, i) <= MinSize(h, i) /\ MinSize(h, i) <= MaxSize(h, i)
         /\ h.minAspect[i] \in Nat \ {0} /\ h.maxAspect[i] \in Nat \ {0}
<1>1. /\ h.min[i] \in Nat /\ h.base[i] \in Nat /\ h.max[i] \in Nat
      /\ h.inc[i] \in Nat /\ h.minAspect[i] \in Nat /\ h.maxAspect[i] \in Nat
  BY DEF SoundHints, Pair
<1>2. MinSize(h, i) \in Nat
  BY <1>1 DEF MinSize
<1>3. BaseSize(h, i) \in Nat
  BY <1>1 DEF BaseSize
<1>4. MaxSize(h, i) \in Nat
  BY <1>1 DEF MaxSize, INT_MAX
<1>5. Increment(h, i) \in Nat \ {0}
  BY <1>1 DEF Increment
<1>6. /\ BaseSize(h, i) <= MinSize(h, i) /\ MinSize(h, i) <= MaxSize(h, i)
      /\ h.minAspect[i] > 0 /\ h.maxAspect[i] > 0
  BY DEF SoundHints
<1>7. QED
  BY <1>1, <1>2, <1>3, <1>4, <1>5, <1>6

\* Sizes reached from one another by whole increments, none below the base.
Good(h, i, x) == x \in Nat /\ BaseSize(h, i) <= x /\ Fits(h, i, x)

LEMMA ClampedBounds ==
  ASSUME NEW h \in SoundHints, NEW i \in 1 .. 2, NEW x \in Nat
  PROVE  /\ Clamped(h, i, x) \in Nat
         /\ MinSize(h, i) <= Clamped(h, i, x) /\ Clamped(h, i, x) <= MaxSize(h, i)
         /\ Clamped(h, i, x) = IF x > MaxSize(h, i) THEN MaxSize(h, i)
                               ELSE IF x < MinSize(h, i) THEN MinSize(h, i) ELSE x
BY HintsSound DEF Clamped

LEMMA FittedGood ==
  ASSUME NEW h \in SoundHints, NEW i \in 1 .. 2, NEW x \in Nat
  PROVE  /\ Good(h, i, Fitted(h, i, x))
         /\ Fitted(h, i, x) <= Clamped(h, i, x)
         /\ Fitted(h, i, x) + Increment(h, i) > Clamped(h, i, x)
<1> DEFINE c == Clamped(h, i, x)
           b == BaseSize(h, i)
           n == Increment(h, i)
           k == Multiple(c - b, n)
<1>1. /\ b \in Nat /\ MinSize(h, i) \in Nat /\ MaxSize(h, i) \in Nat /\ n \in Nat \ {0}
      /\ b <= MinSize(h, i) /\ MinSize(h, i) <= MaxSize(h, i)
  BY HintsSound
<1>2. c \in Nat /\ MinSize(h, i) <= c /\ c <= MaxSize(h, i)
  BY ClampedBounds
<1>3. Fitted(h, i, x) = k + b
  BY DEF Fitted
<1> HIDE DEF c, b, n
<1>4. k \in Nat /\ k <= c - b /\ c - b < k + n /\ k % n = 0
  <2>1. c - b \in Nat
    BY <1>1, <1>2
  <2>2. QED
    BY <1>1, <2>1, MultipleBounds
<1> HIDE DEF k
<1>5. (k + b) - b = k /\ k + b <= c /\ k + b + n > c /\ b <= k + b
  BY <1>1, <1>2, <1>4
<1>6. Fits(h, i, k + b)
  BY <1>1, <1>2, <1>4, <1>5 DEF Fits, b, n
<1>7. QED
  BY <1>1, <1>3, <1>4, <1>5, <1>6 DEF Good, b, c, n

\* A good size stays good when whole increments are added up to the maximum, or
\* taken away down to the minimum.
LEMMA GoodAdd ==
  ASSUME NEW h \in SoundHints, NEW i \in 1 .. 2, NEW x, Good(h, i, x),
         NEW d \in Nat, d % Increment(h, i) = 0
  PROVE  /\ x + d <= MaxSize(h, i) => Good(h, i, x + d)
         /\ x - d >= MinSize(h, i) => Good(h, i, x - d)
<1> DEFINE b == BaseSize(h, i)
           n == Increment(h, i)
<1>1. /\ b \in Nat /\ MinSize(h, i) \in Nat /\ MaxSize(h, i) \in Nat /\ n \in Nat \ {0}
      /\ b <= MinSize(h, i)
  BY HintsSound
<1>2. /\ x \in Nat /\ b <= x /\ (x - b) % n = 0 /\ x <= MaxSize(h, i)
      /\ x > MinSize(h, i) - n
  BY DEF Good, Fits
<1>3. d % n = 0
  OBVIOUS
<1> HIDE DEF b, n
<1>4. ((x - b) + d) % n = 0 /\ ((x - b) - d) % n = 0
  <2>1. x - b \in Int /\ d \in Int
    BY <1>1, <1>2
  <2>2. QED
    BY <1>1, <1>2, <1>3, <2>1, MultiplesAdd
<1>5. (x + d) - b = (x - b) + d /\ (x - d) - b = (x - b) - d
  BY <1>1, <1>2
<1>6. ASSUME x + d <= MaxSize(h, i) PROVE Good(h, i, x + d)
  BY <1>1, <1>2, <1>4, <1>5, <1>6 DEF Good, Fits, b, n
<1>7. ASSUME x - d >= MinSize(h, i) PROVE Good(h, i, x - d)
  BY <1>1, <1>2, <1>4, <1>5, <1>7 DEF Good, Fits, b, n
<1>8. QED
  BY <1>6, <1>7

----------------------------------------------------------------------------
(***************************************************************************)
(* Both directions.                                                        *)
(***************************************************************************)
GoodSize(h, s) == s \in [1 .. 2 -> Nat] /\ \A i \in 1 .. 2 : Good(h, i, s[i])

LEMMA AdjustedGood ==
  ASSUME NEW h \in SoundHints, NEW s, GoodSize(h, s), NEW i \in 1 .. 2,
         NEW num \in Nat \ {0}, NEW den \in Nat \ {0}
  PROVE  GoodSize(h, Adjusted(h, s, i, num, den))
<1> DEFINE j == 3 - i
           more == Multiple(Quotient(num * s[j], den) - s[i], Increment(h, i))
           less == Multiple(s[j] - Quotient(s[i] * den, num), Increment(h, j))
<1>1. j \in 1 .. 2 /\ i # j /\ \A k \in 1 .. 2 : k = i \/ k = j
  OBVIOUS
<1>2. s[i] \in Nat /\ s[j] \in Nat /\ Good(h, i, s[i]) /\ Good(h, j, s[j])
  BY <1>1 DEF GoodSize
<1>3. Increment(h, i) \in Nat \ {0} /\ Increment(h, j) \in Nat \ {0}
  BY <1>1, HintsSound
<1>4. Adjusted(h, s, i, num, den) =
        IF num * s[j] <= den * s[i] THEN s
        ELSE IF s[i] + more <= MaxSize(h, i) THEN [s EXCEPT ![i] = s[i] + more]
        ELSE IF s[j] - less >= MinSize(h, j) THEN [s EXCEPT ![j] = s[j] - less]
        ELSE s
  BY DEF Adjusted
<1> HIDE DEF j
<1>5. CASE num * s[j] <= den * s[i]
  BY <1>4, <1>5
<1>6. CASE ~(num * s[j] <= den * s[i])
  <2> DEFINE a == num * s[j]
             c == s[i] * den
  <2>1. a \in Nat /\ c \in Nat /\ a > den * s[i] /\ num * s[j] > c
    BY <1>2, <1>6
  <2>2. Quotient(a, den) \in Nat /\ Quotient(a, den) >= s[i]
    <3> HIDE DEF a
    <3> QED BY <1>2, <2>1, QuotientBound
  <2>3. Quotient(c, num) \in Nat /\ Quotient(c, num) <= s[j]
    <3> HIDE DEF c
    <3> QED BY <1>2, <2>1, QuotientBound
  <2>4. more \in Nat /\ more % Increment(h, i) = 0
    <3>1. Quotient(a, den) - s[i] \in Nat
      BY <1>2, <2>2
    <3>2. QED
      BY <1>3, <3>1, MultipleBounds
  <2>5. less \in Nat /\ less % Increment(h, j) = 0
    <3>1. s[j] - Quotient(c, num) \in Nat
      BY <1>2, <2>3
    <3>2. QED
      BY <1>3, <3>1, MultipleBounds
  <2> HIDE DEF more, less
  <2>6. CASE s[i] + more <= MaxSize(h, i)
    <3>1. Good(h, i, s[i] + more) /\ s[i] + more \in Nat
      BY <1>2, <2>4, <2>6, GoodAdd DEF Good
    <3>2. Adjusted(h, s, i, num, den) = [s EXCEPT ![i] = s[i] + more]
      BY <1>4, <1>6, <2>6
    <3>3. QED
      BY <1>1, <1>2, <3>1, <3>2 DEF GoodSize
  <2>7. CASE ~(s[i] + more <= MaxSize(h, i)) /\ s[j] - less >= MinSize(h, j)
    <3>1. Good(h, j, s[j] - less) /\ s[j] - less \in Nat
      BY <1>1, <1>2, <2>5, <2>7, GoodAdd DEF Good
    <3>2. Adjusted(h, s, i, num, den) = [s EXCEPT ![j] = s[j] - less]
      BY <1>4, <1>6, <2>7
    <3>3. QED
      BY <1>1, <1>2, <3>1, <3>2 DEF GoodSize
  <2>8. CASE ~(s[i] + more <= MaxSize(h, i)) /\ ~(s[j] - less >= MinSize(h, j))
    BY <1>4, <1>6, <2>8
  <2>9. QED
    BY <2>6, <2>7, <2>8
<1>7. QED
  BY <1>5, <1>6

LEMMA ConstrainedGood ==
  ASSUME NEW h \in SoundHints, NEW s \in Nat \X Nat
  PROVE  GoodSize(h, Constrained(h, s))
<1> DEFINE fitted == <<Fitted(h, 1, s[1]), Fitted(h, 2, s[2])>>
<1>1. Good(h, 1, Fitted(h, 1, s[1])) /\ Good(h, 2, Fitted(h, 2, s[2]))
  BY FittedGood
<1>2. GoodSize(h, fitted)
  <2>1. fitted \in [1 .. 2 -> Nat]
    BY <1>1 DEF Good
  <2>2. QED
    BY <1>1, <2>1 DEF GoodSize
<1> HIDE DEF fitted
<1>3. /\ h.minAspect[1] \in Nat \ {0} /\ h.minAspect[2] \in Nat \ {0}
      /\ h.maxAspect[1] \in Nat \ {0} /\ h.maxAspect[2] \in Nat \ {0}
  BY HintsSound
<1> DEFINE tall == Adjusted(h, fitted, 1, h.minAspect[1], h.minAspect[2])
<1>4. GoodSize(h, tall)
  <2>1. 1 \in 1 .. 2
    OBVIOUS
  <2>2. QED
    BY <1>2, <1>3, <2>1, AdjustedGood, Zenon
<1> HIDE DEF tall
<1>5. GoodSize(h, Adjusted(h, tall, 2, h.maxAspect[2], h.maxAspect[1]))
  <2>1. 2 \in 1 .. 2
    OBVIOUS
  <2>2. QED
    BY <1>3, <1>4, <2>1, AdjustedGood, Zenon
<1>6. QED
  BY <1>2, <1>5 DEF Constrained, NotTooTall, NotTooWide, fitted, tall

----------------------------------------------------------------------------
(***************************************************************************)
(* The window.                                                             *)
(***************************************************************************)
SizeInv == /\ hints \in WindowHints /\ asked \in Nat \X Nat
           /\ GoodSize(hints, size)
           /\ size = Constrained(hints, asked)

LEMMA SizeInvHolds == Spec => []SizeInv
<1>1. Init => SizeInv
  BY SizingAssumption, ConstrainedGood DEF Init, SizeInv
<1>2. SizeInv /\ [Next]_vars => SizeInv'
  <2> SUFFICES ASSUME SizeInv, [Next]_vars PROVE SizeInv'
    OBVIOUS
  <2>1. ASSUME NEW s \in Nat \X Nat, Resize(s) PROVE SizeInv'
    <3>1. hints \in SoundHints
      BY SizingAssumption DEF SizeInv
    <3>2. GoodSize(hints, Constrained(hints, s))
      BY <3>1, ConstrainedGood
    <3>3. QED
      BY <2>1, <3>2 DEF Resize, SizeInv
  <2>2. CASE Resize(size)
    <3>1. size \in Nat \X Nat
      BY DEF SizeInv, GoodSize
    <3>2. QED
      BY <2>1, <2>2, <3>1
  <2>3. CASE \E s \in Sizes \X Sizes : Resize(s)
    BY <2>1, <2>3, SizingAssumption
  <2>4. CASE UNCHANGED vars
    BY <2>4 DEF vars, SizeInv
  <2>5. QED
    BY <2>2, <2>3, <2>4 DEF Next
<1>3. QED
  BY <1>1, <1>2, PTL DEF Spec

\* Whatever the hints of a window and the sizes asked for, every size returned is
\* at most the maximum, on the grid of increments, and less than an increment
\* below the minimum, corrections for the aspect ratio included.
THEOREM SizeFitsCorrect == Spec => []SizeFits
<1>1. SizeInv => SizeFits
  BY DEF SizeInv, GoodSize, Good, SizeFits
<1>2. QED
  BY <1>1, SizeInvHolds, PTL

\* Without aspect hints the size returned is the greatest on the grid that is at
\* most the size asked for, once that has been raised to the minimum and cut at
\* the maximum.
THEOREM SizeNearestCorrect == Spec => []SizeNearest
<1>1. SizeInv => SizeNearest
  <2> SUFFICES ASSUME SizeInv, "aspect" \notin hints.flags, NEW i \in 1 .. 2
               PROVE  LET target == IF asked[i] <= MinSize(hints, i) THEN MinSize(hints, i)
                                                                    ELSE asked[i]
                      IN  /\ size[i] <= target
                          /\ \/ size[i] + Increment(hints, i) > target
                             \/ size[i] + Increment(hints, i) > MaxSize(hints, i)
    BY DEF SizeNearest
  <2>1. hints \in SoundHints
    BY SizingAssumption DEF SizeInv
  <2>2. asked[i] \in Nat
    BY DEF SizeInv
  <2>3. size[i] = Fitted(hints, i, asked[i])
    BY DEF SizeInv, Constrained
  <2>4. /\ MinSize(hints, i) \in Nat /\ MaxSize(hints, i) \in Nat
        /\ Increment(hints, i) \in Nat \ {0} /\ MinSize(hints, i) <= MaxSize(hints, i)
    BY <2>1, HintsSound
  <2>5. /\ Fitted(hints, i, asked[i]) <= Clamped(hints, i, asked[i])
        /\ Fitted(hints, i, asked[i]) + Increment(hints, i) > Clamped(hints, i, asked[i])
        /\ Fitted(hints, i, asked[i]) \in Nat
    BY <2>1, <2>2, FittedGood DEF Good
  <2>6. Clamped(hints, i, asked[i]) =
          IF asked[i] > MaxSize(hints, i) THEN MaxSize(hints, i)
          ELSE IF asked[i] < MinSize(hints, i) THEN MinSize(hints, i) ELSE asked[i]
    BY <2>1, <2>2, ClampedBounds
  <2>7. QED
    BY <2>2, <2>3, <2>4, <2>5, <2>6
<1>2. QED
  BY <1>1, SizeInvHolds, PTL

----------------------------------------------------------------------------
(***************************************************************************)
(* The aspect ratio.                                                       *)
(***************************************************************************)
\* What the quotient of C promises, in products.
LEMMA QuotientFloor ==
  ASSUME NEW a \in Nat, NEW b \in Nat \ {0}
  PROVE  /\ Quotient(a, b) = a \div b /\ Quotient(a, b) \in Nat
         /\ b * Quotient(a, b) <= a /\ a < b * (Quotient(a, b) + 1)
<1>1. a \div b \in Nat /\ (a \div b) * b <= a /\ a < (a \div b) * b + b
  OBVIOUS
<1>2. Quotient(a, b) = a \div b
  BY DEF Quotient
<1>. DEFINE q == a \div b
<1>. HIDE DEF q
<1>3. q \in Nat /\ q * b <= a /\ a < q * b + b
  BY <1>1 DEF q
<1>4. b * q = q * b /\ b * (q + 1) = q * b + b
  BY <1>3
<1>. QED BY <1>2, <1>3, <1>4 DEF q

\* A factor that is not zero can be cancelled.
LEMMA Cancel ==
  ASSUME NEW k \in Nat \ {0}, NEW x \in Nat, NEW y \in Nat
  PROVE  /\ k * x <= k * y => x <= y
         /\ k * x < k * y => x < y
<1>1. ASSUME y + 1 <= x PROVE k * y + k <= k * x
  <2>1. k * (y + 1) <= k * x
    BY <1>1
  <2>. QED BY <2>1
<1>2. ASSUME y <= x PROVE k * y <= k * x
  BY <1>2
<1>. QED BY <1>1, <1>2

\* A pair that is within one limit of the ratio is within the other, when the
\* limits do not cross.
LEMMA Cross ==
  ASSUME NEW a \in Nat \ {0}, NEW b \in Nat \ {0}, NEW c \in Nat \ {0}, NEW d \in Nat \ {0},
         a * d <= c * b, NEW x \in Nat, NEW y \in Nat
  PROVE  /\ c * x <= d * y => a * x <= b * y
         /\ c * x < d * y => a * x < b * y
<1>1. (a * d) * y <= (c * b) * y
  <2>. DEFINE p == a * d
              q == c * b
  <2>1. p \in Nat /\ q \in Nat /\ p <= q
    OBVIOUS
  <2>. HIDE DEF p, q
  <2>2. p * y <= q * y
    BY <2>1
  <2>. QED BY <2>2 DEF p, q
<1>2. /\ c * (a * x) = a * (c * x) /\ a * (d * y) = (a * d) * y /\ (c * b) * y = c * (b * y)
      /\ a * x \in Nat /\ b * y \in Nat /\ c * x \in Nat /\ d * y \in Nat
  OBVIOUS
<1>3. c * x <= d * y => a * (c * x) <= a * (d * y)
  <2>. DEFINE p == c * x
              q == d * y
  <2>1. p \in Nat /\ q \in Nat
    OBVIOUS
  <2>. HIDE DEF p, q
  <2>2. p <= q => a * p <= a * q
    BY <2>1
  <2>. QED BY <2>2 DEF p, q
<1>4. c * x < d * y => a * (c * x) < a * (d * y)
  <2>. DEFINE p == c * x
              q == d * y
  <2>1. p \in Nat /\ q \in Nat
    OBVIOUS
  <2>. HIDE DEF p, q
  <2>2. p < q => a * p < a * q
    BY <2>1
  <2>. QED BY <2>2 DEF p, q
<1>. DEFINE u == a * x
            v == b * y
<1>5. u \in Nat /\ v \in Nat
  BY <1>2
<1>6. /\ c * x <= d * y => c * u <= c * v
      /\ c * x < d * y => c * u < c * v
  BY <1>1, <1>2, <1>3, <1>4
<1>. HIDE DEF u, v
<1>7. (c * u <= c * v => u <= v) /\ (c * u < c * v => u < v)
  BY <1>5, Cancel
<1>. QED BY <1>6, <1>7 DEF u, v

\* With room to grow, one correction brings the size within its limit, give or take
\* an increment, and never past it.
LEMMA AdjustedRatio ==
  ASSUME NEW h \in SoundHints, NEW s, GoodSize(h, s), NEW i \in 1 .. 2, NEW j \in 1 .. 2, j = 3 - i,
         NEW num \in Nat \ {0}, NEW den \in Nat \ {0},
         (num * s[j]) \div den <= MaxSize(h, i),
         NEW r, r = Adjusted(h, s, i, num, den)
  PROVE  /\ r[j] = s[j] /\ r[i] \in Nat
         /\ num * r[j] < den * (r[i] + Increment(h, i))
         /\ r[i] = s[i] \/ den * r[i] <= num * r[j]
<1>. DEFINE n == Increment(h, i)
            q == Quotient(num * s[j], den)
            more == Multiple(q - s[i], n)
<1>1. s[i] \in Nat /\ s[j] \in Nat /\ n \in Nat \ {0} /\ s \in [1 .. 2 -> Nat] /\ i # j
  BY HintsSound DEF GoodSize
<1>2. CASE num * s[j] <= den * s[i]
  <2>1. r = s
    BY <1>2 DEF Adjusted
  <2>2. den * s[i] < den * (s[i] + n)
    BY <1>1
  <2>3. num * s[j] \in Nat /\ den * s[i] \in Nat /\ den * (s[i] + n) \in Nat
    BY <1>1
  <2>. QED BY <1>1, <1>2, <2>1, <2>2, <2>3
<1>3. CASE ~(num * s[j] <= den * s[i])
  <2>. DEFINE a == num * s[j]
  <2>1. a \in Nat /\ a > den * s[i]
    BY <1>1, <1>3
  <2>2. q \in Nat /\ q = a \div den /\ den * q <= a /\ a < den * (q + 1)
    <3>. HIDE DEF a
    <3>1. /\ Quotient(a, den) = a \div den /\ Quotient(a, den) \in Nat
          /\ den * Quotient(a, den) <= a /\ a < den * (Quotient(a, den) + 1)
      BY <2>1, QuotientFloor
    <3>. QED BY <3>1 DEF a
  <2>3. q >= s[i]
    <3>. HIDE DEF a, q
    <3>1. Quotient(a, den) >= s[i]
      BY <1>1, <2>1, QuotientBound
    <3>. QED BY <3>1 DEF q, a
  <2>4. q <= MaxSize(h, i)
    BY <2>2
  <2>. HIDE DEF q, a
  <2>5. more \in Nat /\ more <= q - s[i] /\ q - s[i] < more + n
    <3>1. q - s[i] \in Nat
      BY <1>1, <2>2, <2>3
    <3>. QED BY <1>1, <3>1, MultipleBounds
  <2>6. MaxSize(h, i) \in Nat
    BY HintsSound
  <2>7. s[i] + more <= q /\ q + 1 <= s[i] + more + n
    BY <1>1, <2>2, <2>5
  <2>8. r = [s EXCEPT ![i] = s[i] + more]
    <3>1. s[i] + more <= MaxSize(h, i)
      BY <1>1, <2>2, <2>4, <2>5, <2>6, <2>7
    <3>. QED BY <1>3, <3>1 DEF Adjusted, q, a
  <2>9. r[j] = s[j] /\ r[i] = s[i] + more
    BY <1>1, <2>8
  <2>10. den * (s[i] + more) <= den * q /\ den * (q + 1) <= den * (s[i] + more + n)
    <3>. DEFINE u == s[i] + more
                v == s[i] + more + n
    <3>1. u \in Nat /\ v \in Nat /\ u <= q /\ q + 1 <= v
      BY <1>1, <2>5, <2>7
    <3>. HIDE DEF u, v
    <3>2. den * u <= den * q /\ den * (q + 1) <= den * v
      BY <2>2, <3>1
    <3>. QED BY <3>2 DEF u, v
  <2>. QED BY <1>1, <2>1, <2>2, <2>5, <2>9, <2>10 DEF a
<1>. QED BY <1>2, <1>3

\* A smaller dividend, a smaller quotient.
LEMMA QuotientMonotone ==
  ASSUME NEW k \in Nat, NEW x \in Nat, NEW y \in Nat, x <= y, NEW b \in Nat \ {0}
  PROVE  (k * x) \div b <= (k * y) \div b
<1>. DEFINE u == k * x
            v == k * y
<1>1. u \in Nat /\ v \in Nat /\ u <= v
  OBVIOUS
<1>. HIDE DEF u, v
<1>. DEFINE p == u \div b
            q == v \div b
<1>2. /\ p \in Nat /\ b * p <= u /\ u < b * (p + 1)
      /\ q \in Nat /\ b * q <= v /\ v < b * (q + 1)
  BY <1>1, QuotientFloor
<1>. HIDE DEF p, q
<1>3. b * p \in Nat /\ b * (q + 1) \in Nat /\ b * p < b * (q + 1)
  BY <1>1, <1>2
<1>4. p < q + 1
  BY <1>2, <1>3, Cancel
<1>. QED BY <1>2, <1>4 DEF p, q, u, v

\* With aspect hints, and where what they ask for is within the maximum, the size
\* returned is within both limits of the ratio, give or take one increment: the
\* second correction does not undo the first.
THEOREM AspectKeptCorrect == Spec => []AspectKept
<1>1. SizeInv => AspectKept
  <2>. SUFFICES ASSUME SizeInv, "aspect" \in hints.flags, RoomToGrow
       PROVE  /\ hints.minAspect[1] * size[2] < hints.minAspect[2] * (size[1] + Increment(hints, 1))
              /\ hints.maxAspect[2] * size[1] < hints.maxAspect[1] * (size[2] + Increment(hints, 2))
    BY DEF AspectKept
  <2>. DEFINE a == hints.minAspect[1]
              b == hints.minAspect[2]
              c == hints.maxAspect[1]
              d == hints.maxAspect[2]
              f == <<Fitted(hints, 1, asked[1]), Fitted(hints, 2, asked[2])>>
              t == Adjusted(hints, f, 1, a, b)
              n1 == Increment(hints, 1)
              n2 == Increment(hints, 2)
  <2>1. hints \in SoundHints /\ asked[1] \in Nat /\ asked[2] \in Nat
    BY SizingAssumption DEF SizeInv
  <2>2. /\ a \in Nat \ {0} /\ b \in Nat \ {0} /\ c \in Nat \ {0} /\ d \in Nat \ {0}
        /\ n1 \in Nat \ {0} /\ n2 \in Nat \ {0}
    BY <2>1, HintsSound
  <2>3. a * d <= c * b
    BY <2>1 DEF SoundHints
  <2>4. GoodSize(hints, f)
    <3>1. Good(hints, 1, Fitted(hints, 1, asked[1])) /\ Good(hints, 2, Fitted(hints, 2, asked[2]))
      BY <2>1, FittedGood
    <3>2. f \in [1 .. 2 -> Nat]
      BY <3>1 DEF Good
    <3>. QED BY <3>1, <3>2 DEF GoodSize
  <2>5. size = Adjusted(hints, t, 2, d, c)
    BY DEF SizeInv, Constrained, NotTooTall, NotTooWide
  <2>6. /\ f[1] <= Clamped(hints, 1, asked[1]) /\ Clamped(hints, 1, asked[1]) \in Nat
        /\ f[2] <= Clamped(hints, 2, asked[2]) /\ Clamped(hints, 2, asked[2]) \in Nat
    BY <2>1, FittedGood, ClampedBounds
  <2>7. /\ (a * Clamped(hints, 2, asked[2])) \div b <= MaxSize(hints, 1)
        /\ (d * Clamped(hints, 1, asked[1])) \div c <= MaxSize(hints, 2)
    BY DEF RoomToGrow
  <2>8. /\ MaxSize(hints, 1) \in Nat /\ MaxSize(hints, 2) \in Nat
        /\ f[1] \in Nat /\ f[2] \in Nat
    BY <2>1, <2>4, HintsSound DEF GoodSize
  <2>. HIDE DEF a, b, c, d, f
  <2>9. (a * f[2]) \div b <= MaxSize(hints, 1) /\ (d * f[1]) \div c <= MaxSize(hints, 2)
    <3>1. /\ (a * f[2]) \div b <= (a * Clamped(hints, 2, asked[2])) \div b
          /\ (d * f[1]) \div c <= (d * Clamped(hints, 1, asked[1])) \div c
      BY <2>2, <2>6, <2>8, QuotientMonotone
    <3>2. /\ (a * f[2]) \div b \in Int /\ (a * Clamped(hints, 2, asked[2])) \div b \in Int
          /\ (d * f[1]) \div c \in Int /\ (d * Clamped(hints, 1, asked[1])) \div c \in Int
      BY <2>2, <2>6, <2>8
    <3>. QED BY <2>7, <2>8, <3>1, <3>2
  <2>0. 1 \in 1 .. 2 /\ 2 \in 1 .. 2 /\ 1 = 3 - 2 /\ 2 = 3 - 1
    OBVIOUS
  <2>10. GoodSize(hints, t)
    BY <2>0, <2>1, <2>2, <2>4, AdjustedGood, Zenon
  <2>11. /\ t[2] = f[2] /\ t[1] \in Nat
         /\ a * t[2] < b * (t[1] + n1)
         /\ t[1] = f[1] \/ b * t[1] <= a * t[2]
    BY <2>1, <2>2, <2>4, <2>9, AdjustedRatio
  <2>. HIDE DEF t, n1, n2
  <2>12. CASE t[1] = f[1]
    <3>1. (d * t[1]) \div c <= MaxSize(hints, 2)
      BY <2>9, <2>12
    <3>2. /\ size[1] = t[1] /\ size[2] \in Nat
          /\ d * size[1] < c * (size[2] + n2)
          /\ size[2] = t[2] \/ c * size[2] <= d * size[1]
      <4>. DEFINE w == Adjusted(hints, t, 2, d, c)
      <4>1. /\ w[1] = t[1] /\ w[2] \in Nat
            /\ d * w[1] < c * (w[2] + Increment(hints, 2))
            /\ w[2] = t[2] \/ c * w[2] <= d * w[1]
        BY <2>0, <2>1, <2>2, <2>10, <3>1, AdjustedRatio
      <4>. QED BY <2>5, <4>1 DEF n2
    <3>3. a * size[2] < b * (size[1] + n1)
      <4>1. CASE size[2] = t[2]
        BY <2>11, <3>2, <4>1
      <4>2. CASE c * size[2] <= d * size[1]
        <5>1. a * size[2] <= b * size[1]
          BY <2>2, <2>3, <2>11, <3>2, <4>2, Cross
        <5>2. b * size[1] < b * (size[1] + n1)
          BY <2>2, <2>11, <3>2
        <5>3. a * size[2] \in Nat /\ b * size[1] \in Nat /\ b * (size[1] + n1) \in Nat
          BY <2>2, <2>11, <3>2
        <5>. QED BY <5>1, <5>2, <5>3
      <4>. QED BY <3>2, <4>1, <4>2
    <3>. QED BY <3>2, <3>3 DEF a, b, c, d, n1, n2
  <2>13. CASE b * t[1] <= a * t[2]
    <3>0. t[2] \in Nat
      BY <2>8, <2>11
    <3>1. d * t[1] <= c * t[2]
      <4>1. d * a <= b * c
        BY <2>2, <2>3
      <4>. QED BY <2>2, <2>11, <2>13, <3>0, <4>1, Cross
    <3>2. size = t
      BY <2>5, <3>1 DEF Adjusted
    <3>3. c * t[2] < c * (t[2] + n2)
      BY <2>2, <3>0
    <3>4. c * t[2] \in Nat /\ c * (t[2] + n2) \in Nat /\ d * t[1] \in Nat
      BY <2>2, <2>11, <3>0
    <3>. QED BY <2>11, <3>1, <3>2, <3>3, <3>4 DEF a, b, c, d, n1, n2
  <2>. QED BY <2>11, <2>12, <2>13
<1>. QED BY <1>1, SizeInvHolds, PTL

----------------------------------------------------------------------------
(***************************************************************************)
(* Sizes that stay.                                                        *)
(***************************************************************************)
\* Two points of the grid less than an increment apart are one.
LEMMA GridUnique ==
  ASSUME NEW n \in Nat \ {0}, NEW u \in Nat, NEW v \in Nat, u % n = 0, v % n = 0,
         u < v + n, v < u + n
  PROVE  u = v
<1>1. PICK k \in Int : u = k * n
  BY u = (u \div n) * n + (u % n)
<1>2. PICK m \in Int : v = m * n
  BY v = (v \div n) * n + (v % n)
<1>3. ASSUME NEW x \in Int, NEW y \in Int, x + 1 <= y PROVE x * n + n <= y * n
  <2>1. (x + 1) * n <= y * n
    BY <1>3
  <2>. QED BY <2>1
<1>4. ~(k + 1 <= m) /\ ~(m + 1 <= k)
  BY <1>1, <1>2, <1>3
<1>. QED BY <1>1, <1>2, <1>4

\* A size on the grid and within the limits is where it is fitted to.
LEMMA FittedSame ==
  ASSUME NEW h \in SoundHints, NEW i \in 1 .. 2, NEW x, Good(h, i, x)
  PROVE  Fitted(h, i, x) = x
<1>. DEFINE b == BaseSize(h, i)
            n == Increment(h, i)
            y == Fitted(h, i, x)
            c == Clamped(h, i, x)
<1>1. /\ b \in Nat /\ MinSize(h, i) \in Nat /\ MaxSize(h, i) \in Nat /\ n \in Nat \ {0}
      /\ MinSize(h, i) <= MaxSize(h, i)
  BY HintsSound
<1>2. /\ x \in Nat /\ b <= x /\ x <= MaxSize(h, i) /\ (x - b) % n = 0
      /\ x > MinSize(h, i) - n
  BY DEF Good, Fits
<1>3. /\ c = IF x < MinSize(h, i) THEN MinSize(h, i) ELSE x
      /\ c \in Nat
  BY <1>1, <1>2, ClampedBounds
<1>4. /\ y \in Nat /\ b <= y /\ (y - b) % n = 0 /\ y <= c /\ c < y + n
  BY <1>2, FittedGood DEF Good, Fits
<1>. HIDE DEF b, n, y, c
<1>5. x <= c /\ c < x + n
  BY <1>1, <1>2, <1>3
<1>6. x - b \in Nat /\ y - b \in Nat /\ x - b < (y - b) + n /\ y - b < (x - b) + n
  BY <1>1, <1>2, <1>3, <1>4, <1>5
<1>7. x - b = y - b
  BY <1>1, <1>2, <1>4, <1>6, GridUnique
<1>. QED BY <1>1, <1>2, <1>4, <1>7 DEF y

\* Without increments a correction is exact but for rounding.  It leaves the size
\* alone (in limits, or stuck between them), enlarges one side or reduces the other.
LEMMA AdjustedUnit ==
  ASSUME NEW h \in SoundHints, NEW s, GoodSize(h, s), NEW i \in 1 .. 2, NEW j \in 1 .. 2, j = 3 - i,
         NEW num \in Nat \ {0}, NEW den \in Nat \ {0},
         Increment(h, i) = 1, Increment(h, j) = 1,
         NEW r, r = Adjusted(h, s, i, num, den)
  PROVE  \/ r = s
         \/ /\ r[j] = s[j] /\ den * r[i] <= num * r[j] /\ num * r[j] < den * (r[i] + 1)
         \/ /\ r[i] = s[i] /\ num * r[j] <= den * r[i] /\ den * r[i] < num * (r[j] + 1)
<1>. DEFINE a == num * s[j]
            e == s[i] * den
            q == Quotient(a, den)
            p == Quotient(e, num)
<1>1. s[i] \in Nat /\ s[j] \in Nat /\ s \in [1 .. 2 -> Nat] /\ i # j
  BY DEF GoodSize
<1>2. a \in Nat /\ e \in Nat /\ e = den * s[i]
  BY <1>1
<1>. SUFFICES ASSUME a > den * s[i] PROVE
         \/ r = s
         \/ /\ r[j] = s[j] /\ den * r[i] <= num * r[j] /\ num * r[j] < den * (r[i] + 1)
         \/ /\ r[i] = s[i] /\ num * r[j] <= den * r[i] /\ den * r[i] < num * (r[j] + 1)
  BY <1>1, <1>2 DEF Adjusted
<1>. HIDE DEF a, e
<1>3. /\ q \in Nat /\ q >= s[i] /\ den * q <= a /\ a < den * (q + 1)
      /\ p \in Nat /\ p <= s[j] /\ num * p <= e /\ e < num * (p + 1)
  <2>1. num * s[j] > e
    BY <1>2 DEF a
  <2>. QED BY <1>1, <1>2, <2>1, QuotientFloor, QuotientBound
<1>. HIDE DEF p, q
<1>4. ASSUME NEW x \in Nat PROVE Multiple(x, 1) = x
  BY DEF Multiple, Quotient
<1>5. Multiple(q - s[i], 1) = q - s[i] /\ Multiple(s[j] - p, 1) = s[j] - p
  BY <1>1, <1>3, <1>4
<1>6. r = IF s[i] + (q - s[i]) <= MaxSize(h, i) THEN [s EXCEPT ![i] = s[i] + (q - s[i])]
          ELSE IF s[j] - (s[j] - p) >= MinSize(h, j) THEN [s EXCEPT ![j] = s[j] - (s[j] - p)]
          ELSE s
  <2>1. ~(num * s[j] <= den * s[i])
    BY <1>1, <1>2 DEF a
  <2>2. /\ Multiple(Quotient(num * s[j], den) - s[i], Increment(h, i)) = q - s[i]
        /\ Multiple(s[j] - Quotient(s[i] * den, num), Increment(h, j)) = s[j] - p
    BY <1>5 DEF a, e, p, q
  <2>. QED BY <2>1, <2>2 DEF Adjusted
<1>7. s[i] + (q - s[i]) = q /\ s[j] - (s[j] - p) = p
  BY <1>1, <1>3
<1>8. r = s \/ r = [s EXCEPT ![i] = q] \/ r = [s EXCEPT ![j] = p]
  BY <1>6, <1>7
<1>9. CASE r = [s EXCEPT ![i] = q]
  <2>1. r[i] = q /\ r[j] = s[j]
    BY <1>1, <1>9
  <2>. QED BY <1>3, <2>1 DEF a
<1>10. CASE r = [s EXCEPT ![j] = p]
  <2>1. r[j] = p /\ r[i] = s[i]
    BY <1>1, <1>10
  <2>. QED BY <1>2, <1>3, <2>1
<1>. QED BY <1>8, <1>9, <1>10

\* A size within a limit, but for rounding, is not corrected.
LEMMA AdjustedSame ==
  ASSUME NEW h \in SoundHints, NEW s, GoodSize(h, s), NEW i \in 1 .. 2, NEW j \in 1 .. 2, j = 3 - i,
         NEW num \in Nat \ {0}, NEW den \in Nat \ {0}, Increment(h, i) = 1,
         num * s[j] < den * (s[i] + 1)
  PROVE  Adjusted(h, s, i, num, den) = s
<1>. DEFINE a == num * s[j]
            q == Quotient(a, den)
<1>1. s[i] \in Nat /\ s[j] \in Nat /\ s \in [1 .. 2 -> Nat] /\ i # j
  BY DEF GoodSize
<1>2. a \in Nat
  BY <1>1
<1>3. CASE a <= den * s[i]
  BY <1>3 DEF Adjusted
<1>4. CASE ~(a <= den * s[i])
  <2>1. a > den * s[i] /\ a < den * (s[i] + 1)
    BY <1>1, <1>2, <1>4
  <2>. HIDE DEF a
  <2>2. q \in Nat /\ q >= s[i] /\ den * q <= a
    BY <1>1, <1>2, <2>1, QuotientFloor, QuotientBound
  <2>. HIDE DEF q
  <2>3. q < s[i] + 1
    <3>1. den * q < den * (s[i] + 1)
      <4>1. den * q \in Nat /\ den * (s[i] + 1) \in Nat
        BY <1>1, <2>2
      <4>. QED BY <1>2, <2>1, <2>2, <4>1
    <3>2. s[i] + 1 \in Nat
      BY <1>1
    <3>. QED BY <2>2, <3>1, <3>2, Cancel
  <2>4. q = s[i]
    BY <1>1, <2>2, <2>3
  <2>5. Multiple(q - s[i], 1) = 0
    BY <1>1, <2>4 DEF Multiple, Quotient
  <2>6. s[i] + 0 <= MaxSize(h, i)
    BY <1>1, HintsSound DEF GoodSize, Good, Fits
  <2>7. Adjusted(h, s, i, num, den) = [s EXCEPT ![i] = s[i] + 0]
    <3>1. ~(num * s[j] <= den * s[i])
      BY <1>4 DEF a
    <3>2. Multiple(Quotient(num * s[j], den) - s[i], Increment(h, i)) = 0
      BY <2>5 DEF a, q
    <3>. QED BY <2>6, <3>1, <3>2 DEF Adjusted
  <2>. QED BY <1>1, <2>7
<1>. QED BY <1>3, <1>4

\* Correcting twice is correcting once.
LEMMA AdjustedTwice ==
  ASSUME NEW h \in SoundHints, NEW s, GoodSize(h, s), NEW i \in 1 .. 2, NEW j \in 1 .. 2, j = 3 - i,
         NEW num \in Nat \ {0}, NEW den \in Nat \ {0},
         Increment(h, i) = 1, Increment(h, j) = 1,
         NEW r, r = Adjusted(h, s, i, num, den)
  PROVE  Adjusted(h, r, i, num, den) = r
<1>1. GoodSize(h, r)
  BY AdjustedGood, Zenon
<1>2. CASE num * r[j] < den * (r[i] + 1)
  BY <1>1, <1>2, AdjustedSame
<1>3. CASE num * r[j] <= den * r[i]
  BY <1>3 DEF Adjusted
<1>. QED BY <1>2, <1>3, AdjustedUnit

\* The second correction does not call for the first again.
LEMMA BothSame ==
  ASSUME NEW h \in SoundHints, NEW f, GoodSize(h, f), Increment(h, 1) = 1, Increment(h, 2) = 1,
         NEW s, s = NotTooWide(h, NotTooTall(h, f))
  PROVE  NotTooWide(h, NotTooTall(h, s)) = s
<1>. DEFINE a == h.minAspect[1]
            b == h.minAspect[2]
            c == h.maxAspect[1]
            d == h.maxAspect[2]
            t == Adjusted(h, f, 1, a, b)
<1>0. 1 \in 1 .. 2 /\ 2 \in 1 .. 2 /\ 1 = 3 - 2 /\ 2 = 3 - 1
  OBVIOUS
<1>1. /\ a \in Nat \ {0} /\ b \in Nat \ {0} /\ c \in Nat \ {0} /\ d \in Nat \ {0}
      /\ a * d <= c * b
  BY HintsSound DEF SoundHints
<1>2. s = Adjusted(h, t, 2, d, c)
  BY DEF NotTooTall, NotTooWide
<1>3. NotTooWide(h, NotTooTall(h, s)) = Adjusted(h, Adjusted(h, s, 1, a, b), 2, d, c)
  BY DEF NotTooTall, NotTooWide
<1>. HIDE DEF a, b, c, d
<1>4. GoodSize(h, t)
  BY <1>0, <1>1, AdjustedGood, Zenon
<1>5. Adjusted(h, t, 1, a, b) = t
  BY <1>0, <1>1, AdjustedTwice
<1>. HIDE DEF t
<1>6. GoodSize(h, s)
  BY <1>0, <1>1, <1>2, <1>4, AdjustedGood, Zenon
<1>7. Adjusted(h, s, 2, d, c) = s
  BY <1>0, <1>1, <1>2, <1>4, AdjustedTwice
<1>8. s[1] \in Nat /\ s[2] \in Nat
  BY <1>6 DEF GoodSize
\* Once the size is not too wide, or not much too narrow, it is not too tall.
<1>9. ASSUME c * s[2] < d * (s[1] + 1) PROVE Adjusted(h, s, 1, a, b) = s
  <2>1. s[1] + 1 \in Nat
    BY <1>8
  <2>2. a * s[2] < b * (s[1] + 1)
    BY <1>1, <1>8, <1>9, <2>1, Cross
  <2>. QED BY <1>0, <1>1, <1>6, <2>2, AdjustedSame
<1>10. Adjusted(h, s, 1, a, b) = s
  <2>1. CASE s = t
    BY <1>5, <2>1
  <2>2. CASE c * s[2] <= d * s[1]
    <3>1. d * s[1] < d * (s[1] + 1)
      BY <1>1, <1>8
    <3>2. c * s[2] \in Nat /\ d * s[1] \in Nat /\ d * (s[1] + 1) \in Nat
      BY <1>1, <1>8
    <3>. QED BY <1>9, <2>2, <3>1, <3>2
  <2>3. \/ s = t \/ c * s[2] <= d * s[1] \/ c * s[2] < d * (s[1] + 1)
    BY <1>0, <1>1, <1>2, <1>4, AdjustedUnit
  <2>. QED BY <1>9, <2>1, <2>2, <2>3
<1>. QED BY <1>3, <1>7, <1>10

\* Constraining a size that was returned returns it again, unless there are both
\* aspect hints and increments.
THEOREM SizeStableCorrect == Spec => SizeStable
<1>1. ASSUME SizeInv, Next, ~({"aspect", "inc"} \subseteq hints.flags), asked' = size
      PROVE  size' = size
  <2>1. size' = Constrained(hints, size)
    BY <1>1 DEF Next, Resize
  <2>2. hints \in SoundHints /\ asked \in Nat \X Nat /\ GoodSize(hints, size)
    BY <1>1, SizingAssumption DEF SizeInv
  <2>3. <<Fitted(hints, 1, size[1]), Fitted(hints, 2, size[2])>> = size
    <3>1. Fitted(hints, 1, size[1]) = size[1] /\ Fitted(hints, 2, size[2]) = size[2]
      BY <2>2, FittedSame DEF GoodSize
    <3>2. size \in [1 .. 2 -> Nat]
      BY <2>2 DEF GoodSize
    <3>3. <<size[1], size[2]>> = size
      BY <3>2
    <3>. QED BY <3>1, <3>3
  <2>4. CASE "aspect" \notin hints.flags
    BY <2>1, <2>3, <2>4 DEF Constrained
  <2>5. CASE "aspect" \in hints.flags
    <3>. DEFINE f == <<Fitted(hints, 1, asked[1]), Fitted(hints, 2, asked[2])>>
    <3>1. Increment(hints, 1) = 1 /\ Increment(hints, 2) = 1
      BY <1>1, <2>5 DEF Increment
    <3>2. GoodSize(hints, f)
      <4>1. /\ Good(hints, 1, Fitted(hints, 1, asked[1]))
            /\ Good(hints, 2, Fitted(hints, 2, asked[2]))
        BY <2>2, FittedGood
      <4>2. f \in [1 .. 2 -> Nat]
        BY <4>1 DEF Good
      <4>. QED BY <4>1, <4>2 DEF GoodSize
    <3>3. size = NotTooWide(hints, NotTooTall(hints, f))
      BY <1>1, <2>5 DEF SizeInv, Constrained
    <3>4. size' = NotTooWide(hints, NotTooTall(hints, size))
      BY <2>1, <2>3, <2>5 DEF Constrained
    <3>. HIDE DEF f
    <3>. QED BY <2>2, <3>1, <3>2, <3>3, <3>4, BothSame
  <2>. QED BY <2>4, <2>5
<1>2. SizeInv /\ [Next]_vars =>
        [~({"aspect", "inc"} \subseteq hints.flags) /\ asked' = size => size' = size]_vars
  BY <1>1 DEF vars
<1>. QED BY <1>2, SizeInvHolds, PTL DEF Spec, SizeStable
=============================================================================
