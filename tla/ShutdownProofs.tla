---------------------------- MODULE ShutdownProofs ----------------------------
(***************************************************************************)
(* The properties of Shutdown and of Startup hold for any number of        *)
(* windows, nodes, events and processes.                                   *)
(*                                                                         *)
(* While the loop of xcwm_context_close runs, the event thread may leave   *)
(* pointers to freed memory anywhere, and memory freed may come back as a  *)
(* new node.  What survives is Chain: from some place f on, the nodes of   *)
(* order are the ones that were there when the close began and that it has *)
(* not passed; among them the links are right, and nothing else that is    *)
(* allocated, nor the head, nor the loop's own variable, leads past the    *)
(* first of them.  If the event thread keeps quiet, Quiet says more.       *)
(***************************************************************************)
EXTENDS ContextLife, ContextListProofs

----------------------------------------------------------------------------
(* The inductive invariant *)

ShTypes ==
  /\ Shape
  /\ phase \in {"running", "loop", "asking", "unlinked", "freed", "cancelling", "closed"}
  /\ mine \in Nodes \cup {Null}
  /\ thread \in {"waiting", "looking", "creating", "found", "removed", "dead"}
  /\ wants \in {"add", "remove"}
  /\ evCurr \in Nodes \cup {Null} /\ evSought \in Ids \cup {Null}
  /\ thread = "found" => evCurr \in Nodes
  /\ listed \subseteq Objs /\ asked \subseteq Objs /\ gone \subseteq Objs
  /\ objs \subseteq Objs /\ windowId \in [Objs -> Ids \cup {Root, Null}]
  /\ head \in Nodes \cup {Null} /\ dying \in objs \cup {Null}
  /\ at \in {"idle", "walking", "found", "freed"}
  /\ target \in Objs \cup {Null} /\ overlap \in BOOLEAN
  /\ at \in {"walking", "found"} => target \in Objs

\* The nodes allocated are those of order, each there once.
Placed == /\ nodes = {order[i] : i \in DOMAIN order}
          /\ \A i, j \in DOMAIN order : order[i] = order[j] => i = j

\* Each has a window of its own, which is allocated.
Windowed == /\ \A n \in nodes : window[n] \in objs /\ window[n] # dying
            /\ \A m, n \in nodes : window[m] = window[n] => m = n

\* The event thread by itself: the list is as in ContextList.
ThreadPlace ==
  /\ Links
  /\ thread = "looking" => evCurr \in nodes \cup {Null}
  /\ thread = "found" => evCurr \in nodes

\* The loop by itself: it has got as far as the first node.
MainPlace ==
  /\ thread = "waiting"
  /\ \A i \in DOMAIN order : next[order[i]] = NodeAt(i + 1)
  /\ phase \in {"loop", "asking"} => mine = head
  /\ phase = "asking" => /\ mine # Null /\ target = window[mine] /\ sought = IdOf(mine)
                         /\ at = "walking" => curr = mine
  /\ IF phase = "unlinked" THEN 1 \in DOMAIN order /\ mine = order[1] /\ head = NodeAt(2)
                           ELSE head = NodeAt(1)

Quiet == ~overlap => /\ ~Broken
                     /\ phase # "asking" => at = "idle"
                     /\ IF InLoop THEN MainPlace ELSE ThreadPlace

\* The nodes that the loop has still to reach, from place f on, and what a pointer
\* that leads past the first of them may hold.
Left(f) == {order[j] : j \in f .. Len(order)}
Beyond(f) == Left(f + 1) \cup (IF f \in DOMAIN order THEN {Null} ELSE {})

\* The links from place f on, there and back.
NextsFrom(f) == \A i \in f .. Len(order) : next[order[i]] = NodeAt(i + 1)
PrevsFrom(f) == /\ \A i \in f + 1 .. Len(order) : prev[order[i]] = order[i - 1]
                /\ f \in DOMAIN order => prev[order[f]] \notin Left(f)

\* Nodes that are not among them, new ones included, point to none but the first.
Outer(f) == \A n \in nodes \ Left(f) : next[n] \notin Beyond(f) /\ prev[n] \notin Left(f)

\* The loop's own pointers.
Pointers(f) == /\ head \notin Beyond(f)
               /\ phase \in {"loop", "asking"} => mine \notin Beyond(f)
               /\ phase = "unlinked" => mine \notin Left(f)

\* The walk of xcwm_window_request_close cannot miss the node it is made for.
WalkPlace(f) ==
  phase = "asking" /\ mine \in Left(f) =>
    /\ target = window[mine] /\ sought = IdOf(mine)
    /\ at = "walking" => curr \notin Beyond(f)
    /\ at = "idle" => target \in asked

\* Whoever has not been asked and is not gone is still to be reached.
Waiting(f) == \A o \in listed \ (asked \cup gone) : \E n \in Left(f) : window[n] = o

Chain(f) == NextsFrom(f) /\ PrevsFrom(f) /\ Outer(f) /\ Pointers(f) /\ WalkPlace(f) /\ Waiting(f)

Places == 1 .. Len(order) + 1

ShInv ==
  /\ ShTypes /\ Placed /\ Windowed /\ Quiet
  /\ InLoop /\ ~Broken => \E f \in Places : Chain(f)
  /\ phase = "running" => ~overlap
  /\ CloseAsksAll

----------------------------------------------------------------------------
(* A node put in front, and a node taken out *)

\* What the order is after a node has been put in front.
LEMMA Pushed ==
  ASSUME order \in Seq(Nodes), Placed, NEW n \in Nodes, n \notin nodes,
         nodes' = nodes \cup {n}, order' = <<n>> \o order
  PROVE  /\ order' \in Seq(Nodes) /\ Placed'
         /\ Len(order) \in Nat /\ Len(order') = Len(order) + 1
         /\ order'[1] = n
         /\ \A j \in 2 .. Len(order) + 1 : order'[j] = order[j - 1]
<1>1. Len(order) \in Nat /\ DOMAIN order = 1 .. Len(order)
  OBVIOUS
<1>2. /\ order' \in Seq(Nodes) /\ Len(order') = Len(order) + 1 /\ order'[1] = n
      /\ \A j \in 2 .. Len(order) + 1 : order'[j] = order[j - 1]
  BY PushSeq
<1>3. DOMAIN order' = 1 .. Len(order) + 1
  BY <1>1, <1>2
<1>4. ASSUME NEW j \in 2 .. Len(order) + 1
      PROVE  order'[j] = order[j - 1] /\ j - 1 \in DOMAIN order /\ order'[j] \in nodes
  <2>1. j - 1 \in DOMAIN order BY <1>1
  <2>2. order'[j] = order[j - 1] BY <1>2
  <2> QED BY <2>1, <2>2 DEF Placed
<1>5. \A i \in DOMAIN order' : i = 1 \/ i \in 2 .. Len(order) + 1
  BY <1>1, <1>3
<1>6. nodes' = {order'[i] : i \in DOMAIN order'}
  <2> DEFINE R == {order'[i] : i \in DOMAIN order'}
  <2>1. ASSUME NEW m \in nodes PROVE m \in R
    <3>1. PICK i \in DOMAIN order : m = order[i] BY DEF Placed
    <3>2. i \in 1 .. Len(order) BY <3>1, <1>1
    <3>3. i + 1 \in 2 .. Len(order) + 1 BY <3>2, <1>1
    <3>4. order'[i + 1] = order[i] BY <3>2, <3>3, <1>1, <1>2
    <3>5. i + 1 \in DOMAIN order' BY <3>2, <1>1, <1>3
    <3> QED BY <3>1, <3>4, <3>5
  <2>2. n \in R BY <1>1, <1>2, <1>3
  <2>3. R \subseteq nodes \cup {n} BY <1>2, <1>4, <1>5
  <2> HIDE DEF R
  <2>4. nodes \cup {n} = R BY <2>1, <2>2, <2>3
  <2> QED BY <2>4 DEF R
<1>7. \A i, j \in DOMAIN order' : order'[i] = order'[j] => i = j
  <2> SUFFICES ASSUME NEW i \in DOMAIN order', NEW j \in DOMAIN order',
                      order'[i] = order'[j]
               PROVE  i = j
    OBVIOUS
  <2>1. CASE i = 1 \/ j = 1 BY <2>1, <1>2, <1>4, <1>5
  <2>2. CASE i # 1 /\ j # 1
    <3>1. i - 1 = j - 1 BY <2>2, <1>4, <1>5 DEF Placed
    <3> QED BY <3>1, <1>1, <1>3
  <2> QED BY <2>1, <2>2
<1> QED BY <1>1, <1>2, <1>6, <1>7 DEF Placed

\* What the order is after the node at place k has been taken out.
LEMMA Dropped ==
  ASSUME order \in Seq(Nodes), Placed, NEW k \in DOMAIN order,
         nodes' = nodes \ {order[k]}, order' = Without(order, k)
  PROVE  /\ order' \in Seq(Nodes) /\ Placed'
         /\ Len(order) \in Nat /\ Len(order') = Len(order) - 1
         /\ \A j \in 1 .. Len(order) - 1 :
              order'[j] = IF j < k THEN order[j] ELSE order[j + 1]
<1>1. Len(order) \in Nat /\ DOMAIN order = 1 .. Len(order)
  OBVIOUS
<1>2. /\ order' \in Seq(Nodes) /\ Len(order') = Len(order) - 1
      /\ \A j \in 1 .. Len(order) - 1 :
           order'[j] = IF j < k THEN order[j] ELSE order[j + 1]
  BY WithoutSeq
<1>3. DOMAIN order' = 1 .. Len(order) - 1
  BY <1>1, <1>2
<1> DEFINE From(x) == IF x < k THEN x ELSE x + 1
<1>4. ASSUME NEW x \in DOMAIN order'
      PROVE  From(x) \in DOMAIN order /\ From(x) # k /\ order'[x] = order[From(x)]
  BY <1>1, <1>2, <1>3
<1>5. nodes' = {order'[i] : i \in DOMAIN order'}
  <2>1. ASSUME NEW m \in nodes' PROVE \E i \in DOMAIN order' : m = order'[i]
    <3>1. PICK i \in DOMAIN order : m = order[i] BY DEF Placed
    <3>2. i # k BY <3>1
    <3>3. CASE i < k BY <3>1, <3>3, <1>1, <1>2, <1>3
    <3>4. CASE i > k
      <4>1. i - 1 \in 1 .. Len(order) - 1 /\ ~(i - 1 < k) /\ (i - 1) + 1 = i
        BY <3>4, <1>1
      <4>2. order'[i - 1] = order[i] BY <4>1, <1>2
      <4> QED BY <4>1, <4>2, <3>1, <1>3
    <3> QED BY <3>2, <3>3, <3>4, <1>1
  <2>2. ASSUME NEW i \in DOMAIN order' PROVE order'[i] \in nodes'
    <3> HIDE DEF From
    <3> QED BY <1>4 DEF Placed
  <2> QED BY <2>1, <2>2
<1>6. \A i, j \in DOMAIN order' : order'[i] = order'[j] => i = j
  <2> SUFFICES ASSUME NEW i \in DOMAIN order', NEW j \in DOMAIN order',
                      order'[i] = order'[j]
               PROVE  i = j
    OBVIOUS
  <2>1. From(i) = From(j)
    <3> HIDE DEF From
    <3> QED BY <1>4 DEF Placed
  <2> QED BY <2>1, <1>1, <1>3
<1> QED BY <1>1, <1>2, <1>5, <1>6 DEF Placed

\* A new node in front is none of those to be reached.
LEMMA PushedLeft ==
  ASSUME order \in Seq(Nodes), Len(order') = Len(order) + 1,
         \A j \in 2 .. Len(order) + 1 : order'[j] = order[j - 1],
         order' \in Seq(Nodes), NEW f \in Places
  PROVE  Left(f + 1)' = Left(f) /\ Left(f + 2)' = Left(f + 1) /\ Beyond(f + 1)' = Beyond(f)
<1>1. /\ Len(order) \in Nat /\ DOMAIN order = 1 .. Len(order)
      /\ DOMAIN order' = 1 .. Len(order) + 1 /\ f \in 1 .. Len(order) + 1
  BY DEF Places
<1>2. ASSUME NEW g \in Nat, g >= 1 PROVE Left(g + 1)' = Left(g)
  <2>1. ASSUME NEW j \in g + 1 .. Len(order) + 1
        PROVE  order'[j] = order[j - 1] /\ j - 1 \in g .. Len(order)
    BY <1>1, <1>2
  <2>2. ASSUME NEW j \in g .. Len(order)
        PROVE  order'[j + 1] = order[j] /\ j + 1 \in g + 1 .. Len(order) + 1
    <3>1. j + 1 \in 2 .. Len(order) + 1 /\ j + 1 \in g + 1 .. Len(order) + 1 BY <1>1, <1>2
    <3>2. order'[j + 1] = order[(j + 1) - 1] BY <3>1
    <3>3. (j + 1) - 1 = j BY <1>1
    <3> QED BY <3>1, <3>2, <3>3
  <2>3. {order'[j] : j \in g + 1 .. Len(order) + 1} = {order[j] : j \in g .. Len(order)}
    <3>1. \A x : x \in {order'[j] : j \in g + 1 .. Len(order) + 1}
                  => x \in {order[j] : j \in g .. Len(order)}
      BY <2>1
    <3>2. \A x : x \in {order[j] : j \in g .. Len(order)}
                  => x \in {order'[j] : j \in g + 1 .. Len(order) + 1}
      BY <2>2
    <3> QED BY <3>1, <3>2
  <2> QED BY <2>3 DEF Left
<1>3. f + 1 \in DOMAIN order' <=> f \in DOMAIN order
  BY <1>1
<1>4. Left(f + 1)' = Left(f) BY <1>1, <1>2
<1>5. Left((f + 1) + 1)' = Left(f + 1)
  <2>1. f + 1 \in Nat /\ f + 1 >= 1 BY <1>1
  <2> QED BY <2>1, <1>2
<1>6. Left(f + 2)' = Left((f + 1) + 1)' BY <1>1 DEF Left
<1> QED BY <1>3, <1>4, <1>5, <1>6 DEF Beyond

\* A node taken out is at most one of those to be reached.
LEMMA DroppedLeft ==
  ASSUME order \in Seq(Nodes), Placed, NEW k \in DOMAIN order,
         Len(order') = Len(order) - 1, order' \in Seq(Nodes),
         \A j \in 1 .. Len(order) - 1 :
           order'[j] = IF j < k THEN order[j] ELSE order[j + 1],
         NEW f \in Places
  PROVE  /\ k < f => /\ f - 1 \in Places' /\ Left(f - 1)' = Left(f)
                     /\ Beyond(f - 1)' = Beyond(f)
         /\ k >= f => /\ f \in Places' /\ Left(f)' = Left(f) \ {order[k]}
         /\ k = f => Beyond(f)' = Beyond(f + 1)
         /\ k > f => Beyond(f)' = Beyond(f) \ {order[k]}
<1>1. /\ Len(order) \in Nat /\ DOMAIN order = 1 .. Len(order) /\ k \in 1 .. Len(order)
      /\ DOMAIN order' = 1 .. Len(order) - 1 /\ f \in 1 .. Len(order) + 1
  BY DEF Places
<1>2. ASSUME NEW g \in Nat, g > k PROVE Left(g - 1)' = Left(g)
  <2>1. ASSUME NEW j \in g - 1 .. Len(order) - 1
        PROVE  order'[j] = order[j + 1] /\ j + 1 \in g .. Len(order)
    BY <1>1, <1>2
  <2>2. ASSUME NEW j \in g .. Len(order)
        PROVE  order'[j - 1] = order[j] /\ j - 1 \in g - 1 .. Len(order) - 1
    <3>1. j - 1 \in 1 .. Len(order) - 1 /\ j - 1 \in g - 1 .. Len(order) - 1 /\ ~(j - 1 < k)
      BY <1>1, <1>2
    <3>2. order'[j - 1] = order[(j - 1) + 1] BY <3>1
    <3>3. (j - 1) + 1 = j BY <1>1
    <3> QED BY <3>1, <3>2, <3>3
  <2>3. {order'[j] : j \in g - 1 .. Len(order) - 1} = {order[j] : j \in g .. Len(order)}
    <3>1. \A x : x \in {order'[j] : j \in g - 1 .. Len(order) - 1}
                  => x \in {order[j] : j \in g .. Len(order)}
      BY <2>1
    <3>2. \A x : x \in {order[j] : j \in g .. Len(order)}
                  => x \in {order'[j] : j \in g - 1 .. Len(order) - 1}
      BY <2>2
    <3> QED BY <3>1, <3>2
  <2> QED BY <2>3 DEF Left
<1>3. ASSUME NEW g \in Nat, 1 <= g, g <= k PROVE Left(g)' = Left(g) \ {order[k]}
  <2>1. ASSUME NEW j \in g .. Len(order) - 1
        PROVE  \E i \in g .. Len(order) : order'[j] = order[i] /\ order[i] # order[k]
    <3>1. CASE j < k
      <4>1. order'[j] = order[j] /\ j \in DOMAIN order /\ j # k BY <3>1, <1>1, <1>3
      <4> QED BY <4>1, <1>1 DEF Placed
    <3>2. CASE ~(j < k)
      <4>1. order'[j] = order[j + 1] /\ j + 1 \in DOMAIN order /\ j + 1 # k
        BY <3>2, <1>1, <1>3
      <4>2. j + 1 \in g .. Len(order) BY <1>1, <1>3
      <4> QED BY <4>1, <4>2 DEF Placed
    <3> QED BY <3>1, <3>2
  <2>2. ASSUME NEW i \in g .. Len(order), order[i] # order[k]
        PROVE  \E j \in g .. Len(order) - 1 : order'[j] = order[i]
    <3>1. CASE i < k
      <4>1. i \in g .. Len(order) - 1 /\ order'[i] = order[i] BY <3>1, <1>1, <1>3
      <4> QED BY <4>1
    <3>2. CASE i > k
      <4>1. i - 1 \in 1 .. Len(order) - 1 /\ i - 1 \in g .. Len(order) - 1 /\ ~(i - 1 < k)
        BY <3>2, <1>1, <1>3
      <4>2. order'[i - 1] = order[(i - 1) + 1] BY <4>1
      <4>3. (i - 1) + 1 = i BY <1>1, <1>3
      <4> QED BY <4>1, <4>2, <4>3
    <3> QED BY <3>1, <3>2, <2>2, <1>1, <1>3
  <2>3. {order'[j] : j \in g .. Len(order) - 1} = {order[j] : j \in g .. Len(order)} \ {order[k]}
    <3>1. \A x : x \in {order'[j] : j \in g .. Len(order) - 1}
                  => x \in {order[j] : j \in g .. Len(order)} \ {order[k]}
      BY <2>1
    <3>2. \A x : x \in {order[j] : j \in g .. Len(order)} \ {order[k]}
                  => x \in {order'[j] : j \in g .. Len(order) - 1}
      BY <2>2
    <3> QED BY <3>1, <3>2
  <2> QED BY <2>3 DEF Left
<1>4. order[k] # Null
  BY <1>1, NullAssumption
<1>5. ASSUME k < f
      PROVE  f - 1 \in Places' /\ Left(f - 1)' = Left(f) /\ Beyond(f - 1)' = Beyond(f)
  <2>1. f - 1 \in Places' BY <1>1, <1>5 DEF Places
  <2>2. Left(f - 1)' = Left(f) BY <1>1, <1>2, <1>5
  <2>3. Left((f + 1) - 1)' = Left(f + 1)
    <3>1. f + 1 \in Nat /\ f + 1 > k BY <1>1, <1>5
    <3> QED BY <3>1, <1>2
  <2>4. Left((f - 1) + 1)' = Left((f + 1) - 1)' BY <1>1 DEF Left
  <2>5. f - 1 \in DOMAIN order' <=> f \in DOMAIN order BY <1>1, <1>5
  <2> QED BY <2>1, <2>2, <2>3, <2>4, <2>5 DEF Beyond
<1>6. ASSUME k >= f PROVE f \in Places' /\ Left(f)' = Left(f) \ {order[k]}
  BY <1>1, <1>3, <1>6 DEF Places
<1>7. ASSUME k = f PROVE Beyond(f)' = Beyond(f + 1)
  <2>1. Left((f + 2) - 1)' = Left(f + 2)
    <3>1. f + 2 \in Nat /\ f + 2 > k BY <1>1, <1>7
    <3> QED BY <3>1, <1>2
  <2>2. Left(f + 1)' = Left((f + 2) - 1)' BY <1>1 DEF Left
  <2>3. Left((f + 1) + 1) = Left(f + 2) BY <1>1 DEF Left
  <2>4. f \in DOMAIN order' <=> f + 1 \in DOMAIN order BY <1>1
  <2> QED BY <2>1, <2>2, <2>3, <2>4 DEF Beyond
<1>8. ASSUME k > f PROVE Beyond(f)' = Beyond(f) \ {order[k]}
  <2>1. Left(f + 1)' = Left(f + 1) \ {order[k]}
    <3>1. f + 1 \in Nat /\ 1 <= f + 1 /\ f + 1 <= k BY <1>1, <1>8
    <3> QED BY <3>1, <1>3
  <2>2. f \in DOMAIN order' /\ f \in DOMAIN order BY <1>1, <1>8
  <2> QED BY <2>1, <2>2, <1>4 DEF Beyond
<1> QED BY <1>5, <1>6, <1>7, <1>8

----------------------------------------------------------------------------
(* The chain of the nodes to be reached *)

\* The state of the loop that the event thread leaves alone.
loop == <<phase, mine, at, target, sought, curr, listed, asked>>

\* Whatever place, the nodes from there on are nodes of the list.
LEMMA LeftNodes ==
  ASSUME ShTypes, Placed, NEW f \in Places
  PROVE  /\ Len(order) \in Nat /\ DOMAIN order = 1 .. Len(order) /\ f \in 1 .. Len(order) + 1
         /\ Left(f) \subseteq nodes /\ nodes \subseteq Nodes
         /\ Null \notin nodes
         /\ Left(f + 1) \subseteq Left(f)
         /\ Beyond(f) \subseteq Left(f) \cup {Null}
         /\ \A i \in f .. Len(order) : order[i] \in Left(f)
         /\ \A x \in Left(f) \ Beyond(f) : f \in DOMAIN order /\ x = order[f]
         /\ \A i \in f + 1 .. Len(order) : order[i] \in Beyond(f)
<1>1. Len(order) \in Nat /\ DOMAIN order = 1 .. Len(order) /\ f \in 1 .. Len(order) + 1
  BY DEF ShTypes, Shape, Places
<1>2. Left(f) \subseteq nodes BY <1>1 DEF Left, Placed
<1>3. nodes \subseteq Nodes /\ Null \notin nodes BY NullAssumption DEF ShTypes, Shape
<1>4. Left(f + 1) \subseteq Left(f) BY <1>1 DEF Left
<1>5. \A i \in f .. Len(order) : order[i] \in Left(f) BY DEF Left
<1>6. \A i \in f + 1 .. Len(order) : order[i] \in Left(f + 1) BY DEF Left
<1>7. ASSUME NEW x \in Left(f), x \notin Left(f + 1) PROVE f \in DOMAIN order /\ x = order[f]
  <2>1. PICK j \in f .. Len(order) : x = order[j] BY DEF Left
  <2>2. j \notin f + 1 .. Len(order) BY <1>6, <1>7, <2>1
  <2> QED BY <2>1, <2>2, <1>1
<1> QED BY <1>1, <1>2, <1>3, <1>4, <1>5, <1>6, <1>7 DEF Beyond

\* A window that the event thread adds comes before all of them.
LEMMA ChainAdd ==
  ASSUME ShTypes, Placed, Windowed, NEW f \in Places, Chain(f),
         NEW n \in Nodes, NEW o \in Objs, n \notin nodes, o \notin objs, Link(n, o),
         windowId' = [windowId EXCEPT ![o] = evSought],
         UNCHANGED <<loop, gone>>
  PROVE  f + 1 \in Places' /\ Chain(f + 1)'
<1>1. /\ Len(order) \in Nat /\ DOMAIN order = 1 .. Len(order) /\ f \in 1 .. Len(order) + 1
      /\ Left(f) \subseteq nodes /\ nodes \subseteq Nodes /\ Null \notin nodes
      /\ Beyond(f) \subseteq Left(f) \cup {Null}
      /\ \A i \in f .. Len(order) : order[i] \in Left(f)
      /\ \A i \in f + 1 .. Len(order) : order[i] \in Beyond(f)
  BY LeftNodes
<1>2. /\ order' \in Seq(Nodes) /\ Placed' /\ Len(order') = Len(order) + 1
      /\ order'[1] = n
      /\ \A j \in 2 .. Len(order) + 1 : order'[j] = order[j - 1]
  BY Pushed DEF ShTypes, Shape, Link
<1>3. Left(f + 1)' = Left(f) /\ Beyond(f + 1)' = Beyond(f)
  BY <1>2, PushedLeft DEF ShTypes, Shape
<1>4. DOMAIN order' = 1 .. Len(order) + 1
  BY <1>1, <1>2
<1>5. /\ \A m \in Nodes : next'[m] = IF m = n THEN head ELSE next[m]
      /\ \A m \in Nodes : prev'[m] = IF m = n THEN Null ELSE IF m = head THEN n ELSE prev[m]
      /\ \A m \in nodes : window'[m] = window[m]
      /\ nodes' = nodes \cup {n} /\ head' = n
  BY <1>1 DEF Link, ShTypes, Shape
<1>6. ASSUME NEW i \in f + 1 .. Len(order) + 1
      PROVE  order'[i] = order[i - 1] /\ i - 1 \in f .. Len(order) /\ order'[i] \in Left(f)
  <2>1. i - 1 \in f .. Len(order) /\ i \in 2 .. Len(order) + 1 BY <1>1
  <2> QED BY <2>1, <1>1, <1>2
<1>7. NextsFrom(f + 1)'
  <2>1. ASSUME NEW i \in f + 1 .. Len(order) + 1 PROVE next'[order'[i]] = NodeAt(i + 1)'
    <3>1. next'[order'[i]] = next[order[i - 1]] BY <1>1, <1>5, <1>6
    <3>2. next[order[i - 1]] = NodeAt((i - 1) + 1) BY <1>6 DEF Chain, NextsFrom
    <3>3. NodeAt(i + 1)' = NodeAt((i - 1) + 1)
      <4>1. (i - 1) + 1 = i BY <1>1
      <4>2. i + 1 \in DOMAIN order' <=> i \in DOMAIN order BY <1>1, <1>4
      <4>3. ASSUME i \in DOMAIN order PROVE order'[i + 1] = order[i]
        <5>1. i + 1 \in 2 .. Len(order) + 1 BY <4>3, <1>1
        <5>2. order'[i + 1] = order[(i + 1) - 1] BY <5>1, <1>2
        <5>3. (i + 1) - 1 = i BY <1>1
        <5> QED BY <5>2, <5>3
      <4> QED BY <4>1, <4>2, <4>3 DEF NodeAt
    <3> QED BY <3>1, <3>2, <3>3
  <2> QED BY <2>1, <1>2 DEF NextsFrom
<1>8. PrevsFrom(f + 1)'
  <2>1. ASSUME NEW i \in f + 2 .. Len(order) + 1 PROVE prev'[order'[i]] = order'[i - 1]
    <3>1. i \in f + 1 .. Len(order) + 1 /\ i - 1 \in f + 1 .. Len(order) BY <1>1
    <3>2. order'[i] = order[i - 1] /\ order[i - 1] \in Beyond(f) /\ order[i - 1] \in Left(f)
      BY <3>1, <1>1, <1>6
    <3>3. prev'[order'[i]] = prev[order[i - 1]]
      BY <3>2, <1>1, <1>5 DEF Chain, Pointers
    <3>4. prev[order[i - 1]] = order[(i - 1) - 1] BY <3>1 DEF Chain, PrevsFrom
    <3>5. order'[i - 1] = order[(i - 1) - 1]
      <4>1. i - 1 \in 2 .. Len(order) + 1 BY <1>1
      <4> QED BY <4>1, <1>2
    <3> QED BY <3>3, <3>4, <3>5
  <2>2. ASSUME f + 1 \in DOMAIN order' PROVE prev'[order'[f + 1]] \notin Left(f)
    <3>1. f + 1 \in f + 1 .. Len(order) + 1 /\ f \in DOMAIN order /\ (f + 1) - 1 = f
      BY <2>2, <1>1, <1>4
    <3>2. order'[f + 1] = order[f] /\ order[f] \in nodes BY <3>1, <1>1, <1>6
    <3>3. prev[order[f]] \notin Left(f) BY <3>1 DEF Chain, PrevsFrom
    <3>4. prev'[order'[f + 1]] \in {n, prev[order[f]]} BY <3>2, <1>1, <1>5
    <3> QED BY <3>3, <3>4, <1>1
  <2>3. \A i \in (f + 1) + 1 .. Len(order) + 1 : i \in f + 2 .. Len(order) + 1 BY <1>1
  <2> QED BY <2>1, <2>2, <2>3, <1>2, <1>3 DEF PrevsFrom
<1>9. Outer(f + 1)'
  <2>1. ASSUME NEW m \in nodes' \ Left(f) PROVE next'[m] \notin Beyond(f) /\ prev'[m] \notin Left(f)
    <3>1. CASE m = n
      <4>1. next'[m] = head /\ prev'[m] = Null BY <3>1, <1>5
      <4> QED BY <4>1, <1>1 DEF Chain, Pointers
    <3>2. CASE m \in nodes
      <4>1. next'[m] = next[m] /\ prev'[m] \in {n, prev[m]} BY <3>2, <1>1, <1>5
      <4> QED BY <4>1, <3>2, <1>1 DEF Chain, Outer
    <3> QED BY <3>1, <3>2, <1>5
  <2> QED BY <2>1, <1>3 DEF Outer
<1>10. Pointers(f + 1)'
  <2>1. n \notin Beyond(f) BY <1>1, NullAssumption
  <2>2. mine' = mine /\ phase' = phase BY DEF loop
  <2> QED BY <2>1, <2>2, <1>3, <1>5 DEF Pointers, Chain
<1>11. WalkPlace(f + 1)'
  <2>1. ASSUME mine \in Left(f)
        PROVE window'[mine] = window[mine] /\ IdOf(mine)' = IdOf(mine)
    <3>1. mine \in nodes BY <2>1, <1>1
    <3>2. window[mine] \in objs /\ window[mine] # o /\ window[mine] \in Objs
      BY <3>1 DEF Windowed, ShTypes
    <3> QED BY <3>1, <3>2, <1>5 DEF IdOf, ShTypes, loop
  <2> QED BY <2>1, <1>3 DEF WalkPlace, Chain, loop
<1>12. Waiting(f + 1)'
  BY <1>1, <1>3, <1>5 DEF Waiting, Chain, loop
<1>13. f + 1 \in Places'
  BY <1>1, <1>2 DEF Places
<1> QED BY <1>7, <1>8, <1>9, <1>10, <1>11, <1>12, <1>13 DEF Chain

\* A window that the event thread removes may be one of them, or not.
LEMMA ChainRemove ==
  ASSUME ShTypes, Placed, NEW f \in Places, Chain(f),
         NEW p \in nodes, Unlink(p), gone' = gone \cup {window[p]},
         UNCHANGED <<loop, windowId>>
  PROVE  \E g \in Places' : Chain(g)'
<1>1. /\ Len(order) \in Nat /\ DOMAIN order = 1 .. Len(order) /\ f \in 1 .. Len(order) + 1
      /\ Left(f) \subseteq nodes /\ nodes \subseteq Nodes /\ Null \notin nodes
      /\ Beyond(f) \subseteq Left(f) \cup {Null}
      /\ \A i \in f .. Len(order) : order[i] \in Left(f)
      /\ \A i \in f + 1 .. Len(order) : order[i] \in Beyond(f)
  BY LeftNodes
<1>2. PICK k \in DOMAIN order : order[k] = p /\ order' = Without(order, k)
  BY DEF Unlink
<1>3. /\ order' \in Seq(Nodes) /\ Placed' /\ Len(order') = Len(order) - 1
      /\ \A j \in 1 .. Len(order) - 1 :
           order'[j] = IF j < k THEN order[j] ELSE order[j + 1]
  BY <1>2, Dropped DEF ShTypes, Shape, Unlink
<1>4. DOMAIN order' = 1 .. Len(order) - 1 /\ k \in 1 .. Len(order)
  BY <1>1, <1>2, <1>3
<1>5. /\ \A m \in Nodes : next'[m] = IF m = prev[p] THEN next[p] ELSE next[m]
      /\ \A m \in Nodes : prev'[m] = IF m = next[p] THEN prev[p] ELSE prev[m]
      /\ window' = window /\ nodes' = nodes \ {p}
      /\ head' = IF prev[p] = Null THEN next[p] ELSE head
  BY DEF Unlink
<1>6. \A i \in DOMAIN order : order[i] \in nodes /\ (order[i] = p => i = k)
  BY <1>2 DEF Placed
<1>7. \A i, j \in DOMAIN order : order[i] = order[j] => i = j
  BY DEF Placed
<1>8. NodeAt(Len(order) + 1) = Null /\ \A i \in DOMAIN order : NodeAt(i) = order[i]
  BY <1>1 DEF NodeAt
<1>9. ASSUME NEW g \in Places', Left(g)' \subseteq Left(f) \ {p}, Beyond(g)' \subseteq Beyond(f),
             Left(f) \ {p} \subseteq Left(g)'
      PROVE  WalkPlace(g)' /\ Waiting(g)'
  <2>1. WalkPlace(g)' BY <1>5, <1>9 DEF WalkPlace, Chain, loop, IdOf
  <2>2. ASSUME NEW o \in listed \ (asked \cup gone'), NEW m \in Left(f), window[m] = o
        PROVE  m \in Left(g)'
    BY <1>9, <2>2
  <2>3. Waiting(g)'
    <3>1. ASSUME NEW o \in listed \ (asked \cup gone')
          PROVE  \E m \in Left(g)' : window[m] = o
      <4>1. o \in listed \ (asked \cup gone) BY <3>1
      <4>2. PICK m \in Left(f) : window[m] = o BY <4>1 DEF Chain, Waiting
      <4> QED BY <4>2, <2>2
    <3> QED BY <3>1, <1>5 DEF Waiting, loop
  <2> QED BY <2>1, <2>3
<1>10. CASE k < f
  <2>1. /\ f - 1 \in Places' /\ Left(f - 1)' = Left(f) /\ Beyond(f - 1)' = Beyond(f)
    BY <1>2, <1>3, <1>10, DroppedLeft DEF ShTypes, Shape
  <2>2. p \notin Left(f)
    <3>1. ASSUME NEW j \in f .. Len(order) PROVE order[j] # p
      <4>1. j \in DOMAIN order /\ j # k BY <1>1, <1>10
      <4> QED BY <4>1, <1>6
    <3> QED BY <3>1 DEF Left
  <2>3. next[p] \notin Beyond(f) /\ prev[p] \notin Left(f)
    BY <2>2 DEF Chain, Outer
  <2>4. ASSUME NEW i \in f - 1 .. Len(order) - 1
        PROVE  order'[i] = order[i + 1] /\ i + 1 \in f .. Len(order)
    <3>1. i \in 1 .. Len(order) - 1 /\ ~(i < k) /\ i + 1 \in f .. Len(order)
      BY <1>1, <1>4, <1>10
    <3> QED BY <3>1, <1>3
  <2>5. NextsFrom(f - 1)'
    <3>1. ASSUME NEW i \in f - 1 .. Len(order) - 1 PROVE next'[order'[i]] = NodeAt(i + 1)'
      <4>1. order'[i] = order[i + 1] /\ i + 1 \in f .. Len(order) /\ order[i + 1] \in Left(f)
        BY <2>4, <1>1
      <4>2. next'[order'[i]] = next[order[i + 1]] BY <4>1, <2>3, <1>1, <1>5
      <4>3. next[order[i + 1]] = NodeAt((i + 1) + 1) BY <4>1 DEF Chain, NextsFrom
      <4>4. NodeAt(i + 1)' = NodeAt((i + 1) + 1)
        <5>1. CASE i = Len(order) - 1 BY <5>1, <1>1, <1>4 DEF NodeAt
        <5>2. CASE i # Len(order) - 1
          <6>1. i + 1 \in f - 1 .. Len(order) - 1
            <7>1. Len(order) \in Nat /\ f \in Int BY <1>1
            <7>2. i \in Int /\ f - 1 <= i /\ i <= Len(order) - 1 BY <3>1, <7>1
            <7> QED BY <5>2, <7>1, <7>2
          <6>2. order'[i + 1] = order[(i + 1) + 1] BY <6>1, <2>4
          <6>3. i + 1 \in DOMAIN order' /\ (i + 1) + 1 \in DOMAIN order
            <7>1. i \in Int /\ i + 1 \in 1 .. Len(order) BY <3>1, <4>1, <1>1
            <7>0. Len(order) \in Nat BY <1>1
            <7>2. i + 1 \in 1 .. Len(order) - 1 BY <7>0, <7>1, <5>2
            <7>3. (i + 1) + 1 \in 1 .. Len(order) BY <7>1, <7>2, <1>1
            <7> QED BY <7>2, <7>3, <1>1, <1>4
          <6> QED BY <6>2, <6>3 DEF NodeAt
        <5> QED BY <5>1, <5>2
      <4> QED BY <4>2, <4>3, <4>4
    <3> QED BY <3>1, <1>3 DEF NextsFrom
  <2>6. PrevsFrom(f - 1)'
    <3>1. ASSUME NEW i \in f .. Len(order) - 1 PROVE prev'[order'[i]] = order'[i - 1]
      <4>1. i \in f - 1 .. Len(order) - 1 /\ i - 1 \in f - 1 .. Len(order) - 1 BY <1>1
      <4>2. order'[i] = order[i + 1] /\ order'[i - 1] = order[(i - 1) + 1] BY <4>1, <2>4
      <4>3. i + 1 \in f + 1 .. Len(order) /\ (i - 1) + 1 = i /\ (i + 1) - 1 = i BY <1>1
      <4>4. order[i + 1] \in Beyond(f) /\ order[i + 1] \in nodes BY <4>3, <1>1, <1>6
      <4>5. prev'[order'[i]] = prev[order[i + 1]] BY <4>2, <4>4, <2>3, <1>1, <1>5
      <4>6. prev[order[i + 1]] = order[(i + 1) - 1] BY <4>3 DEF Chain, PrevsFrom
      <4> QED BY <4>2, <4>3, <4>5, <4>6
    <3>2. ASSUME f - 1 \in DOMAIN order' PROVE prev'[order'[f - 1]] \notin Left(f)
      <4>1. f - 1 \in f - 1 .. Len(order) - 1 /\ (f - 1) + 1 = f /\ f \in DOMAIN order
        BY <3>2, <1>1, <1>4
      <4>2. order'[f - 1] = order[f] /\ order[f] \in nodes BY <4>1, <2>4, <1>6
      <4>3. prev[order[f]] \notin Left(f) BY <4>1 DEF Chain, PrevsFrom
      <4> QED BY <4>2, <4>3, <2>3, <1>1, <1>5
    <3>3. \A i \in (f - 1) + 1 .. Len(order) - 1 : i \in f .. Len(order) - 1 BY <1>1
    <3> QED BY <3>1, <3>2, <3>3, <2>1, <1>3 DEF PrevsFrom
  <2>7. Outer(f - 1)'
    <3>1. ASSUME NEW m \in nodes \ {p}, m \notin Left(f)
          PROVE  next'[m] \notin Beyond(f) /\ prev'[m] \notin Left(f)
      <4>1. next'[m] \in {next[p], next[m]} /\ prev'[m] \in {prev[p], prev[m]}
        BY <1>1, <1>5
      <4> QED BY <4>1, <3>1, <2>3 DEF Chain, Outer
    <3> QED BY <3>1, <2>1, <1>5 DEF Outer
  <2>8. Pointers(f - 1)'
    BY <2>1, <2>3, <1>5 DEF Pointers, Chain, loop
  <2>9. Left(f - 1)' \subseteq Left(f) \ {p} /\ Left(f) \ {p} \subseteq Left(f - 1)'
    BY <2>1, <2>2
  <2>10. WalkPlace(f - 1)' /\ Waiting(f - 1)' BY <1>9, <2>1, <2>9
  <2> QED BY <2>1, <2>5, <2>6, <2>7, <2>8, <2>10 DEF Chain
<1>11. CASE k > f
  <2>1. /\ f \in Places' /\ Left(f)' = Left(f) \ {p} /\ Beyond(f)' = Beyond(f) \ {p}
    <3>1. k >= f BY <1>1, <1>4, <1>11
    <3> QED BY <3>1, <1>2, <1>3, <1>11, DroppedLeft DEF ShTypes, Shape
  <2>2. /\ k - 1 \in DOMAIN order /\ prev[p] = order[k - 1] /\ next[p] = NodeAt(k + 1)
    <3>1. k \in f + 1 .. Len(order) /\ k \in f .. Len(order) /\ k - 1 \in DOMAIN order
      BY <1>1, <1>4, <1>11
    <3> QED BY <3>1, <1>2 DEF Chain, NextsFrom, PrevsFrom
  <2>3. \A i \in f .. Len(order) : i \in DOMAIN order /\ order[i] \in nodes BY <1>1, <1>6
  <2>4. ASSUME NEW i \in DOMAIN order, order[i] = next[p] PROVE i = k + 1
    <3>1. next[p] # Null BY <2>4, <1>1, <1>6
    <3>2. k + 1 \in DOMAIN order /\ next[p] = order[k + 1] BY <3>1, <2>2 DEF NodeAt
    <3> QED BY <3>2, <2>4, <1>7
  <2>5. \A i \in DOMAIN order : order[i] = prev[p] => i = k - 1
    BY <2>2, <1>7
  <2>6. NextsFrom(f)'
    <3>1. ASSUME NEW i \in f .. Len(order) - 1 PROVE next'[order'[i]] = NodeAt(i + 1)'
      <4>0. i \in DOMAIN order /\ i + 1 \in DOMAIN order /\ i \in DOMAIN order' BY <1>1, <1>4
      <4>1. CASE i < k - 1
        <5>1. order'[i] = order[i] /\ order'[i + 1] = order[i + 1] /\ i + 1 \in DOMAIN order'
          BY <4>0, <4>1, <1>1, <1>3, <1>4
        <5>2. order[i] # prev[p] BY <4>0, <4>1, <2>5, <1>4
        <5>3. next'[order'[i]] = next[order[i]] BY <5>1, <5>2, <4>0, <1>1, <1>5, <1>6
        <5>4. next[order[i]] = NodeAt(i + 1)
          <6>1. i \in f .. Len(order) BY <1>1
          <6> QED BY <6>1 DEF Chain, NextsFrom
        <5> QED BY <5>1, <5>3, <5>4, <4>0 DEF NodeAt
      <4>2. CASE i = k - 1
        <5>1. order'[i] = order[k - 1] BY <4>0, <4>2, <1>1, <1>3, <1>4
        <5>2. next'[order'[i]] = next[p] BY <5>1, <2>2, <1>1, <1>5, <1>6
        <5>3. NodeAt(i + 1)' = NodeAt(k + 1)
          <6>1. i + 1 = k BY <4>2, <1>4
          <6>2. k \in DOMAIN order' <=> k + 1 \in DOMAIN order BY <1>1, <1>4
          <6>3. k \in DOMAIN order' => order'[k] = order[k + 1] BY <1>1, <1>3, <1>4
          <6> QED BY <6>1, <6>2, <6>3 DEF NodeAt
        <5> QED BY <5>2, <5>3, <2>2
      <4>3. CASE i > k - 1
        <5>1. order'[i] = order[i + 1] BY <4>0, <4>3, <1>1, <1>3, <1>4
        <5>2. i + 1 # k - 1 BY <4>3, <1>1, <1>4
        <5>3. next'[order'[i]] = next[order[i + 1]]
          BY <5>1, <5>2, <4>0, <2>5, <1>1, <1>5, <1>6
        <5>4. next[order[i + 1]] = NodeAt((i + 1) + 1)
          <6>1. i + 1 \in f .. Len(order) BY <1>1
          <6> QED BY <6>1 DEF Chain, NextsFrom
        <5>5. NodeAt(i + 1)' = NodeAt((i + 1) + 1)
          <6>1. i + 1 \in DOMAIN order' <=> (i + 1) + 1 \in DOMAIN order BY <1>1, <1>4
          <6>2. i + 1 \in DOMAIN order' => order'[i + 1] = order[(i + 1) + 1]
            BY <4>3, <1>1, <1>3, <1>4
          <6> QED BY <6>1, <6>2 DEF NodeAt
        <5> QED BY <5>3, <5>4, <5>5
      <4> QED BY <4>1, <4>2, <4>3, <1>1, <1>4
    <3> QED BY <3>1, <1>3 DEF NextsFrom
  <2>7. PrevsFrom(f)'
    <3>1. ASSUME NEW i \in f + 1 .. Len(order) - 1 PROVE prev'[order'[i]] = order'[i - 1]
      <4>0. /\ i \in DOMAIN order /\ i + 1 \in DOMAIN order /\ i \in DOMAIN order'
            /\ i - 1 \in DOMAIN order /\ i - 1 \in DOMAIN order' BY <1>1, <1>4
      <4>1. CASE i < k
        <5>1. order'[i] = order[i] /\ order'[i - 1] = order[i - 1]
          BY <4>0, <4>1, <1>1, <1>3, <1>4
        <5>2. order[i] # next[p]
          <6>1. i # k + 1 BY <4>1, <1>4
          <6> QED BY <6>1, <4>0, <2>4
        <5>3. prev'[order'[i]] = prev[order[i]] BY <5>1, <5>2, <4>0, <1>1, <1>5, <1>6
        <5>4. prev[order[i]] = order[i - 1]
          <6>1. i \in f + 1 .. Len(order) BY <1>1
          <6> QED BY <6>1 DEF Chain, PrevsFrom
        <5> QED BY <5>1, <5>3, <5>4
      <4>2. CASE i = k
        <5>1. order'[i] = order[k + 1] /\ order'[i - 1] = order[k - 1] /\ k + 1 \in DOMAIN order
          BY <4>0, <4>2, <1>1, <1>3, <1>4
        <5>2. order[k + 1] = next[p] BY <5>1, <2>2 DEF NodeAt
        <5> QED BY <5>1, <5>2, <2>2, <1>1, <1>5, <1>6
      <4>3. CASE i > k
        <5>1. order'[i] = order[i + 1] /\ order'[i - 1] = order[(i - 1) + 1]
          BY <4>0, <4>3, <1>1, <1>3, <1>4
        <5>2. order[i + 1] # next[p]
          <6>1. i + 1 # k + 1 BY <4>3, <1>1, <1>4
          <6> QED BY <6>1, <4>0, <2>4
        <5>3. prev'[order'[i]] = prev[order[i + 1]] BY <5>1, <5>2, <4>0, <1>1, <1>5, <1>6
        <5>4. prev[order[i + 1]] = order[(i + 1) - 1]
          <6>1. i + 1 \in f + 1 .. Len(order) BY <1>1
          <6> QED BY <6>1 DEF Chain, PrevsFrom
        <5>5. (i + 1) - 1 = i /\ (i - 1) + 1 = i BY <1>1
        <5> QED BY <5>1, <5>3, <5>4, <5>5
      <4> QED BY <4>1, <4>2, <4>3, <1>1, <1>4
    <3>2. ASSUME f \in DOMAIN order' PROVE prev'[order'[f]] \notin Left(f)
      <4>1. order'[f] = order[f] /\ f \in DOMAIN order /\ f # k + 1
        BY <3>2, <1>1, <1>3, <1>4, <1>11
      <4>2. prev'[order'[f]] = prev[order[f]] BY <4>1, <2>4, <1>1, <1>5, <1>6
      <4> QED BY <4>1, <4>2 DEF Chain, PrevsFrom
    <3> QED BY <3>1, <3>2, <2>1, <1>3 DEF PrevsFrom
  <2>8. next[p] \in Left(f) \cup {Null} /\ prev[p] \in Left(f)
    <3>1. k - 1 \in f .. Len(order) BY <1>1, <1>4, <1>11
    <3>2. k + 1 \in DOMAIN order => k + 1 \in f .. Len(order) BY <1>1, <1>4, <1>11
    <3> QED BY <3>1, <3>2, <2>2, <1>1 DEF NodeAt
  <2>9. Outer(f)'
    <3>1. ASSUME NEW m \in nodes \ {p}, m \notin Left(f)
          PROVE  next'[m] \notin Beyond(f) /\ prev'[m] \notin Left(f)
      <4>1. next'[m] = next[m] /\ prev'[m] = prev[m] BY <3>1, <2>8, <1>1, <1>5
      <4> QED BY <4>1, <3>1 DEF Chain, Outer
    <3> QED BY <3>1, <2>1, <1>5 DEF Outer
  <2>10. Pointers(f)'
    <3>1. head' = head BY <2>2, <1>1, <1>5, <1>6
    <3> QED BY <3>1, <2>1 DEF Pointers, Chain, loop
  <2>11. WalkPlace(f)' /\ Waiting(f)' BY <1>9, <2>1
  <2> QED BY <2>1, <2>6, <2>7, <2>9, <2>10, <2>11 DEF Chain
<1>12. CASE k = f
  <2>1. /\ f \in Places' /\ Left(f)' = Left(f) \ {p} /\ Beyond(f)' = Beyond(f + 1)
    <3>1. k >= f BY <1>1, <1>4, <1>12
    <3> QED BY <3>1, <1>2, <1>3, <1>12, DroppedLeft DEF ShTypes, Shape
  <2>2. f \in DOMAIN order /\ prev[p] \notin Left(f) /\ next[p] = NodeAt(f + 1)
    <3>1. f \in f .. Len(order) /\ f \in DOMAIN order BY <1>1, <1>4, <1>12
    <3> QED BY <3>1, <1>2, <1>12 DEF Chain, NextsFrom, PrevsFrom
  <2>3. Beyond(f + 1) \subseteq Beyond(f)
    <3>1. Left((f + 1) + 1) \subseteq Left(f + 1) BY <1>1 DEF Left
    <3> QED BY <3>1, <2>2 DEF Beyond
  <2>4. next[p] \notin Beyond(f + 1)
    <3>1. CASE f + 1 \in DOMAIN order
      <4>1. ASSUME NEW j \in (f + 1) + 1 .. Len(order) PROVE order[j] # order[f + 1]
        <5>1. j \in DOMAIN order /\ j # f + 1 BY <1>1
        <5> QED BY <5>1, <3>1, <1>7
      <4>2. order[f + 1] \notin Left((f + 1) + 1) BY <4>1 DEF Left
      <4>3. order[f + 1] # Null BY <3>1, <1>1, <1>6
      <4> QED BY <4>2, <4>3, <3>1, <2>2 DEF NodeAt, Beyond
    <3>2. CASE f + 1 \notin DOMAIN order
      <4>1. Left((f + 1) + 1) = {} BY <3>2, <1>1 DEF Left
      <4> QED BY <4>1, <3>2 DEF Beyond
    <3> QED BY <3>1, <3>2
  <2>5. ASSUME NEW i \in f .. Len(order) - 1
        PROVE  /\ order'[i] = order[i + 1] /\ i + 1 \in DOMAIN order
               /\ order[i + 1] \in Left(f) /\ order[i + 1] \in nodes
    <3>1. i \in 1 .. Len(order) - 1 /\ ~(i < k) /\ i + 1 \in f .. Len(order)
      BY <1>1, <1>4, <1>12
    <3>2. i + 1 \in DOMAIN order BY <3>1, <1>1
    <3> QED BY <3>1, <3>2, <1>1, <1>3, <1>6
  <2>6. NextsFrom(f)'
    <3>1. ASSUME NEW i \in f .. Len(order) - 1 PROVE next'[order'[i]] = NodeAt(i + 1)'
      <4>1. next'[order'[i]] = next[order[i + 1]] BY <2>2, <2>5, <1>1, <1>5
      <4>2. next[order[i + 1]] = NodeAt((i + 1) + 1)
        <5>1. i + 1 \in f .. Len(order) BY <1>1
        <5> QED BY <5>1 DEF Chain, NextsFrom
      <4>3. NodeAt(i + 1)' = NodeAt((i + 1) + 1)
        <5>1. i + 1 \in DOMAIN order' <=> (i + 1) + 1 \in DOMAIN order BY <1>1, <1>4
        <5>2. i + 1 \in DOMAIN order' => order'[i + 1] = order[(i + 1) + 1]
          BY <1>1, <1>3, <1>4, <1>12
        <5> QED BY <5>1, <5>2 DEF NodeAt
      <4> QED BY <4>1, <4>2, <4>3
    <3> QED BY <3>1, <1>3 DEF NextsFrom
  <2>7. PrevsFrom(f)'
    <3>1. ASSUME NEW i \in f + 1 .. Len(order) - 1 PROVE prev'[order'[i]] = order'[i - 1]
      <4>1. /\ i \in f .. Len(order) - 1 /\ i - 1 \in f .. Len(order) - 1
            /\ (i - 1) + 1 = i /\ (i + 1) - 1 = i BY <1>1
      <4>2. order'[i] = order[i + 1] /\ order'[i - 1] = order[(i - 1) + 1] BY <4>1, <2>5
      <4>3. order[i + 1] # next[p]
        <5>1. f + 1 \in DOMAIN order /\ i + 1 \in DOMAIN order /\ i + 1 # f + 1 BY <1>1
        <5> QED BY <5>1, <2>2, <1>7 DEF NodeAt
      <4>4. prev'[order'[i]] = prev[order[i + 1]] BY <4>1, <4>2, <4>3, <2>5, <1>1, <1>5
      <4>5. prev[order[i + 1]] = order[(i + 1) - 1]
        <5>1. i + 1 \in f + 1 .. Len(order) BY <1>1
        <5> QED BY <5>1 DEF Chain, PrevsFrom
      <4> QED BY <4>1, <4>2, <4>4, <4>5
    <3>2. ASSUME f \in DOMAIN order' PROVE prev'[order'[f]] \notin Left(f)
      <4>1. f \in f .. Len(order) - 1 /\ f + 1 \in DOMAIN order BY <3>2, <1>1, <1>4
      <4>2. order'[f] = next[p] /\ order'[f] \in Nodes BY <4>1, <2>2, <2>5, <1>1 DEF NodeAt
      <4> QED BY <4>2, <2>2, <1>5
    <3> QED BY <3>1, <3>2, <2>1, <1>3 DEF PrevsFrom
  <2>8. next[p] \in Left(f) \cup {Null}
    <3>1. f + 1 \in DOMAIN order => f + 1 \in f .. Len(order) BY <1>1
    <3> QED BY <3>1, <2>2, <1>1 DEF NodeAt
  <2>9. Outer(f)'
    <3>1. ASSUME NEW m \in nodes \ {p}, m \notin Left(f)
          PROVE  next'[m] \notin Beyond(f + 1) /\ prev'[m] \notin Left(f)
      <4>1. next'[m] \in {next[p], next[m]} /\ prev'[m] = prev[m]
        BY <3>1, <2>8, <1>1, <1>5
      <4>2. next[m] \notin Beyond(f) /\ prev[m] \notin Left(f) BY <3>1 DEF Chain, Outer
      <4> QED BY <4>1, <4>2, <2>3, <2>4
    <3> QED BY <3>1, <2>1, <1>5 DEF Outer
  <2>10. Pointers(f)'
    BY <2>1, <2>3, <2>4, <1>5 DEF Pointers, Chain, loop
  <2>11. WalkPlace(f)' /\ Waiting(f)' BY <1>9, <2>1, <2>3
  <2> QED BY <2>1, <2>6, <2>7, <2>9, <2>10, <2>11 DEF Chain
<1> QED BY <1>1, <1>4, <1>10, <1>11, <1>12

\* What is not disturbed by a step that leaves the list and the loop alone.
LEMMA ChainSame ==
  ASSUME NEW f \in Places, Chain(f),
         UNCHANGED <<head, nodes, next, prev, window, windowId, order, loop, gone>>
  PROVE  f \in Places' /\ Chain(f)'
<1>1. Left(f)' = Left(f) /\ Beyond(f)' = Beyond(f) /\ \A i : NodeAt(i)' = NodeAt(i)
  BY DEF Left, Beyond, NodeAt
<1>2. NextsFrom(f)' /\ PrevsFrom(f)' BY <1>1 DEF Chain, NextsFrom, PrevsFrom
<1>3. Outer(f)' /\ Pointers(f)' BY <1>1 DEF Chain, Outer, Pointers, loop
<1>4. WalkPlace(f)' BY <1>1 DEF Chain, WalkPlace, loop, IdOf
<1>5. Waiting(f)' BY <1>1 DEF Chain, Waiting, loop
<1> QED BY <1>2, <1>3, <1>4, <1>5 DEF Chain, Places

\* The first node to be reached is passed by; or the loop is somewhere else.
LEMMA ChainAdvance ==
  ASSUME ShTypes, Placed, NEW f \in Places, Chain(f), phase = "asking", at = "idle",
         mine \in nodes, head' = next[mine], phase' = "unlinked",
         UNCHANGED <<nodes, next, prev, window, order, mine, listed, asked, gone>>
  PROVE  \E g \in Places' : Chain(g)'
<1>1. /\ Len(order) \in Nat /\ DOMAIN order = 1 .. Len(order) /\ f \in 1 .. Len(order) + 1
      /\ Left(f) \subseteq nodes /\ nodes \subseteq Nodes /\ Null \notin nodes
      /\ Left(f + 1) \subseteq Left(f)
      /\ \A i \in f .. Len(order) : order[i] \in Left(f)
      /\ \A x \in Left(f) \ Beyond(f) : f \in DOMAIN order /\ x = order[f]
  BY LeftNodes
<1>2. /\ \A g : Left(g)' = Left(g) /\ Beyond(g)' = Beyond(g)
      /\ \A i : NodeAt(i)' = NodeAt(i)
  BY DEF Left, Beyond, NodeAt
<1>3. mine \notin Beyond(f)
  BY DEF Chain, Pointers
<1>4. CASE mine \notin Left(f)
  <2>1. NextsFrom(f)' /\ PrevsFrom(f)' BY <1>2 DEF Chain, NextsFrom, PrevsFrom
  <2>2. Outer(f)' BY <1>2 DEF Chain, Outer
  <2>3. Pointers(f)' BY <1>2, <1>4 DEF Chain, Outer, Pointers
  <2>4. WalkPlace(f)' BY DEF WalkPlace
  <2>5. Waiting(f)' BY <1>2 DEF Chain, Waiting
  <2> QED BY <2>1, <2>2, <2>3, <2>4, <2>5 DEF Chain, Places
<1>5. CASE mine \in Left(f)
  <2>1. f \in DOMAIN order /\ mine = order[f] BY <1>1, <1>3, <1>5
  <2>2. f + 1 \in Places /\ Beyond(f + 1) \subseteq Beyond(f)
    <3>1. f + 1 \in Places BY <2>1, <1>1 DEF Places
    <3>2. Left((f + 1) + 1) \subseteq Left(f + 1) BY <1>1 DEF Left
    <3> QED BY <3>1, <3>2, <2>1 DEF Beyond
  <2>3. \A i, j \in DOMAIN order : order[i] = order[j] => i = j BY DEF Placed
  <2>4. next[mine] = NodeAt(f + 1) /\ prev[mine] \notin Left(f)
    <3>1. f \in f .. Len(order) BY <2>1, <1>1
    <3> QED BY <3>1, <2>1 DEF Chain, NextsFrom, PrevsFrom
  <2>5. next[mine] \notin Beyond(f + 1)
    <3>1. CASE f + 1 \in DOMAIN order
      <4>1. ASSUME NEW j \in (f + 1) + 1 .. Len(order) PROVE order[j] # order[f + 1]
        <5>1. j \in DOMAIN order /\ j # f + 1 BY <1>1
        <5> QED BY <5>1, <3>1, <2>3
      <4>2. order[f + 1] \notin Left((f + 1) + 1) BY <4>1 DEF Left
      <4>3. order[f + 1] # Null
        <5>1. order[f + 1] \in nodes BY <3>1 DEF Placed
        <5> QED BY <5>1, <1>1
      <4> QED BY <4>2, <4>3, <3>1, <2>4 DEF NodeAt, Beyond
    <3>2. CASE f + 1 \notin DOMAIN order
      <4>1. Left((f + 1) + 1) = {} BY <3>2, <1>1 DEF Left
      <4> QED BY <4>1, <3>2 DEF Beyond
    <3> QED BY <3>1, <3>2
  <2>6. NextsFrom(f + 1)'
    <3>1. \A i \in f + 1 .. Len(order) : i \in f .. Len(order) BY <1>1
    <3> QED BY <3>1, <1>2 DEF Chain, NextsFrom
  <2>7. PrevsFrom(f + 1)'
    <3>1. \A i \in (f + 1) + 1 .. Len(order) : i \in f + 1 .. Len(order) BY <1>1
    <3>2. ASSUME f + 1 \in DOMAIN order PROVE prev[order[f + 1]] \notin Left(f + 1)
      <4>1. f + 1 \in f + 1 .. Len(order) /\ (f + 1) - 1 = f BY <3>2, <1>1
      <4>2. prev[order[f + 1]] = order[f]
        <5>1. prev[order[f + 1]] = order[(f + 1) - 1] BY <4>1 DEF Chain, PrevsFrom
        <5> QED BY <4>1, <5>1
      <4>3. ASSUME NEW j \in f + 1 .. Len(order) PROVE order[j] # order[f]
        <5>1. j \in DOMAIN order /\ j # f BY <1>1
        <5> QED BY <5>1, <2>1, <2>3
      <4> QED BY <4>2, <4>3 DEF Left
    <3> QED BY <3>1, <3>2, <1>2 DEF Chain, PrevsFrom
  <2>8. Outer(f + 1)'
    <3>1. ASSUME NEW n \in nodes, n \notin Left(f + 1)
          PROVE  next[n] \notin Beyond(f + 1) /\ prev[n] \notin Left(f + 1)
      <4>1. CASE n \in Left(f)
        <5>1. n = mine
          <6>1. n = Null \/ n \notin Beyond(f) BY <3>1 DEF Beyond
          <6> QED BY <6>1, <4>1, <1>1, <2>1
        <5> QED BY <5>1, <2>4, <2>5, <1>1
      <4>2. CASE n \notin Left(f) BY <4>2, <2>2, <1>1 DEF Chain, Outer
      <4> QED BY <4>1, <4>2
    <3> QED BY <3>1, <1>2 DEF Outer
  <2>9. Pointers(f + 1)'
    <3>1. mine \notin Left(f + 1) BY <1>3 DEF Beyond
    <3> QED BY <3>1, <2>5, <1>2 DEF Pointers
  <2>10. WalkPlace(f + 1)' BY DEF WalkPlace
  <2>11. Waiting(f + 1)'
    <3>1. window[mine] \in asked BY <1>5 DEF Chain, WalkPlace
    <3>2. ASSUME NEW o \in listed \ (asked \cup gone)
          PROVE  \E n \in Left(f + 1) : window[n] = o
      <4>1. PICK n \in Left(f) : window[n] = o BY DEF Chain, Waiting
      <4>2. n # mine BY <4>1, <3>1
      <4>3. n \in Beyond(f) BY <4>1, <4>2, <1>1, <2>1
      <4>4. n # Null BY <4>1, <1>1
      <4> QED BY <4>1, <4>3, <4>4 DEF Beyond
    <3> QED BY <3>2, <1>2 DEF Waiting
  <2>12. f + 1 \in Places' BY <2>2 DEF Places
  <2> QED BY <2>6, <2>7, <2>8, <2>9, <2>10, <2>11, <2>12 DEF Chain
<1> QED BY <1>4, <1>5

\* The node freed has been passed by.
LEMMA ChainFree ==
  ASSUME ShTypes, Placed, NEW f \in Places, Chain(f), phase = "unlinked", phase' = "freed",
         nodes' = nodes \ {mine}, NEW k \in DOMAIN order, order[k] = mine,
         order' = Without(order, k),
         UNCHANGED <<head, next, prev, window, listed, asked, gone>>
  PROVE  \E g \in Places' : Chain(g)'
<1>1. /\ Len(order) \in Nat /\ DOMAIN order = 1 .. Len(order) /\ f \in 1 .. Len(order) + 1
      /\ \A i \in f .. Len(order) : order[i] \in Left(f)
  BY LeftNodes
<1>2. mine \notin Left(f)
  BY DEF Chain, Pointers
<1>3. k < f
  <2>1. k \notin f .. Len(order) BY <1>1, <1>2
  <2> QED BY <2>1, <1>1
<1>4. /\ order' \in Seq(Nodes) /\ Len(order') = Len(order) - 1
      /\ \A j \in 1 .. Len(order) - 1 :
           order'[j] = IF j < k THEN order[j] ELSE order[j + 1]
  BY Dropped DEF ShTypes, Shape
<1>5. f - 1 \in Places' /\ Left(f - 1)' = Left(f) /\ Beyond(f - 1)' = Beyond(f)
  BY <1>3, <1>4, DroppedLeft DEF ShTypes, Shape
<1>6. DOMAIN order' = 1 .. Len(order) - 1 /\ k \in 1 .. Len(order)
  BY <1>1, <1>4
<1>7. ASSUME NEW i \in f - 1 .. Len(order) - 1
      PROVE  order'[i] = order[i + 1] /\ i + 1 \in f .. Len(order)
  <2>1. i \in 1 .. Len(order) - 1 /\ ~(i < k) /\ i + 1 \in f .. Len(order)
    BY <1>1, <1>3, <1>6
  <2> QED BY <2>1, <1>4
<1>8. NextsFrom(f - 1)'
  <2>1. ASSUME NEW i \in f - 1 .. Len(order) - 1 PROVE next[order'[i]] = NodeAt(i + 1)'
    <3>1. next[order'[i]] = NodeAt((i + 1) + 1) BY <1>7 DEF Chain, NextsFrom
    <3>2. NodeAt(i + 1)' = NodeAt((i + 1) + 1)
      <4>0. Len(order) \in Nat /\ i + 1 \in f .. Len(order) /\ f \in 1 .. Len(order) + 1
            /\ f - 1 \in Nat /\ i \in Int
        BY <1>1, <1>3, <1>6, <1>7, <2>1
      <4>1. CASE i + 1 = Len(order) BY <4>0, <4>1, <1>1, <1>6 DEF NodeAt
      <4>2. CASE i + 1 # Len(order)
        <5>1. i + 1 \in f - 1 .. Len(order) - 1 BY <4>0, <4>2
        <5>2. order'[i + 1] = order[(i + 1) + 1] BY <5>1, <1>7
        <5>3. i + 1 \in 1 .. Len(order) - 1 /\ (i + 1) + 1 \in 1 .. Len(order)
          BY <4>0, <4>2
        <5> QED BY <5>2, <5>3, <1>1, <1>6 DEF NodeAt
      <4> QED BY <4>1, <4>2
    <3> QED BY <3>1, <3>2
  <2> QED BY <2>1, <1>4 DEF NextsFrom
<1>9. PrevsFrom(f - 1)'
  <2>1. ASSUME NEW i \in f .. Len(order) - 1 PROVE prev[order'[i]] = order'[i - 1]
    <3>1. i \in f - 1 .. Len(order) - 1 /\ i - 1 \in f - 1 .. Len(order) - 1 BY <1>1
    <3>2. order'[i] = order[i + 1] /\ order'[i - 1] = order[(i - 1) + 1] BY <3>1, <1>7
    <3>3. i + 1 \in f + 1 .. Len(order) /\ (i - 1) + 1 = i /\ (i + 1) - 1 = i BY <1>1
    <3>4. prev[order[i + 1]] = order[(i + 1) - 1] BY <3>3 DEF Chain, PrevsFrom
    <3> QED BY <3>2, <3>3, <3>4
  <2>2. ASSUME f - 1 \in DOMAIN order' PROVE prev[order'[f - 1]] \notin Left(f)
    <3>1. f - 1 \in f - 1 .. Len(order) - 1 /\ (f - 1) + 1 = f /\ f \in DOMAIN order
      BY <2>2, <1>1, <1>6
    <3>2. order'[f - 1] = order[f]
      <4>1. order'[f - 1] = order[(f - 1) + 1] BY <3>1, <1>7
      <4> QED BY <3>1, <4>1
    <3> QED BY <3>1, <3>2 DEF Chain, PrevsFrom
  <2>3. \A i \in (f - 1) + 1 .. Len(order) - 1 : i \in f .. Len(order) - 1 BY <1>1
  <2> QED BY <2>1, <2>2, <2>3, <1>4, <1>5 DEF PrevsFrom
<1>10. Outer(f - 1)' BY <1>5 DEF Outer, Chain
<1>11. Pointers(f - 1)' BY <1>5 DEF Pointers, Chain
<1>12. WalkPlace(f - 1)' BY DEF WalkPlace
<1>13. Waiting(f - 1)' BY <1>5 DEF Waiting, Chain
<1> QED BY <1>5, <1>8, <1>9, <1>10, <1>11, <1>12, <1>13 DEF Chain

\* The walk of xcwm_window_request_close.
LEMMA ChainWalk ==
  ASSUME ShTypes, Placed, NEW f \in Places, Chain(f), RequestStep, at' # "freed"
  PROVE  f \in Places' /\ Chain(f)'
<1>1. /\ Left(f) \subseteq nodes /\ Null \notin nodes
      /\ \A x \in Left(f) \ Beyond(f) : f \in DOMAIN order /\ x = order[f]
  BY LeftNodes
<1>2. UNCHANGED <<head, nodes, next, prev, window, windowId, order, phase, mine, listed, gone,
                  target, sought>>
  BY DEF RequestStep, Walk, WalkEnds, SendClose, memory, event
<1>3. /\ Left(f)' = Left(f) /\ Beyond(f)' = Beyond(f) /\ Places' = Places
      /\ \A i : NodeAt(i)' = NodeAt(i)
  BY <1>2 DEF Left, Beyond, NodeAt, Places
<1>4. asked \subseteq asked'
  BY DEF RequestStep
<1>5. NextsFrom(f)' /\ PrevsFrom(f)' BY <1>2, <1>3 DEF Chain, NextsFrom, PrevsFrom
<1>6. Outer(f)' /\ Pointers(f)' BY <1>2, <1>3 DEF Chain, Outer, Pointers
<1>7. Waiting(f)' BY <1>2, <1>3, <1>4 DEF Chain, Waiting
<1>8. ASSUME mine \in Left(f)
      PROVE  /\ at' = "walking" => curr' \notin Beyond(f)
             /\ at' = "idle" => target \in asked'
  <2>1. /\ phase = "asking" /\ sought = IdOf(mine)
        /\ at = "walking" => curr \notin Beyond(f)
        /\ at = "idle" => target \in asked
    BY <1>8 DEF RequestStep, Chain, WalkPlace
  <2>2. mine \notin Beyond(f) BY <2>1 DEF Chain, Pointers
  <2>3. f \in DOMAIN order /\ mine = order[f] BY <1>1, <1>8, <2>2
  <2>4. CASE Walk
    <3>1. at = "walking" /\ curr \notin Beyond(f) BY <2>1, <2>4 DEF Walk
    <3>2. CASE at' = "found" BY <3>2
    <3>3. CASE at' # "found"
      <4>1. curr \in nodes /\ IdOf(curr) # sought /\ curr' = next[curr] /\ at' = "walking"
        BY <2>4, <3>3, <3>1 DEF Walk
      <4>2. curr \notin Left(f) BY <4>1, <3>1, <2>1, <2>3, <1>1
      <4>3. next[curr] \notin Beyond(f) BY <4>1, <4>2 DEF Chain, Outer
      <4> QED BY <4>1, <4>3
    <3> QED BY <3>2, <3>3
  <2>5. CASE WalkEnds
    <3>1. Null \in Beyond(f) BY <2>3 DEF Beyond
    <3> QED BY <3>1, <2>1, <2>5 DEF WalkEnds
  <2>6. CASE SendClose /\ asked' = asked \cup {target}
    BY <2>6 DEF SendClose
  <2> QED BY <2>4, <2>5, <2>6 DEF RequestStep
<1>9. WalkPlace(f)'
  BY <1>2, <1>3, <1>8 DEF WalkPlace, Chain, RequestStep, IdOf
<1> QED BY <1>3, <1>5, <1>6, <1>7, <1>9 DEF Chain

\* When the loop begins it has the whole list before it.
LEMMA ChainBegin ==
  ASSUME ShTypes, Links, BeginClose
  PROVE  1 \in Places' /\ Chain(1)'
<1>1. /\ Len(order) \in Nat /\ DOMAIN order = 1 .. Len(order)
      /\ nodes \subseteq Nodes /\ Null \notin nodes
  BY NullAssumption DEF ShTypes, Shape
<1>2. UNCHANGED <<head, nodes, next, prev, window, order>>
  BY DEF BeginClose, vars, memory
<1>3. /\ \A g : Left(g)' = Left(g) /\ Beyond(g)' = Beyond(g)
      /\ \A i : NodeAt(i)' = NodeAt(i)
  BY <1>2 DEF Left, Beyond, NodeAt
<1>4. Left(1) = nodes BY <1>1 DEF Left, Links
<1>5. \A i, j \in DOMAIN order : order[i] = order[j] => i = j BY DEF Links
<1>6. head \notin Beyond(1)
  <2>1. CASE 1 \in DOMAIN order
    <3>1. head = order[1] /\ head # Null
      <4>1. order[1] \in nodes BY <2>1 DEF Links
      <4> QED BY <4>1, <2>1, <1>1 DEF Links, NodeAt
    <3>2. ASSUME NEW j \in 1 + 1 .. Len(order) PROVE order[j] # order[1]
      <4>1. j \in DOMAIN order /\ j # 1 BY <1>1
      <4> QED BY <4>1, <2>1, <1>5
    <3>3. order[1] \notin Left(1 + 1) BY <3>2 DEF Left
    <3> QED BY <3>1, <3>3 DEF Beyond
  <2>2. CASE 1 \notin DOMAIN order
    <3>1. Left(1 + 1) = {} BY <2>2, <1>1 DEF Left
    <3> QED BY <3>1, <2>2 DEF Beyond
  <2> QED BY <2>1, <2>2
<1>7. NextsFrom(1)' BY <1>1, <1>2, <1>3 DEF NextsFrom, Links
<1>8. PrevsFrom(1)'
  <2>1. ASSUME NEW i \in 1 + 1 .. Len(order) PROVE prev[order[i]] = order[i - 1]
    <3>1. i \in DOMAIN order /\ i - 1 \in DOMAIN order BY <1>1
    <3>2. prev[order[i]] = NodeAt(i - 1) BY <3>1 DEF Links
    <3> QED BY <3>1, <3>2 DEF NodeAt
  <2>2. ASSUME 1 \in DOMAIN order PROVE prev[order[1]] \notin Left(1)
    <3>1. prev[order[1]] = NodeAt(1 - 1) BY <2>2 DEF Links
    <3>2. 1 - 1 \notin DOMAIN order BY <1>1
    <3> QED BY <3>1, <3>2, <1>1, <1>4 DEF NodeAt
  <2> QED BY <2>1, <2>2, <1>2, <1>3 DEF PrevsFrom
<1>9. Outer(1)' BY <1>2, <1>3, <1>4 DEF Outer
<1>10. Pointers(1)' BY <1>2, <1>3, <1>6 DEF Pointers, BeginClose
<1>11. WalkPlace(1)' BY DEF WalkPlace, BeginClose
<1>12. Waiting(1)' BY <1>2, <1>3, <1>4 DEF Waiting, BeginClose
<1>13. 1 \in Places' BY <1>1, <1>2 DEF Places
<1> QED BY <1>7, <1>8, <1>9, <1>10, <1>11, <1>12, <1>13 DEF Chain

\* Every step of either thread, unless it uses freed memory, leaves a chain.
LEMMA ChainStep ==
  ASSUME ShInv, [ShNext]_shVars, InLoop', ~Broken'
  PROVE  \E g \in Places' : Chain(g)'
<1>1. CASE BeginClose
  <2>1. Links BY <1>1 DEF ShInv, Quiet, BeginClose, InLoop, ThreadPlace
  <2> QED BY <2>1, <1>1, ChainBegin DEF ShInv
<1>2. CASE ~BeginClose
  <2>1. InLoop /\ ~Broken
    BY <1>2 DEF ShNext, MainStep, EventStep, Ask, RequestStep, Advance, FreeNode, NextNode,
       StopLoop, Disconnect, Look, LookStep, Create, RemoveNode, ReleaseWindow, Die, InLoop,
       Broken, shVars, vars, walk, main, event, Walk, WalkEnds, SendClose, Break
  <2>2. PICK f \in Places : Chain(f) BY <2>1 DEF ShInv
  <2>3. ShTypes /\ Placed /\ Windowed BY DEF ShInv
  <2>4. CASE Ask
    <3>1. /\ UNCHANGED <<head, nodes, next, prev, window, windowId, order, listed, asked, gone, mine>>
          /\ phase = "loop" /\ phase' = "asking" /\ at' = "walking" /\ curr' = head
          /\ target' = window[mine] /\ sought' = IdOf(mine)
      BY <2>4 DEF Ask, Broken, memory, event, Break, IdOf
    <3>2. /\ Left(f)' = Left(f) /\ Beyond(f)' = Beyond(f) /\ Places' = Places
          /\ \A i : NodeAt(i)' = NodeAt(i)
      BY <3>1 DEF Left, Beyond, NodeAt, Places
    <3>3. NextsFrom(f)' /\ PrevsFrom(f)' BY <2>2, <3>1, <3>2 DEF Chain, NextsFrom, PrevsFrom
    <3>4. Outer(f)' /\ Pointers(f)' BY <2>2, <3>1, <3>2 DEF Chain, Outer, Pointers
    <3>5. Waiting(f)' BY <2>2, <3>1, <3>2 DEF Chain, Waiting
    <3>6. WalkPlace(f)' BY <2>2, <3>1, <3>2 DEF Chain, Pointers, WalkPlace, IdOf
    <3> QED BY <2>2, <3>2, <3>3, <3>4, <3>5, <3>6 DEF Chain
  <2>5. CASE RequestStep
    BY <2>2, <2>3, <2>5, ChainWalk DEF Broken
  <2>6. CASE Advance
    <3>1. /\ mine \in nodes /\ head' = next[mine] /\ phase = "asking" /\ at = "idle"
          /\ phase' = "unlinked"
          /\ UNCHANGED <<nodes, next, prev, window, order, mine, listed, asked, gone>>
      BY <2>6 DEF Advance, Broken, Break, event
    <3> QED BY <3>1, <2>2, <2>3, ChainAdvance
  <2>7. CASE FreeNode
    <3>1. /\ mine \in nodes /\ nodes' = nodes \ {mine} /\ phase = "unlinked" /\ phase' = "freed"
          /\ UNCHANGED <<head, next, prev, window, listed, asked, gone>>
          /\ \E k \in DOMAIN order : order[k] = mine /\ order' = Without(order, k)
      <4>1. /\ mine \in nodes /\ nodes' = nodes \ {mine}
            /\ UNCHANGED <<head, next, prev, window>>
            /\ \E k \in DOMAIN order : order[k] = mine /\ order' = Without(order, k)
        <5>1. ~Break BY DEF Break, Broken
        <5>2. \/ mine \notin nodes /\ Break
              \/ /\ nodes' = nodes \ {mine}
                 /\ \E k \in DOMAIN order : order[k] = mine /\ order' = Without(order, k)
                 /\ UNCHANGED <<head, next, prev, window>>
          BY <2>7 DEF FreeNode
        <5>3. ASSUME NEW k \in DOMAIN order, order[k] = mine PROVE mine \in nodes
          BY <5>3, <2>3 DEF Placed
        <5> QED BY <5>1, <5>2, <5>3
      <4>2. phase = "unlinked" /\ phase' = "freed" /\ UNCHANGED <<listed, asked, gone>>
        BY <2>7 DEF FreeNode, event
      <4> QED BY <4>1, <4>2
    <3>2. PICK k \in DOMAIN order : order[k] = mine /\ order' = Without(order, k) BY <3>1
    <3> QED BY <3>1, <3>2, <2>2, <2>3, ChainFree
  <2>8. CASE NextNode
    <3>1. /\ UNCHANGED <<head, nodes, next, prev, window, windowId, order, listed, asked, gone>>
          /\ phase' = "loop" /\ mine' = head
      BY <2>8 DEF NextNode, vars, memory, event
    <3>2. /\ Left(f)' = Left(f) /\ Beyond(f)' = Beyond(f) /\ Places' = Places
          /\ \A i : NodeAt(i)' = NodeAt(i)
      BY <3>1 DEF Left, Beyond, NodeAt, Places
    <3>3. NextsFrom(f)' /\ PrevsFrom(f)' BY <2>2, <3>1, <3>2 DEF Chain, NextsFrom, PrevsFrom
    <3>4. Outer(f)' /\ Pointers(f)' BY <2>2, <3>1, <3>2 DEF Chain, Outer, Pointers
    <3>5. Waiting(f)' BY <2>2, <3>1, <3>2 DEF Chain, Waiting
    <3>6. WalkPlace(f)' BY <3>1 DEF WalkPlace
    <3> QED BY <2>2, <3>2, <3>3, <3>4, <3>5, <3>6 DEF Chain
  <2>9. CASE StopLoop \/ Disconnect
    BY <2>9 DEF StopLoop, Disconnect, InLoop
  <2>10. ASSUME NEW n \in Nodes, NEW o \in Objs, Create(n, o) PROVE \E g \in Places' : Chain(g)'
    <3>1. /\ n \notin nodes /\ o \notin objs /\ Link(n, o) /\ UNCHANGED <<loop, gone>>
          /\ windowId' = [windowId EXCEPT ![o] = evSought]
      BY <2>10 DEF Create, Broken, Break, main, loop, walk
    <3> QED BY <3>1, <2>2, <2>3, ChainAdd
  <2>11. CASE RemoveNode
    <3>1. evCurr \in Nodes BY <2>3, <2>11 DEF RemoveNode, ShTypes
    <3>2. /\ evCurr \in nodes /\ Unlink(evCurr) /\ gone' = gone \cup {window[evCurr]}
          /\ UNCHANGED <<loop, windowId>>
      BY <3>1, <2>11, NullAssumption DEF RemoveNode, Broken, Break, main, loop, walk
    <3> QED BY <3>2, <2>2, <2>3, ChainRemove
  <2>12. CASE UNCHANGED <<head, nodes, next, prev, window, windowId, order, loop, gone>>
    BY <2>2, <2>12, ChainSame
  <2>13. ASSUME NEW id \in Ids, NEW purpose \in {"add", "remove"}, Look(id, purpose)
         PROVE  UNCHANGED <<head, nodes, next, prev, window, windowId, order, loop, gone>>
    BY <2>13 DEF Look, vars, memory, walk, main, loop
  <2>14. CASE LookStep \/ ReleaseWindow \/ Die \/ UNCHANGED shVars
    <3>1. UNCHANGED <<head, nodes, next, prev, window, windowId, order, loop, gone>>
      BY <2>14 DEF LookStep, ReleaseWindow, Die, Broken, Break, Release, shVars, vars, memory,
         walk, main, event, loop
    <3> QED BY <3>1, <2>2, ChainSame
  <2> QED BY <1>2, <2>4, <2>5, <2>6, <2>7, <2>8, <2>9, <2>10, <2>11, <2>12, <2>13, <2>14
      DEF ShNext, MainStep, EventStep
<1> QED BY <1>1, <1>2

----------------------------------------------------------------------------
(* Types and windows *)

\* A lemma of its own for the steps that leave the memory of the list alone.
LEMMA ListSame ==
  ASSUME ShTypes, Placed, Windowed, UNCHANGED <<nodes, order, window, objs, dying>>
  PROVE  Placed' /\ Windowed'
BY DEF Placed, Windowed

\* The nodes of order are the nodes allocated, each has a window.
LEMMA ListStep ==
  ASSUME ShTypes, Placed, Windowed, [ShNext]_shVars
  PROVE  Placed' /\ Windowed'
<1>0. order \in Seq(Nodes) /\ nodes \subseteq Nodes /\ window \in [Nodes -> Objs \cup {Null}]
  BY DEF ShTypes, Shape
<1>1. CASE FreeNode
  <2>1. CASE Break BY <2>1, <1>1, ListSame DEF FreeNode, Break, memory
  <2>2. CASE ~Break
    <3>1. /\ nodes' = nodes \ {mine}
          /\ \E k \in DOMAIN order : order[k] = mine /\ order' = Without(order, k)
          /\ UNCHANGED <<window, objs, dying>>
      BY <1>1, <2>2 DEF FreeNode
    <3>2. PICK k \in DOMAIN order : order[k] = mine /\ order' = Without(order, k) BY <3>1
    <3>3. Placed' BY <1>0, <3>1, <3>2, Dropped
    <3>4. Windowed' BY <3>1 DEF Windowed
    <3> QED BY <3>3, <3>4
  <2> QED BY <2>1, <2>2
<1>2. ASSUME NEW n \in Nodes, NEW o \in Objs, Create(n, o) PROVE Placed' /\ Windowed'
  <2>1. CASE Break BY <2>1, ListSame DEF Break, memory
  <2>2. CASE ~Break
    <3>1. /\ n \notin nodes /\ o \notin objs /\ Link(n, o)
          /\ objs' = objs \cup {o} /\ dying' = dying
      BY <1>2, <2>2 DEF Create
    <3>2. Placed' BY <1>0, <3>1, Pushed DEF Link
    <3>3. /\ nodes' = nodes \cup {n} /\ window'[n] = o
          /\ \A m \in nodes : window'[m] = window[m]
      BY <1>0, <3>1 DEF Link
    <3>4. dying # o BY <3>1, NullAssumption DEF ShTypes
    <3>5. \A m \in nodes' : window'[m] \in objs' /\ window'[m] # dying'
      BY <3>1, <3>3, <3>4 DEF Windowed
    <3>6. \A l, m \in nodes' : window'[l] = window'[m] => l = m
      BY <3>1, <3>3 DEF Windowed
    <3> QED BY <3>2, <3>5, <3>6 DEF Windowed
  <2> QED BY <2>1, <2>2
<1>3. CASE RemoveNode
  <2>1. CASE Break BY <2>1, ListSame DEF Break, memory
  <2>2. CASE ~Break
    <3>1. /\ evCurr \in nodes /\ Unlink(evCurr) /\ dying' = window[evCurr] /\ objs' = objs
      BY <1>3, <2>2, NullAssumption DEF RemoveNode, ShTypes
    <3>2. PICK k \in DOMAIN order : order[k] = evCurr /\ order' = Without(order, k)
      BY <3>1 DEF Unlink
    <3>3. nodes' = nodes \ {evCurr} /\ window' = window BY <3>1 DEF Unlink
    <3>4. Placed' BY <1>0, <3>2, <3>3, Dropped
    <3>5. Windowed' BY <3>1, <3>3 DEF Windowed
    <3> QED BY <3>4, <3>5
  <2> QED BY <2>1, <2>2
<1>4. CASE ReleaseWindow
  <2>1. /\ UNCHANGED <<nodes, order, window>> /\ objs' = objs \ {dying} /\ dying' = Null
    BY <1>4 DEF ReleaseWindow, Release
  <2>2. Placed' BY <2>1 DEF Placed
  <2>3. Windowed' BY <2>1, NullAssumption DEF Windowed, ShTypes
  <2> QED BY <2>2, <2>3
<1>5. CASE BeginClose \/ Ask \/ RequestStep \/ NextNode \/ StopLoop \/ Disconnect
  <2>1. UNCHANGED <<nodes, order, window, objs, dying>>
    BY <1>5 DEF BeginClose, Ask, RequestStep, NextNode, StopLoop, Disconnect,
       Break, Walk, WalkEnds, SendClose, vars, memory
  <2> QED BY <2>1, ListSame
<1>6. CASE Advance
  <2>1. UNCHANGED <<nodes, order, window, objs, dying>> BY <1>6 DEF Advance, Break, memory
  <2> QED BY <2>1, ListSame
<1>7. ASSUME NEW id \in Ids, NEW purpose \in {"add", "remove"}, Look(id, purpose)
      PROVE  Placed' /\ Windowed'
  <2>1. UNCHANGED <<nodes, order, window, objs, dying>> BY <1>7 DEF Look, vars, memory
  <2> QED BY <2>1, ListSame
<1>8. CASE LookStep \/ Die \/ UNCHANGED shVars
  <2>1. UNCHANGED <<nodes, order, window, objs, dying>>
    BY <1>8 DEF LookStep, Die, Break, shVars, vars, memory
  <2> QED BY <2>1, ListSame
<1> QED BY <1>1, <1>2, <1>3, <1>4, <1>5, <1>6, <1>7, <1>8 DEF ShNext, MainStep, EventStep

\* The types of what the two threads have.
LEMMA ShTypesStep ==
  ASSUME ShTypes, Placed, Windowed, [ShNext]_shVars
  PROVE  ShTypes'
<1>0. order \in Seq(Nodes) /\ nodes \subseteq Nodes /\ window \in [Nodes -> Objs \cup {Null}]
  BY DEF ShTypes, Shape
<1>1. ASSUME UNCHANGED memory PROVE Shape' BY <1>1 DEF Shape, ShTypes, memory
<1>2. CASE BeginClose
  <2>1. listed' \subseteq Objs BY <1>2 DEF BeginClose, Windowed, ShTypes
  <2> QED BY <2>1, <1>1, <1>2 DEF BeginClose, ShTypes, vars, walk, memory
<1>3. CASE Ask
  <2>1. target' \in Objs \cup {Null} BY <1>3 DEF Ask, Break, ShTypes
  <2>2. UNCHANGED memory /\ at' \in {"walking", "freed"} BY <1>3 DEF Ask, Break
  <2>3. at' = "walking" => target' \in Objs BY <1>3 DEF Ask, Break, ShTypes
  <2> QED BY <2>1, <2>2, <2>3, <1>1, <1>3 DEF Ask, ShTypes, memory, event
<1>4. CASE RequestStep
  <2>1. UNCHANGED memory /\ target' = target /\ at' \in {"idle", "walking", "found", "freed"}
    BY <1>4 DEF RequestStep, Walk, WalkEnds, SendClose
  <2>3. at' \in {"walking", "found"} => target' \in Objs
    BY <1>4 DEF RequestStep, Walk, WalkEnds, SendClose, ShTypes
  <2>2. asked' \subseteq Objs
    <3>1. CASE (Walk \/ WalkEnds) /\ UNCHANGED asked BY <3>1 DEF ShTypes
    <3>2. CASE SendClose /\ asked' = asked \cup {target}
      BY <3>2 DEF SendClose, ShTypes
    <3> QED BY <1>4, <3>1, <3>2 DEF RequestStep
  <2> QED BY <2>1, <2>2, <2>3, <1>1, <1>4 DEF RequestStep, ShTypes, memory, event
<1>5. CASE Advance
  <2>1. CASE Break
    <3>1. Shape' BY <2>1, <1>1 DEF Break
    <3> QED BY <2>1, <3>1, <1>5 DEF Advance, Break, ShTypes, memory, event
  <2>2. CASE ~Break
    <3>1. mine \in nodes /\ head' = next[mine]
          /\ UNCHANGED <<nodes, next, prev, window, objs, windowId, dying, order, walk>>
      BY <1>5, <2>2 DEF Advance
    <3>2. Shape' /\ head' \in Nodes \cup {Null} BY <3>1, <1>0 DEF Shape, ShTypes
    <3> QED BY <3>1, <3>2, <1>5 DEF Advance, ShTypes, walk, event
  <2> QED BY <2>1, <2>2
<1>6. CASE FreeNode
  <2>1. CASE Break
    <3>1. Shape' BY <2>1, <1>1 DEF Break
    <3> QED BY <2>1, <3>1, <1>6 DEF FreeNode, Break, ShTypes, memory, event
  <2>2. CASE ~Break
    <3>1. /\ nodes' = nodes \ {mine}
          /\ \E k \in DOMAIN order : order[k] = mine /\ order' = Without(order, k)
      BY <1>6, <2>2 DEF FreeNode
    <3>2. UNCHANGED <<head, next, prev, window, objs, windowId, dying, walk>>
      BY <1>6, <2>2 DEF FreeNode
    <3>3. PICK k \in DOMAIN order : order[k] = mine /\ order' = Without(order, k) BY <3>1
    <3>4. order' \in Seq(Nodes) BY <1>0, <3>1, <3>3, Dropped
    <3>5. Shape' BY <3>1, <3>2, <3>4 DEF Shape, ShTypes
    <3> QED BY <3>2, <3>5, <1>6 DEF FreeNode, ShTypes, walk, event
  <2> QED BY <2>1, <2>2
<1>7. CASE NextNode \/ StopLoop \/ Disconnect
  BY <1>1, <1>7 DEF NextNode, StopLoop, Disconnect, ShTypes, vars, walk, memory, event
<1>8. ASSUME NEW id \in Ids, NEW purpose \in {"add", "remove"}, Look(id, purpose)
      PROVE  ShTypes'
  <2>1. overlap' \in BOOLEAN BY <1>8 DEF Look, ShTypes, InLoop
  <2> QED BY <2>1, <1>1, <1>8 DEF Look, ShTypes, vars, walk, memory, main
<1>9. CASE LookStep
  <2>1. UNCHANGED memory /\ target' = target /\ at' \in {at, "freed"}
    BY <1>9 DEF LookStep, Break, vars, walk
  <2>2. evCurr' \in Nodes \cup {Null} /\ (thread' = "found" => evCurr' \in Nodes)
    BY <1>9, <1>0 DEF LookStep, ShTypes, Shape
  <2>3. thread' \in {"waiting", "looking", "creating", "found", "removed", "dead"}
    BY <1>9 DEF LookStep, ShTypes
  <2> QED BY <2>1, <2>2, <2>3, <1>1, <1>9 DEF LookStep, ShTypes, memory, main
<1>10. ASSUME NEW n \in Nodes, NEW o \in Objs, Create(n, o) PROVE ShTypes'
  <2>1. CASE Break
    <3>1. Shape' BY <2>1, <1>1 DEF Break
    <3> QED BY <2>1, <3>1, <1>10 DEF Create, Break, ShTypes, memory, main
  <2>2. CASE ~Break
    <3>1. /\ n \notin nodes /\ Link(n, o) /\ dying' = dying /\ objs' = objs \cup {o}
          /\ windowId' = [windowId EXCEPT ![o] = evSought] /\ UNCHANGED walk
      BY <1>10, <2>2 DEF Create
    <3>2. order' \in Seq(Nodes) BY <1>0, <3>1, Pushed DEF Link
    <3>3. next' \in [Nodes -> Nodes \cup {Null}] /\ prev' \in [Nodes -> Nodes \cup {Null}]
      BY <3>1 DEF Link, ShTypes, Shape
    <3>4. Shape' BY <3>1, <3>2, <3>3 DEF Link, ShTypes, Shape
    <3>5. windowId' \in [Objs -> Ids \cup {Root, Null}] BY <3>1 DEF ShTypes
    <3>6. head' \in Nodes /\ objs' \subseteq Objs /\ dying' \in objs' \cup {Null}
      BY <3>1 DEF Link, ShTypes
    <3> QED BY <3>1, <3>4, <3>5, <3>6, <1>10 DEF Create, ShTypes, walk, main
  <2> QED BY <2>1, <2>2
<1>11. CASE RemoveNode
  <2>1. CASE Break
    <3>1. Shape' BY <2>1, <1>1 DEF Break
    <3>2. gone' \subseteq Objs
      BY <1>11, <2>1, NullAssumption DEF RemoveNode, Windowed, ShTypes
    <3> QED BY <2>1, <3>1, <3>2, <1>11 DEF RemoveNode, Break, ShTypes, memory, main
  <2>2. CASE ~Break
    <3>1. /\ evCurr \in nodes /\ Unlink(evCurr) /\ dying' = window[evCurr]
          /\ gone' = gone \cup {window[evCurr]} /\ UNCHANGED <<objs, windowId, walk>>
      BY <1>11, <2>2, NullAssumption DEF RemoveNode, ShTypes
    <3>2. PICK k \in DOMAIN order : order[k] = evCurr /\ order' = Without(order, k)
      BY <3>1 DEF Unlink
    <3>3. order' \in Seq(Nodes) BY <1>0, <3>1, <3>2, Dropped DEF Unlink
    <3>4. /\ next' \in [Nodes -> Nodes \cup {Null}] /\ prev' \in [Nodes -> Nodes \cup {Null}]
          /\ head' \in Nodes \cup {Null}
      BY <3>1, <1>0 DEF Unlink, ShTypes, Shape
    <3>5. Shape' BY <3>1, <3>3, <3>4 DEF Unlink, ShTypes, Shape
    <3>6. window[evCurr] \in objs BY <3>1 DEF Windowed
    <3>7. gone' \subseteq Objs /\ dying' \in objs' \cup {Null} BY <3>1, <3>6 DEF ShTypes
    <3> QED BY <3>1, <3>4, <3>5, <3>7, <1>11 DEF RemoveNode, ShTypes, walk, main
  <2> QED BY <2>1, <2>2
<1>12. CASE ReleaseWindow
  <2>1. Shape' BY <1>12 DEF ReleaseWindow, Release, Shape, ShTypes
  <2> QED BY <2>1, <1>12 DEF ReleaseWindow, Release, ShTypes, walk, main
<1>13. CASE Die
  BY <1>1, <1>13 DEF Die, ShTypes, vars, walk, memory, main
<1>14. CASE UNCHANGED shVars
  BY <1>1, <1>14 DEF ShTypes, shVars, vars, walk, memory, main, event
<1> QED BY <1>2, <1>3, <1>4, <1>5, <1>6, <1>7, <1>8, <1>9, <1>10, <1>11, <1>12, <1>13, <1>14
    DEF ShNext, MainStep, EventStep

----------------------------------------------------------------------------
(* While one of the threads is quiet *)

\* Steps that leave the memory alone leave the links alone.
LEMMA LinksSame ==
  ASSUME Links, UNCHANGED memory
  PROVE  Links'
BY DEF Links, memory, NodeAt

\* The loop by itself goes from the first node to the next.
LEMMA MainQuiet ==
  ASSUME ShTypes, Placed, Windowed, Quiet, ~overlap, MainStep
  PROVE  Quiet'
<1>0. /\ Len(order) \in Nat /\ DOMAIN order = 1 .. Len(order)
      /\ nodes \subseteq Nodes /\ Null \notin nodes /\ Null \notin Objs
      /\ \A i \in DOMAIN order : order[i] \in nodes
  BY NullAssumption DEF ShTypes, Shape, Placed
<1>1. ~Broken /\ (phase # "asking" => at = "idle") BY DEF Quiet
<1>2. \A i \in DOMAIN order : NodeAt(i) = order[i] /\ NodeAt(i) \in nodes
  BY <1>0 DEF NodeAt
<1>3. ASSUME UNCHANGED <<order, next>>
      PROVE  /\ \A i : NodeAt(i)' = NodeAt(i)
             /\ (\A i \in DOMAIN order : next[order[i]] = NodeAt(i + 1))
                  => (\A i \in DOMAIN order : next[order[i]] = NodeAt(i + 1))'
  BY <1>3 DEF NodeAt
<1>4. ASSUME ~Broken', phase' # "asking" => at' = "idle", InLoop', MainPlace' PROVE Quiet'
  BY <1>4 DEF Quiet
<1>5. ASSUME ~Broken', phase' # "asking" => at' = "idle", ~InLoop', ThreadPlace' PROVE Quiet'
  BY <1>5 DEF Quiet
<1>6. CASE BeginClose
  <2>1. ThreadPlace BY <1>6 DEF BeginClose, Quiet, InLoop
  <2>2. UNCHANGED vars /\ at = "idle" /\ phase' = "loop" /\ mine' = head
        /\ overlap' = (thread # "waiting") /\ thread' = thread
    BY <1>1, <1>6 DEF BeginClose
  <2>3. CASE overlap' BY <2>3 DEF Quiet
  <2>4. CASE ~overlap'
    <3>1. MainPlace'
      BY <2>1, <2>2, <2>4, <1>3 DEF MainPlace, ThreadPlace, Links, vars, memory
    <3> QED BY <3>1, <2>2, <1>1, <1>4 DEF InLoop, Broken, vars, walk
  <2> QED BY <2>3, <2>4
<1>7. ASSUME InLoop PROVE MainPlace
  BY <1>7 DEF Quiet
<1>8. CASE Ask
  <2>1. MainPlace /\ phase = "loop" /\ mine # Null BY <1>7, <1>8 DEF Ask, InLoop
  <2>2. mine = NodeAt(1) /\ mine \in nodes BY <2>1, <1>2 DEF MainPlace, NodeAt
  <2>3. window[mine] \in objs BY <2>2 DEF Windowed
  <2>4. /\ phase' = "asking" /\ at' = "walking" /\ target' = window[mine]
        /\ sought' = windowId[window[mine]] /\ curr' = head
        /\ UNCHANGED <<memory, mine, thread>>
    BY <1>8, <2>2, <2>3 DEF Ask, event
  <2>5. MainPlace' BY <2>1, <2>4, <1>3 DEF MainPlace, memory, IdOf
  <2> QED BY <2>4, <2>5, <1>4 DEF InLoop, Broken
<1>9. CASE RequestStep
  <2>1. MainPlace /\ phase = "asking" BY <1>7, <1>9 DEF RequestStep, InLoop
  <2>2. mine = NodeAt(1) /\ mine # Null /\ mine \in nodes BY <2>1, <1>2 DEF MainPlace, NodeAt
  <2>3. target = window[mine] /\ sought = IdOf(mine) /\ target \in objs
        /\ (at = "walking" => curr = mine)
    BY <2>1, <2>2 DEF MainPlace, Windowed
  <2>4. UNCHANGED <<memory, target, sought, phase, mine, thread>>
    BY <1>9 DEF RequestStep, Walk, WalkEnds, SendClose, event
  <2>5. at' # "freed" /\ (at' = "walking" => curr' = mine)
    BY <1>9, <2>2, <2>3 DEF RequestStep, Walk, WalkEnds, SendClose
  <2>6. MainPlace' BY <2>1, <2>4, <2>5, <1>3 DEF MainPlace, memory, IdOf
  <2> QED BY <2>1, <2>4, <2>5, <2>6, <1>4 DEF InLoop, Broken
<1>10. CASE Advance
  <2>1. MainPlace /\ phase = "asking" /\ at = "idle" BY <1>7, <1>10 DEF Advance, InLoop
  <2>2. mine = head /\ mine = NodeAt(1) /\ mine # Null BY <2>1 DEF MainPlace
  <2>3. 1 \in DOMAIN order /\ mine = order[1] /\ mine \in nodes BY <2>2, <1>2 DEF NodeAt
  <2>4. head' = next[mine] /\ phase' = "unlinked"
        /\ UNCHANGED <<nodes, next, order, walk, mine, thread>>
    BY <1>10, <2>3 DEF Advance, event
  <2>5. next[order[1]] = NodeAt(1 + 1) BY <2>1, <2>3 DEF MainPlace
  <2>6. MainPlace' BY <2>1, <2>3, <2>4, <2>5, <1>3 DEF MainPlace
  <2> QED BY <2>1, <2>4, <2>6, <1>4 DEF InLoop, Broken, walk
<1>11. CASE FreeNode
  <2>1. MainPlace /\ phase = "unlinked" BY <1>7, <1>11 DEF FreeNode, InLoop
  <2>2. 1 \in DOMAIN order /\ mine = order[1] /\ head = NodeAt(2) /\ mine \in nodes
    BY <2>1, <1>0 DEF MainPlace
  <2>3. /\ phase' = "freed" /\ nodes' = nodes \ {mine}
        /\ \E k \in DOMAIN order : order[k] = mine /\ order' = Without(order, k)
        /\ UNCHANGED <<head, next, walk, mine, thread>>
    BY <1>11, <2>2 DEF FreeNode, event
  <2>4. PICK k \in DOMAIN order : order[k] = mine /\ order' = Without(order, k) BY <2>3
  <2>5. k = 1 BY <2>2, <2>4 DEF Placed
  <2>6. /\ order' \in Seq(Nodes) /\ Len(order') = Len(order) - 1
        /\ \A j \in 1 .. Len(order) - 1 : order'[j] = IF j < k THEN order[j] ELSE order[j + 1]
    BY <2>3, <2>4, Dropped DEF ShTypes, Shape
  <2>7. DOMAIN order' = 1 .. Len(order) - 1 /\ Len(order) >= 1 BY <2>2, <2>6, <1>0
  <2>8. ASSUME NEW i \in 1 .. Len(order) - 1
        PROVE  order'[i] = order[i + 1] /\ i + 1 \in DOMAIN order
    <3>1. ~(i < k) BY <2>5
    <3> QED BY <3>1, <2>6, <1>0
  <2>9. ASSUME NEW i \in 1 .. Len(order) PROVE NodeAt(i)' = NodeAt(i + 1)
    <3>1. CASE i = Len(order) BY <3>1, <2>7, <1>0 DEF NodeAt
    <3>2. CASE i # Len(order)
      <4>0. Len(order) \in Nat BY <1>0
      <4>1. i \in 1 .. Len(order) - 1 BY <3>2, <4>0
      <4> QED BY <4>1, <2>7, <2>8 DEF NodeAt
    <3> QED BY <3>1, <3>2
  <2>10. ASSUME NEW i \in 1 .. Len(order) - 1 PROVE next'[order'[i]] = NodeAt(i + 1)'
    <3>1. next'[order'[i]] = NodeAt((i + 1) + 1) BY <2>1, <2>3, <2>8 DEF MainPlace
    <3>2. i + 1 \in 1 .. Len(order) BY <1>0
    <3> QED BY <3>1, <3>2, <2>9
  <2>11. head' = NodeAt(1)'
    <3>1. 1 \in 1 .. Len(order) /\ 1 + 1 = 2 BY <2>2, <1>0
    <3> QED BY <3>1, <2>2, <2>3, <2>9
  <2>12. MainPlace' BY <2>1, <2>3, <2>7, <2>10, <2>11 DEF MainPlace
  <2> QED BY <2>1, <2>3, <2>12, <1>1, <1>4 DEF InLoop, Broken, walk
<1>12. CASE NextNode
  <2>1. MainPlace /\ phase = "freed" /\ head = NodeAt(1)
    BY <1>7, <1>12 DEF NextNode, InLoop, MainPlace
  <2>2. UNCHANGED <<memory, walk, thread>> /\ phase' = "loop" /\ mine' = head
    BY <1>12 DEF NextNode, vars, event
  <2>3. MainPlace' BY <2>1, <2>2, <1>3 DEF MainPlace, memory
  <2> QED BY <2>1, <2>2, <2>3, <1>1, <1>4 DEF InLoop, Broken, walk
<1>13. CASE StopLoop
  <2>1. MainPlace /\ phase = "loop" /\ mine = Null BY <1>7, <1>13 DEF StopLoop, InLoop
  <2>2. head = Null /\ NodeAt(1) = Null BY <2>1 DEF MainPlace
  <2>3. 1 \notin DOMAIN order BY <2>2, <1>0 DEF NodeAt
  <2>4. DOMAIN order = {} BY <2>3, <1>0
  <2>5. Links BY <2>2, <2>4 DEF Links, Placed
  <2>6. UNCHANGED <<memory, walk, thread>> /\ phase' = "cancelling"
    BY <1>13 DEF StopLoop, vars, event
  <2>7. ThreadPlace' BY <2>1, <2>5, <2>6, LinksSame DEF ThreadPlace, MainPlace
  <2> QED BY <2>1, <2>6, <2>7, <1>1, <1>5 DEF InLoop, Broken, walk
<1>14. CASE Disconnect
  <2>1. ThreadPlace BY <1>14 DEF Disconnect, Quiet, InLoop
  <2>2. UNCHANGED <<memory, walk, thread, evCurr>> /\ phase = "cancelling" /\ phase' = "closed"
    BY <1>14 DEF Disconnect, vars, event
  <2>3. ThreadPlace' BY <2>1, <2>2, LinksSame DEF ThreadPlace, memory
  <2> QED BY <2>2, <2>3, <1>1, <1>5 DEF InLoop, Broken, walk
<1> QED BY <1>6, <1>8, <1>9, <1>10, <1>11, <1>12, <1>13, <1>14 DEF MainStep

\* The event thread by itself finds the list as it should be.
LEMMA EventQuiet ==
  ASSUME ShTypes, Placed, Windowed, Quiet, EventStep
  PROVE  Quiet'
<1>0. /\ nodes \subseteq Nodes /\ Null \notin nodes
      /\ \A i : NodeAt(i) \in nodes \cup {Null}
      /\ head \in Nodes \cup {Null}
  BY NullAssumption DEF ShTypes, Shape, Placed, NodeAt
<1>1. phase' = phase /\ mine' = mine /\ (overlap => overlap')
  <2>1. phase' = phase /\ mine' = mine
    BY DEF EventStep, Look, LookStep, Create, RemoveNode, ReleaseWindow, Die, main
  <2>2. overlap' \in {overlap, overlap \/ InLoop}
    BY DEF EventStep, Look, LookStep, Create, RemoveNode, ReleaseWindow, Die
  <2> QED BY <2>1, <2>2
<1>2. CASE overlap' BY <1>2 DEF Quiet
<1>3. CASE ~overlap'
  <2>1. ~overlap /\ ~Broken /\ (phase # "asking" => at = "idle") BY <1>1, <1>3 DEF Quiet
  <2>2. ASSUME InLoop, ~ReleaseWindow PROVE FALSE
    <3>1. thread = "waiting" BY <2>1, <2>2 DEF Quiet, MainPlace
    <3>2. phase \notin {"cancelling", "closed"} BY <2>2 DEF InLoop
    <3> QED BY <3>1, <3>2, <2>2, <1>3
        DEF EventStep, Look, LookStep, Create, RemoveNode, Die
  <2>3. ASSUME ReleaseWindow PROVE ~InLoop
    BY <2>1, <2>3 DEF ReleaseWindow, Quiet, MainPlace
  <2>4. ~InLoop /\ ~InLoop' /\ phase # "asking" BY <2>2, <2>3, <1>1 DEF InLoop
  <2>5. ThreadPlace BY <2>1, <2>4 DEF Quiet
  <2>6. ASSUME at' = at, ThreadPlace' PROVE Quiet'
    BY <2>1, <2>4, <2>6 DEF Quiet, Broken
  <2>7. \A n \in nodes : next[n] \in nodes \cup {Null} /\ prev[n] \in nodes \cup {Null}
    BY <2>5, <1>0 DEF ThreadPlace, Links
  <2>8. head \in nodes \cup {Null} BY <2>5, <1>0 DEF ThreadPlace, Links
  <2>9. ASSUME NEW id \in Ids, NEW purpose \in {"add", "remove"}, Look(id, purpose)
        PROVE  Quiet'
    <3>1. UNCHANGED <<memory, walk>> /\ thread' = "looking" /\ evCurr' = head
      BY <2>9 DEF Look, vars
    <3>2. ThreadPlace' BY <3>1, <2>5, <2>8, LinksSame DEF ThreadPlace, memory
    <3> QED BY <3>1, <3>2, <2>6 DEF walk
  <2>10. CASE LookStep
    <3>1. thread = "looking" /\ evCurr \in nodes \cup {Null}
      BY <2>5, <2>10 DEF LookStep, ThreadPlace
    <3>2. /\ UNCHANGED <<memory, walk>>
          /\ thread' = "looking" => evCurr' \in nodes \cup {Null}
          /\ thread' = "found" => evCurr' \in nodes
      BY <3>1, <2>7, <2>10, <1>0 DEF LookStep, vars
    <3>3. ThreadPlace' BY <3>2, <2>5, LinksSame DEF ThreadPlace, memory
    <3> QED BY <3>2, <3>3, <2>6 DEF walk
  <2>11. ASSUME NEW n \in Nodes, NEW o \in Objs, Create(n, o) PROVE Quiet'
    <3>1. /\ n \notin nodes /\ Link(n, o) /\ thread' = "waiting" /\ UNCHANGED walk
      BY <2>8, <2>11 DEF Create
    <3>2. Links' BY <3>1, <2>5, LinkKeepsLinks DEF ThreadPlace, ShTypes
    <3>3. ThreadPlace' BY <3>1, <3>2 DEF ThreadPlace
    <3> QED BY <3>1, <3>3, <2>6 DEF walk
  <2>12. CASE RemoveNode
    <3>1. evCurr \in nodes BY <2>5, <2>12 DEF RemoveNode, ThreadPlace
    <3>2. {evCurr, next[evCurr], prev[evCurr]} \ {Null} \subseteq nodes BY <3>1, <2>7
    <3>3. Unlink(evCurr) /\ thread' = "removed" /\ UNCHANGED walk
      BY <3>2, <2>12 DEF RemoveNode
    <3>4. Links' BY <3>1, <3>3, <2>5, UnlinkKeepsLinks DEF ThreadPlace, ShTypes
    <3>5. ThreadPlace' BY <3>3, <3>4 DEF ThreadPlace
    <3> QED BY <3>3, <3>5, <2>6 DEF walk
  <2>13. CASE ReleaseWindow
    <3>1. /\ UNCHANGED <<head, nodes, next, prev, order, walk>> /\ thread' = "waiting"
      BY <2>13 DEF ReleaseWindow, Release
    <3>2. Links' BY <3>1, <2>5 DEF ThreadPlace, Links, NodeAt
    <3>3. ThreadPlace' BY <3>1, <3>2 DEF ThreadPlace
    <3> QED BY <3>1, <3>3, <2>6 DEF walk
  <2>14. CASE Die
    <3>1. UNCHANGED <<memory, walk>> /\ thread' = "dead" BY <2>14 DEF Die, vars
    <3>2. ThreadPlace' BY <3>1, <2>5, LinksSame DEF ThreadPlace
    <3> QED BY <3>1, <3>2, <2>6 DEF walk
  <2> QED BY <2>9, <2>10, <2>11, <2>12, <2>13, <2>14 DEF EventStep
<1> QED BY <1>2, <1>3

----------------------------------------------------------------------------
(* Closing a context *)

\* Who has been in the list since the close began is asked or gone when it is empty.
LEMMA AskedStep ==
  ASSUME ShInv, [ShNext]_shVars
  PROVE  CloseAsksAll'
<1>1. CASE StopLoop
  <2>1. ASSUME ~Broken'
        PROVE  listed' \subseteq asked' \cup gone'
    <3>1. ~Broken /\ phase = "loop" /\ mine = Null /\ UNCHANGED <<listed, asked, gone>>
      BY <1>1 DEF StopLoop, event
    <3>2. PICK f \in Places : Chain(f) BY <3>1 DEF ShInv, InLoop
    <3>3. Null \notin Beyond(f) BY <3>1, <3>2 DEF Chain, Pointers
    <3>4. f \notin DOMAIN order BY <3>3 DEF Beyond
    <3>5. DOMAIN order = 1 .. Len(order) /\ Len(order) \in Nat /\ f \in 1 .. Len(order) + 1
      BY <3>2, LeftNodes DEF ShInv
    <3>6. Left(f) = {} BY <3>4, <3>5 DEF Left
    <3> QED BY <3>1, <3>2, <3>6 DEF Chain, Waiting
  <2> QED BY <2>1 DEF CloseAsksAll
<1>2. CASE BeginClose \/ Ask \/ RequestStep \/ Advance \/ FreeNode \/ NextNode
  BY <1>2 DEF BeginClose, Ask, RequestStep, Advance, FreeNode, NextNode, CloseAsksAll
<1>3. CASE Disconnect \/ EventStep \/ UNCHANGED shVars
  <2>1. UNCHANGED <<listed, asked>> /\ gone \subseteq gone'
    BY <1>3 DEF Disconnect, EventStep, Look, LookStep, Create, RemoveNode, ReleaseWindow, Die,
       shVars, main, event
  <2>2. phase' \in {"cancelling", "closed"} => phase \in {"cancelling", "closed"}
    BY <1>3 DEF Disconnect, EventStep, Look, LookStep, Create, RemoveNode, ReleaseWindow, Die,
       shVars, main
  <2>3. Broken => Broken'
    BY <1>3 DEF Disconnect, EventStep, Look, LookStep, Create, RemoveNode, ReleaseWindow, Die,
       shVars, vars, walk, Broken
  <2> QED BY <2>1, <2>2, <2>3 DEF CloseAsksAll, ShInv
<1> QED BY <1>1, <1>2, <1>3 DEF ShNext, MainStep

\* The invariant holds at first.
LEMMA ShInvInit == ShInit => ShInv
<1> SUFFICES ASSUME ShInit PROVE ShInv
  OBVIOUS
<1>1. PICK n \in Nodes, o \in Objs :
        /\ head = n /\ nodes = {n} /\ order = <<n>>
        /\ next = [m \in Nodes |-> Null] /\ prev = [m \in Nodes |-> Null]
        /\ window = [m \in Nodes |-> IF m = n THEN o ELSE Null]
        /\ objs = {o} /\ windowId = [x \in Objs |-> IF x = o THEN Root ELSE Null]
        /\ dying = Null /\ at = "idle" /\ target = Null
  BY DEF ShInit, Init
<1>2. /\ phase = "running" /\ mine = Null /\ thread = "waiting" /\ wants = "add"
      /\ evCurr = Null /\ evSought = Null
      /\ listed = {} /\ asked = {} /\ gone = {} /\ overlap = FALSE
  BY DEF ShInit
<1>3. DOMAIN order = {1} /\ order[1] = n /\ order \in Seq(Nodes)
  BY <1>1
<1>4. Shape BY <1>1, <1>3 DEF Shape
<1>5. ShTypes BY <1>1, <1>2, <1>4 DEF ShTypes
<1>6. Placed BY <1>1, <1>3 DEF Placed
<1>7. Windowed BY <1>1, NullAssumption DEF Windowed
<1>8. Links BY <1>1, <1>3, <1>6 DEF Links, Placed, NodeAt
<1>9. Quiet BY <1>1, <1>2, <1>8 DEF Quiet, ThreadPlace, InLoop, Broken
<1> QED BY <1>2, <1>5, <1>6, <1>7, <1>9 DEF ShInv, InLoop, CloseAsksAll

\* Every step keeps it.
LEMMA ShInvStep == ShInv /\ [ShNext]_shVars => ShInv'
<1> SUFFICES ASSUME ShInv, [ShNext]_shVars PROVE ShInv'
  OBVIOUS
<1>1. ShTypes /\ Placed /\ Windowed /\ Quiet BY DEF ShInv
<1>2. ShTypes' BY <1>1, ShTypesStep
<1>3. Placed' /\ Windowed' BY <1>1, ListStep
<1>4. Quiet'
  <2>1. CASE MainStep
    <3>1. CASE overlap /\ ~BeginClose
      <4>1. overlap' BY <2>1, <3>1 DEF MainStep, Ask, RequestStep, Advance, FreeNode, NextNode,
                        StopLoop, Disconnect, event
      <4> QED BY <4>1 DEF Quiet
    <3>2. CASE overlap /\ BeginClose BY <3>2 DEF ShInv, BeginClose
    <3>3. CASE ~overlap BY <2>1, <3>3, <1>1, MainQuiet
    <3> QED BY <3>1, <3>2, <3>3
  <2>2. CASE EventStep BY <2>2, <1>1, EventQuiet
  <2>3. CASE UNCHANGED shVars
    <3>1. Links => Links' BY <2>3, LinksSame DEF shVars, vars
    <3>2. ThreadPlace => ThreadPlace' BY <2>3, <3>1 DEF ThreadPlace, shVars, vars, memory, event
    <3>3. MainPlace => MainPlace'
      BY <2>3 DEF MainPlace, shVars, vars, memory, walk, main, event, NodeAt, IdOf
    <3>4. UNCHANGED <<overlap, phase, at>> BY <2>3 DEF shVars, vars, walk, main, event
    <3> QED BY <3>2, <3>3, <3>4, <1>1 DEF Quiet, InLoop, Broken
  <2> QED BY <2>1, <2>2, <2>3 DEF ShNext
<1>5. InLoop' /\ ~Broken' => \E f \in Places' : Chain(f)' BY ChainStep
<1>6. phase' = "running" => ~overlap'
  <2>1. ASSUME phase' = "running" PROVE phase = "running" /\ ~overlap
    <3>1. phase = "running"
      BY <2>1 DEF ShNext, MainStep, EventStep, BeginClose, Ask, RequestStep, Advance, FreeNode,
         NextNode, StopLoop, Disconnect, Look, LookStep, Create, RemoveNode, ReleaseWindow, Die,
         shVars, main
    <3> QED BY <3>1 DEF ShInv
  <2>2. ASSUME phase' = "running" PROVE overlap' \in {overlap, overlap \/ InLoop}
    BY <2>2 DEF ShNext, MainStep, EventStep, BeginClose, Ask, RequestStep, Advance, FreeNode,
       NextNode, StopLoop, Disconnect, Look, LookStep, Create, RemoveNode, ReleaseWindow, Die,
       shVars, event
  <2>3. phase = "running" => ~InLoop BY DEF InLoop
  <2> QED BY <2>1, <2>2, <2>3
<1>7. CloseAsksAll' BY AskedStep
<1> QED BY <1>2, <1>3, <1>4, <1>5, <1>6, <1>7 DEF ShInv

\* What happens to the context of Self is what Shutdown describes.
LEMMA LifeSteps == [LifeNext]_lifeVars => [ShNext]_shVars
BY DEF LifeNext, lifeVars, OpenSelf, CloseList, EndSelf, Events, Others, ShNext, MainStep

\* The invariant holds throughout the life of a context.
THEOREM ShInvHolds == LifeSpec => []ShInv
<1>1. LifeInit => ShInv BY ShInvInit DEF LifeInit
<1>2. ShInv /\ [LifeNext]_lifeVars => ShInv' BY ShInvStep, LifeSteps
<1> QED BY <1>1, <1>2, PTL DEF LifeSpec

\* The head of the list in particular is on a node or Null while no one but the
\* loop of xcwm_context_close is at work on it.
THEOREM LifeTypeCorrect == LifeSpec => []ShTypeOK
<1>1. ShInv => ShTypeOK
  <2> SUFFICES ASSUME ShInv PROVE ShTypeOK
    OBVIOUS
  <2>1. ASSUME ~overlap PROVE head \in nodes \cup {Null}
    <3>1. \A i : NodeAt(i) \in nodes \cup {Null} BY DEF ShInv, Placed, NodeAt
    <3>2. head = NodeAt(1) \/ head = NodeAt(2)
      BY <2>1 DEF ShInv, Quiet, MainPlace, ThreadPlace, Links
    <3> QED BY <3>1, <3>2
  <2> QED BY <2>1 DEF ShInv, ShTypes, Shape, ShTypeOK
<1> QED BY <1>1, ShInvHolds, PTL

\* xcwm_context_close and the event thread use no freed memory, and free none
\* twice, unless the event thread is at work on the list while the loop runs.
THEOREM QuietCloseIsSafe == LifeSpec => []SafeIfQuiet
<1>1. ShInv => SafeIfQuiet BY DEF ShInv, Quiet, SafeIfQuiet
<1> QED BY <1>1, ShInvHolds, PTL

\* The loop asks every window to close that was there when it began, or it is gone
\* by then, whatever the event thread adds, removes and leaves behind meanwhile.
THEOREM ClosePassesNone == LifeSpec => []CloseAsksAll
<1>1. ShInv => CloseAsksAll BY DEF ShInv
<1> QED BY <1>1, ShInvHolds, PTL

----------------------------------------------------------------------------
(* Opening a context *)

\* Who has what from the server: the mask of the root goes with the stages from
\* "masked" on, and the rest only with the mask.
StTypes ==
  /\ redirect \in Managers \cup {Nobody} /\ supporting \in Managers \cup {Nobody}
  /\ owner \in Managers \cup Compositors \cup {Nobody}
  /\ manual \in Managers \cup Compositors \cup {Nobody}
  /\ stage \in [Managers -> {"idle", "connected"} \cup Managing \cup Ended]
  /\ claimed \in [Managers -> BOOLEAN]
  /\ compositor \in [Compositors -> {"off", "looked", "active", "over"}]
Masked == \A m \in Managers : stage[m] \in Managing <=> redirect = m
Granted == /\ owner \in Managers => stage[owner] \in Managing
           /\ manual \in Managers => stage[manual] \in Managing
Claimed == \A m \in Managers : claimed[m] =>
             /\ stage[m] \in {"open", "released"} \cup Ended
             /\ stage[m] \in Managing => supporting = m
             /\ stage[m] = "open" /\ owner # m =>
                  \E c \in Compositors : compositor[c] \in {"active", "over"}
StInv == StTypes /\ Masked /\ Granted /\ Claimed

\* A process whose connection ends leaves nothing behind that another would need.
LEMMA EndStep ==
  ASSUME StInv, NEW m \in Managers, Drop(m), NEW e \in Ended, GoOn(m, e),
         UNCHANGED <<claimed, compositor>>
  PROVE  StInv'
<1>1. /\ stage'[m] = e /\ \A n \in Managers \ {m} : stage'[n] = stage[n]
      /\ stage' \in [Managers -> {"idle", "connected"} \cup Managing \cup Ended]
  BY DEF GoOn, StInv, StTypes
<1>2. /\ redirect' = (IF redirect = m THEN Nobody ELSE redirect)
      /\ manual' = (IF manual = m THEN Nobody ELSE manual)
      /\ owner' = (IF owner = m THEN Nobody ELSE owner)
      /\ supporting' = supporting
  BY DEF Drop
<1>3. e \notin Managing /\ e # "open" BY DEF Ended, Managing
<1>4. StTypes' BY <1>1, <1>2 DEF StInv, StTypes
<1>5. Masked' BY <1>1, <1>2, <1>3, StartupAssumption DEF StInv, Masked
<1>6. Granted' BY <1>1, <1>2, <1>3, StartupAssumption DEF StInv, Granted
<1>7. Claimed'
  <2>1. ASSUME NEW n \in Managers, claimed[n], n # m
        PROVE  /\ stage'[n] = stage[n]
               /\ owner' # n => owner # n
    BY <2>1, <1>1, <1>2
  <2> QED BY <2>1, <1>1, <1>2, <1>3 DEF StInv, Claimed
<1> QED BY <1>4, <1>5, <1>6, <1>7 DEF StInv

\* A process that goes on without taking or giving anything.
LEMMA GoOnStep ==
  ASSUME StInv, NEW m \in Managers, NEW s, GoOn(m, s),
         s \in {"idle", "connected"} \cup Managing,
         stage[m] \in Managing <=> s \in Managing,
         claimed[m] => s \in {"open", "released"} /\ stage[m] = "open",
         UNCHANGED <<serverState, claimed, compositor>>
  PROVE  StInv'
<1>1. /\ stage'[m] = s /\ \A n \in Managers \ {m} : stage'[n] = stage[n]
      /\ stage' \in [Managers -> {"idle", "connected"} \cup Managing \cup Ended]
  BY DEF GoOn, StInv, StTypes
<1>2. UNCHANGED <<redirect, manual, owner, supporting>> BY DEF serverState
<1>3. StTypes' BY <1>1, <1>2 DEF StInv, StTypes
<1>4. Masked' BY <1>1, <1>2 DEF StInv, Masked
<1>5. Granted' BY <1>1, <1>2 DEF StInv, Granted
<1>6. Claimed'
  <2>1. ASSUME NEW n \in Managers, claimed[n], n # m PROVE stage'[n] = stage[n]
    BY <2>1, <1>1
  <2> QED BY <2>1, <1>1, <1>2 DEF StInv, Claimed, Managing
<1> QED BY <1>3, <1>4, <1>5, <1>6 DEF StInv

\* Whoever is at the root's mask has it alone.
LEMMA StStep == StInv /\ [StNext]_stVars => StInv'
<1> SUFFICES ASSUME StInv, [StNext]_stVars PROVE StInv'
  OBVIOUS
<1>1. ASSUME NEW m \in Managers, Connect(m) PROVE StInv'
  <2>1. CASE GoOn(m, "connected")
    <3>1. ~claimed[m]
      BY <1>1 DEF Connect, StInv, Claimed, Ended
    <3>2. stage[m] \notin Managing BY <1>1 DEF Connect, Managing
    <3> QED BY <2>1, <3>1, <3>2, <1>1, GoOnStep DEF Connect, Managing
  <2>2. CASE GoOn(m, "exited")
    <3>1. redirect # m BY <1>1 DEF Connect, StInv, Masked, Managing
    <3>2. owner # m /\ manual # m BY <1>1 DEF Connect, StInv, Granted, Managing
    <3>3. Drop(m) BY <3>1, <3>2, <1>1 DEF Connect, Drop, serverState
    <3> QED BY <2>2, <3>3, <1>1, EndStep DEF Connect, Ended
  <2> QED BY <2>1, <2>2, <1>1 DEF Connect
<1>2. ASSUME NEW m \in Managers, SetRootMask(m) PROVE StInv'
  <2>1. CASE Refused(m)
    <3>1. Drop(m) /\ GoOn(m, "exited") /\ UNCHANGED <<claimed, compositor>>
      BY <2>1, <1>2 DEF SetRootMask
    <3> QED BY <3>1, EndStep DEF Ended
  <2>2. CASE ~Refused(m)
    <3>1. /\ redirect' = m /\ GoOn(m, "masked") /\ stage[m] = "connected"
          /\ UNCHANGED <<manual, owner, supporting, claimed, compositor>>
      BY <2>2, <1>2 DEF SetRootMask
    <3>2. /\ stage'[m] = "masked" /\ \A n \in Managers \ {m} : stage'[n] = stage[n]
          /\ stage' \in [Managers -> {"idle", "connected"} \cup Managing \cup Ended]
      BY <3>1 DEF GoOn, StInv, StTypes, Managing
    <3>3. redirect # m BY <3>1 DEF StInv, Masked, Managing
    <3>4. redirect = Nobody BY <2>2, <3>3 DEF Refused
    <3>5. StTypes' BY <3>1, <3>2 DEF StInv, StTypes
    <3>6. Masked' BY <3>1, <3>2, <3>4, StartupAssumption DEF StInv, Masked, Managing
    <3>7. Granted' BY <3>1, <3>2 DEF StInv, Granted, Managing
    <3>8. ~claimed[m] BY <3>1 DEF StInv, Claimed, Ended
    <3>9. Claimed' BY <3>1, <3>2, <3>8 DEF StInv, Claimed
    <3> QED BY <3>5, <3>6, <3>7, <3>9 DEF StInv
  <2> QED BY <2>1, <2>2
<1>3. ASSUME NEW m \in Managers, Handshake(m) PROVE StInv'
  <2>1. CASE Drop(m) /\ GoOn(m, "exited")
    BY <2>1, <1>3, EndStep DEF Handshake, Ended
  <2>2. CASE ~(Drop(m) /\ GoOn(m, "exited"))
    <3>1. /\ stage[m] = "masked" /\ manual' \in {m, manual}
          /\ UNCHANGED <<redirect, owner, supporting, stage, claimed, compositor>>
      BY <2>2, <1>3 DEF Handshake
    <3>2. StTypes' BY <3>1 DEF StInv, StTypes
    <3>3. Masked' BY <3>1 DEF StInv, Masked
    <3>4. Granted' BY <3>1 DEF StInv, Granted, Managing
    <3>5. Claimed' BY <3>1 DEF StInv, Claimed
    <3> QED BY <3>2, <3>3, <3>4, <3>5 DEF StInv
  <2> QED BY <2>1, <2>2
<1>4. ASSUME NEW m \in Managers, InternAtoms(m) PROVE StInv'
  <2>1. ~claimed[m] BY <1>4 DEF InternAtoms, StInv, Claimed, Ended
  <2>2. PICK s \in {"atoms", "open"} : GoOn(m, s) BY <1>4 DEF InternAtoms
  <2> QED BY <2>1, <2>2, <1>4, GoOnStep DEF InternAtoms, Managing
<1>5. ASSUME NEW m \in Managers, CheckOwner(m) PROVE StInv'
  <2>1. ~claimed[m] BY <1>5 DEF CheckOwner, StInv, Claimed, Ended
  <2>2. PICK s \in {"claiming", "open"} : GoOn(m, s) BY <1>5 DEF CheckOwner
  <2> QED BY <2>1, <2>2, <1>5, GoOnStep DEF CheckOwner, Managing
<1>6. ASSUME NEW m \in Managers, CreateWmCmWindow(m) PROVE StInv'
  <2>1. /\ supporting' = m /\ owner' = m /\ stage[m] = "claiming"
        /\ claimed' = [claimed EXCEPT ![m] = TRUE] /\ GoOn(m, "open")
        /\ UNCHANGED <<redirect, manual, compositor>>
    BY <1>6 DEF CreateWmCmWindow
  <2>2. /\ stage'[m] = "open" /\ \A n \in Managers \ {m} : stage'[n] = stage[n]
        /\ stage' \in [Managers -> {"idle", "connected"} \cup Managing \cup Ended]
        /\ claimed' \in [Managers -> BOOLEAN]
        /\ \A n \in Managers \ {m} : claimed'[n] = claimed[n]
    BY <2>1 DEF GoOn, StInv, StTypes, Managing
  <2>3. redirect = m BY <2>1 DEF StInv, Masked, Managing
  <2>4. StTypes' BY <2>1, <2>2 DEF StInv, StTypes
  <2>5. Masked' BY <2>1, <2>2, <2>3 DEF StInv, Masked, Managing
  <2>6. Granted' BY <2>1, <2>2 DEF StInv, Granted, Managing
  <2>7. ASSUME NEW n \in Managers \ {m} PROVE stage[n] \notin Managing
    BY <2>3 DEF StInv, Masked
  <2>8. Claimed' BY <2>1, <2>2, <2>7 DEF StInv, Claimed, Managing
  <2> QED BY <2>4, <2>5, <2>6, <2>8 DEF StInv
<1>7. ASSUME NEW m \in Managers, ReleaseAtoms(m) PROVE StInv'
  <2>1. /\ stage[m] = "open" /\ GoOn(m, "released")
        /\ owner' = owner \/ owner' = (IF owner = m THEN Nobody ELSE owner)
        /\ UNCHANGED <<redirect, manual, supporting, claimed, compositor>>
    BY <1>7 DEF ReleaseAtoms
  <2>2. /\ stage'[m] = "released" /\ \A n \in Managers \ {m} : stage'[n] = stage[n]
        /\ stage' \in [Managers -> {"idle", "connected"} \cup Managing \cup Ended]
    BY <2>1 DEF GoOn, StInv, StTypes, Managing
  <2>3. StTypes' BY <2>1, <2>2 DEF StInv, StTypes
  <2>4. Masked' BY <2>1, <2>2 DEF StInv, Masked, Managing
  <2>5. Granted' BY <2>1, <2>2, StartupAssumption DEF StInv, Granted, Managing
  <2>6. ASSUME NEW n \in Managers \ {m}, owner' # n PROVE owner # n
    BY <2>1, <2>6
  <2>7. Claimed' BY <2>1, <2>2, <2>6 DEF StInv, Claimed, Managing
  <2> QED BY <2>3, <2>4, <2>5, <2>7 DEF StInv
<1>8. ASSUME NEW m \in Managers, CloseConnection(m) \/ Killed(m) PROVE StInv'
  <2>1. /\ Drop(m) /\ UNCHANGED <<claimed, compositor>>
        /\ GoOn(m, "closed") \/ GoOn(m, "exited")
    BY <1>8 DEF CloseConnection, Killed
  <2> QED BY <2>1, EndStep DEF Ended
<1>9. ASSUME NEW c \in Compositors, CompositorLooks(c) \/ CompositorTakes(c) \/ CompositorQuits(c)
      PROVE  StInv'
  <2>0. c \notin Managers BY StartupAssumption
  <2>1. /\ UNCHANGED <<redirect, supporting, stage, claimed>>
        /\ owner' \in {owner, c, Nobody} /\ manual' \in {manual, c, Nobody}
        /\ \A n \in Managers : owner' # n => owner # n \/ compositor'[c] = "active"
        /\ compositor' \in [Compositors -> {"off", "looked", "active", "over"}]
        /\ compositor[c] \in {"active", "over"} => compositor'[c] \in {"active", "over"}
        /\ \A d \in Compositors \ {c} : compositor'[d] = compositor[d]
    <3>1. redirect # c BY <2>0, StartupAssumption DEF StInv, StTypes
    <3>2. CASE CompositorLooks(c)
      BY <3>2 DEF CompositorLooks, Acts, serverState, StInv, StTypes
    <3>3. CASE CompositorTakes(c)
      BY <3>3 DEF CompositorTakes, Acts, StInv, StTypes
    <3>4. CASE CompositorQuits(c)
      BY <3>1, <3>4, <2>0 DEF CompositorQuits, Acts, Drop, StInv, StTypes
    <3> QED BY <3>2, <3>3, <3>4, <1>9
  <2>2. StTypes' BY <2>1 DEF StInv, StTypes
  <2>3. Masked' BY <2>1 DEF StInv, Masked
  <2>4. Granted' BY <2>0, <2>1, StartupAssumption DEF StInv, Granted
  <2>5. ASSUME \E d \in Compositors : compositor[d] \in {"active", "over"}
        PROVE  \E d \in Compositors : compositor'[d] \in {"active", "over"}
    BY <2>1, <2>5
  <2>6. Claimed' BY <2>1, <2>5 DEF StInv, Claimed
  <2> QED BY <2>2, <2>3, <2>4, <2>6 DEF StInv
<1>10. CASE UNCHANGED stVars
  BY <1>10 DEF stVars, serverState, StInv, StTypes, Masked, Granted, Claimed
<1> QED BY <1>1, <1>2, <1>3, <1>4, <1>5, <1>6, <1>7, <1>8, <1>9, <1>10
    DEF StNext, Opening, Compositing

\* What happens on the display, the context of Self included, is what Startup describes.
LEMMA DisplaySteps == [LifeNext]_lifeVars => [StNext]_stVars
BY SelfAssumption DEF LifeNext, lifeVars, OpenSelf, CloseList, EndSelf, Events, Others, StNext

\* Of any number of processes that open a context on a display, among any number
\* of compositors, at most one at a time manages its windows, and it has what it took.
THEOREM OneManagerHolds == LifeSpec => []OneManager
<1>1. LifeInit => StInv
  <2> SUFFICES ASSUME LifeInit PROVE StInv
    OBVIOUS
  <2>1. StInit BY DEF LifeInit
  <2>2. StTypes BY <2>1 DEF StInit, StTypes
  <2>3. Masked BY <2>1, StartupAssumption DEF StInit, Masked, Managing
  <2>4. Granted BY <2>1, StartupAssumption DEF StInit, Granted
  <2>5. Claimed BY <2>1 DEF StInit, Claimed
  <2> QED BY <2>2, <2>3, <2>4, <2>5 DEF StInv
<1>2. StInv /\ [LifeNext]_lifeVars => StInv' BY StStep, DisplaySteps
<1>3. StInv => OneManager
  <2> SUFFICES ASSUME StInv, NEW m \in Managers, stage[m] \in Managing
               PROVE  /\ \A n \in Managers \ {m} : stage[n] \notin Managing
                      /\ redirect = m
                      /\ owner \in {m, Nobody} \cup Compositors
                      /\ manual \in {m, Nobody} \cup Compositors
                      /\ claimed[m] => supporting = m
                      /\ claimed[m] /\ stage[m] = "open" /\ owner # m =>
                           \E c \in Compositors : compositor[c] \in {"active", "over"}
    BY DEF OneManager
  <2>1. redirect = m BY DEF StInv, Masked
  <2>2. \A n \in Managers \ {m} : stage[n] \notin Managing BY <2>1 DEF StInv, Masked
  <2>3. owner \in {m, Nobody} \cup Compositors /\ manual \in {m, Nobody} \cup Compositors
    BY <2>2 DEF StInv, StTypes, Granted
  <2> QED BY <2>1, <2>2, <2>3 DEF StInv, Claimed
<1> QED BY <1>1, <1>2, <1>3, PTL DEF LifeSpec
=============================================================================
