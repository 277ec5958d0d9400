-------------------------- MODULE ContextListProofs --------------------------
(***************************************************************************)
(* The properties of ContextList hold for any number of windows, nodes and *)
(* queued requests.                                                        *)
(*                                                                         *)
(* Links is inductive on its own: the new node or the gap changes what     *)
(* order, next and prev say in step.  Owned needs Links to know that the   *)
(* node unlinked was the only one with its XID.  NotMissed is not          *)
(* inductive; Ahead, which is, says that the window sought has its node    *)
(* at or after the one the walk has reached.                               *)
(***************************************************************************)
EXTENDS ContextList, SequenceTheorems, TLAPS

----------------------------------------------------------------------------
(* Sequences *)

\* What is left of a sequence when one element is taken out.
LEMMA WithoutSeq ==
  ASSUME NEW S, NEW s \in Seq(S), NEW i \in DOMAIN s
  PROVE  /\ Without(s, i) \in Seq(S)
         /\ Len(Without(s, i)) = Len(s) - 1
         /\ Len(s) \in Nat \ {0}
         /\ \A j \in 1 .. Len(s) - 1 :
              Without(s, i)[j] = IF j < i THEN s[j] ELSE s[j + 1]
<1> DEFINE t == Without(s, i)
<1>1. Len(s) \in Nat /\ DOMAIN s = 1 .. Len(s) /\ i \in 1 .. Len(s)
  OBVIOUS
<1>2. Len(s) # 0 /\ Len(s) - 1 \in Nat
  BY <1>1
<1>3. \A j \in 1 .. Len(s) - 1 : (IF j < i THEN s[j] ELSE s[j + 1]) \in S
  BY <1>1
<1>4. t \in [1 .. Len(s) - 1 -> S]
  BY <1>3 DEF Without
<1>5. t \in Seq(S) /\ Len(t) = Len(s) - 1
  BY <1>2, <1>4
<1> QED BY <1>1, <1>2, <1>5 DEF Without

\* A sequence with an element put before its first.
LEMMA PushSeq ==
  ASSUME NEW S, NEW e \in S, NEW s \in Seq(S)
  PROVE  /\ <<e>> \o s \in Seq(S)
         /\ Len(<<e>> \o s) = Len(s) + 1
         /\ (<<e>> \o s)[1] = e
         /\ \A j \in 2 .. Len(s) + 1 : (<<e>> \o s)[j] = s[j - 1]
<1>1. <<e>> \in Seq(S) /\ Len(<<e>>) = 1 /\ <<e>>[1] = e
  OBVIOUS
<1> QED BY <1>1, ConcatProperties

----------------------------------------------------------------------------
(* The links *)

\* The types of what the links are made of.
Shape ==
  /\ nodes \subseteq Nodes
  /\ next \in [Nodes -> Nodes \cup {Null}]
  /\ prev \in [Nodes -> Nodes \cup {Null}]
  /\ window \in [Nodes -> Objs \cup {Null}]
  /\ order \in Seq(Nodes)

\* A new node is linked in front, or alone.
LEMMA LinkKeepsLinks ==
  ASSUME Shape, Links, NEW n \in Nodes, NEW o \in Objs, n \notin nodes, Link(n, o)
  PROVE  Links' /\ Shape' /\ head' \in nodes'
<1>1. order \in Seq(Nodes) /\ Len(order) \in Nat /\ DOMAIN order = 1 .. Len(order)
  BY DEF Shape
<1>2. /\ order' \in Seq(Nodes) /\ Len(order') = Len(order) + 1
      /\ order'[1] = n
      /\ \A j \in 2 .. Len(order) + 1 : order'[j] = order[j - 1]
  BY <1>1, PushSeq DEF Link
<1>3. DOMAIN order' = 1 .. Len(order) + 1
  BY <1>2
<1>4. nodes' = {order'[i] : i \in DOMAIN order'}
  <2>1. ASSUME NEW m \in nodes' PROVE \E i \in DOMAIN order' : m = order'[i]
    <3>1. CASE m = n BY <3>1, <1>1, <1>2, <1>3
    <3>2. CASE m \in nodes
      <4>1. PICK i \in DOMAIN order : m = order[i] BY <3>2 DEF Links
      <4>2. i + 1 \in 2 .. Len(order) + 1 /\ order'[i + 1] = order[i]
        BY <1>1, <1>2
      <4> QED BY <4>1, <4>2, <1>1, <1>3
    <3> QED BY <3>1, <3>2 DEF Link
  <2>2. ASSUME NEW i \in DOMAIN order' PROVE order'[i] \in nodes'
    <3>1. CASE i = 1 BY <3>1, <1>2 DEF Link
    <3>2. CASE i \in 2 .. Len(order) + 1
      <4>1. order'[i] = order[i - 1] /\ i - 1 \in DOMAIN order BY <3>2, <1>1, <1>2
      <4> QED BY <4>1 DEF Links, Link
    <3> QED BY <3>1, <3>2, <1>1, <1>3
  <2> QED BY <2>1, <2>2
<1>5. \A i \in DOMAIN order : order[i] # n
  BY DEF Links
<1>6. \A i, j \in DOMAIN order' : order'[i] = order'[j] => i = j
  <2> SUFFICES ASSUME NEW i \in DOMAIN order', NEW j \in DOMAIN order',
                      order'[i] = order'[j]
               PROVE  i = j
    OBVIOUS
  <2>1. ASSUME NEW k \in 2 .. Len(order) + 1
        PROVE  k - 1 \in DOMAIN order /\ order'[k] # n
    <3>1. k - 1 \in 1 .. Len(order) BY <1>1
    <3>2. order'[k] = order[k - 1] BY <1>2
    <3> QED BY <3>1, <3>2, <1>1, <1>5
  <2>2. CASE i = 1 \/ j = 1
    <3>1. i = 1 \/ i \in 2 .. Len(order) + 1 BY <1>1, <1>3
    <3>2. j = 1 \/ j \in 2 .. Len(order) + 1 BY <1>1, <1>3
    <3>3. order'[1] = n BY <1>2
    <3> QED BY <2>1, <2>2, <3>1, <3>2, <3>3
  <2>3. CASE i # 1 /\ j # 1
    <3>1. i \in 2 .. Len(order) + 1 /\ j \in 2 .. Len(order) + 1
      BY <2>3, <1>1, <1>3
    <3>2. order[i - 1] = order[j - 1] /\ i - 1 \in DOMAIN order /\ j - 1 \in DOMAIN order
      BY <3>1, <2>1, <1>2
    <3>3. i - 1 = j - 1 BY <3>2 DEF Links
    <3> QED BY <3>1, <3>3
  <2> QED BY <2>2, <2>3
<1>7. head' = NodeAt(1)'
  BY <1>1, <1>2, <1>3 DEF NodeAt, Link
<1>8. ASSUME NEW i \in DOMAIN order'
      PROVE  next'[order'[i]] = NodeAt(i + 1)' /\ prev'[order'[i]] = NodeAt(i - 1)'
  <2>2. CASE i = 1
    <3>1. next'[n] = head /\ prev'[n] = Null
      BY DEF Link, Shape
    <3>2. NodeAt(2)' = NodeAt(1) /\ NodeAt(0)' = Null
      BY <1>1, <1>2, <1>3 DEF NodeAt
    <3> QED BY <3>1, <3>2, <2>2, <1>2 DEF Links
  <2>3. CASE i \in 2 .. Len(order) + 1
    <3>1. i - 1 \in DOMAIN order /\ order'[i] = order[i - 1] /\ order[i - 1] \in Nodes
      BY <2>3, <1>1, <1>2
    <3>8. head = order[1] /\ 1 \in DOMAIN order
      BY <2>3, <1>1 DEF Links, NodeAt
    <3>2. next'[order'[i]] = next[order[i - 1]]
      BY <3>1, <1>5 DEF Link, Shape
    <3>3. NodeAt(i + 1)' = NodeAt(i)
      BY <2>3, <1>1, <1>2, <1>3 DEF NodeAt
    <3>4. next[order[i - 1]] = NodeAt(i)
      BY <3>1, <2>3 DEF Links
    <3>5. prev'[order'[i]] = NodeAt(i - 1)'
      <4>1. CASE i = 2
        <5>1. order'[i] = head /\ prev'[head] = n
          BY <4>1, <3>1, <3>8, <1>5 DEF Link
        <5>2. NodeAt(i - 1)' = n BY <4>1, <1>1, <1>2, <1>3 DEF NodeAt
        <5> QED BY <5>1, <5>2
      <4>2. CASE i # 2
        <5>1. i - 1 # 1 BY <4>2, <2>3
        <5>2. order[i - 1] # head BY <3>1, <3>8, <5>1 DEF Links
        <5>3. prev'[order'[i]] = prev[order[i - 1]]
          BY <3>1, <5>2, <1>5 DEF Link, Shape
        <5>4. prev[order[i - 1]] = NodeAt((i - 1) - 1)
          BY <3>1 DEF Links
        <5>5. i - 2 \in DOMAIN order /\ NodeAt(i - 2) = order[i - 2]
          BY <4>2, <2>3, <1>1 DEF NodeAt
        <5>6. NodeAt(i - 1)' = order'[i - 1] /\ order'[i - 1] = order[i - 2]
          BY <4>2, <2>3, <1>1, <1>2, <1>3 DEF NodeAt
        <5>7. (i - 1) - 1 = i - 2 BY <2>3
        <5> QED BY <5>3, <5>4, <5>5, <5>6, <5>7
      <4> QED BY <4>1, <4>2
    <3> QED BY <3>2, <3>3, <3>4, <3>5
  <2> QED BY <2>2, <2>3, <1>1, <1>3
<1>9. Shape'
  BY <1>2 DEF Shape, Link, Links, NodeAt
<1> QED BY <1>2, <1>4, <1>6, <1>7, <1>8, <1>9 DEF Links, Link

\* A node is unlinked; the head is again on a node if one is left.
LEMMA UnlinkKeepsLinks ==
  ASSUME Shape, Links, NEW n \in nodes, Unlink(n)
  PROVE  Links' /\ Shape' /\ (nodes # {n} => head' \in nodes')
<1>1. order \in Seq(Nodes) /\ Len(order) \in Nat /\ DOMAIN order = 1 .. Len(order)
  BY DEF Shape
<1>2. PICK k \in DOMAIN order : order[k] = n /\ order' = Without(order, k)
  BY DEF Unlink
<1>3. /\ order' \in Seq(Nodes) /\ Len(order') = Len(order) - 1
      /\ \A j \in 1 .. Len(order) - 1 :
           order'[j] = IF j < k THEN order[j] ELSE order[j + 1]
  BY <1>1, <1>2, WithoutSeq
<1>4. DOMAIN order' = 1 .. Len(order) - 1
  BY <1>1, <1>3
<1>5. \A i \in DOMAIN order : i # k => order[i] # n
  BY <1>2 DEF Links
<1>6. nodes' = {order'[i] : i \in DOMAIN order'}
  <2>1. ASSUME NEW m \in nodes' PROVE \E i \in DOMAIN order' : m = order'[i]
    <3>1. PICK i \in DOMAIN order : m = order[i] BY DEF Links, Unlink
    <3>2. i # k BY <3>1, <1>2 DEF Unlink
    <3>3. CASE i < k BY <3>1, <3>3, <1>1, <1>3, <1>4
    <3>4. CASE i > k
      <4>1. i - 1 \in 1 .. Len(order) - 1 /\ ~(i - 1 < k) /\ (i - 1) + 1 = i
        BY <3>4, <1>1
      <4>2. order'[i - 1] = order[i] BY <4>1, <1>3
      <4> QED BY <4>1, <4>2, <3>1, <1>4
    <3> QED BY <3>2, <3>3, <3>4, <1>1
  <2>2. ASSUME NEW i \in DOMAIN order' PROVE order'[i] \in nodes'
    <3>1. \E j \in DOMAIN order : j # k /\ order'[i] = order[j]
      <4>1. CASE i < k BY <4>1, <1>1, <1>3, <1>4
      <4>2. CASE ~(i < k)
        <5>1. order'[i] = order[i + 1] /\ i + 1 # k /\ i + 1 \in DOMAIN order
          BY <4>2, <1>1, <1>3, <1>4
        <5> QED BY <5>1
      <4> QED BY <4>1, <4>2
    <3> QED BY <3>1, <1>5 DEF Links, Unlink
  <2> QED BY <2>1, <2>2
<1>7. \A i, j \in DOMAIN order' : order'[i] = order'[j] => i = j
  <2> SUFFICES ASSUME NEW i \in DOMAIN order', NEW j \in DOMAIN order',
                      order'[i] = order'[j]
               PROVE  i = j
    OBVIOUS
  <2> DEFINE From(x) == IF x < k THEN x ELSE x + 1
  <2>1. ASSUME NEW x \in DOMAIN order'
        PROVE  From(x) \in DOMAIN order /\ order'[x] = order[From(x)]
    BY <1>1, <1>3, <1>4
  <2>2. From(i) = From(j)
    <3> HIDE DEF From
    <3> QED BY <2>1 DEF Links
  <2> QED BY <2>2, <1>1, <1>4
<1>8. nodes # {n} => Len(order) - 1 # 0
  <2> SUFFICES ASSUME Len(order) = 1 PROVE nodes = {n} BY <1>1
  <2>1. \A i \in DOMAIN order : i = k BY <1>1
  <2> QED BY <2>1, <1>2 DEF Links
<1>9. \A i \in DOMAIN order : next[order[i]] = NodeAt(i + 1) /\ prev[order[i]] = NodeAt(i - 1)
  BY DEF Links
<1>10. head' = NodeAt(1)'
  <2>1. prev[n] = NodeAt(k - 1) /\ next[n] = NodeAt(k + 1)
    BY <1>2, <1>9
  <2>2. CASE k = 1
    <3>1. prev[n] = Null /\ next[n] = NodeAt(2)
      BY <2>1, <2>2, <1>1 DEF NodeAt
    <3>2. NodeAt(1)' = NodeAt(2) BY <2>2, <1>1, <1>3, <1>4 DEF NodeAt
    <3> QED BY <3>1, <3>2 DEF Unlink
  <2>3. CASE k # 1
    <3>1. prev[n] = order[k - 1] /\ k - 1 \in DOMAIN order
      BY <2>1, <2>3, <1>1 DEF NodeAt
    <3>2. prev[n] # Null BY <3>1, <1>1, NullAssumption
    <3>3. NodeAt(1)' = order[1] BY <2>3, <1>1, <1>3, <1>4 DEF NodeAt
    <3>4. head = order[1] BY <2>3, <1>1 DEF Links, NodeAt
    <3> QED BY <3>2, <3>3, <3>4 DEF Unlink
  <2> QED BY <2>2, <2>3
<1>11. ASSUME NEW i \in DOMAIN order'
       PROVE  next'[order'[i]] = NodeAt(i + 1)' /\ prev'[order'[i]] = NodeAt(i - 1)'
  <2>1. prev[n] = NodeAt(k - 1) /\ next[n] = NodeAt(k + 1)
    BY <1>2, <1>9
  <2>2. order'[i] \in Nodes BY <1>3, <1>4
  <2>3. next'[order'[i]] = IF order'[i] = prev[n] THEN next[n] ELSE next[order'[i]]
    BY <2>2 DEF Unlink
  <2>4. prev'[order'[i]] = IF order'[i] = next[n] THEN prev[n] ELSE prev[order'[i]]
    BY <2>2 DEF Unlink
  <2>5. NodeAt(i + 1)' = IF i + 1 < k THEN NodeAt(i + 1) ELSE NodeAt(i + 2)
    BY <1>1, <1>3, <1>4 DEF NodeAt
  <2>6. NodeAt(i - 1)' = IF i - 1 < k THEN NodeAt(i - 1) ELSE NodeAt(i)
    BY <1>1, <1>3, <1>4 DEF NodeAt
  <2>7. CASE i < k
    <3>1. order'[i] = order[i] /\ i \in DOMAIN order
      BY <2>7, <1>1, <1>3, <1>4
    <3>2. order'[i] # next[n]
      <4>1. CASE k + 1 \in DOMAIN order
        BY <4>1, <3>1, <2>1, <2>7, <1>1 DEF NodeAt, Links
      <4>2. CASE k + 1 \notin DOMAIN order
        BY <4>2, <2>1, <2>2, NullAssumption DEF NodeAt
      <4> QED BY <4>1, <4>2
    <3>3. prev'[order'[i]] = NodeAt(i - 1) BY <3>1, <3>2, <2>4, <1>9
    <3>4. NodeAt(i - 1)' = NodeAt(i - 1) BY <2>6, <2>7, <1>1, <1>4
    <3>5. k - 1 \in DOMAIN order /\ prev[n] = order[k - 1]
      BY <2>1, <2>7, <1>1, <1>4 DEF NodeAt
    <3>6. CASE i = k - 1
      <4>1. next'[order'[i]] = NodeAt(k + 1) BY <3>6, <3>1, <3>5, <2>1, <2>3
      <4>2. NodeAt(i + 1)' = NodeAt(k + 1) BY <3>6, <2>5, <1>1
      <4> QED BY <4>1, <4>2, <3>3, <3>4
    <3>7. CASE i # k - 1
      <4>1. order'[i] # prev[n] BY <3>7, <3>1, <3>5 DEF Links
      <4>2. next'[order'[i]] = NodeAt(i + 1) BY <4>1, <3>1, <2>3, <1>9
      <4>3. NodeAt(i + 1)' = NodeAt(i + 1) BY <3>7, <2>5, <2>7, <1>1, <1>4
      <4> QED BY <4>2, <4>3, <3>3, <3>4
    <3> QED BY <3>6, <3>7
  <2>8. CASE ~(i < k)
    <3>1. order'[i] = order[i + 1] /\ i + 1 \in DOMAIN order
      BY <2>8, <1>1, <1>3, <1>4
    <3>2. order'[i] # prev[n]
      <4>1. CASE k - 1 \in DOMAIN order
        <5>1. i + 1 # k - 1 BY <2>8, <1>1, <1>4
        <5>2. prev[n] = order[k - 1] BY <4>1, <2>1 DEF NodeAt
        <5> QED BY <5>1, <5>2, <4>1, <3>1 DEF Links
      <4>2. CASE k - 1 \notin DOMAIN order
        BY <4>2, <2>1, <2>2, NullAssumption DEF NodeAt
      <4> QED BY <4>1, <4>2
    <3>3. next'[order'[i]] = NodeAt((i + 1) + 1) BY <3>1, <3>2, <2>3, <1>9
    <3>4. NodeAt(i + 1)' = NodeAt((i + 1) + 1)
      <4>1. (i + 1) + 1 = i + 2 /\ ~(i + 1 < k) BY <2>8, <1>1, <1>4
      <4> QED BY <4>1, <2>5
    <3>5. CASE i = k
      <4>1. next[n] = order'[i] BY <3>5, <3>1, <2>1 DEF NodeAt
      <4>2. prev'[order'[i]] = NodeAt(k - 1) BY <4>1, <2>1, <2>4
      <4>3. NodeAt(i - 1)' = NodeAt(k - 1) BY <3>5, <2>6, <1>1
      <4> QED BY <4>2, <4>3, <3>3, <3>4
    <3>6. CASE i # k
      <4>1. order'[i] # next[n]
        <5>1. CASE k + 1 \in DOMAIN order
          <6>1. next[n] = order[k + 1] BY <5>1, <2>1 DEF NodeAt
          <6>2. i + 1 # k + 1 BY <3>6, <1>1, <1>4
          <6> QED BY <6>1, <6>2, <5>1, <3>1 DEF Links
        <5>2. CASE k + 1 \notin DOMAIN order
          BY <5>2, <2>1, <2>2, NullAssumption DEF NodeAt
        <5> QED BY <5>1, <5>2
      <4>2. prev'[order'[i]] = NodeAt((i + 1) - 1) BY <4>1, <3>1, <2>4, <1>9
      <4>3. (i + 1) - 1 = i /\ ~(i - 1 < k) BY <3>6, <2>8, <1>1, <1>4
      <4> QED BY <4>2, <4>3, <2>6, <3>3, <3>4
    <3> QED BY <3>5, <3>6
  <2> QED BY <2>7, <2>8
<1>12. ASSUME nodes # {n} PROVE head' \in nodes'
  <2>1. NodeAt(1)' = order'[1] /\ 1 \in DOMAIN order'
    BY <1>1, <1>4, <1>8, <1>12 DEF NodeAt
  <2> QED BY <2>1, <1>6, <1>10
<1>13. Shape'
  <2>1. next[n] \in Nodes \cup {Null} /\ prev[n] \in Nodes \cup {Null} BY DEF Shape
  <2> QED BY <2>1, <1>3 DEF Shape, Unlink
<1> QED BY <1>3, <1>6, <1>7, <1>10, <1>11, <1>12, <1>13 DEF Links

----------------------------------------------------------------------------
(* The inductive invariant *)

\* The root window is never taken off the list.
Rooted == \E n \in nodes : IdOf(n) = Root

\* The window sought is at or after the node the walk has reached.
Reaches == \E i, j \in DOMAIN order :
             i <= j /\ order[i] = curr /\ IdOf(order[j]) = sought

\* It still is, if that node has not been freed.
Ahead ==
  at = "walking" /\ stayed =>
    curr # Null /\ Listed(sought) /\ (curr \in nodes => Reaches)

LInv == TypeOK /\ Links /\ Owned /\ Rooted /\ Ahead

\* Removal leaves a node behind, the one of the root.
LEMMA NotLast ==
  ASSUME LInv, NEW id \in Ids, NEW n \in nodes, IdOf(n) = id
  PROVE  nodes # {n}
BY RootAssumption DEF LInv, Rooted

\* Windows of the list keep their XID when a new one is allocated and linked.
LEMMA AddKeepsIds ==
  ASSUME LInv, NEW id \in Ids, NEW n \in Nodes, NEW o \in Objs, Add(id, n, o)
  PROVE  /\ \A m \in nodes : window'[m] = window[m] /\ IdOf(m)' = IdOf(m)
         /\ window'[n] = o /\ IdOf(n)' = id
         /\ nodes' = nodes \cup {n}
<1>1. window'[n] = o /\ \A m \in nodes : m \in Nodes /\ window'[m] = window[m]
  BY DEF Add, Link, LInv, TypeOK
<1>2. \A m \in nodes : window[m] \in objs /\ window[m] # o /\ window[m] \in Objs
  BY DEF Add, LInv, Owned, TypeOK
<1>3. windowId'[o] = id /\ \A x \in Objs : x # o => windowId'[x] = windowId[x]
  BY DEF Add, LInv, TypeOK
<1> QED BY <1>1, <1>2, <1>3 DEF Add, Link, IdOf

\* The type invariant and the links.
LEMMA ShapeStep == LInv /\ [Next]_vars => TypeOK' /\ Links'
<1> SUFFICES ASSUME LInv, [Next]_vars PROVE TypeOK' /\ Links'
  OBVIOUS
<1> USE DEF LInv
<1>1. ASSUME NEW id \in Ids, NEW n \in Nodes, NEW o \in Objs, Add(id, n, o)
      PROVE  TypeOK' /\ Links'
  <2>1. Links' /\ Shape' /\ head' \in nodes'
    BY <1>1, LinkKeepsLinks DEF Add, TypeOK, Shape
  <2>2. windowId' \in [Objs -> Ids \cup {Root, Null}]
    BY <1>1 DEF Add, TypeOK
  <2>3. objs' \subseteq Objs /\ dying' \in objs' \cup {Null}
    BY <1>1 DEF Add, Link, TypeOK
  <2> QED BY <1>1, <2>1, <2>2, <2>3 DEF Add, walk, TypeOK, Shape
<1>2. ASSUME NEW id \in Ids, Remove(id) PROVE TypeOK' /\ Links'
  <2>1. PICK n \in nodes : IdOf(n) = id /\ Unlink(n) /\ dying' = window[n]
    BY <1>2 DEF Remove
  <2>2. Links' /\ Shape' /\ head' \in nodes'
    BY <2>1, NotLast, UnlinkKeepsLinks DEF TypeOK, Shape
  <2>3. dying' \in objs' \cup {Null}
    BY <1>2, <2>1 DEF Remove, Owned
  <2>4. stayed' \in BOOLEAN
    BY <1>2 DEF Remove
  <2> QED BY <1>2, <2>2, <2>3, <2>4 DEF Remove, walk, TypeOK, Shape
<1>3. ASSUME Release PROVE TypeOK' /\ Links'
  BY <1>3 DEF Release, walk, TypeOK, Links, NodeAt
<1>4. ASSUME UNCHANGED memory, closing' \in Seq(Objs),
             at' \in {"idle", "walking", "found", "freed"},
             target' \in Objs \cup {Null}, curr' \in Nodes \cup {Null},
             sought' \in Ids \cup {Root, Null}, stayed' \in BOOLEAN
      PROVE  TypeOK' /\ Links'
  BY <1>4 DEF memory, TypeOK, Links, NodeAt
<1>5. ASSUME NEW o \in Objs, RequestClose(o) PROVE TypeOK' /\ Links'
  <2>1. closing' \in Seq(Objs) BY <1>5 DEF RequestClose, TypeOK
  <2> QED BY <1>4, <1>5, <2>1 DEF RequestClose, TypeOK
<1>6. ASSUME StartWalk PROVE TypeOK' /\ Links'
  <2>1. closing' \in Seq(Objs) /\ Head(closing) \in Objs
    BY <1>6 DEF StartWalk, TypeOK
  <2>2. Listed(windowId[Head(closing)]) \in BOOLEAN BY DEF Listed
  <2>3. windowId[Head(closing)] \in Ids \cup {Root, Null} /\ head \in Nodes
    BY <2>1 DEF TypeOK
  <2>4. stayed' \in BOOLEAN BY <1>6, <2>2 DEF StartWalk, TypeOK
  <2>5. curr' \in Nodes \cup {Null} BY <1>6, <2>3 DEF StartWalk, TypeOK
  <2>6. sought' \in Ids \cup {Root, Null} BY <1>6, <2>3 DEF StartWalk, TypeOK
  <2>7. target' \in Objs /\ at' \in {"walking", "freed"} /\ UNCHANGED memory
    BY <1>6, <2>1 DEF StartWalk
  <2> QED BY <1>4, <2>1, <2>4, <2>5, <2>6, <2>7
<1>7. ASSUME Walk PROVE TypeOK' /\ Links'
  BY <1>4, <1>7 DEF Walk, TypeOK
<1>8. ASSUME WalkEnds PROVE TypeOK' /\ Links'
  BY <1>4, <1>8 DEF WalkEnds, TypeOK
<1>9. ASSUME SendClose PROVE TypeOK' /\ Links'
  BY <1>4, <1>9 DEF SendClose, TypeOK
<1>10. ASSUME UNCHANGED vars PROVE TypeOK' /\ Links'
  BY <1>4, <1>10 DEF vars, walk, TypeOK
<1> QED BY <1>1, <1>2, <1>3, <1>5, <1>6, <1>7, <1>8, <1>9, <1>10 DEF Next

\* Which window each node owns.
LEMMA OwnedStep == LInv /\ [Next]_vars => Owned' /\ Rooted'
<1> SUFFICES ASSUME LInv, [Next]_vars PROVE Owned' /\ Rooted'
  OBVIOUS
<1> USE DEF LInv
<1>1. ASSUME NEW id \in Ids, NEW n \in Nodes, NEW o \in Objs, Add(id, n, o)
      PROVE  Owned' /\ Rooted'
  <2>1. /\ \A m \in nodes : window'[m] = window[m] /\ IdOf(m)' = IdOf(m)
        /\ window'[n] = o /\ IdOf(n)' = id
        /\ nodes' = nodes \cup {n}
    BY <1>1, AddKeepsIds
  <2>2. dying' = Null /\ dying = Null /\ objs' = objs \cup {o} /\ o \in Objs
    BY <1>1 DEF Add
  <2>3. objs = {window[m] : m \in nodes}
    BY <2>2 DEF Owned
  <2>4. objs' = {window'[m] : m \in nodes'}
    BY <2>1, <2>2, <2>3
  <2>5. \A m \in nodes' : window'[m] # dying' /\ IdOf(m)' \in Ids \cup {Root}
    BY <2>1, <2>2, NullAssumption DEF Owned
  <2>6. \A l, m \in nodes' : IdOf(l)' = IdOf(m)' => l = m
    BY <1>1, <2>1 DEF Owned, Add, Listed
  <2>7. Rooted' BY <2>1 DEF Rooted
  <2> QED BY <2>2, <2>4, <2>5, <2>6, <2>7 DEF Owned
<1>2. ASSUME NEW id \in Ids, Remove(id) PROVE Owned' /\ Rooted'
  <2>1. PICK n \in nodes : IdOf(n) = id /\ Unlink(n) /\ dying' = window[n]
    BY <1>2 DEF Remove
  <2>2. /\ nodes' = nodes \ {n} /\ window' = window /\ windowId' = windowId
        /\ objs' = objs /\ dying = Null
    BY <1>2, <2>1 DEF Remove, Unlink
  <2>3. \A m \in Nodes : IdOf(m)' = IdOf(m)
    BY <2>2 DEF IdOf
  <2>4. \A m \in nodes' : window[m] # window[n]
    BY <2>2 DEF Owned, IdOf
  <2>5. window[n] # Null
    BY NullAssumption DEF Owned, TypeOK
  <2>6. objs' = {window'[m] : m \in nodes'} \cup ({dying'} \ {Null})
    BY <2>1, <2>2, <2>5 DEF Owned
  <2>7. \A m \in nodes' : m \in nodes /\ IdOf(m)' = IdOf(m)
    BY <2>2, <2>3 DEF TypeOK
  <2>8. \A m \in nodes' : window'[m] # dying' /\ IdOf(m)' \in Ids \cup {Root}
    BY <2>1, <2>2, <2>4, <2>7 DEF Owned
  <2>9. \A l, m \in nodes' : IdOf(l)' = IdOf(m)' => l = m
    BY <2>7 DEF Owned
  <2>10. Rooted'
    <3>1. PICK r \in nodes : IdOf(r) = Root BY DEF Rooted
    <3>2. r \in nodes' BY <3>1, <2>1, <2>2, RootAssumption
    <3> QED BY <3>1, <3>2, <2>7 DEF Rooted
  <2> QED BY <2>6, <2>8, <2>9, <2>10 DEF Owned
<1>3. ASSUME Release PROVE Owned' /\ Rooted'
  <2>1. /\ nodes' = nodes /\ window' = window /\ windowId' = windowId
        /\ objs' = objs \ {dying} /\ dying # Null /\ dying' = Null
    BY <1>3 DEF Release
  <2>2. \A m \in nodes : IdOf(m)' = IdOf(m) /\ window[m] \in Objs
    BY <2>1 DEF IdOf, Owned, TypeOK
  <2>3. objs' = {window'[m] : m \in nodes'} \cup ({dying'} \ {Null})
    BY <2>1 DEF Owned
  <2> QED BY <2>1, <2>2, <2>3, NullAssumption DEF Owned, Rooted
<1>4. ASSUME UNCHANGED memory PROVE Owned' /\ Rooted'
  BY <1>4 DEF memory, Owned, Rooted, IdOf
<1> QED BY <1>1, <1>2, <1>3, <1>4
        DEF Next, RequestClose, StartWalk, Walk, WalkEnds, SendClose, vars

\* A lookup without a lock stays ahead of additions and removals.
LEMMA AheadStep == LInv /\ [Next]_vars => Ahead'
<1> SUFFICES ASSUME LInv, [Next]_vars, at' = "walking", stayed'
             PROVE  curr' # Null /\ Listed(sought)' /\ (curr' \in nodes' => Reaches')
  BY DEF Ahead
<1> USE DEF LInv
<1>0. order \in Seq(Nodes) /\ Len(order) \in Nat /\ DOMAIN order = 1 .. Len(order)
  BY DEF TypeOK
<1>1. ASSUME NEW id \in Ids, NEW n \in Nodes, NEW o \in Objs, Add(id, n, o)
      PROVE  curr' # Null /\ Listed(sought)' /\ (curr' \in nodes' => Reaches')
  <2>1. /\ \A m \in nodes : windowId'[window'[m]] = IdOf(m)
        /\ nodes' = nodes \cup {n}
        /\ n \notin nodes
    BY <1>1, AddKeepsIds DEF Add, IdOf
  <2>2. curr' = curr /\ sought' = sought /\ at = "walking" /\ stayed
    BY <1>1 DEF Add, walk
  <2>3. curr # Null /\ Listed(sought) BY <2>2 DEF Ahead
  <2>4. Listed(sought)'
    <3>1. PICK m \in nodes : IdOf(m) = sought BY <2>3 DEF Listed
    <3>2. m \in nodes' /\ windowId'[window'[m]] = sought' BY <3>1, <2>1, <2>2
    <3> QED BY <3>2 DEF Listed, IdOf
  <2>5. /\ order' = <<n>> \o order /\ Len(order') = Len(order) + 1
        /\ DOMAIN order' = 1 .. Len(order) + 1
        /\ order'[1] = n
        /\ \A j \in 2 .. Len(order) + 1 : order'[j] = order[j - 1]
    BY <1>0, <1>1, PushSeq DEF Add, Link
  <2>6. ASSUME NEW j \in DOMAIN order, IdOf(order[j]) = sought
        PROVE  j + 1 \in DOMAIN order' /\ windowId'[window'[order'[j + 1]]] = sought'
    <3>1. j + 1 \in 2 .. Len(order) + 1 /\ order'[j + 1] = order[j] /\ order[j] \in nodes
      BY <1>0, <2>5 DEF Links
    <3>2. windowId'[window'[order[j]]] = sought' BY <3>1, <2>1, <2>2, <2>6
    <3> QED BY <3>1, <3>2, <2>5, <1>0
  <2>7. ASSUME curr' \in nodes' PROVE Reaches'
    <3>1. CASE curr \in nodes
      <4>1. PICK i, j \in DOMAIN order :
              i <= j /\ order[i] = curr /\ IdOf(order[j]) = sought
        BY <2>2, <3>1 DEF Ahead, Reaches
      <4>2. i + 1 \in DOMAIN order' /\ order'[i + 1] = curr' /\ i + 1 <= j + 1
        BY <4>1, <2>2, <2>5, <1>0
      <4>3. j + 1 \in DOMAIN order' /\ windowId'[window'[order'[j + 1]]] = sought'
        BY <4>1, <2>6
      <4> QED BY <4>2, <4>3 DEF Reaches, IdOf
    <3>2. CASE curr = n
      <4>1. PICK j \in DOMAIN order : IdOf(order[j]) = sought
        BY <2>3 DEF Listed, Links
      <4>2. 1 \in DOMAIN order' /\ order'[1] = curr' /\ 1 <= j + 1
        BY <3>2, <2>2, <2>5, <1>0
      <4>3. j + 1 \in DOMAIN order' /\ windowId'[window'[order'[j + 1]]] = sought'
        BY <4>1, <2>6
      <4> QED BY <4>2, <4>3 DEF Reaches, IdOf
    <3> QED BY <3>1, <3>2, <2>7, <2>1, <2>2
  <2> QED BY <2>2, <2>3, <2>4, <2>7
<1>2. ASSUME NEW id \in Ids, Remove(id)
      PROVE  curr' # Null /\ Listed(sought)' /\ (curr' \in nodes' => Reaches')
  <2>1. PICK n \in nodes : IdOf(n) = id /\ Unlink(n)
    BY <1>2 DEF Remove
  <2>2. /\ nodes' = nodes \ {n} /\ window' = window /\ windowId' = windowId
        /\ curr' = curr /\ sought' = sought /\ at = "walking" /\ stayed /\ id # sought
    BY <1>2, <2>1 DEF Remove, Unlink, walk
  <2>3. curr # Null /\ Listed(sought) BY <2>2 DEF Ahead
  <2>4. Listed(sought)' BY <2>1, <2>2, <2>3 DEF Listed, IdOf
  <2>5. PICK k \in DOMAIN order : order[k] = n /\ order' = Without(order, k)
    BY <2>1 DEF Unlink
  <2>6. /\ DOMAIN order' = 1 .. Len(order) - 1
        /\ \A j \in 1 .. Len(order) - 1 :
             order'[j] = IF j < k THEN order[j] ELSE order[j + 1]
    BY <2>5 DEF Without
  <2> DEFINE To(j) == IF j < k THEN j ELSE j - 1
  <2>7. ASSUME NEW j \in DOMAIN order, order[j] # n
        PROVE  To(j) \in DOMAIN order' /\ order'[To(j)] = order[j]
    BY <1>0, <2>5, <2>6, <2>7
  <2>8. ASSUME curr' \in nodes' PROVE Reaches'
    <3>1. PICK i, j \in DOMAIN order :
            i <= j /\ order[i] = curr /\ IdOf(order[j]) = sought
      BY <2>2, <2>8 DEF Ahead, Reaches
    <3>2. order[i] # n /\ order[j] # n
      BY <3>1, <2>1, <2>2, <2>8
    <3>3. To(i) <= To(j)
      <4>1. i # k /\ j # k BY <3>2, <2>5
      <4> QED BY <4>1, <3>1, <1>0
    <3>4. To(i) \in DOMAIN order' /\ order'[To(i)] = curr'
      BY <2>2, <2>7, <3>1, <3>2
    <3>5. order'[To(j)] = order[j] /\ To(j) \in DOMAIN order' BY <2>7, <3>2
    <3> HIDE DEF To
    <3>6. windowId'[window'[order'[To(j)]]] = sought' BY <3>5, <2>2, <3>1 DEF IdOf
    <3> QED BY <3>3, <3>4, <3>5, <3>6 DEF Reaches, IdOf
  <2> QED BY <2>2, <2>3, <2>4, <2>8
<1>3. ASSUME nodes' = nodes, window' = window, windowId' = windowId, order' = order,
             curr' = curr, sought' = sought, at = "walking", stayed
      PROVE  curr' # Null /\ Listed(sought)' /\ (curr' \in nodes' => Reaches')
  BY <1>3 DEF Ahead, Reaches, Listed, IdOf
<1>4. ASSUME StartWalk
      PROVE  curr' # Null /\ Listed(sought)' /\ (curr' \in nodes' => Reaches')
  <2>1. PICK o : /\ curr' = head /\ sought' = windowId[o]
                 /\ stayed' = Listed(windowId[o])
    BY <1>4 DEF StartWalk
  <2>2. /\ nodes' = nodes /\ window' = window /\ windowId' = windowId
        /\ order' = order
    BY <1>4 DEF StartWalk, memory
  <2>3. Listed(windowId[o]) BY <2>1
  <2>4. PICK m \in nodes : windowId[window[m]] = windowId[o]
    BY <2>3 DEF Listed, IdOf
  <2>5. Listed(sought)' BY <2>1, <2>2, <2>4 DEF Listed, IdOf
  <2>6. PICK j \in DOMAIN order : order[j] = m BY DEF Links
  <2>7. 1 \in DOMAIN order /\ head = order[1] /\ 1 <= j
    BY <1>0, <2>6 DEF Links, NodeAt
  <2>8. head # Null BY NullAssumption DEF TypeOK
  <2>9. Reaches' BY <2>1, <2>2, <2>4, <2>6, <2>7 DEF Reaches, IdOf
  <2> QED BY <2>1, <2>5, <2>8, <2>9
<1>5. ASSUME Walk
      PROVE  curr' # Null /\ Listed(sought)' /\ (curr' \in nodes' => Reaches')
  <2>1. /\ curr \in nodes /\ IdOf(curr) # sought /\ curr' = next[curr]
        /\ at = "walking" /\ stayed /\ sought' = sought
    BY <1>5 DEF Walk
  <2>2. /\ nodes' = nodes /\ window' = window /\ windowId' = windowId
        /\ order' = order
    BY <1>5 DEF Walk, memory
  <2>3. PICK i, j \in DOMAIN order :
          i <= j /\ order[i] = curr /\ IdOf(order[j]) = sought
    BY <2>1 DEF Ahead, Reaches
  <2>4. i # j BY <2>1, <2>3
  <2>5. i + 1 \in DOMAIN order /\ i + 1 <= j BY <1>0, <2>3, <2>4
  <2>6. curr' = order[i + 1] /\ order[i + 1] \in Nodes
    BY <1>0, <2>1, <2>3, <2>5 DEF Links, NodeAt
  <2>7. curr' # Null BY <2>6, NullAssumption
  <2>8. Listed(sought)' BY <2>1, <2>2 DEF Ahead, Listed, IdOf
  <2>9. Reaches' BY <2>1, <2>2, <2>3, <2>5, <2>6 DEF Reaches, IdOf
  <2> QED BY <2>7, <2>8, <2>9
<1>6. CASE Release BY <1>3, <1>6 DEF Release, walk
<1>7. ASSUME NEW o \in Objs, RequestClose(o)
      PROVE  curr' # Null /\ Listed(sought)' /\ (curr' \in nodes' => Reaches')
  BY <1>3, <1>7 DEF RequestClose, memory
<1>8. CASE UNCHANGED vars BY <1>3, <1>8 DEF vars, walk, memory
<1>9. ~WalkEnds /\ ~SendClose
  BY DEF WalkEnds, SendClose
<1> QED BY <1>1, <1>2, <1>4, <1>5, <1>6, <1>7, <1>8, <1>9 DEF Next

----------------------------------------------------------------------------
(* Theorems *)

LEMMA LInvInit == Init => LInv
<1> SUFFICES ASSUME Init PROVE LInv
  OBVIOUS
<1>1. PICK n \in Nodes, o \in Objs :
        /\ head = n /\ nodes = {n} /\ order = <<n>>
        /\ next = [m \in Nodes |-> Null] /\ prev = [m \in Nodes |-> Null]
        /\ window = [m \in Nodes |-> IF m = n THEN o ELSE Null]
        /\ objs = {o}
        /\ windowId = [x \in Objs |-> IF x = o THEN Root ELSE Null]
        /\ dying = Null
        /\ closing = <<>> /\ at = "idle"
        /\ target = Null /\ curr = Null /\ sought = Null
        /\ stayed = FALSE
  BY DEF Init
<1>2. TypeOK
  <2>1. closing \in Seq(Objs) /\ order \in Seq(Nodes) BY <1>1
  <2>2. window \in [Nodes -> Objs \cup {Null}] BY <1>1
  <2>3. windowId \in [Objs -> Ids \cup {Root, Null}] BY <1>1
  <2>4. next \in [Nodes -> Nodes \cup {Null}] BY <1>1
  <2>5. prev \in [Nodes -> Nodes \cup {Null}] BY <1>1
  <2> QED BY <1>1, <2>1, <2>2, <2>3, <2>4, <2>5 DEF TypeOK
<1>3. order[1] = n /\ DOMAIN order = {1}
  BY <1>1
<1>4. Links
  BY <1>1, <1>3 DEF Links, NodeAt
<1>5. window[n] = o /\ IdOf(n) = Root
  BY <1>1 DEF IdOf
<1>6. Owned /\ Rooted
  BY <1>1, <1>5, NullAssumption DEF Owned, Rooted
<1>7. Ahead
  BY <1>1 DEF Ahead
<1> QED BY <1>2, <1>4, <1>6, <1>7 DEF LInv

\* The inductive invariant: with Links and Owned, the root window is listed
\* and a walk is never past the window it seeks.
THEOREM LInvHolds == Spec => []LInv
<1>1. LInv /\ [Next]_vars => LInv'
  BY ShapeStep, OwnedStep, AheadStep DEF LInv
<1> QED BY LInvInit, <1>1, PTL DEF Spec

\* Every variable keeps its type; the head is never left on a freed node.
THEOREM TypeCorrect == Spec => []TypeOK
<1>1. LInv => TypeOK BY DEF LInv
<1> QED BY <1>1, LInvHolds, PTL

\* context_list.c keeps its links right through any additions and removals.
THEOREM LinksCorrect == Spec => []Links
<1>1. LInv => Links BY DEF LInv
<1> QED BY <1>1, LInvHolds, PTL

\* No window of the list is freed, leaked, or there twice.
THEOREM OwnedCorrect == Spec => []Owned
<1>1. LInv => Owned BY DEF LInv
<1> QED BY <1>1, LInvHolds, PTL

\* xcwm_window_request_close misses no window that is in the list throughout.
THEOREM NotMissedCorrect == Spec => []NotMissed
<1>1. LInv => NotMissed BY DEF LInv, Ahead, NotMissed
<1> QED BY <1>1, LInvHolds, PTL

----------------------------------------------------------------------------
(* Refinement: the list implements the stack of windows. *)

StackBar == [i \in DOMAIN order |-> IdOf(order[i])]

LEMMA StackInit == Init => Stack!Init
<1> SUFFICES ASSUME Init PROVE StackBar = <<Root>>
  BY DEF Stack!Init, StackBar
<1>1. PICK n \in Nodes : order = <<n>> /\ IdOf(n) = Root
  BY DEF Init, IdOf
<1>2. DOMAIN order = 1 .. 1 /\ IdOf(order[1]) = Root
  BY <1>1
<1>3. StackBar = [i \in 1 .. 1 |-> Root]
  BY <1>2 DEF StackBar
<1> QED BY <1>3

LEMMA StackStep == LInv /\ [Next]_vars => [Stack!Next]_StackBar
<1> SUFFICES ASSUME LInv, [Next]_vars PROVE Stack!Next \/ StackBar' = StackBar
  OBVIOUS
<1> USE DEF LInv
<1>0. order \in Seq(Nodes) /\ Len(order) \in Nat /\ DOMAIN order = 1 .. Len(order)
  BY DEF TypeOK
<1>1. /\ DOMAIN StackBar = 1 .. Len(order) /\ Len(StackBar) = Len(order)
      /\ \A i \in 1 .. Len(order) : StackBar[i] = IdOf(order[i])
  BY <1>0 DEF StackBar
<1>2. ASSUME NEW id \in Ids, NEW n \in Nodes, NEW o \in Objs, Add(id, n, o)
      PROVE  Stack!Push(id)
  <2>1. \A i \in 1 .. Len(order) : order[i] \in nodes
    BY <1>0 DEF Links
  <2>2. \A i \in DOMAIN StackBar : StackBar[i] # id
    BY <1>1, <1>2, <2>1 DEF Add, Listed
  <2>3. /\ order' = <<n>> \o order /\ DOMAIN order' = 1 .. Len(order) + 1
        /\ order'[1] = n
        /\ \A j \in 2 .. Len(order) + 1 : order'[j] = order[j - 1]
    BY <1>0, <1>2, PushSeq DEF Add, Link
  <2>4. /\ \A m \in nodes : windowId'[window'[m]] = IdOf(m)
        /\ windowId'[window'[n]] = id
    BY <1>2, AddKeepsIds DEF IdOf
  <2>5. StackBar' = [i \in 1 .. Len(order) + 1 |->
                      IF i = 1 THEN id ELSE IdOf(order[i - 1])]
    <3>1. ASSUME NEW i \in 1 .. Len(order) + 1, i # 1
          PROVE  windowId'[window'[order'[i]]] = IdOf(order[i - 1])
      <4>1. order'[i] = order[i - 1] /\ i - 1 \in 1 .. Len(order) BY <3>1, <2>3, <1>0
      <4> QED BY <4>1, <2>1, <2>4
    <3> QED BY <3>1, <2>3, <2>4 DEF StackBar, IdOf
  <2> DEFINE S == {IdOf(order[i]) : i \in 1 .. Len(order)} \cup {id}
             pushed == <<id>> \o StackBar
  <2>7. StackBar \in Seq(S) /\ id \in S
    BY <1>0 DEF StackBar
  <2>8. /\ pushed \in Seq(S) /\ Len(pushed) = Len(order) + 1
        /\ pushed[1] = id
        /\ \A j \in 2 .. Len(order) + 1 : pushed[j] = StackBar[j - 1]
    <3> HIDE DEF S
    <3> QED BY <2>7, <1>1, PushSeq
  <2>9. pushed = [i \in 1 .. Len(order) + 1 |-> pushed[i]]
    <3> HIDE DEF pushed, S
    <3> QED BY <2>8, <1>0
  <2>10. \A i \in 1 .. Len(order) + 1 :
           pushed[i] = IF i = 1 THEN id ELSE IdOf(order[i - 1])
    <3> HIDE DEF pushed
    <3> QED BY <2>8, <1>0, <1>1
  <2>11. pushed = StackBar'
    <3> HIDE DEF pushed
    <3> QED BY <2>5, <2>9, <2>10
  <2> QED BY <2>2, <2>11 DEF Stack!Push, StackBar
<1>3. ASSUME NEW id \in Ids, Remove(id) PROVE Stack!Drop(id)
  <2>1. PICK n \in nodes : IdOf(n) = id /\ Unlink(n)
    BY <1>3 DEF Remove
  <2>2. window' = window /\ windowId' = windowId
    BY <1>3, <2>1 DEF Remove, Unlink
  <2>3. PICK k \in DOMAIN order : order[k] = n /\ order' = Without(order, k)
    BY <2>1 DEF Unlink
  <2>4. /\ DOMAIN order' = 1 .. Len(order) - 1
        /\ \A j \in 1 .. Len(order) - 1 :
             order'[j] = IF j < k THEN order[j] ELSE order[j + 1]
    BY <2>3 DEF Without
  <2>5. StackBar' = [j \in 1 .. Len(StackBar) - 1 |->
                      IF j < k THEN StackBar[j] ELSE StackBar[j + 1]]
    <3>1. ASSUME NEW j \in 1 .. Len(order) - 1
          PROVE  windowId'[window'[order'[j]]] =
                   IF j < k THEN StackBar[j] ELSE StackBar[j + 1]
      <4>1. j \in 1 .. Len(order) /\ j + 1 \in 1 .. Len(order) BY <1>0
      <4> QED BY <4>1, <2>2, <2>4, <1>1 DEF IdOf
    <3>2. StackBar' = [j \in 1 .. Len(order) - 1 |-> windowId'[window'[order'[j]]]]
      BY <2>4 DEF StackBar, IdOf
    <3> QED BY <3>1, <3>2, <1>1
  <2>6. k \in DOMAIN StackBar /\ StackBar[k] = id
    BY <1>0, <1>1, <2>1, <2>3
  <2> QED BY <2>5, <2>6 DEF Stack!Drop, Stack!Without, StackBar
<1>4. ASSUME order' = order, window' = window, windowId' = windowId
      PROVE  StackBar' = StackBar
  BY <1>4 DEF StackBar, IdOf
<1> QED BY <1>2, <1>3, <1>4
        DEF Next, Release, RequestClose, StartWalk, Walk, WalkEnds, SendClose,
            memory, vars, Stack!Next

\* The list is, for any additions and removals, the stack WindowStack describes.
THEOREM StackCorrect == Spec => StackHolds
<1>1. LInv /\ [Next]_vars => [Stack!Next]_[i \in DOMAIN order |-> IdOf(order[i])]
  BY StackStep DEF StackBar
<1> QED BY StackInit, LInvHolds, <1>1, PTL DEF Spec, StackHolds, Stack!Spec
=============================================================================
