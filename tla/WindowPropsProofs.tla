--------------------------- MODULE WindowPropsProofs ---------------------------
(***************************************************************************)
(* The properties of WindowProps hold for any number of windows, values    *)
(* and changes.                                                            *)
(*                                                                         *)
(* PropertiesAgree is not inductive: it speaks of windows of which no news *)
(* is under way.  Agree says of every window, field by field, that the     *)
(* field is up to date, or an event about its property is queued, or the   *)
(* reading that brings it up to date is still to be made; and what holds   *)
(* half-way through the two handlers that consist of two readings.         *)
(***************************************************************************)
EXTENDS WindowProps, SequenceTheorems, WellFoundedInduction, TLAPS

----------------------------------------------------------------------------
(* Sequences *)

Elements(s) == {s[i] : i \in DOMAIN s}

\* The elements of a sequence are its head and those of its tail.
LEMMA TailElements ==
  ASSUME NEW S, NEW s \in Seq(S), s # <<>>
  PROVE  /\ Head(s) \in S /\ Tail(s) \in Seq(S)
         /\ Elements(s) = {Head(s)} \cup Elements(Tail(s))
         /\ Len(s) \in Nat /\ DOMAIN s = 1 .. Len(s) /\ 1 \in DOMAIN s /\ Head(s) = s[1]
         /\ DOMAIN Tail(s) = 1 .. Len(s) - 1
         /\ \A i \in DOMAIN Tail(s) : Tail(s)[i] = s[i + 1] /\ i + 1 \in DOMAIN s
<1>1. /\ Len(s) \in Nat /\ Len(s) # 0 /\ DOMAIN s = 1 .. Len(s) /\ 1 \in DOMAIN s
      /\ Head(s) = s[1] /\ Head(s) \in S
  BY EmptySeq
<1>2. Tail(s) \in Seq(S) /\ Len(Tail(s)) = Len(s) - 1
      /\ \A i \in 1 .. Len(Tail(s)) : Tail(s)[i] = s[i + 1]
  BY HeadTailProperties
<1>3. DOMAIN Tail(s) = 1 .. Len(s) - 1 BY <1>2
<1>4. \A i \in DOMAIN Tail(s) : Tail(s)[i] = s[i + 1] /\ i + 1 \in DOMAIN s
  BY <1>1, <1>2, <1>3
<1>5. ASSUME NEW x \in Elements(s) PROVE x \in {Head(s)} \cup Elements(Tail(s))
  <2>1. PICK i \in DOMAIN s : x = s[i] BY DEF Elements
  <2>2. CASE i = 1 BY <2>1, <2>2, <1>1
  <2>3. CASE i # 1
    <3>1. i - 1 \in DOMAIN Tail(s) /\ (i - 1) + 1 = i BY <2>1, <2>3, <1>1, <1>3
    <3>2. Tail(s)[i - 1] = s[(i - 1) + 1] BY <3>1, <1>4
    <3> QED BY <3>1, <3>2, <2>1 DEF Elements
  <2> QED BY <2>2, <2>3
<1>6. ASSUME NEW x \in {Head(s)} \cup Elements(Tail(s)) PROVE x \in Elements(s)
  BY <1>1, <1>4 DEF Elements
<1> QED BY <1>1, <1>2, <1>3, <1>4, <1>5, <1>6

\* The elements of a sequence with one more at the end.
LEMMA AppendElements ==
  ASSUME NEW S, NEW s \in Seq(S), NEW e \in S
  PROVE  Append(s, e) \in Seq(S) /\ Elements(Append(s, e)) = Elements(s) \cup {e}
<1>1. /\ Append(s, e) \in Seq(S) /\ Len(s) \in Nat /\ DOMAIN s = 1 .. Len(s)
      /\ DOMAIN Append(s, e) = 1 .. Len(s) + 1 /\ Append(s, e)[Len(s) + 1] = e
      /\ \A i \in 1 .. Len(s) : Append(s, e)[i] = s[i]
  BY AppendProperties
<1>2. \A i \in 1 .. Len(s) + 1 : i \in 1 .. Len(s) \/ i = Len(s) + 1 BY <1>1
<1>3. Len(s) + 1 \in 1 .. Len(s) + 1 /\ \A i \in 1 .. Len(s) : i \in 1 .. Len(s) + 1 BY <1>1
<1>4. \A x \in Elements(Append(s, e)) : x \in Elements(s) \cup {e} BY <1>1, <1>2 DEF Elements
<1>5. \A x \in Elements(s) \cup {e} : x \in Elements(Append(s, e)) BY <1>1, <1>3 DEF Elements
<1> QED BY <1>1, <1>4, <1>5

\* The elements of a sequence with one more in front.
LEMMA ConsElements ==
  ASSUME NEW S, NEW s \in Seq(S), NEW e \in S
  PROVE  /\ <<e>> \o s \in Seq(S) /\ Elements(<<e>> \o s) = {e} \cup Elements(s)
         /\ Len(s) \in Nat /\ DOMAIN s = 1 .. Len(s)
         /\ DOMAIN (<<e>> \o s) = 1 .. Len(s) + 1 /\ (<<e>> \o s)[1] = e
         /\ \A i \in 2 .. Len(s) + 1 : (<<e>> \o s)[i] = s[i - 1]
<1> DEFINE t == <<e>> \o s
<1>1. /\ t \in Seq(S) /\ Len(s) \in Nat /\ DOMAIN s = 1 .. Len(s)
      /\ DOMAIN t = 1 .. Len(s) + 1 /\ t[1] = e
      /\ \A i \in 2 .. Len(s) + 1 : t[i] = s[i - 1]
  <2>1. <<e>> \in Seq(S) /\ Len(<<e>>) = 1 /\ <<e>>[1] = e OBVIOUS
  <2> QED BY <2>1, ConcatProperties
<1> HIDE DEF t
<1>2. ASSUME NEW i \in 1 .. Len(s) + 1 PROVE t[i] \in {e} \cup Elements(s)
  <2>1. CASE i = 1 BY <2>1, <1>1
  <2>2. CASE i # 1
    <3>1. i \in 2 .. Len(s) + 1 /\ i - 1 \in 1 .. Len(s) BY <2>2, <1>1
    <3> QED BY <3>1, <1>1 DEF Elements
  <2> QED BY <2>1, <2>2
<1>3. ASSUME NEW i \in 1 .. Len(s) PROVE s[i] \in Elements(t)
  <2>1. i + 1 \in 2 .. Len(s) + 1 /\ i + 1 \in 1 .. Len(s) + 1 /\ (i + 1) - 1 = i BY <1>1
  <2>2. t[i + 1] = s[(i + 1) - 1] BY <2>1, <1>1
  <2> QED BY <2>1, <2>2, <1>1 DEF Elements
<1>4. e \in Elements(t)
  <2>1. 1 \in 1 .. Len(s) + 1 BY <1>1
  <2> QED BY <2>1, <1>1 DEF Elements
<1>5. \A x \in Elements(t) : x \in {e} \cup Elements(s) BY <1>1, <1>2 DEF Elements
<1>6. \A x \in {e} \cup Elements(s) : x \in Elements(t) BY <1>1, <1>3, <1>4 DEF Elements
<1>7. Elements(t) = {e} \cup Elements(s) BY <1>5, <1>6
<1> QED BY <1>1, <1>7 DEF t

----------------------------------------------------------------------------
(* The readings that are still to be made *)

\* "name" is only ever the next one, and the types come once, after what the
\* window is transient for.
Order(s) ==
  /\ \A i \in DOMAIN s : s[i] = "name" => i = 1
  /\ \A i, j \in DOMAIN s : s[i] = "types" /\ s[j] \in {"transient", "types"} => j <= i
  /\ "transient" \in Elements(s) => "types" \in Elements(s)

\* One reading has been made.
LEMMA OrderTail ==
  ASSUME NEW s \in Seq(Atoms), s # <<>>, Order(s)
  PROVE  /\ Order(Tail(s)) /\ "name" \notin Elements(Tail(s))
         /\ Head(s) = "types" => Elements(Tail(s)) \cap {"transient", "types"} = {}
         /\ Head(s) = "transient" => "types" \in Elements(Tail(s))
<1>1. /\ Elements(s) = {Head(s)} \cup Elements(Tail(s)) /\ Len(s) \in Nat
      /\ DOMAIN s = 1 .. Len(s) /\ 1 \in DOMAIN s /\ Head(s) = s[1]
      /\ DOMAIN Tail(s) = 1 .. Len(s) - 1
      /\ \A i \in DOMAIN Tail(s) : Tail(s)[i] = s[i + 1] /\ i + 1 \in DOMAIN s
  BY TailElements
<1>2. \A i \in DOMAIN Tail(s) : i \in Nat /\ i # 0
  BY <1>1
<1>3. \A i \in DOMAIN Tail(s) : Tail(s)[i] # "name"
  BY <1>1, <1>2 DEF Order
<1>4. "name" \notin Elements(Tail(s)) BY <1>3 DEF Elements
<1>5. ASSUME NEW i \in DOMAIN Tail(s), NEW j \in DOMAIN Tail(s), Tail(s)[i] = "types",
             Tail(s)[j] \in {"transient", "types"}
      PROVE  j <= i
  <2>1. j + 1 <= i + 1
    <3>1. s[i + 1] = "types" /\ s[j + 1] \in {"transient", "types"} BY <1>1, <1>5
    <3>2. i + 1 \in DOMAIN s /\ j + 1 \in DOMAIN s BY <1>1
    <3> QED BY <3>1, <3>2 DEF Order
  <2> QED BY <2>1, <1>2
<1>6. ASSUME Head(s) = "types", NEW j \in DOMAIN Tail(s)
      PROVE  Tail(s)[j] \notin {"transient", "types"}
  <2>1. j + 1 \in DOMAIN s /\ Tail(s)[j] = s[j + 1] /\ ~(j + 1 <= 1) BY <1>1, <1>2
  <2> QED BY <2>1, <1>1, <1>6 DEF Order
<1>7. Head(s) = "types" => Elements(Tail(s)) \cap {"transient", "types"} = {}
  BY <1>6 DEF Elements
<1>8. "transient" \in Elements(Tail(s)) => "types" \in Elements(Tail(s))
  BY <1>1, <1>7 DEF Order
<1>9. Head(s) = "transient" => "types" \in Elements(Tail(s))
  BY <1>1 DEF Order
<1> QED BY <1>3, <1>4, <1>5, <1>7, <1>8, <1>9 DEF Order

\* WM_NAME is to be read next.
LEMMA OrderName ==
  ASSUME NEW s \in Seq(Atoms), Order(s), "name" \notin Elements(s)
  PROVE  Order(<<"name">> \o s)
<1> DEFINE t == <<"name">> \o s
<1>1. /\ Elements(t) = {"name"} \cup Elements(s) /\ Len(s) \in Nat /\ DOMAIN s = 1 .. Len(s)
      /\ DOMAIN t = 1 .. Len(s) + 1 /\ t[1] = "name"
      /\ \A i \in 2 .. Len(s) + 1 : t[i] = s[i - 1]
  BY ConsElements DEF Atoms
<1> HIDE DEF t
<1>2. ASSUME NEW i \in DOMAIN t, i # 1
      PROVE  i - 1 \in DOMAIN s /\ t[i] = s[i - 1] /\ i \in Nat
  <2>1. i \in 2 .. Len(s) + 1 BY <1>1, <1>2
  <2> QED BY <2>1, <1>1
<1>3. \A i \in DOMAIN t : t[i] = "name" => i = 1 BY <1>2 DEF Elements
<1>4. ASSUME NEW i \in DOMAIN t, NEW j \in DOMAIN t, t[i] = "types",
             t[j] \in {"transient", "types"}
      PROVE  j <= i
  <2>1. i # 1 /\ j # 1 BY <1>1, <1>4
  <2>2. j - 1 <= i - 1 BY <2>1, <1>2, <1>4 DEF Order
  <2> QED BY <2>1, <2>2, <1>2
<1>5. "transient" \in Elements(t) => "types" \in Elements(t) BY <1>1 DEF Order
<1> QED BY <1>3, <1>4, <1>5 DEF Order, t

\* The readings when a window is created.
LEMMA CreateReadings ==
  /\ AllReadings \in Seq(Atoms) /\ Order(AllReadings)
  /\ Elements(AllReadings) = {"protocols", "netName", "transient", "types", "hints", "opacity"}
<1> DEFINE a == <<"protocols", "netName", "netName", "transient", "types", "hints", "opacity">>
<1>2. a \in Seq(Atoms) /\ DOMAIN a = 1 .. 7 BY DEF Atoms
<1>3. /\ a[1] = "protocols" /\ a[2] = "netName" /\ a[3] = "netName" /\ a[4] = "transient"
      /\ a[5] = "types" /\ a[6] = "hints" /\ a[7] = "opacity"
  OBVIOUS
<1>4. 1 .. 7 = {1, 2, 3, 4, 5, 6, 7} OBVIOUS
<1> HIDE DEF a
<1>5. Elements(a) = {"protocols", "netName", "transient", "types", "hints", "opacity"}
  BY <1>2, <1>3, <1>4 DEF Elements
<1>6. Order(a) BY <1>2, <1>3, <1>4, <1>5 DEF Order
<1> QED BY <1>2, <1>5, <1>6 DEF a, AllReadings

\* The readings that an event calls for.
LEMMA EventReadings ==
  ASSUME NEW atom \in DOMAIN Reading
  PROVE  /\ atom \in {"protocols", "netName", "name", "types", "hints", "opacity"}
         /\ Reading[atom] \in Seq(Atoms) /\ Order(Reading[atom])
         /\ Elements(Reading[atom]) = IF atom = "types" THEN {"transient", "types"}
                                      ELSE IF atom = "name" THEN {"netName"} ELSE {atom}
<1>1. atom \in {"protocols", "netName", "name", "types", "hints", "opacity"}
  BY DEF Reading
<1>2. ASSUME NEW x \in Atoms \ {"transient", "types", "name"}
      PROVE  <<x>> \in Seq(Atoms) /\ Order(<<x>>) /\ Elements(<<x>>) = {x}
  <2>1. <<x>> \in Seq(Atoms) /\ DOMAIN <<x>> = {1} /\ <<x>>[1] = x OBVIOUS
  <2>2. Elements(<<x>>) = {x} BY <2>1 DEF Elements
  <2> QED BY <2>1, <2>2, <1>2 DEF Order
<1>3. CASE atom # "types"
  <2>1. Reading[atom] = IF atom = "name" THEN <<"netName">> ELSE <<atom>> BY <1>1, <1>3 DEF Reading
  <2> QED BY <2>1, <1>1, <1>2, <1>3 DEF Atoms
<1>4. CASE atom = "types"
  <2> DEFINE r == <<"transient", "types">>
  <2>1. Reading[atom] = r BY <1>4 DEF Reading
  <2>2. r \in Seq(Atoms) /\ DOMAIN r = {1, 2} /\ r[1] = "transient" /\ r[2] = "types"
    BY DEF Atoms
  <2> HIDE DEF r
  <2>3. Elements(r) = {"transient", "types"} BY <2>2 DEF Elements
  <2>4. Order(r) BY <2>2, <2>3 DEF Order
  <2> QED BY <2>1, <2>2, <2>3, <2>4, <1>1, <1>4
<1> QED BY <1>3, <1>4

----------------------------------------------------------------------------
(* The inductive invariant *)

LibRecord == [name : Names \cup {None, Garbage}, delete : {0, 1, Garbage},
              type : KnownTypes \cup {Garbage}, transient : Windows \cup {None, Garbage},
              hints : Settings \cup {Garbage}, opacity : Settings \cup {None}]

Event == [type : {"property", "gone"}, w : Windows, atom : Atoms \cup {"none"}]

\* A window in the list, or about to be.
Live(w) == w \in managed \/ (task = "create" /\ cur = w)

WTypes ==
  /\ prop \in [Windows -> [Atoms -> UNION {Values(a) : a \in Atoms}]]
  /\ \A w \in Windows, a \in Atoms : prop[w][a] \in Values(a)
  /\ alive \subseteq Windows /\ born \subseteq Windows
  /\ selected \subseteq born /\ managed \subseteq born
  /\ queue \in Seq(Event)
  /\ changes \in 0 .. MaxChanges
  /\ DOMAIN lib = Windows /\ lib \in [Windows -> LibRecord \cup {None}]
  /\ \A w \in born : lib[w] \in LibRecord
  /\ task \in {"none", "create"} \cup DOMAIN Reading
  /\ todo \in Seq(Atoms) /\ Order(todo)
  /\ task = "none" => todo = <<>>
  /\ task # "none" => cur \in born /\ Live(cur)
  /\ task = "create" => cur \notin managed
  /\ \A w \in Windows : Live(w) => w \in selected

\* The readings of a window that are still to be made.
Pending(w) == IF cur = w THEN Elements(todo) ELSE {}

\* Nothing that malloc left is in a window that is listed.
Made ==
  \A w \in Windows : Live(w) =>
    /\ lib[w].name = Garbage => task = "create" /\ Pending(w) \cap {"netName", "name"} # {}
    /\ lib[w].type = Garbage \/ lib[w].transient = Garbage =>
         task = "create" /\ "transient" \in Pending(w)

\* News of some of the properties of w is under way.
PropertyEvent(w, a) == [type |-> "property", w |-> w, atom |-> a]
Told(w, A) == \E a \in A : PropertyEvent(w, a) \in Elements(queue)
News(w, A) == Told(w, A) \/ Pending(w) \cap A # {}

NameNow(w) == lib[w].name = IF prop[w].netName # None THEN prop[w].netName ELSE prop[w].name
TypeNow(w) == LET types == prop[w].types IN
                IF KnownIn(types) = {} THEN lib[w].type \in {"NORMAL", "DIALOG"}
                                       ELSE lib[w].type = types[First(KnownIn(types))]

NameAgrees(w) ==
  /\ News(w, {"netName", "name"}) \/ NameNow(w)
  /\ "name" \in Pending(w) => News(w, {"netName"}) \/ prop[w].netName = None
TypeAgrees(w) ==
  /\ News(w, {"types"}) \/ TypeNow(w)
  /\ "types" \in Pending(w) /\ "transient" \notin Pending(w) =>
       lib[w].type \in {"NORMAL", "DIALOG"}
SettingAgrees(w, a) == News(w, {a}) \/ prop[w][a] = None \/ lib[w][a] = prop[w][a]
CloseAgrees(w) == News(w, {"protocols"}) \/ prop[w].protocols # "delete" \/ lib[w].delete = 1

Agree(w) == /\ NameAgrees(w) /\ TypeAgrees(w) /\ CloseAgrees(w)
            /\ SettingAgrees(w, "hints") /\ SettingAgrees(w, "opacity")

WInv == WTypes /\ Made /\ \A w \in alive : Live(w) => Agree(w)

----------------------------------------------------------------------------
(* Values *)

\* First is what it says.
LEMMA FirstIs ==
  ASSUME NEW S \in SUBSET Nat, S # {}
  PROVE  First(S) \in S
<1>1. PICK c \in S : \A d \in S : ~(<<d, c>> \in OpToRel(<, Nat))
  BY NatLessThanWellFounded, WFMin
<1>2. S \subseteq Nat OBVIOUS
<1>3. \A d \in S : c <= d
  <2>1. ASSUME NEW d \in S PROVE c <= d
    <3>1. d \in Nat /\ c \in Nat BY <1>2
    <3>2. d < c => <<d, c>> \in OpToRel(<, Nat) BY <3>1 DEF OpToRel
    <3>3. ~(d < c) BY <1>1, <3>2
    <3> QED BY <3>1, <3>3
  <2> QED BY <2>1
<1> QED BY <1>1, <1>3 DEF First

\* The first type of a list that the library knows is one it knows.
LEMMA FirstKnown ==
  ASSUME NEW types \in TypeLists, KnownIn(types) # {}
  PROVE  types[First(KnownIn(types))] \in KnownTypes
<1>1. types # None /\ types \in Seq(STRING) BY PropsAssumption
<1>2. KnownIn(types) \subseteq Nat /\ \A i \in KnownIn(types) : types[i] \in KnownTypes
  BY <1>1 DEF KnownIn
<1> QED BY <1>2, FirstIs

\* What each property may hold.
LEMMA PropValues ==
  ASSUME WTypes, NEW w \in Windows
  PROVE  /\ prop[w].protocols \in {None, "other", "delete"}
         /\ prop[w].netName \in Names \cup {None} /\ prop[w].name \in Names \cup {None}
         /\ prop[w].transient \in Windows \cup {None}
         /\ prop[w].types \in TypeLists \cup {None}
         /\ prop[w].hints \in Settings \cup {None} /\ prop[w].opacity \in Settings \cup {None}
<1>1. \A a \in Atoms : prop[w][a] \in Values(a) BY DEF WTypes
<1>2. /\ Values("protocols") = {None, "other", "delete"}
      /\ Values("netName") = Names \cup {None} /\ Values("name") = Names \cup {None}
      /\ Values("transient") = Windows \cup {None} /\ Values("types") = TypeLists \cup {None}
      /\ Values("hints") = Settings \cup {None} /\ Values("opacity") = Settings \cup {None}
  BY DEF Values
<1> QED BY <1>1, <1>2 DEF Atoms

\* The same for what a reading returns, and that of a live window is what it has.
LEMMA ReadValues ==
  ASSUME WTypes, cur \in Windows
  PROVE  /\ Value("protocols") \in {None, "other", "delete"}
         /\ Value("netName") \in Names \cup {None} /\ Value("name") \in Names \cup {None}
         /\ Value("transient") \in Windows \cup {None}
         /\ Value("types") \in TypeLists \cup {None}
         /\ Value("hints") \in Settings \cup {None} /\ Value("opacity") \in Settings \cup {None}
BY PropValues DEF Value

----------------------------------------------------------------------------
(* One reading *)

\* What every reading leaves alone, and for which window it is made.
LEMMA ReadingOf ==
  ASSUME WTypes, Readings
  PROVE  /\ task # "none" /\ cur \in born /\ cur \in Windows /\ Live(cur)
         /\ lib[cur] \in LibRecord
         /\ todo # <<>> /\ Head(todo) \in Atoms /\ Tail(todo) \in Seq(Atoms)
         /\ Elements(todo) = {Head(todo)} \cup Elements(Tail(todo))
         /\ Order(Tail(todo)) /\ "name" \notin Elements(Tail(todo))
         /\ UNCHANGED <<prop, alive, selected, queue, changes, managed, born, task, cur>>
<1>1. /\ todo # <<>>
      /\ UNCHANGED <<prop, alive, selected, queue, changes, managed, born, task, cur>>
  BY DEF Readings, ReadProtocols, ReadNetName, ReadName, ReadTransient, ReadTypes, ReadSetting,
     Read, ReadMore, serverVars
<1>2. task # "none" BY <1>1 DEF WTypes
<1>3. cur \in born /\ cur \in Windows /\ Live(cur) /\ lib[cur] \in LibRecord
  BY <1>2 DEF WTypes
<1>4. todo \in Seq(Atoms) /\ Order(todo) BY DEF WTypes
<1> QED BY <1>1, <1>2, <1>3, <1>4, TailElements, OrderTail

\* The field that a reading stores, and that it stores no other.
LEMMA ReadingStores ==
  ASSUME WTypes, Readings
  PROVE  /\ DOMAIN lib' = Windows /\ lib' \in [Windows -> LibRecord \cup {None}]
         /\ \A w \in born : lib'[w] \in LibRecord
         /\ \A w \in Windows \ {cur} : lib'[w] = lib[w]
         /\ Head(todo) \notin {"netName", "name"} => lib'[cur].name = lib[cur].name
         /\ Head(todo) \notin {"transient", "types"} => lib'[cur].type = lib[cur].type
         /\ Head(todo) # "transient" => lib'[cur].transient = lib[cur].transient
         /\ Head(todo) # "protocols" => lib'[cur].delete = lib[cur].delete
         /\ \A a \in {"hints", "opacity"} : Head(todo) # a => lib'[cur][a] = lib[cur][a]
<1>1. cur \in born /\ cur \in Windows /\ lib[cur] \in LibRecord /\ lib \in [Windows -> LibRecord \cup {None}]
      /\ DOMAIN lib = Windows /\ \A w \in born : lib[w] \in LibRecord
  BY ReadingOf DEF WTypes
<1>2. CASE UNCHANGED lib BY <1>1, <1>2
<1>3. ASSUME NEW field \in {"name", "delete", "type", "hints", "opacity"}, NEW v, Store(field, v),
             [lib[cur] EXCEPT ![field] = v] \in LibRecord
      PROVE  /\ DOMAIN lib' = Windows /\ lib' \in [Windows -> LibRecord \cup {None}]
             /\ \A w \in born : lib'[w] \in LibRecord
             /\ \A w \in Windows \ {cur} : lib'[w] = lib[w]
             /\ \A f \in {"name", "delete", "type", "transient", "hints", "opacity"} \ {field} :
                  lib'[cur][f] = lib[cur][f]
  <2>1. lib' = [lib EXCEPT ![cur] = [lib[cur] EXCEPT ![field] = v]] BY <1>3 DEF Store
  <2>2. DOMAIN lib' = Windows /\ lib'[cur] = [lib[cur] EXCEPT ![field] = v]
        /\ \A w \in Windows \ {cur} : lib'[w] = lib[w]
    BY <2>1, <1>1
  <2>3. lib' \in [Windows -> LibRecord \cup {None}] BY <2>1, <1>1, <1>3
  <2>4. \A w \in born : lib'[w] \in LibRecord BY <2>2, <1>1, <1>3 DEF WTypes
  <2>5. \A f \in {"name", "delete", "type", "transient", "hints", "opacity"} \ {field} :
          lib'[cur][f] = lib[cur][f]
    BY <2>2, <1>1 DEF LibRecord
  <2> QED BY <2>2, <2>3, <2>4, <2>5
<1>4. ASSUME NEW field \in {"name", "delete", "type", "hints", "opacity"}, NEW v, Store(field, v),
             \/ field = "name" /\ v \in Names \cup {None} /\ Head(todo) \in {"netName", "name"}
             \/ field = "delete" /\ v \in {0, 1} /\ Head(todo) = "protocols"
             \/ field = "type" /\ v \in KnownTypes /\ Head(todo) = "types"
             \/ field \in {"hints", "opacity"} /\ v \in Settings /\ Head(todo) = field
      PROVE  /\ DOMAIN lib' = Windows /\ lib' \in [Windows -> LibRecord \cup {None}]
             /\ \A w \in born : lib'[w] \in LibRecord
             /\ \A w \in Windows \ {cur} : lib'[w] = lib[w]
             /\ Head(todo) \notin {"netName", "name"} => lib'[cur].name = lib[cur].name
             /\ Head(todo) \notin {"transient", "types"} => lib'[cur].type = lib[cur].type
             /\ Head(todo) # "transient" => lib'[cur].transient = lib[cur].transient
             /\ Head(todo) # "protocols" => lib'[cur].delete = lib[cur].delete
             /\ \A a \in {"hints", "opacity"} : Head(todo) # a => lib'[cur][a] = lib[cur][a]
  <2>1. [lib[cur] EXCEPT ![field] = v] \in LibRecord
    <3>1. CASE field = "name" BY <3>1, <1>1, <1>4 DEF LibRecord
    <3>2. CASE field = "delete" BY <3>2, <1>1, <1>4 DEF LibRecord
    <3>3. CASE field = "type" BY <3>3, <1>1, <1>4 DEF LibRecord
    <3>4. CASE field = "hints" BY <3>4, <1>1, <1>4 DEF LibRecord
    <3>5. CASE field = "opacity" BY <3>5, <1>1, <1>4 DEF LibRecord
    <3> QED BY <1>4, <3>1, <3>2, <3>3, <3>4, <3>5
  <2>2. /\ DOMAIN lib' = Windows /\ lib' \in [Windows -> LibRecord \cup {None}]
        /\ \A w \in born : lib'[w] \in LibRecord
        /\ \A w \in Windows \ {cur} : lib'[w] = lib[w]
        /\ \A f \in {"name", "delete", "type", "transient", "hints", "opacity"} \ {field} :
             lib'[cur][f] = lib[cur][f]
    BY <2>1, <1>3, <1>4
  <2> QED BY <2>2, <1>4
<1>5. CASE ReadTransient
  <2> DEFINE t == Value("transient")
             tr == IF t \in managed THEN t ELSE None
             ty == IF t = None THEN "NORMAL" ELSE "DIALOG"
             r == [[lib[cur] EXCEPT !.transient = tr] EXCEPT !.type = ty]
  <2>1. tr \in Windows \cup {None} /\ ty \in KnownTypes
    BY <1>1, PropsAssumption, ReadValues
  <2>2. lib' = [lib EXCEPT ![cur] = r] BY <1>1, <1>5 DEF ReadTransient
  <2> HIDE DEF tr, ty
  <2>3. r \in LibRecord BY <2>1, <1>1 DEF LibRecord
  <2>4. /\ r.name = lib[cur].name /\ r.delete = lib[cur].delete
        /\ \A a \in {"hints", "opacity"} : r[a] = lib[cur][a]
    BY <1>1 DEF LibRecord
  <2> HIDE DEF r
  <2>5. /\ DOMAIN lib' = Windows /\ lib' \in [Windows -> LibRecord \cup {None}]
        /\ lib'[cur] = r /\ \A w \in Windows \ {cur} : lib'[w] = lib[w]
    BY <2>2, <2>3, <1>1
  <2>6. \A w \in born : lib'[w] \in LibRecord BY <2>3, <2>5, <1>1 DEF WTypes
  <2>7. Head(todo) = "transient" BY <1>5 DEF ReadTransient, Read
  <2> QED BY <2>4, <2>5, <2>6, <2>7
<1>6. CASE ReadProtocols
  <2>1. Store("delete", 0) \/ Store("delete", 1) \/ UNCHANGED lib
    BY <1>1, <1>6, ReadValues, PropsAssumption DEF ReadProtocols
  <2> QED BY <2>1, <1>2, <1>4, <1>6 DEF ReadProtocols, Read
<1>7. CASE ReadNetName
  <2>1. Store("name", Value("netName")) \/ UNCHANGED lib BY <1>7 DEF ReadNetName
  <2> QED BY <2>1, <1>1, <1>2, <1>4, <1>7, ReadValues DEF ReadNetName, Read
<1>8. CASE ReadName
  <2>1. Store("name", Value("name")) BY <1>8 DEF ReadName
  <2> QED BY <2>1, <1>1, <1>4, <1>8, ReadValues DEF ReadName, Read
<1>9. CASE ReadTypes
  <2> DEFINE ts == Value("types")
  <2>1. CASE KnownIn(ts) = {} BY <2>1, <1>2, <1>9 DEF ReadTypes
  <2>2. CASE KnownIn(ts) # {}
    <3>1. ts \in TypeLists BY <2>2, <1>1, ReadValues DEF KnownIn
    <3>2. ts[First(KnownIn(ts))] \in KnownTypes BY <2>2, <3>1, FirstKnown
    <3>3. Store("type", ts[First(KnownIn(ts))]) BY <2>2, <1>9 DEF ReadTypes
    <3> QED BY <3>2, <3>3, <1>4, <1>9 DEF ReadTypes, Read
  <2> QED BY <2>1, <2>2
<1>10. ASSUME NEW a \in {"hints", "opacity"}, ReadSetting(a)
       PROVE  UNCHANGED lib \/ (Store(a, Value(a)) /\ Value(a) \in Settings /\ Head(todo) = a)
  BY <1>1, <1>10, ReadValues DEF ReadSetting, Read
<1>11. CASE ReadSetting("hints") BY <1>2, <1>4, <1>10, <1>11
<1>12. CASE ReadSetting("opacity") BY <1>2, <1>4, <1>10, <1>12
<1> QED BY <1>5, <1>6, <1>7, <1>8, <1>9, <1>11, <1>12 DEF Readings

----------------------------------------------------------------------------
(* The applications *)

PropTypes == /\ prop \in [Windows -> [Atoms -> UNION {Values(a) : a \in Atoms}]]
             /\ \A w \in Windows, a \in Atoms : prop[w][a] \in Values(a)

\* An application changes one property of a window, which is told if it is asked for.
LEMMA ChangeStep ==
  ASSUME WTypes, NEW w \in Windows, NEW a \in Atoms, ChangeProperty(w, a)
  PROVE  /\ PropTypes' /\ queue' \in Seq(Event) /\ changes' \in 0 .. MaxChanges
         /\ UNCHANGED <<alive, selected, lib, threadVars>> /\ w \in alive
         /\ \A x \in Windows \ {w} : prop'[x] = prop[x]
         /\ \A b \in Atoms \ {a} : prop'[w][b] = prop[w][b]
         /\ Elements(queue) \subseteq Elements(queue')
         /\ w \in selected => PropertyEvent(w, a) \in Elements(queue')
<1>1. PICK v \in Values(a) : prop' = [prop EXCEPT ![w][a] = v]
  BY DEF ChangeProperty
<1>2. UNCHANGED <<alive, selected, lib, threadVars>> /\ w \in alive /\ changes' \in 0 .. MaxChanges
  BY PropsAssumption DEF ChangeProperty, WTypes
<1>3. /\ \A x \in Windows \ {w} : prop'[x] = prop[x]
      /\ \A b \in Atoms \ {a} : prop'[w][b] = prop[w][b]
      /\ prop'[w][a] = v
      /\ prop' \in [Windows -> [Atoms -> UNION {Values(b) : b \in Atoms}]]
  <2> DEFINE V == UNION {Values(b) : b \in Atoms}
  <2>1. v \in V OBVIOUS
  <2>2. prop \in [Windows -> [Atoms -> V]] BY DEF WTypes
  <2> HIDE DEF V
  <2>3. /\ prop' \in [Windows -> [Atoms -> V]] /\ prop'[w][a] = v
        /\ \A x \in Windows \ {w} : prop'[x] = prop[x]
        /\ \A b \in Atoms \ {a} : prop'[w][b] = prop[w][b]
    BY <1>1, <2>1, <2>2
  <2> QED BY <2>3 DEF V
<1>4. \A x \in Windows, b \in Atoms : prop'[x][b] \in Values(b)
  <2>1. \A x \in Windows, b \in Atoms : prop[x][b] \in Values(b) BY DEF WTypes
  <2> QED BY <1>1, <1>3, <2>1
<1>5. PropTypes' BY <1>3, <1>4 DEF PropTypes
<1>6. PropertyEvent(w, a) \in Event /\ queue \in Seq(Event)
  BY DEF PropertyEvent, Event, WTypes
<1>7. queue' = IF w \in selected THEN Append(queue, PropertyEvent(w, a)) ELSE queue
  BY DEF ChangeProperty, Changed, PropertyEvent
<1>8. /\ queue' \in Seq(Event) /\ Elements(queue) \subseteq Elements(queue')
      /\ w \in selected => PropertyEvent(w, a) \in Elements(queue')
  BY <1>6, <1>7, AppendElements
<1> QED BY <1>2, <1>3, <1>5, <1>8

\* A window is destroyed, by its application or by a request to close it; or the
\* application lets such a request pass.
LEMMA GoneStep ==
  ASSUME WTypes, NEW w \in Windows, DestroyWindow(w) \/ RequestClose(w)
  PROVE  /\ UNCHANGED <<prop, selected, lib, threadVars>> /\ alive' \subseteq alive
         /\ queue' \in Seq(Event) /\ changes' \in 0 .. MaxChanges
         /\ Elements(queue) \subseteq Elements(queue')
<1>1. /\ UNCHANGED <<prop, selected, lib, threadVars>> /\ changes' \in 0 .. MaxChanges
      /\ Gone(w) \/ UNCHANGED <<alive, queue>>
  BY PropsAssumption DEF DestroyWindow, RequestClose, WTypes
<1>2. CASE Gone(w)
  <2>1. [type |-> "gone", w |-> w, atom |-> "none"] \in Event /\ queue \in Seq(Event)
    BY DEF Event, WTypes
  <2> QED BY <1>1, <1>2, <2>1, AppendElements DEF Gone
<1>3. CASE UNCHANGED <<alive, queue>> BY <1>1, <1>3 DEF WTypes
<1> QED BY <1>1, <1>2, <1>3

\* The event thread takes an event from the queue.
LEMMA TakeEvent ==
  ASSUME WTypes, queue # <<>>
  PROVE  /\ Head(queue) \in Event /\ Tail(queue) \in Seq(Event)
         /\ Elements(queue) = {Head(queue)} \cup Elements(Tail(queue))
BY TailElements DEF WTypes

----------------------------------------------------------------------------
(* Types *)

\* Every step keeps the types and what they say of the event thread's task.
LEMMA WTypesStep == WTypes /\ [Next]_vars => WTypes'
<1> SUFFICES ASSUME WTypes, [Next]_vars PROVE WTypes'
  OBVIOUS
<1>1. ASSUME UNCHANGED <<selected, lib, threadVars>>, PropTypes', alive' \subseteq alive,
             queue' \in Seq(Event), changes' \in 0 .. MaxChanges
      PROVE  WTypes'
  BY <1>1 DEF WTypes, PropTypes, threadVars, Live
<1>2. PropTypes BY DEF WTypes, PropTypes
<1>3. ASSUME NEW w \in Windows, NEW a \in Atoms, ChangeProperty(w, a) PROVE WTypes'
  BY <1>1, <1>3, ChangeStep
<1>4. ASSUME NEW w \in Windows, DestroyWindow(w) \/ RequestClose(w) PROVE WTypes'
  <2>1. PropTypes' BY <1>2, <1>4, GoneStep DEF PropTypes
  <2> QED BY <1>1, <1>4, <2>1, GoneStep
<1>5. ASSUME NEW w \in Windows, StartCreate(w) PROVE WTypes'
  <2>1. PICK delete \in {0, 1, Garbage} : lib' = [lib EXCEPT ![w] = Malloced(delete)]
    BY <1>5 DEF StartCreate
  <2>2. Malloced(delete) \in LibRecord BY DEF Malloced, LibRecord
  <2>3. /\ w \in alive /\ w \notin born /\ task = "none" /\ born' = born \cup {w}
        /\ selected' = selected \cup {w} /\ task' = "create" /\ cur' = w
        /\ todo' = AllReadings /\ UNCHANGED <<prop, alive, queue, changes, managed>>
    BY <1>5 DEF StartCreate
  <2>4. /\ DOMAIN lib' = Windows /\ lib' \in [Windows -> LibRecord \cup {None}]
        /\ \A x \in born' : lib'[x] \in LibRecord
    BY <2>1, <2>2, <2>3 DEF WTypes
  <2>5. \A x \in Windows : Live(x)' => x \in selected' BY <2>3 DEF WTypes, Live
  <2>6. todo' \in Seq(Atoms) /\ Order(todo') BY <2>3, CreateReadings
  <2>7. PropTypes' BY <1>2, <2>3 DEF PropTypes
  <2>8. Live(cur)' /\ cur' \in born' /\ cur' \notin managed' BY <2>3 DEF Live, WTypes
  <2>9. /\ alive' \subseteq Windows /\ born' \subseteq Windows
        /\ selected' \subseteq born' /\ managed' \subseteq born'
        /\ queue' \in Seq(Event) /\ changes' \in 0 .. MaxChanges
    BY <2>3 DEF WTypes
  <2> QED BY <2>3, <2>4, <2>5, <2>6, <2>7, <2>8, <2>9 DEF WTypes, PropTypes
<1>6. CASE Finish
  <2>1. /\ task # "none" /\ todo = <<>> /\ task' = "none"
        /\ managed' = IF task = "create" THEN managed \cup {cur} ELSE managed
        /\ UNCHANGED <<prop, alive, selected, queue, changes, lib, born, cur, todo>>
    BY <1>6 DEF Finish, serverVars
  <2>2. managed' \subseteq born' BY <2>1 DEF WTypes
  <2>3. \A x \in Windows : Live(x)' => x \in selected' BY <2>1 DEF WTypes, Live
  <2> QED BY <2>1, <2>2, <2>3 DEF WTypes
<1>7. CASE HandlePropertyNotify
  <2>1. /\ task = "none" /\ queue # <<>> /\ queue' = Tail(queue)
        /\ UNCHANGED <<prop, alive, selected, changes, lib, managed, born>>
    BY <1>7 DEF HandlePropertyNotify, serverVars
  <2>2. queue' \in Seq(Event) BY <2>1, TakeEvent
  <2> DEFINE e == Head(queue)
  <2>3. CASE e.w \in managed /\ e.atom \in DOMAIN Reading
    <3>1. task' = e.atom /\ cur' = e.w /\ todo' = Reading[e.atom]
      BY <2>3, <1>7 DEF HandlePropertyNotify
    <3>2. e.atom \in DOMAIN Reading /\ e.atom \notin {"none", "create"} BY <2>3, EventReadings
    <3>3. todo' \in Seq(Atoms) /\ Order(todo') BY <3>1, <3>2, EventReadings
    <3>4. cur' \in born' /\ Live(cur)' BY <2>1, <2>3, <3>1 DEF WTypes, Live
    <3>5. \A x \in Windows : Live(x)' => x \in selected' BY <2>1, <3>1, <3>2 DEF WTypes, Live
    <3> HIDE DEF e
    <3> QED BY <2>1, <2>2, <3>1, <3>2, <3>3, <3>4, <3>5 DEF WTypes
  <2>4. CASE ~(e.w \in managed /\ e.atom \in DOMAIN Reading)
    <3>1. UNCHANGED <<task, cur, todo>> BY <2>4, <1>7 DEF HandlePropertyNotify
    <3> QED BY <2>1, <2>2, <3>1 DEF WTypes, Live
  <2> QED BY <2>3, <2>4
<1>8. CASE HandleGone
  <2>1. /\ task = "none" /\ queue # <<>> /\ queue' = Tail(queue) /\ managed' \subseteq managed
        /\ UNCHANGED <<prop, alive, selected, changes, lib, born, task, cur, todo>>
    BY <1>8 DEF HandleGone, serverVars
  <2>2. queue' \in Seq(Event) BY <2>1, TakeEvent
  <2> QED BY <2>1, <2>2 DEF WTypes, Live
<1>9. CASE Readings
  <2>1. /\ task # "none" /\ cur \in born /\ Live(cur) /\ Tail(todo) \in Seq(Atoms)
        /\ Order(Tail(todo)) /\ "name" \notin Elements(Tail(todo))
        /\ UNCHANGED <<prop, alive, selected, queue, changes, managed, born, task, cur>>
    BY <1>9, ReadingOf
  <2>2. todo' = Tail(todo) \/ todo' = <<"name">> \o Tail(todo)
    BY <1>9 DEF Readings, ReadProtocols, ReadNetName, ReadName, ReadTransient, ReadTypes,
       ReadSetting
  <2>3. todo' \in Seq(Atoms) /\ Order(todo')
    <3>1. "name" \in Atoms BY DEF Atoms
    <3>2. Tail(todo) \in Seq(Atoms) /\ Order(Tail(todo)) /\ "name" \notin Elements(Tail(todo))
      BY <2>1
    <3> DEFINE s == Tail(todo)
               t == <<"name">> \o s
    <3> HIDE DEF s
    <3>3. t \in Seq(Atoms) BY <3>1, <3>2, ConsElements DEF s
    <3>4. Order(t) BY <3>2, OrderName DEF s
    <3> HIDE DEF t
    <3>5. todo' = s \/ todo' = t BY <2>2 DEF s, t
    <3> QED BY <3>2, <3>3, <3>4, <3>5 DEF s
  <2>4. /\ DOMAIN lib' = Windows /\ lib' \in [Windows -> LibRecord \cup {None}]
        /\ \A w \in born : lib'[w] \in LibRecord
    BY <1>9, ReadingStores
  <2> QED BY <2>1, <2>3, <2>4 DEF WTypes, Live
<1>10. CASE UNCHANGED vars
  <2>1. UNCHANGED <<prop, alive, selected, queue, changes, lib, threadVars>>
    BY <1>10 DEF vars, serverVars
  <2>2. PropTypes' BY <1>2, <2>1 DEF PropTypes
  <2> QED BY <1>1, <2>1, <2>2 DEF WTypes
<1> QED BY <1>3, <1>4, <1>5, <1>6, <1>7, <1>8, <1>9, <1>10 DEF Next, Applications, EventThread

----------------------------------------------------------------------------
(* What malloc left *)

\* A reading stores its value.
LEMMA StoreValue ==
  ASSUME WTypes, cur \in born, NEW v,
         NEW field \in {"name", "delete", "type", "transient", "hints", "opacity"},
         Store(field, v)
  PROVE  lib'[cur][field] = v
<1>1. lib[cur] \in LibRecord /\ DOMAIN lib = Windows /\ cur \in Windows BY DEF WTypes
<1>2. lib'[cur] = [lib[cur] EXCEPT ![field] = v] BY <1>1 DEF Store
<1> QED BY <1>1, <1>2 DEF LibRecord

\* What the first of the two readings of the type stores.
LEMMA TransientValue ==
  ASSUME WTypes, cur \in born, ReadTransient
  PROVE  /\ lib'[cur].transient \in Windows \cup {None}
         /\ lib'[cur].type \in {"NORMAL", "DIALOG"}
<1> DEFINE t == Value("transient")
           tr == IF t \in managed THEN t ELSE None
           ty == IF t = None THEN "NORMAL" ELSE "DIALOG"
<1>1. lib[cur] \in LibRecord /\ DOMAIN lib = Windows /\ cur \in Windows BY DEF WTypes
<1>2. lib'[cur] = [[lib[cur] EXCEPT !.transient = tr] EXCEPT !.type = ty]
  BY <1>1 DEF ReadTransient
<1>3. tr \in Windows \cup {None} /\ ty \in {"NORMAL", "DIALOG"} BY <1>1, ReadValues
<1> HIDE DEF tr, ty
<1> QED BY <1>1, <1>2, <1>3 DEF LibRecord

\* No reading is pending for another window than the one at hand, and none when the
\* event thread has no task.
LEMMA PendingNone ==
  ASSUME NEW w
  PROVE  (cur # w \/ todo = <<>>) => Pending(w) = {}
<1>1. Elements(<<>>) = {} BY DEF Elements
<1> QED BY <1>1 DEF Pending

\* The readings that are pending after one.
LEMMA PendingNext ==
  ASSUME WTypes, Readings
  PROVE  /\ Pending(cur) = {Head(todo)} \cup Elements(Tail(todo))
         /\ \/ todo' = Tail(todo) /\ Pending(cur)' = Elements(Tail(todo))
            \/ /\ Head(todo) = "netName" /\ Value("netName") = None
               /\ Pending(cur)' = {"name"} \cup Elements(Tail(todo))
         /\ \A w \in Windows \ {cur} : Pending(w) = {} /\ Pending(w)' = {}
<1>1. /\ Elements(todo) = {Head(todo)} \cup Elements(Tail(todo))
      /\ Tail(todo) \in Seq(Atoms) /\ cur' = cur
  BY ReadingOf
<1>2. \/ todo' = Tail(todo)
      \/ Head(todo) = "netName" /\ Value("netName") = None /\ todo' = <<"name">> \o Tail(todo)
  BY DEF Readings, ReadProtocols, ReadNetName, ReadName, ReadTransient, ReadTypes, ReadSetting,
     Read
<1>3. "name" \in Atoms BY DEF Atoms
<1>4. Elements(<<"name">> \o Tail(todo)) = {"name"} \cup Elements(Tail(todo))
  BY <1>1, <1>3, ConsElements
<1>5. \A w \in Windows \ {cur} : Pending(w) = {} /\ Pending(w)' = {} BY <1>1 DEF Pending
<1>6. Pending(cur) = Elements(todo) /\ Pending(cur)' = Elements(todo') BY <1>1 DEF Pending
<1> QED BY <1>1, <1>2, <1>4, <1>5, <1>6

\* A window that is listed was made in full before.
LEMMA MadeStep == WTypes /\ WTypes' /\ Made /\ [Next]_vars => Made'
<1> SUFFICES ASSUME WTypes, WTypes', Made, [Next]_vars, NEW w \in Windows, Live(w)'
             PROVE  /\ lib'[w].name = Garbage =>
                         task' = "create" /\ Pending(w)' \cap {"netName", "name"} # {}
                    /\ lib'[w].type = Garbage \/ lib'[w].transient = Garbage =>
                         task' = "create" /\ "transient" \in Pending(w)'
  BY DEF Made
<1>1. ASSUME Live(w), UNCHANGED <<lib, task, cur, todo>>
      PROVE  /\ lib'[w].name = Garbage =>
                  task' = "create" /\ Pending(w)' \cap {"netName", "name"} # {}
             /\ lib'[w].type = Garbage \/ lib'[w].transient = Garbage =>
                  task' = "create" /\ "transient" \in Pending(w)'
  BY <1>1 DEF Made, Pending
<1>2. ASSUME Live(w), lib'[w] = lib[w], task # "create" \/ Pending(w) = {}
      PROVE  lib'[w].name # Garbage /\ lib'[w].type # Garbage /\ lib'[w].transient # Garbage
  BY <1>2 DEF Made
<1>3. ASSUME NEW x \in Windows, NEW a \in Atoms, ChangeProperty(x, a)
      PROVE  Live(w) /\ UNCHANGED <<lib, task, cur, todo>>
  BY <1>3, ChangeStep DEF Live, threadVars
<1>4. ASSUME NEW x \in Windows, DestroyWindow(x) \/ RequestClose(x)
      PROVE  Live(w) /\ UNCHANGED <<lib, task, cur, todo>>
  BY <1>4, GoneStep DEF Live, threadVars
<1>5. ASSUME NEW x \in Windows, StartCreate(x)
      PROVE  /\ lib'[w].name = Garbage =>
                  task' = "create" /\ Pending(w)' \cap {"netName", "name"} # {}
             /\ lib'[w].type = Garbage \/ lib'[w].transient = Garbage =>
                  task' = "create" /\ "transient" \in Pending(w)'
  <2>1. task = "none" /\ task' = "create" /\ cur' = x /\ todo' = AllReadings
        /\ managed' = managed
    BY <1>5 DEF StartCreate
  <2>2. CASE w = x BY <2>1, <2>2, CreateReadings DEF Pending
  <2>3. CASE w # x
    <3>1. Live(w) BY <2>1, <2>3 DEF Live
    <3>2. lib'[w] = lib[w] BY <1>5, <2>3 DEF StartCreate, WTypes
    <3> QED BY <2>1, <3>1, <3>2, <1>2
  <2> QED BY <2>2, <2>3
<1>6. CASE Finish
  <2>1. /\ task # "none" /\ todo = <<>> /\ lib' = lib
        /\ managed' = IF task = "create" THEN managed \cup {cur} ELSE managed
        /\ task' = "none"
    BY <1>6 DEF Finish
  <2>2. Live(w) BY <2>1 DEF Live
  <2> QED BY <2>1, <2>2, <1>2, PendingNone
<1>7. CASE HandlePropertyNotify
  <2>1. task = "none" /\ lib' = lib /\ managed' = managed
    BY <1>7 DEF HandlePropertyNotify
  <2>2. task' # "create"
    <3>1. task' = task \/ task' \in DOMAIN Reading BY <1>7 DEF HandlePropertyNotify
    <3> QED BY <2>1, <3>1, EventReadings
  <2>3. Live(w) BY <2>1, <2>2 DEF Live
  <2> QED BY <2>1, <2>3, <1>2
<1>8. CASE HandleGone
  <2>1. Live(w) /\ UNCHANGED <<lib, task, cur, todo>> BY <1>8 DEF HandleGone, Live
  <2> QED BY <2>1, <1>1
<1>9. CASE Readings
  <2>1. task' = task /\ cur' = cur /\ managed' = managed /\ cur \in born /\ cur \in Windows
    BY <1>9, ReadingOf
  <2>2. Live(w) BY <2>1 DEF Live
  <2>3. CASE w # cur
    <3>1. lib'[w] = lib[w] BY <2>3, <1>9, ReadingStores
    <3>2. Pending(w) = {} BY <2>3, PendingNone
    <3> QED BY <2>2, <3>1, <3>2, <1>2
  <2>4. CASE w = cur
    <3>1. Pending(w) = {Head(todo)} \cup Elements(Tail(todo))
          /\ Elements(Tail(todo)) \subseteq Pending(w)'
      <4>1. Pending(cur) = {Head(todo)} \cup Elements(Tail(todo))
            /\ Elements(Tail(todo)) \subseteq Pending(cur)'
        BY <1>9, PendingNext
      <4>2. Pending(w) = Pending(cur) /\ Pending(w)' = Pending(cur)' BY <2>1, <2>4 DEF Pending
      <4> QED BY <4>1, <4>2
    <3>2. lib[w].name = Garbage => task = "create" /\ Pending(w) \cap {"netName", "name"} # {}
      BY <2>2 DEF Made
    <3>3. lib[w].type = Garbage \/ lib[w].transient = Garbage =>
            task = "create" /\ "transient" \in Pending(w)
      BY <2>2 DEF Made
    <3>4. lib'[w].name = Garbage =>
            task' = "create" /\ Pending(w)' \cap {"netName", "name"} # {}
      <4>1. CASE Head(todo) \notin {"netName", "name"}
        <5>1. lib'[w].name = lib[w].name BY <1>9, <2>4, <4>1, ReadingStores
        <5> QED BY <5>1, <4>1, <3>1, <3>2, <2>1
      <4>2. CASE Head(todo) \in {"netName", "name"}
        <5>1. ReadNetName \/ ReadName
          BY <1>9, <4>2 DEF Readings, ReadProtocols, ReadTransient, ReadTypes, ReadSetting, Read
        <5>2. CASE ReadName
          <6>1. Store("name", Value("name")) BY <5>2 DEF ReadName
          <6>2. lib'[w].name = Value("name") BY <6>1, <2>1, <2>4, StoreValue
          <6>3. lib'[w].name # Garbage BY <6>2, <2>1, ReadValues, PropsAssumption
          <6> QED BY <6>3
        <5>3. CASE ReadNetName
          <6>1. CASE Value("netName") # None
            <7>1. Store("name", Value("netName")) BY <5>3, <6>1 DEF ReadNetName
            <7>2. lib'[w].name = Value("netName") BY <7>1, <2>1, <2>4, StoreValue
            <7>3. lib'[w].name # Garbage BY <7>2, <2>1, ReadValues, PropsAssumption
            <7> QED BY <7>3
          <6>2. CASE Value("netName") = None
            <7>1. lib' = lib /\ todo' = <<"name">> \o Tail(todo) BY <5>3, <6>2 DEF ReadNetName
            <7>2. "name" \in Pending(w)'
              <8>1. "name" \in Atoms /\ Tail(todo) \in Seq(Atoms)
                BY <1>9, ReadingOf DEF Atoms
              <8>2. Elements(<<"name">> \o Tail(todo)) = {"name"} \cup Elements(Tail(todo))
                BY <8>1, ConsElements
              <8>3. "name" \in Elements(todo') BY <7>1, <8>2
              <8> QED BY <8>3, <2>1, <2>4 DEF Pending
            <7> QED BY <7>1, <7>2, <3>2, <2>1
          <6> QED BY <6>1, <6>2
        <5> QED BY <5>1, <5>2, <5>3
      <4> QED BY <4>1, <4>2
    <3>5. lib'[w].type = Garbage \/ lib'[w].transient = Garbage =>
            task' = "create" /\ "transient" \in Pending(w)'
      <4>1. CASE Head(todo) \notin {"transient", "types"}
        <5>1. lib'[w].type = lib[w].type /\ lib'[w].transient = lib[w].transient
          BY <1>9, <2>4, <4>1, ReadingStores
        <5> QED BY <5>1, <4>1, <3>1, <3>3, <2>1
      <4>2. CASE Head(todo) = "transient"
        <5>1. ReadTransient
          BY <1>9, <4>2 DEF Readings, ReadProtocols, ReadNetName, ReadName, ReadTypes,
             ReadSetting, Read
        <5>2. lib'[w].transient \in Windows \cup {None} /\ lib'[w].type \in {"NORMAL", "DIALOG"}
          BY <5>1, <2>1, <2>4, TransientValue
        <5> QED BY <5>2, PropsAssumption
      <4>3. CASE Head(todo) = "types"
        <5>1. "transient" \notin Pending(w)
          <6>1. Elements(Tail(todo)) \cap {"transient", "types"} = {}
            BY <4>3, <1>9, ReadingOf, OrderTail DEF WTypes
          <6> QED BY <6>1, <4>3, <3>1
        <5>2. lib[w].type # Garbage /\ lib[w].transient # Garbage BY <5>1, <3>3
        <5>3. lib'[w].transient = lib[w].transient BY <1>9, <2>4, <4>3, ReadingStores
        <5>4. ReadTypes
          BY <1>9, <4>3 DEF Readings, ReadProtocols, ReadNetName, ReadName, ReadTransient,
             ReadSetting, Read
        <5>5. lib'[w].type # Garbage
          <6>1. CASE KnownIn(Value("types")) = {}
            <7>1. lib' = lib BY <5>4, <6>1 DEF ReadTypes
            <7> QED BY <7>1, <5>2
          <6>2. CASE KnownIn(Value("types")) # {}
            <7>1. Value("types") \in TypeLists BY <6>2, <2>1, ReadValues DEF KnownIn
            <7> DEFINE v == Value("types")[First(KnownIn(Value("types")))]
            <7>2. v \in KnownTypes BY <6>2, <7>1, FirstKnown
            <7>3. Store("type", v) BY <5>4, <6>2 DEF ReadTypes
            <7> HIDE DEF v
            <7>4. lib'[w].type = v BY <7>3, <2>1, <2>4, StoreValue
            <7> QED BY <7>2, <7>4, PropsAssumption
          <6> QED BY <6>1, <6>2
        <5> QED BY <5>2, <5>3, <5>5
      <4> QED BY <4>1, <4>2, <4>3
    <3> QED BY <3>4, <3>5
  <2> QED BY <2>3, <2>4
<1>10. CASE UNCHANGED vars
  <2>1. Live(w) /\ UNCHANGED <<lib, task, cur, todo>> BY <1>10 DEF vars, threadVars, Live
  <2> QED BY <2>1, <1>1
<1>11. CASE \E x \in Windows, a \in Atoms : ChangeProperty(x, a) BY <1>1, <1>3, <1>11
<1>12. CASE \E x \in Windows : DestroyWindow(x) \/ RequestClose(x) BY <1>1, <1>4, <1>12
<1> QED BY <1>5, <1>6, <1>7, <1>8, <1>9, <1>10, <1>11, <1>12
        DEF Next, Applications, EventThread

----------------------------------------------------------------------------
(* What the library holds agrees with the properties *)

\* What agrees still does when the window, its properties and the readings pending for it
\* are as they were and no event is lost.
LEMMA AgreeKept ==
  ASSUME NEW w, Agree(w), lib'[w] = lib[w], prop'[w] = prop[w], Pending(w)' = Pending(w),
         Elements(queue) \subseteq Elements(queue')
  PROVE  Agree(w)'
<1>1. ASSUME NEW A, News(w, A) PROVE News(w, A)' BY <1>1 DEF News, Told
<1>2. \A A : News(w, A) => News(w, A)' BY <1>1
<1>3. NameAgrees(w)'
  <2>1. NameNow(w)' <=> NameNow(w) BY DEF NameNow
  <2> QED BY <1>2, <2>1 DEF Agree, NameAgrees
<1>4. TypeAgrees(w)'
  <2>1. TypeNow(w)' <=> TypeNow(w) BY DEF TypeNow, KnownIn, First
  <2> QED BY <1>2, <2>1 DEF Agree, TypeAgrees
<1>5. SettingAgrees(w, "hints")' BY <1>2 DEF Agree, SettingAgrees
<1>6. SettingAgrees(w, "opacity")' BY <1>2 DEF Agree, SettingAgrees
<1>7. CloseAgrees(w)' BY <1>2 DEF Agree, CloseAgrees
<1> QED BY <1>3, <1>4, <1>5, <1>6, <1>7 DEF Agree

\* An application changed a property and the library will be told of it.
LEMMA AgreeChange ==
  ASSUME NEW w, NEW a \in Atoms, Agree(w), lib'[w] = lib[w], Pending(w)' = Pending(w),
         \A b \in Atoms \ {a} : prop'[w][b] = prop[w][b],
         Elements(queue) \subseteq Elements(queue'), PropertyEvent(w, a) \in Elements(queue')
  PROVE  Agree(w)'
<1>1. ASSUME NEW A, News(w, A) PROVE News(w, A)' BY <1>1 DEF News, Told
<1>2. \A A : News(w, A) => News(w, A)' BY <1>1
<1>3. ASSUME NEW A, a \in A PROVE News(w, A)' BY <1>3 DEF News, Told
<1>4. \A A : a \in A => News(w, A)' BY <1>3
<1>5. \A b \in {"protocols", "netName", "name", "types", "hints", "opacity"} :
        a # b => prop'[w][b] = prop[w][b]
  BY DEF Atoms
<1>6. NameAgrees(w)'
  <2>1. CASE a \in {"netName", "name"}
    <3>1. News(w, {"netName", "name"})' BY <1>4, <2>1
    <3>2. Pending(w)' = Pending(w) OBVIOUS
    <3>3. "name" \in Pending(w) => News(w, {"netName"}) \/ prop[w].netName = None
      BY DEF Agree, NameAgrees
    <3>4. "name" \in Pending(w)' => News(w, {"netName"})' \/ prop'[w].netName = None
      BY <3>2, <3>3, <1>2, <1>4, <1>5, <2>1
    <3> QED BY <3>1, <3>4 DEF NameAgrees
  <2>2. CASE a \notin {"netName", "name"}
    <3>1. prop'[w].netName = prop[w].netName /\ prop'[w].name = prop[w].name BY <1>5, <2>2
    <3>2. NameNow(w)' <=> NameNow(w) BY <3>1 DEF NameNow
    <3> QED BY <1>2, <3>1, <3>2 DEF Agree, NameAgrees
  <2> QED BY <2>1, <2>2
<1>7. TypeAgrees(w)'
  <2>1. News(w, {"types"})' \/ TypeNow(w)'
    <3>1. CASE a = "types" BY <1>4, <3>1
    <3>2. CASE a # "types"
      <4>1. prop'[w].types = prop[w].types BY <1>5, <3>2
      <4>2. TypeNow(w)' <=> TypeNow(w) BY <4>1 DEF TypeNow, KnownIn, First
      <4> QED BY <1>2, <4>2 DEF Agree, TypeAgrees
    <3> QED BY <3>1, <3>2
  <2> QED BY <2>1 DEF Agree, TypeAgrees
<1>8. ASSUME NEW b \in {"hints", "opacity"}, SettingAgrees(w, b) PROVE SettingAgrees(w, b)'
  <2>1. CASE a = b BY <1>4, <2>1 DEF SettingAgrees
  <2>2. CASE a # b BY <1>2, <1>5, <1>8, <2>2 DEF SettingAgrees
  <2> QED BY <2>1, <2>2
<1>9. SettingAgrees(w, "hints")' /\ SettingAgrees(w, "opacity")' BY <1>8 DEF Agree
<1>10. CloseAgrees(w)'
  <2>1. CASE a = "protocols" BY <1>4, <2>1 DEF CloseAgrees
  <2>2. CASE a # "protocols" BY <1>2, <1>5, <2>2 DEF Agree, CloseAgrees
  <2> QED BY <2>1, <2>2
<1> QED BY <1>6, <1>7, <1>9, <1>10 DEF Agree

\* When a window is created every property is still to be read.
LEMMA AgreeCreated ==
  ASSUME NEW w, cur' = w, todo' = AllReadings
  PROVE  Agree(w)'
<1>1. Pending(w)' = {"protocols", "netName", "transient", "types", "hints", "opacity"}
  BY CreateReadings DEF Pending
<1>2. ASSUME NEW A, Pending(w)' \cap A # {} PROVE News(w, A)' BY <1>2 DEF News
<1>3. News(w, {"netName", "name"})' BY <1>1, <1>2
<1>4. News(w, {"types"})' BY <1>1, <1>2
<1>5. News(w, {"hints"})' BY <1>1, <1>2
<1>6. News(w, {"opacity"})' BY <1>1, <1>2
<1>7. News(w, {"protocols"})' BY <1>1, <1>2
<1>8. NameAgrees(w)' BY <1>1, <1>3 DEF NameAgrees
<1>9. TypeAgrees(w)' BY <1>1, <1>4 DEF TypeAgrees
<1> QED BY <1>5, <1>6, <1>7, <1>8, <1>9 DEF Agree, SettingAgrees, CloseAgrees

\* An event is taken: what it is about will be read, unless it is of no property that
\* the library holds.
LEMMA AgreeTaken ==
  ASSUME NEW w, NEW e, Agree(w), lib'[w] = lib[w], prop'[w] = prop[w], Pending(w) = {},
         Elements(queue) = {e} \cup Elements(queue'),
         \/ /\ Pending(w)' = {}
            /\ \A a \in {"protocols", "netName", "name", "types", "hints", "opacity"} :
                 e # PropertyEvent(w, a)
         \/ \E a \in DOMAIN Reading :
              /\ Pending(w)' = Elements(Reading[a])
              /\ \A b \in {"protocols", "netName", "name", "types", "hints", "opacity"} \ {a} :
                   e # PropertyEvent(w, b)
  PROVE  Agree(w)'
<1> DEFINE P == {"protocols", "netName", "name", "types", "hints", "opacity"}
<1>1. ASSUME NEW A \in {{"netName", "name"}, {"types"}, {"hints"}, {"opacity"}, {"protocols"}},
             News(w, A)
      PROVE  News(w, A)'
  <2>1. PICK b \in A : PropertyEvent(w, b) \in {e} \cup Elements(queue') BY <1>1 DEF News, Told
  <2>2. b \in P BY <2>1
  <2>3. CASE PropertyEvent(w, b) \in Elements(queue') BY <2>1, <2>3 DEF News, Told
  <2>4. CASE PropertyEvent(w, b) = e
    <3>1. b \in DOMAIN Reading /\ Pending(w)' = Elements(Reading[b]) BY <2>2, <2>4
    <3>2. Elements(Reading[b]) = IF b = "types" THEN {"transient", "types"}
                                 ELSE IF b = "name" THEN {"netName"} ELSE {b}
      BY <3>1, EventReadings
    <3>3. Elements(Reading[b]) \cap A # {} BY <3>2, <2>1
    <3> QED BY <3>1, <3>3 DEF News
  <2> QED BY <2>1, <2>3, <2>4
<1>2. "name" \notin Pending(w)' /\ ("types" \in Pending(w)' => "transient" \in Pending(w)')
  BY EventReadings
<1>3. NameAgrees(w)'
  <2>1. NameNow(w)' <=> NameNow(w) BY DEF NameNow
  <2>2. News(w, {"netName", "name"}) => News(w, {"netName", "name"})' BY <1>1
  <2> QED BY <1>2, <2>1, <2>2 DEF Agree, NameAgrees
<1>4. TypeAgrees(w)'
  <2>1. TypeNow(w)' <=> TypeNow(w) BY DEF TypeNow, KnownIn, First
  <2>2. News(w, {"types"}) => News(w, {"types"})' BY <1>1
  <2> QED BY <1>2, <2>1, <2>2 DEF Agree, TypeAgrees
<1>5. SettingAgrees(w, "hints")' BY <1>1 DEF Agree, SettingAgrees
<1>6. SettingAgrees(w, "opacity")' BY <1>1 DEF Agree, SettingAgrees
<1>7. CloseAgrees(w)' BY <1>1 DEF Agree, CloseAgrees
<1> QED BY <1>3, <1>4, <1>5, <1>6, <1>7 DEF Agree

\* One reading for a window that exists.
LEMMA AgreeRead ==
  ASSUME WTypes, Readings, NEW w \in Windows, w = cur, w \in alive, Agree(w)
  PROVE  Agree(w)'
<1> DEFINE head == Head(todo)
           tail == Elements(Tail(todo))
<1>1. /\ cur \in born /\ cur' = cur /\ prop' = prop /\ queue' = queue /\ todo # <<>>
      /\ head \in Atoms /\ "name" \notin tail
  BY ReadingOf
<1>2. /\ head = "types" => tail \cap {"transient", "types"} = {}
      /\ head = "transient" => "types" \in tail
  BY <1>1, OrderTail DEF WTypes
<1>3. /\ Pending(w) = {head} \cup tail
      /\ Pending(w)' = tail \/ (/\ head = "netName" /\ Value("netName") = None
                                /\ Pending(w)' = {"name"} \cup tail)
  <2>1. /\ Pending(cur) = {head} \cup tail
        /\ Pending(cur)' = tail \/ (/\ head = "netName" /\ Value("netName") = None
                                    /\ Pending(cur)' = {"name"} \cup tail)
    BY PendingNext
  <2>2. Pending(w) = Pending(cur) /\ Pending(w)' = Pending(cur)' BY <1>1 DEF Pending
  <2> QED BY <2>1, <2>2
<1>4. \A a \in Atoms : Value(a) = prop[w][a] BY DEF Value
<1>5. /\ head \notin {"netName", "name"} => lib'[w].name = lib[w].name
      /\ head \notin {"transient", "types"} => lib'[w].type = lib[w].type
      /\ head # "protocols" => lib'[w].delete = lib[w].delete
      /\ \A a \in {"hints", "opacity"} : head # a => lib'[w][a] = lib[w][a]
  BY ReadingStores
<1>6. \A field \in {"name", "delete", "type", "transient", "hints", "opacity"} : \A v :
        Store(field, v) => lib'[w][field] = v
  BY <1>1, StoreValue
<1>7. ASSUME NEW A, News(w, A), head \notin A PROVE News(w, A)'
  <2>1. CASE Told(w, A) BY <1>1, <2>1 DEF News, Told
  <2>2. CASE Pending(w) \cap A # {} BY <1>3, <1>7, <2>2 DEF News
  <2> QED BY <1>7, <2>1, <2>2 DEF News
<1>8. \A A : News(w, A) /\ head \notin A => News(w, A)' BY <1>7
<1> HIDE DEF head, tail
<1>9. NameAgrees(w)'
  <2>1. NameAgrees(w) BY DEF Agree
  <2>2. CASE head \notin {"netName", "name"}
    <3>1. NameNow(w)' <=> NameNow(w) BY <1>1, <1>5, <2>2 DEF NameNow
    <3>2. "name" \notin Pending(w)' BY <1>1, <1>3, <2>2
    <3>3. News(w, {"netName", "name"}) => News(w, {"netName", "name"})' BY <1>8, <2>2
    <3> QED BY <2>1, <3>1, <3>2, <3>3 DEF NameAgrees
  <2>3. CASE head = "netName"
    <3>1. ReadNetName
      BY <2>3 DEF Readings, ReadProtocols, ReadName, ReadTransient, ReadTypes, ReadSetting, Read,
         head
    <3>2. Value("netName") = prop[w].netName BY <1>4 DEF Atoms
    <3>3. CASE Value("netName") # None
      <4>1. Store("name", Value("netName")) BY <3>1, <3>3 DEF ReadNetName
      <4>2. lib'[w].name = prop[w].netName BY <4>1, <3>2, <1>6
      <4>3. NameNow(w)' BY <4>2, <3>2, <3>3, <1>1 DEF NameNow
      <4>4. "name" \notin Pending(w)' BY <3>3, <1>1, <1>3
      <4> QED BY <4>3, <4>4 DEF NameAgrees
    <3>4. CASE Value("netName") = None
      <4>1. todo' = <<"name">> \o Tail(todo) BY <3>1, <3>4 DEF ReadNetName
      <4>2. "name" \in Atoms /\ Tail(todo) \in Seq(Atoms) BY ReadingOf DEF Atoms
      <4>3. Elements(<<"name">> \o Tail(todo)) = {"name"} \cup tail
        BY <4>2, ConsElements DEF tail
      <4>4. "name" \in Pending(w)' BY <4>1, <4>3, <1>1 DEF Pending
      <4>5. News(w, {"netName", "name"})' BY <4>4 DEF News
      <4>6. prop'[w].netName = None BY <3>2, <3>4, <1>1
      <4> QED BY <4>5, <4>6 DEF NameAgrees
    <3> QED BY <3>3, <3>4
  <2>4. CASE head = "name"
    <3>1. ReadName
      BY <2>4 DEF Readings, ReadProtocols, ReadNetName, ReadTransient, ReadTypes, ReadSetting,
         Read, head
    <3>2. Value("name") = prop[w].name BY <1>4 DEF Atoms
    <3>3. Store("name", Value("name")) BY <3>1 DEF ReadName
    <3>4. lib'[w].name = prop[w].name BY <3>2, <3>3, <1>6
    <3>5. News(w, {"netName"}) \/ prop[w].netName = None BY <2>1, <2>4, <1>3 DEF NameAgrees
    <3>6. News(w, {"netName", "name"})' \/ NameNow(w)'
      <4>1. CASE News(w, {"netName"})
        <5>1. News(w, {"netName"})' BY <4>1, <2>4, <1>8
        <5> QED BY <5>1 DEF News, Told
      <4>2. CASE prop[w].netName = None BY <4>2, <3>4, <1>1 DEF NameNow
      <4> QED BY <3>5, <4>1, <4>2
    <3>7. "name" \notin Pending(w)' BY <1>1, <1>3, <2>4
    <3> QED BY <3>6, <3>7 DEF NameAgrees
  <2> QED BY <2>2, <2>3, <2>4
<1>10. TypeAgrees(w)'
  <2>1. TypeAgrees(w) BY DEF Agree
  <2>2. CASE head \notin {"transient", "types"}
    <3>1. TypeNow(w)' <=> TypeNow(w) BY <1>1, <1>5, <2>2 DEF TypeNow, KnownIn, First
    <3>2. News(w, {"types"}) => News(w, {"types"})' BY <1>8, <2>2
    <3>3. ("types" \in Pending(w)' <=> "types" \in Pending(w))
          /\ ("transient" \in Pending(w)' <=> "transient" \in Pending(w))
      BY <1>3, <2>2
    <3> QED BY <2>1, <3>1, <3>2, <3>3, <1>5, <2>2 DEF TypeAgrees
  <2>3. CASE head = "transient"
    <3>1. ReadTransient
      BY <2>3 DEF Readings, ReadProtocols, ReadNetName, ReadName, ReadTypes, ReadSetting, Read,
         head
    <3>2. lib'[w].type \in {"NORMAL", "DIALOG"} BY <3>1, <1>1, TransientValue
    <3>3. "types" \in Pending(w)' BY <1>2, <1>3, <2>3
    <3>4. News(w, {"types"})' BY <3>3 DEF News
    <3> QED BY <3>2, <3>4 DEF TypeAgrees
  <2>4. CASE head = "types"
    <3>1. ReadTypes
      BY <2>4 DEF Readings, ReadProtocols, ReadNetName, ReadName, ReadTransient, ReadSetting,
         Read, head
    <3>2. Value("types") = prop[w].types BY <1>4 DEF Atoms
    <3>3. "types" \notin Pending(w)' BY <1>2, <1>3, <2>4
    <3>4. "types" \in Pending(w) /\ "transient" \notin Pending(w) BY <1>2, <1>3, <2>4
    <3>5. TypeNow(w)'
      <4>1. prop'[w].types = prop[w].types BY <1>1
      <4>2. CASE KnownIn(prop[w].types) = {}
        <5>1. lib' = lib BY <3>1, <3>2, <4>2 DEF ReadTypes
        <5>2. lib'[w].type \in {"NORMAL", "DIALOG"} BY <5>1, <3>4, <2>1 DEF TypeAgrees
        <5> QED BY <5>2, <4>1, <4>2 DEF TypeNow, KnownIn
      <4>3. CASE KnownIn(prop[w].types) # {}
        <5>1. Store("type", prop[w].types[First(KnownIn(prop[w].types))])
          BY <3>1, <3>2, <4>3 DEF ReadTypes
        <5>2. lib'[w].type = prop[w].types[First(KnownIn(prop[w].types))] BY <5>1, <1>6
        <5> QED BY <5>2, <4>1, <4>3 DEF TypeNow, KnownIn, First
      <4> QED BY <4>2, <4>3
    <3> QED BY <3>3, <3>5 DEF TypeAgrees
  <2> QED BY <2>2, <2>3, <2>4
<1>11. ASSUME NEW a \in {"hints", "opacity"}, SettingAgrees(w, a) PROVE SettingAgrees(w, a)'
  <2>1. CASE head # a
    <3>1. News(w, {a}) => News(w, {a})' BY <1>8, <2>1
    <3> QED BY <1>1, <1>5, <1>11, <2>1, <3>1 DEF SettingAgrees
  <2>2. CASE head = a
    <3>1. ReadSetting(a)
      BY <2>2 DEF Readings, ReadProtocols, ReadNetName, ReadName, ReadTransient, ReadTypes,
         ReadSetting, Read, head
    <3>2. Value(a) = prop[w][a] BY <1>4 DEF Atoms
    <3>3. CASE prop[w][a] = None BY <3>3, <1>1 DEF SettingAgrees
    <3>4. CASE prop[w][a] # None
      <4>1. Store(a, prop[w][a]) BY <3>1, <3>2, <3>4 DEF ReadSetting
      <4>2. lib'[w][a] = prop[w][a] BY <4>1, <1>6
      <4> QED BY <4>2, <1>1 DEF SettingAgrees
    <3> QED BY <3>3, <3>4
  <2> QED BY <2>1, <2>2
<1>12. SettingAgrees(w, "hints")' /\ SettingAgrees(w, "opacity")' BY <1>11 DEF Agree
<1>13. CloseAgrees(w)'
  <2>1. CloseAgrees(w) BY DEF Agree
  <2>2. CASE head # "protocols"
    <3>1. News(w, {"protocols"}) => News(w, {"protocols"})' BY <1>8, <2>2
    <3> QED BY <1>1, <1>5, <2>1, <2>2, <3>1 DEF CloseAgrees
  <2>3. CASE head = "protocols"
    <3>1. ReadProtocols
      BY <2>3 DEF Readings, ReadNetName, ReadName, ReadTransient, ReadTypes, ReadSetting, Read,
         head
    <3>2. Value("protocols") = prop[w].protocols BY <1>4 DEF Atoms
    <3>3. CASE prop[w].protocols # "delete" BY <3>3, <1>1 DEF CloseAgrees
    <3>4. CASE prop[w].protocols = "delete"
      <4>1. Store("delete", 1) BY <3>1, <3>2, <3>4, PropsAssumption DEF ReadProtocols
      <4>2. lib'[w].delete = 1 BY <4>1, <1>6
      <4> QED BY <4>2 DEF CloseAgrees
    <3> QED BY <3>3, <3>4
  <2> QED BY <2>2, <2>3
<1> QED BY <1>9, <1>10, <1>12, <1>13 DEF Agree

\* Every step keeps what the library holds of a window that exists in agreement with the
\* window's properties, or news of the difference under way.
LEMMA AgreeStep ==
  ASSUME WTypes, [Next]_vars, \A w \in alive : Live(w) => Agree(w),
         NEW w \in alive', Live(w)'
  PROVE  Agree(w)'
<1>1. ASSUME NEW x \in Windows, NEW a \in Atoms, ChangeProperty(x, a) PROVE Agree(w)'
  <2>1. UNCHANGED <<alive, selected, lib, managed, task, cur, todo>>
        /\ Elements(queue) \subseteq Elements(queue')
    BY <1>1, ChangeStep DEF threadVars
  <2>2. w \in alive /\ w \in Windows /\ Live(w) /\ Agree(w) /\ Pending(w)' = Pending(w)
    BY <2>1 DEF Live, WTypes, Pending
  <2>3. CASE w # x
    <3>1. prop'[w] = prop[w] BY <2>2, <2>3, <1>1, ChangeStep
    <3> QED BY <2>1, <2>2, <3>1, AgreeKept
  <2>4. CASE w = x
    <3>1. w \in selected BY <2>2 DEF WTypes
    <3>2. PropertyEvent(w, a) \in Elements(queue') BY <3>1, <2>4, <1>1, ChangeStep
    <3>3. \A b \in Atoms \ {a} : prop'[w][b] = prop[w][b] BY <2>4, <1>1, ChangeStep
    <3>4. lib'[w] = lib[w] BY <2>1
    <3> QED BY <2>1, <2>2, <3>2, <3>3, <3>4, AgreeChange
  <2> QED BY <2>3, <2>4
<1>2. ASSUME NEW x \in Windows, DestroyWindow(x) \/ RequestClose(x) PROVE Agree(w)'
  <2>1. UNCHANGED <<prop, lib, managed, task, cur, todo>> /\ alive' \subseteq alive
        /\ Elements(queue) \subseteq Elements(queue')
    BY <1>2, GoneStep DEF threadVars
  <2>2. w \in alive /\ Live(w) /\ Agree(w) /\ Pending(w)' = Pending(w)
    BY <2>1 DEF Live, Pending
  <2> QED BY <2>1, <2>2, AgreeKept
<1>3. ASSUME NEW x \in Windows, StartCreate(x) PROVE Agree(w)'
  <2>1. /\ task = "none" /\ cur' = x /\ todo' = AllReadings
        /\ UNCHANGED <<prop, alive, queue, managed>>
    BY <1>3 DEF StartCreate
  <2>2. CASE w = x BY <2>1, <2>2, AgreeCreated
  <2>3. CASE w # x
    <3>1. w \in Windows BY <2>1 DEF WTypes
    <3>2. lib'[w] = lib[w] BY <1>3, <2>3, <3>1 DEF StartCreate, WTypes
    <3>3. Live(w) BY <2>1, <2>3 DEF Live
    <3>4. todo = <<>> BY <2>1 DEF WTypes
    <3>5. Pending(w) = {} BY <3>4, PendingNone
    <3>6. Pending(w)' = {} BY <2>1, <2>3 DEF Pending
    <3> QED BY <2>1, <3>2, <3>3, <3>5, <3>6, AgreeKept
  <2> QED BY <2>2, <2>3
<1>4. CASE Finish
  <2>1. /\ task # "none" /\ todo = <<>> /\ task' = "none"
        /\ managed' = IF task = "create" THEN managed \cup {cur} ELSE managed
        /\ UNCHANGED <<prop, alive, queue, lib, cur, todo>>
    BY <1>4 DEF Finish, serverVars
  <2>2. Live(w) /\ Pending(w)' = Pending(w) BY <2>1 DEF Live, Pending
  <2> QED BY <2>1, <2>2, AgreeKept
<1>5. ASSUME task = "none", queue # <<>>, queue' = Tail(queue),
             UNCHANGED <<prop, alive, lib>>, Live(w),
             \/ UNCHANGED todo /\ UNCHANGED cur
                /\ \A a \in {"protocols", "netName", "name", "types", "hints", "opacity"} :
                     Head(queue) # PropertyEvent(w, a)
             \/ \E a \in DOMAIN Reading :
                  /\ todo' = Reading[a] /\ cur' = Head(queue).w /\ Head(queue).atom = a
      PROVE  Agree(w)'
  <2>1. Elements(queue) = {Head(queue)} \cup Elements(queue') BY <1>5, TakeEvent
  <2>2. todo = <<>> BY <1>5 DEF WTypes
  <2>3. Pending(w) = {} BY <2>2, PendingNone
  <2>4. Agree(w) /\ lib'[w] = lib[w] /\ prop'[w] = prop[w] BY <1>5
  <2> DEFINE P == {"protocols", "netName", "name", "types", "hints", "opacity"}
  <2>5. CASE /\ UNCHANGED todo /\ UNCHANGED cur
             /\ \A a \in P : Head(queue) # PropertyEvent(w, a)
    <3>1. Pending(w)' = {} BY <2>5, <2>3 DEF Pending
    <3> QED BY <2>1, <2>3, <2>4, <2>5, <3>1, AgreeTaken
  <2>6. ASSUME NEW a \in DOMAIN Reading, todo' = Reading[a], cur' = Head(queue).w,
               Head(queue).atom = a
        PROVE  Agree(w)'
    <3>1. CASE w = Head(queue).w
      <4>1. Pending(w)' = Elements(Reading[a]) BY <2>6, <3>1 DEF Pending
      <4>2. \A b \in P \ {a} : Head(queue) # PropertyEvent(w, b)
        BY <2>6 DEF PropertyEvent
      <4> QED BY <2>1, <2>3, <2>4, <2>6, <4>1, <4>2, AgreeTaken
    <3>2. CASE w # Head(queue).w
      <4>1. Pending(w)' = {} BY <2>6, <3>2 DEF Pending
      <4>2. \A b \in P : Head(queue) # PropertyEvent(w, b) BY <3>2 DEF PropertyEvent
      <4> QED BY <2>1, <2>3, <2>4, <4>1, <4>2, AgreeTaken
    <3> QED BY <3>1, <3>2
  <2> QED BY <1>5, <2>5, <2>6
<1>6. CASE HandlePropertyNotify
  <2> DEFINE e == Head(queue)
  <2>1. /\ task = "none" /\ queue # <<>> /\ queue' = Tail(queue)
        /\ UNCHANGED <<prop, alive, lib, managed>>
    BY <1>6 DEF HandlePropertyNotify, serverVars
  <2>2. CASE e.w \in managed /\ e.atom \in DOMAIN Reading
    <3>1. task' = e.atom /\ cur' = e.w /\ todo' = Reading[e.atom]
      BY <2>2, <1>6 DEF HandlePropertyNotify
    <3>2. e.atom # "create" BY <2>2, EventReadings
    <3>3. Live(w) BY <2>1, <3>1, <3>2 DEF Live
    <3> QED BY <2>1, <2>2, <3>1, <3>3, <1>5
  <2>3. CASE ~(e.w \in managed /\ e.atom \in DOMAIN Reading)
    <3>1. UNCHANGED <<task, cur, todo>> BY <2>3, <1>6 DEF HandlePropertyNotify
    <3>2. Live(w) /\ w \in managed BY <2>1, <3>1 DEF Live
    <3>3. \A a \in {"protocols", "netName", "name", "types", "hints", "opacity"} :
            a \in DOMAIN Reading
      BY DEF Reading
    <3>4. \A a \in {"protocols", "netName", "name", "types", "hints", "opacity"} :
            e # PropertyEvent(w, a)
      BY <2>3, <3>2, <3>3 DEF PropertyEvent
    <3> QED BY <2>1, <3>1, <3>2, <3>4, <1>5
  <2> QED BY <2>2, <2>3
<1>7. CASE HandleGone
  <2>1. /\ task = "none" /\ queue # <<>> /\ queue' = Tail(queue) /\ Head(queue).type = "gone"
        /\ UNCHANGED <<prop, alive, lib, task, cur, todo>> /\ managed' \subseteq managed
    BY <1>7 DEF HandleGone, serverVars
  <2>2. Live(w) BY <2>1 DEF Live
  <2>3. \A a \in {"protocols", "netName", "name", "types", "hints", "opacity"} :
          Head(queue) # PropertyEvent(w, a)
    BY <2>1 DEF PropertyEvent
  <2> QED BY <2>1, <2>2, <2>3, <1>5
<1>8. CASE Readings
  <2>1. UNCHANGED <<prop, alive, queue, managed, task, cur>> BY <1>8, ReadingOf
  <2>2. Live(w) /\ w \in alive /\ w \in Windows /\ Agree(w) BY <2>1 DEF Live, WTypes
  <2>3. CASE w = cur BY <2>2, <2>3, <1>8, AgreeRead
  <2>4. CASE w # cur
    <3>1. lib'[w] = lib[w] BY <2>2, <2>4, <1>8, ReadingStores
    <3>2. Pending(w) = {} /\ Pending(w)' = {} BY <2>1, <2>4 DEF Pending
    <3> QED BY <2>1, <2>2, <3>1, <3>2, AgreeKept
  <2> QED BY <2>3, <2>4
<1>9. CASE UNCHANGED vars
  <2>1. UNCHANGED <<prop, alive, queue, lib, managed, task, cur, todo>>
    BY <1>9 DEF vars, serverVars, threadVars
  <2>2. w \in alive /\ Live(w) /\ Pending(w)' = Pending(w) BY <2>1 DEF Live, Pending
  <2> QED BY <2>1, <2>2, AgreeKept
<1> QED BY <1>1, <1>2, <1>3, <1>4, <1>6, <1>7, <1>8, <1>9 DEF Next, Applications, EventThread

----------------------------------------------------------------------------
(* Theorems *)

\* At first no window is listed.
LEMMA WInit == Init => WInv
<1> SUFFICES ASSUME Init PROVE WInv
  OBVIOUS
<1>1. /\ alive = Windows /\ selected = {} /\ queue = <<>> /\ changes = MaxChanges
      /\ lib = [w \in Windows |-> None] /\ managed = {} /\ born = {}
      /\ task = "none" /\ cur = None /\ todo = <<>>
  BY DEF Init
<1>2. PICK ps \in {None, "other", "delete"}, hs \in Settings \cup {None} :
        prop = [w \in Windows |-> [protocols |-> ps, netName |-> None, name |-> None,
                                  transient |-> None, types |-> None, hints |-> hs,
                                  opacity |-> None]]
  BY DEF Init
<1>3. \A w \in Windows, a \in Atoms : prop[w][a] \in Values(a)
  <2>1. \A w \in Windows : prop[w] = [protocols |-> ps, netName |-> None, name |-> None,
                                     transient |-> None, types |-> None, hints |-> hs,
                                     opacity |-> None]
    BY <1>2
  <2>2. ASSUME NEW w \in Windows, NEW a \in Atoms PROVE prop[w][a] \in Values(a)
    <3>1. CASE a = "protocols" BY <2>1, <3>1, <1>2 DEF Values
    <3>2. CASE a \in {"netName", "name"} BY <2>1, <3>2 DEF Values
    <3>3. CASE a = "transient" BY <2>1, <3>3 DEF Values
    <3>4. CASE a = "types" BY <2>1, <3>4 DEF Values
    <3>5. CASE a = "hints" BY <2>1, <3>5, <1>2 DEF Values
    <3>6. CASE a = "opacity" BY <2>1, <3>6 DEF Values
    <3> QED BY <3>1, <3>2, <3>3, <3>4, <3>5, <3>6 DEF Atoms
  <2> QED BY <2>2
<1>4. prop \in [Windows -> [Atoms -> UNION {Values(a) : a \in Atoms}]]
  <2> DEFINE V == UNION {Values(a) : a \in Atoms}
             r == [protocols |-> ps, netName |-> None, name |-> None, transient |-> None,
                   types |-> None, hints |-> hs, opacity |-> None]
  <2>1. \A w \in Windows, a \in Atoms : prop[w][a] \in V BY <1>3
  <2>2. prop = [w \in Windows |-> r] BY <1>2
  <2>3. \A f : r = [a \in Atoms |-> r[a]] BY DEF Atoms
  <2> HIDE DEF V, r
  <2>4. \A w \in Windows : r \in [Atoms -> V]
    <3>1. \A w \in Windows : \A a \in Atoms : r[a] \in V BY <2>1, <2>2
    <3> QED BY <3>1, <2>3
  <2>5. prop \in [Windows -> [Atoms -> V]] BY <2>2, <2>4
  <2> QED BY <2>5 DEF V
<1>5. todo \in Seq(Atoms) /\ queue \in Seq(Event) /\ Order(todo)
  <2>1. todo \in Seq(Atoms) /\ queue \in Seq(Event) /\ DOMAIN todo = {} BY <1>1
  <2> QED BY <2>1 DEF Order, Elements
<1>6. \A w : ~Live(w) BY <1>1 DEF Live
<1>7. DOMAIN lib = Windows /\ lib \in [Windows -> LibRecord \cup {None}] BY <1>1
<1>8. changes \in 0 .. MaxChanges BY <1>1, PropsAssumption
<1>9. WTypes BY <1>1, <1>3, <1>4, <1>5, <1>6, <1>7, <1>8 DEF WTypes
<1> QED BY <1>6, <1>9 DEF WInv, Made

\* The inductive invariant.
THEOREM WInvHolds == Spec => []WInv
<1>1. WInv /\ [Next]_vars => WInv'
  <2> SUFFICES ASSUME WInv, [Next]_vars PROVE WInv'
    OBVIOUS
  <2>1. WTypes /\ Made /\ \A w \in alive : Live(w) => Agree(w) BY DEF WInv
  <2>2. WTypes' BY <2>1, WTypesStep
  <2>3. Made' BY <2>1, <2>2, MadeStep
  <2>4. \A w \in alive' : Live(w)' => Agree(w)'
    <3>1. ASSUME NEW w \in alive', Live(w)' PROVE Agree(w)' BY <3>1, <2>1, AgreeStep
    <3> QED BY <3>1
  <2> QED BY <2>2, <2>3, <2>4 DEF WInv
<1> QED BY <1>1, WInit, PTL DEF Spec

\* What the variables hold; nothing that malloc left is in a window that is listed.
THEOREM TypeCorrect == Spec => []TypeOK
<1>1. WInv => TypeOK
  <2> SUFFICES ASSUME WInv PROVE TypeOK
    OBVIOUS
  <2>1. WTypes /\ Made BY DEF WInv
  <2>2. \A i \in DOMAIN queue : queue[i].w \in Windows
    <3>1. queue \in Seq(Event) BY <2>1 DEF WTypes
    <3>2. \A i \in DOMAIN queue : queue[i] \in Event BY <3>1
    <3> QED BY <3>2 DEF Event
  <2>3. ASSUME NEW w \in born
        PROVE  /\ lib[w].name \in Names \cup {None, Garbage}
               /\ lib[w].delete \in {0, 1, Garbage}
               /\ lib[w].type \in KnownTypes \cup {Garbage}
               /\ lib[w].hints \in Settings \cup {Garbage}
               /\ lib[w].opacity \in Settings \cup {None}
    <3>1. lib[w] \in LibRecord BY <2>1 DEF WTypes
    <3> QED BY <3>1 DEF LibRecord
  <2>4. ASSUME NEW w \in managed
        PROVE  /\ lib[w].name # Garbage /\ lib[w].type # Garbage
               /\ lib[w].transient \in Windows \cup {None}
    <3>1. w \in Windows /\ Live(w) /\ lib[w] \in LibRecord BY <2>1 DEF WTypes, Live
    <3>2. ~(task = "create" /\ cur = w) BY <2>1 DEF WTypes
    <3>3. task = "create" => Pending(w) = {} BY <3>2, PendingNone
    <3>4. lib[w].name # Garbage /\ lib[w].type # Garbage /\ lib[w].transient # Garbage
      BY <3>1, <3>3, <2>1 DEF Made
    <3> QED BY <3>1, <3>4 DEF LibRecord
  <2> QED BY <2>1, <2>2, <2>3, <2>4 DEF TypeOK, WTypes
<1> QED BY <1>1, WInvHolds, PTL

\* When no event about a window is queued and no reading is pending, there is no news of it.
LEMMA SettledIsQuiet ==
  ASSUME NEW w, Settled(w)
  PROVE  Live(w) /\ w \in alive /\ Pending(w) = {} /\ \A A : ~News(w, A)
<1>1. w \in managed /\ w \in alive /\ (cur = w => todo = <<>>) BY DEF Settled
<1>2. Pending(w) = {} BY <1>1, PendingNone
<1>3. \A a : PropertyEvent(w, a) \notin Elements(queue) BY DEF Settled, Elements, PropertyEvent
<1> QED BY <1>1, <1>2, <1>3 DEF Live, News, Told

\* Once no news of a window is under way the library holds the name, the type, the hints and
\* the opacity that the application gave last.
THEOREM PropertiesAgreeHolds == Spec => []PropertiesAgree
<1>1. WInv => PropertiesAgree
  <2> SUFFICES ASSUME WInv, NEW w \in Windows, Settled(w)
               PROVE  LET p == prop[w] IN
                        /\ lib[w].name = IF p.netName # None THEN p.netName ELSE p.name
                        /\ IF KnownIn(p.types) = {}
                             THEN lib[w].type \in {"NORMAL", "DIALOG"}
                             ELSE lib[w].type = p.types[First(KnownIn(p.types))]
                        /\ \A a \in {"hints", "opacity"} : p[a] # None => lib[w][a] = p[a]
    BY DEF PropertiesAgree
  <2>1. Agree(w) /\ \A A : ~News(w, A) BY SettledIsQuiet DEF WInv
  <2>2. NameNow(w) /\ TypeNow(w) BY <2>1 DEF Agree, NameAgrees, TypeAgrees
  <2>3. \A a \in {"hints", "opacity"} : prop[w][a] = None \/ lib[w][a] = prop[w][a]
    BY <2>1 DEF Agree, SettingAgrees
  <2> QED BY <2>2, <2>3 DEF NameNow, TypeNow
<1> QED BY <1>1, WInvHolds, PTL

\* A window that has announced WM_DELETE_WINDOW is asked to close by it and not killed, once
\* no news of it is under way.
THEOREM NotKilledHolds == Spec => []NotKilled
<1>1. WInv => NotKilled
  <2> SUFFICES ASSUME WInv, NEW w \in Windows, Settled(w), prop[w].protocols = "delete"
               PROVE  lib[w].delete = 1
    BY DEF NotKilled
  <2>1. Agree(w) /\ \A A : ~News(w, A) BY SettledIsQuiet DEF WInv
  <2> QED BY <2>1 DEF Agree, CloseAgrees
<1> QED BY <1>1, WInvHolds, PTL
=============================================================================
