------------------------------- MODULE Keysym -------------------------------
(***************************************************************************)
(* keysym2ucs.c: from Unicode characters to X keysyms and back, by binary  *)
(* search in a table sorted by keysym and in a copy of it that qsort has   *)
(* sorted by character.  A table is a sequence of [keysym, ucs].           *)
(***************************************************************************)
EXTENDS Integers, Sequences, SequencesExt

CONSTANTS KeysymTab  \* the table of the code

Max16 == 65535
Rows == [keysym : 256 .. Max16, ucs : 0 .. Max16]

\* Keysyms of 16 bits beyond Latin-1, each once, in increasing order, and the
\* characters they stand for, which may be the same.
IsTable(tab) ==
  /\ tab \in Seq(Rows)
  /\ \A i, j \in 1 .. Len(tab) : i < j => tab[i].keysym < tab[j].keysym

ASSUME TableAssumption == IsTable(KeysymTab)

Direct == 16777216    \* 0x01000000 marks a character encoded directly
NotFound == -1

Latin1(c) == c \in 32 .. 126 \cup 160 .. 255

\* The loop of both functions; an index runs from 0, as in C.
Search(tab, field, x) ==
  LET from[span \in (0 .. Len(tab)) \X (-1 .. Len(tab) - 1)] ==
        LET min == span[1]
            max == span[2]
            mid == (min + max) \div 2
        IN IF max < min THEN NotFound
           ELSE IF tab[mid + 1][field] < x THEN from[<<mid + 1, max>>]
           ELSE IF tab[mid + 1][field] > x THEN from[<<min, mid - 1>>]
           ELSE mid
  IN from[<<0, Len(tab) - 1>>]

\* keysym2ucs
ToUcs(tab, keysym) ==
  IF Latin1(keysym) THEN keysym
  ELSE IF keysym \div Direct = 1 THEN keysym % Direct
  ELSE LET i == Search(tab, "keysym", keysym)
       IN IF i = NotFound THEN -1 ELSE tab[i + 1].ucs

\* ucs2keysym, with the reversed table
FromUcs(reversed, ucs) ==
  IF Latin1(ucs) THEN ucs
  ELSE LET i == Search(reversed, "ucs", ucs)
       IN IF i = NotFound THEN ucs + Direct ELSE reversed[i + 1].keysym

\* Every result qsort may leave: it does not keep the order of equals.
Reversals(tab) ==
  {r \in SetToAllKPermutations(ToSet(tab)) :
     Len(r) = Len(tab) /\ \A i \in 1 .. Len(r) - 1 : r[i].ucs <= r[i + 1].ucs}

----------------------------------------------------------------------------
(* Properties *)

\* A search ends, and finds a keysym if and only if it is in the table.
SearchFinds(tab, keysym) ==
  LET hits == {i \in 1 .. Len(tab) : tab[i].keysym = keysym}
  IN IF hits = {} THEN ToUcs(tab, keysym) = -1
     ELSE \A i \in hits : ToUcs(tab, keysym) = tab[i].ucs

\* A character of 16 bits comes back from its keysym, in whatever order qsort
\* has left the entries of one character, and also if the table lists a
\* character that Latin-1 takes first; and a character the table lists is never
\* encoded directly.
RoundTrip(tab, reversed, ucs) ==
  /\ ToUcs(tab, FromUcs(reversed, ucs)) = ucs
  /\ FromUcs(reversed, ucs) >= Direct => \A i \in 1 .. Len(tab) : tab[i].ucs # ucs
=============================================================================
