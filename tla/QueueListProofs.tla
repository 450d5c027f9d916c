--------------------------- MODULE QueueListProofs ---------------------------
(***************************************************************************)
(* Lists and their pointers: where the program's operations move the       *)
(* places of a list, and what a macro has to assign for the pointers to    *)
(* follow.                                                                 *)
(***************************************************************************)
EXTENDS SysQueue, SequenceTheorems, TLAPS

-----------------------------------------------------------------------------
(* Sequences.                                                                *)

\* A part of a sequence: what InsertAt and RemoveAt, which stand for what the
\* program's calls do to a list, are built from.
LEMMA SubSeqFacts ==
  ASSUME NEW S, NEW s \in Seq(S), NEW a \in Int, NEW b \in Int, 1 <= a, b <= Len(s)
  PROVE  /\ SubSeq(s, a, b) \in Seq(S)
         /\ Len(SubSeq(s, a, b)) = IF a <= b THEN b - a + 1 ELSE 0
         /\ \A i \in 1 .. b - a + 1 : SubSeq(s, a, b)[i] = s[a + i - 1]
<1>1. \A i \in a .. b : s[i] \in S
  BY ElementOfSeq
<1> QED
  BY <1>1, SubSeqProperties

\* An insertion into a sequence: what an _INSERT_ macro is called for.
LEMMA InsertAtFacts ==
  ASSUME NEW S, NEW s \in Seq(S), NEW e \in S, NEW i \in 1 .. Len(s) + 1
  PROVE  /\ InsertAt(s, i, e) \in Seq(S)
         /\ Len(InsertAt(s, i, e)) = Len(s) + 1
         /\ \A j \in 1 .. Len(s) + 1 :
              InsertAt(s, i, e)[j] =
                IF j < i THEN s[j] ELSE IF j = i THEN e ELSE s[j - 1]
<1> DEFINE a == SubSeq(s, 1, i - 1)
           b == SubSeq(s, i, Len(s))
<1>0. Len(s) \in Nat
  BY LenProperties
<1>1. /\ a \in Seq(S) /\ Len(a) = i - 1
      /\ \A j \in 1 .. i - 1 : a[j] = s[j]
  <2>1. /\ SubSeq(s, 1, i - 1) \in Seq(S)
        /\ Len(SubSeq(s, 1, i - 1)) = IF 1 <= i - 1 THEN i - 1 - 1 + 1 ELSE 0
        /\ \A j \in 1 .. i - 1 - 1 + 1 : SubSeq(s, 1, i - 1)[j] = s[1 + j - 1]
    BY <1>0, SubSeqFacts
  <2> QED
    BY <1>0, <2>1
<1>2. /\ b \in Seq(S) /\ Len(b) = Len(s) + 1 - i
      /\ \A j \in 1 .. Len(s) + 1 - i : b[j] = s[i + j - 1]
  <2>1. /\ SubSeq(s, i, Len(s)) \in Seq(S)
        /\ Len(SubSeq(s, i, Len(s))) = IF i <= Len(s) THEN Len(s) - i + 1 ELSE 0
        /\ \A j \in 1 .. Len(s) - i + 1 : SubSeq(s, i, Len(s))[j] = s[i + j - 1]
    BY <1>0, SubSeqFacts
  <2> QED
    BY <1>0, <2>1
<1>3. /\ <<e>> \in Seq(S) /\ Len(<<e>>) = 1 /\ <<e>>[1] = e
  OBVIOUS
<1> DEFINE c == a \o <<e>>
<1> HIDE DEF a, b
<1>4. /\ c \in Seq(S) /\ Len(c) = i
      /\ \A j \in 1 .. i : c[j] = IF j < i THEN s[j] ELSE e
  BY <1>0, <1>1, <1>3, ConcatProperties
<1> HIDE DEF c
<1>5. /\ c \o b \in Seq(S) /\ Len(c \o b) = Len(s) + 1
      /\ \A j \in 1 .. Len(s) + 1 :
           (c \o b)[j] = IF j <= i THEN c[j] ELSE b[j - i]
  <2>1. /\ c \o b \in Seq(S) /\ Len(c \o b) = Len(c) + Len(b)
        /\ \A j \in 1 .. Len(c) + Len(b) :
             (c \o b)[j] = IF j <= Len(c) THEN c[j] ELSE b[j - Len(c)]
    BY <1>2, <1>4, ConcatProperties
  <2>2. Len(c) + Len(b) = Len(s) + 1
    BY <1>0, <1>2, <1>4
  <2> QED
    BY <1>4, <2>1, <2>2
<1>6. InsertAt(s, i, e) = c \o b
  BY DEF InsertAt, a, b, c
<1>7. ASSUME NEW j \in 1 .. Len(s) + 1
      PROVE  (c \o b)[j] = IF j < i THEN s[j] ELSE IF j = i THEN e ELSE s[j - 1]
  <2>1. CASE j \in 1 .. i
    BY <2>1, <1>0, <1>4, <1>5
  <2>2. CASE j \notin 1 .. i
    <3>1. j - i \in 1 .. Len(s) + 1 - i /\ i + (j - i) - 1 = j - 1 /\ j > i
      BY <2>2, <1>0
    <3>2. b[j - i] = s[j - 1]
      BY <3>1, <1>2
    <3> QED
      BY <3>1, <3>2, <1>0, <1>5
  <2> QED
    BY <2>1, <2>2
<1> QED
  BY <1>5, <1>6, <1>7

\* A removal from a sequence: what a _REMOVE macro is called for.
LEMMA RemoveAtFacts ==
  ASSUME NEW S, NEW s \in Seq(S), NEW i \in 1 .. Len(s)
  PROVE  /\ RemoveAt(s, i) \in Seq(S)
         /\ Len(RemoveAt(s, i)) = Len(s) - 1
         /\ \A j \in 1 .. Len(s) - 1 :
              RemoveAt(s, i)[j] = IF j < i THEN s[j] ELSE s[j + 1]
<1> DEFINE a == SubSeq(s, 1, i - 1)
           b == SubSeq(s, i + 1, Len(s))
<1>0. Len(s) \in Nat
  BY LenProperties
<1>1. /\ a \in Seq(S) /\ Len(a) = i - 1
      /\ \A j \in 1 .. i - 1 : a[j] = s[j]
  <2>1. /\ SubSeq(s, 1, i - 1) \in Seq(S)
        /\ Len(SubSeq(s, 1, i - 1)) = IF 1 <= i - 1 THEN i - 1 - 1 + 1 ELSE 0
        /\ \A j \in 1 .. i - 1 - 1 + 1 : SubSeq(s, 1, i - 1)[j] = s[1 + j - 1]
    BY <1>0, SubSeqFacts
  <2> QED
    BY <1>0, <2>1
<1>2. /\ b \in Seq(S) /\ Len(b) = Len(s) - i
      /\ \A j \in 1 .. Len(s) - i : b[j] = s[i + j]
  <2>1. /\ SubSeq(s, i + 1, Len(s)) \in Seq(S)
        /\ Len(SubSeq(s, i + 1, Len(s))) =
             IF i + 1 <= Len(s) THEN Len(s) - (i + 1) + 1 ELSE 0
        /\ \A j \in 1 .. Len(s) - (i + 1) + 1 :
             SubSeq(s, i + 1, Len(s))[j] = s[i + 1 + j - 1]
    BY <1>0, SubSeqFacts
  <2> QED
    BY <1>0, <2>1
<1> HIDE DEF a, b
<1>3. /\ a \o b \in Seq(S) /\ Len(a \o b) = Len(s) - 1
      /\ \A j \in 1 .. Len(s) - 1 :
           (a \o b)[j] = IF j <= i - 1 THEN a[j] ELSE b[j - (i - 1)]
  <2>1. /\ a \o b \in Seq(S) /\ Len(a \o b) = Len(a) + Len(b)
        /\ \A j \in 1 .. Len(a) + Len(b) :
             (a \o b)[j] = IF j <= Len(a) THEN a[j] ELSE b[j - Len(a)]
    BY <1>1, <1>2, ConcatProperties
  <2>2. Len(a) + Len(b) = Len(s) - 1
    BY <1>0, <1>1, <1>2
  <2> QED
    BY <1>1, <2>1, <2>2
<1>4. RemoveAt(s, i) = a \o b
  BY DEF RemoveAt, a, b
<1>5. ASSUME NEW j \in 1 .. Len(s) - 1
      PROVE  (a \o b)[j] = IF j < i THEN s[j] ELSE s[j + 1]
  <2>1. CASE j < i
    BY <2>1, <1>0, <1>1, <1>3
  <2>2. CASE ~(j < i)
    <3>1. j - (i - 1) \in 1 .. Len(s) - i /\ i + (j - (i - 1)) = j + 1
      BY <2>2, <1>0
    <3> QED
      BY <3>1, <2>2, <1>0, <1>2, <1>3
  <2> QED
    BY <2>1, <2>2
<1> QED
  BY <1>3, <1>4, <1>5

-----------------------------------------------------------------------------
(* Places.                                                                   *)

\* Place 0 is the head, the places of the list come next, and then its end.
LEMMA PlacesAre ==
  ASSUME ListsOK, NEW h \in Heads
  PROVE  /\ Len(list[h]) \in Nat
         /\ Places(h) = 1 .. Len(list[h])
         /\ At(h, 0) = h
         /\ \A i \in 1 .. Len(list[h]) : At(h, i) = list[h][i] /\ At(h, i) \in Elements
         /\ At(h, Len(list[h]) + 1) = End(h)
<1>1. list[h] \in Seq(Elements)
  BY DEF ListsOK
<1>2. Len(list[h]) \in Nat /\ Places(h) = 1 .. Len(list[h])
  BY <1>1, LenProperties DEF Places
<1>3. \A i \in 1 .. Len(list[h]) : list[h][i] \in Elements
  BY <1>1, ElementOfSeq
<1> QED
  BY <1>2, <1>3 DEF At, Place

\* No two places of the lists are taken by one element.
LEMMA AtInjective ==
  ASSUME ListsOK, NEW g \in Heads, NEW h \in Heads,
         NEW i \in 0 .. Len(list[g]), NEW j \in 0 .. Len(list[h]),
         At(g, i) = At(h, j)
  PROVE  g = h /\ i = j
<1>1. /\ i = 0 \/ i \in 1 .. Len(list[g])
      /\ j = 0 \/ j \in 1 .. Len(list[h])
  BY PlacesAre
<1>2. CASE i = 0 \/ j = 0
  BY <1>1, <1>2, PlacesAre, OwnersAssumption
<1>3. CASE i \in 1 .. Len(list[g]) /\ j \in 1 .. Len(list[h])
  BY <1>3, PlacesAre DEF ListsOK
<1> QED
  BY <1>1, <1>2, <1>3

\* The same of the next state.
LEMMA PlacesAreNext ==
  ASSUME ListsOK', NEW h \in Heads
  PROVE  /\ Len(list'[h]) \in Nat
         /\ Places(h)' = 1 .. Len(list'[h])
         /\ At(h, 0)' = h
         /\ \A i \in 1 .. Len(list'[h]) : At(h, i)' = list'[h][i]
         /\ \A i \in Nat : i = Len(list'[h]) + 1 => At(h, i)' = End(h)'
<1>1. list'[h] \in Seq(Elements)
  BY DEF ListsOK
<1>2. Len(list'[h]) \in Nat /\ Places(h)' = 1 .. Len(list'[h])
  BY <1>1, LenProperties DEF Places
<1>3. At(h, 0)' = h
  <2>1. ASSUME NEW i \in Nat, i = 0 PROVE At(h, i)' = h
    <3>1. i \notin Places(h)'
      BY <1>2, <2>1
    <3> QED
      BY <2>1, <3>1 DEF At, Place
  <2> QED
    BY <2>1
<1>4. ASSUME NEW i \in 1 .. Len(list'[h]) PROVE At(h, i)' = list'[h][i]
  <2>1. i # 0 /\ i \in Places(h)'
    BY <1>2
  <2> QED
    BY <2>1 DEF At, Place
<1>5. ASSUME NEW i \in Nat, i = Len(list'[h]) + 1 PROVE At(h, i)' = End(h)'
  <2>1. i # 0 /\ i \notin Places(h)'
    BY <1>2, <1>5
  <2> QED
    BY <2>1 DEF At, Place
<1> QED
  BY <1>2, <1>3, <1>4, <1>5

\* A free element is in no place.
LEMMA FreeIsNowhere ==
  ASSUME ListsOK, NEW e \in Free
  PROVE  /\ e \in Elements
         /\ \A g \in Heads : \A j \in 0 .. Len(list[g]) : At(g, j) # e
<1>1. e \in Elements /\ \A g \in Heads : e \notin ToSet(list[g])
  BY DEF Free
<1>2. ASSUME NEW g \in Heads, NEW j \in 0 .. Len(list[g]) PROVE At(g, j) # e
  <2>1. CASE j = 0
    BY <2>1, <1>1, PlacesAre, OwnersAssumption
  <2>2. CASE j \in 1 .. Len(list[g])
    <3>1. list[g][j] \in ToSet(list[g])
      BY <2>2, PlacesAre DEF ToSet, Places
    <3> QED
      BY <1>1, <2>2, <3>1, PlacesAre
  <2> QED
    BY <2>1, <2>2, PlacesAre
<1> QED
  BY <1>1, <1>2

\* The lists that an operation leaves alone keep their places.
LEMMA OthersStay ==
  ASSUME ListsOK, ListsOK', kind' = kind, NEW g \in Heads, list'[g] = list[g]
  PROVE  \A j \in 0 .. Len(list[g]) + 1 : At(g, j)' = At(g, j)
<1>1. End(g)' = End(g)
  BY DEF End
<1>2. ASSUME NEW j \in 0 .. Len(list[g]) + 1 PROVE At(g, j)' = At(g, j)
  <2>0. Len(list[g]) \in Nat
    BY PlacesAre
  <2>1. CASE j = 0
    BY <2>1, PlacesAre, PlacesAreNext
  <2>2. CASE j = Len(list[g]) + 1
    <3>1. At(g, j) = End(g)
      BY <2>2, PlacesAre
    <3>2. At(g, j)' = End(g)'
      BY <2>0, <2>2, PlacesAreNext
    <3> QED
      BY <1>1, <3>1, <3>2
  <2>3. CASE j \in 1 .. Len(list[g])
    <3>1. At(g, j) = list[g][j]
      BY <2>3, PlacesAre
    <3>2. At(g, j)' = list'[g][j]
      BY <2>3, PlacesAreNext
    <3> QED
      BY <3>1, <3>2
  <2> QED
    BY <2>0, <2>1, <2>2, <2>3
<1> QED
  BY <1>2

(* What the operations do to the lists.                                      *)

\* The lists after an insertion, a removal, a replacement, an _INIT and a _CONCAT.
Inserts(h, i, e) == list' = [list EXCEPT ![h] = InsertAt(list[h], i, e)]
Removes(h, i) == list' = [list EXCEPT ![h] = RemoveAt(list[h], i)]
Replaces(h, i, e) == list' = [list EXCEPT ![h] = [list[h] EXCEPT ![i] = e]]
Empties(h) == list' = [list EXCEPT ![h] = <<>>]
Joins(f, h) == list' = [list EXCEPT ![f] = list[f] \o list[h], ![h] = <<>>]

\* An insertion moves the places behind it one on.
LEMMA Inserted ==
  ASSUME ListsOK, kind' = kind, NEW h \in Heads, NEW e \in Free,
         NEW i \in 1 .. Len(list[h]) + 1,
         Inserts(h, i, e)
  PROVE  /\ ListsOK'
         /\ Len(list'[h]) = Len(list[h]) + 1
         /\ \A g \in Heads \ {h} : list'[g] = list[g]
         /\ \A j \in 0 .. Len(list[h]) + 2 :
              At(h, j)' = IF j < i THEN At(h, j)
                          ELSE IF j = i THEN e ELSE At(h, j - 1)
<1> list' = [list EXCEPT ![h] = InsertAt(list[h], i, e)]
  BY DEF Inserts
<1>0. /\ list[h] \in Seq(Elements) /\ Len(list[h]) \in Nat
      /\ e \in Elements
  BY PlacesAre, FreeIsNowhere DEF ListsOK
<1>1. /\ list'[h] \in Seq(Elements)
      /\ Len(list'[h]) = Len(list[h]) + 1
      /\ \A j \in 1 .. Len(list[h]) + 1 :
           list'[h][j] = IF j < i THEN list[h][j]
                         ELSE IF j = i THEN e ELSE list[h][j - 1]
  <2>1. list'[h] = InsertAt(list[h], i, e)
    BY DEF ListsOK
  <2>2. /\ InsertAt(list[h], i, e) \in Seq(Elements)
        /\ Len(InsertAt(list[h], i, e)) = Len(list[h]) + 1
        /\ \A j \in 1 .. Len(list[h]) + 1 :
             InsertAt(list[h], i, e)[j] =
               IF j < i THEN list[h][j] ELSE IF j = i THEN e ELSE list[h][j - 1]
    <3>1. \A s \in Seq(Elements) : \A k \in 1 .. Len(s) + 1 :
            /\ InsertAt(s, k, e) \in Seq(Elements)
            /\ Len(InsertAt(s, k, e)) = Len(s) + 1
            /\ \A j \in 1 .. Len(s) + 1 :
                 InsertAt(s, k, e)[j] =
                   IF j < k THEN s[j] ELSE IF j = k THEN e ELSE s[j - 1]
      BY ONLY <1>0, InsertAtFacts
    <3>2. list[h] \in Seq(Elements) /\ i \in 1 .. Len(list[h]) + 1
      BY <1>0
    <3> QED
      BY ONLY <3>1, <3>2
  <2> QED
    BY <2>1, <2>2
<1>2. \A g \in Heads \ {h} : list'[g] = list[g]
  BY DEF ListsOK
<1>3. list' \in [Heads -> Seq(Elements)]
  <2>1. InsertAt(list[h], i, e) \in Seq(Elements)
    BY <1>0, InsertAtFacts
  <2> QED
    BY <2>1 DEF ListsOK
<1>4. \A g \in Heads : Len(list'[g]) \in Nat /\ Places(g)' = 1 .. Len(list'[g])
  BY <1>3, LenProperties DEF Places
<1> DEFINE Old(g, j) == IF g = h /\ j > i THEN j - 1 ELSE j
<1>5. ASSUME NEW g \in Heads, NEW j \in 1 .. Len(list'[g])
      PROVE  IF g = h /\ j = i THEN list'[g][j] = e
             ELSE /\ Old(g, j) \in 1 .. Len(list[g])
                  /\ list'[g][j] = At(g, Old(g, j))
                  /\ At(g, Old(g, j)) # e
  <2>1. CASE g # h
    BY <1>2, <1>5, <2>1, PlacesAre, FreeIsNowhere
  <2>2. CASE g = h /\ j = i
    BY <1>1, <2>2
  <2>3. CASE g = h /\ j # i
    <3>1. Old(g, j) \in 1 .. Len(list[h])
      BY <1>0, <1>1, <1>5, <2>3
    <3>2. list'[g][j] = list[h][Old(g, j)]
      BY <1>0, <1>1, <1>5, <2>3
    <3> QED
      BY <2>3, <3>1, <3>2, PlacesAre, FreeIsNowhere
  <2> QED
    BY <2>1, <2>2, <2>3
<1>6. ASSUME NEW f \in Heads, NEW g \in Heads, NEW j \in Places(f)', NEW k \in Places(g)',
             list'[f][j] = list'[g][k]
      PROVE  f = g /\ j = k
  <2>1. j \in 1 .. Len(list'[f]) /\ k \in 1 .. Len(list'[g])
    BY <1>4, <1>6
  <2>2. CASE (f = h /\ j = i) \/ (g = h /\ k = i)
    BY <1>5, <1>6, <2>1, <2>2
  <2>3. CASE ~(f = h /\ j = i) /\ ~(g = h /\ k = i)
    <3>1. /\ Old(f, j) \in 1 .. Len(list[f]) /\ Old(g, k) \in 1 .. Len(list[g])
          /\ At(f, Old(f, j)) = At(g, Old(g, k))
      BY <1>5, <1>6, <2>1, <2>3
    <3>2. f = g /\ Old(f, j) = Old(g, k)
      <4> HIDE DEF Old
      <4>1. /\ Old(f, j) \in 0 .. Len(list[f]) /\ Old(g, k) \in 0 .. Len(list[g])
        BY <3>1, PlacesAre
      <4> QED
        BY <3>1, <4>1, AtInjective
    <3> QED
      BY <1>0, <1>4, <2>1, <2>3, <3>2
  <2> QED
    BY <2>2, <2>3
<1>7. ListsOK'
  BY <1>3, <1>6 DEF ListsOK
<1>8. ASSUME NEW j \in 0 .. Len(list[h]) + 2
      PROVE  At(h, j)' = IF j < i THEN At(h, j)
                         ELSE IF j = i THEN e ELSE At(h, j - 1)
  <2>0. End(h)' = End(h)
    BY DEF End
  <2>1. CASE j = 0
    BY <2>1, <1>0, <1>7, PlacesAre, PlacesAreNext
  <2>2. CASE j = Len(list[h]) + 2
    <3>1. At(h, j)' = End(h)'
      BY <1>0, <1>1, <1>7, <2>2, PlacesAreNext
    <3>2. At(h, j - 1) = End(h)
      BY <1>0, <2>2, PlacesAre
    <3>3. ~(j < i) /\ j # i
      BY <2>2, <1>0
    <3> QED
      BY <2>0, <3>1, <3>2, <3>3
  <2>3. CASE j \in 1 .. Len(list[h]) + 1
    <3>1. At(h, j)' = list'[h][j]
      BY <1>1, <1>7, <2>3, PlacesAreNext
    <3>2. j < i => At(h, j) = list[h][j]
      BY <1>0, <2>3, PlacesAre
    <3>3. ~(j < i) /\ j # i => At(h, j - 1) = list[h][j - 1]
      BY <1>0, <2>3, PlacesAre
    <3> QED
      BY <2>3, <3>1, <3>2, <3>3, <1>1
  <2> QED
    BY <1>0, <2>1, <2>2, <2>3
<1> QED
  BY <1>1, <1>2, <1>7, <1>8

\* A removal moves the places behind it one back.
LEMMA Removed ==
  ASSUME ListsOK, kind' = kind, NEW h \in Heads, NEW i \in 1 .. Len(list[h]),
         Removes(h, i)
  PROVE  /\ ListsOK'
         /\ Len(list'[h]) = Len(list[h]) - 1
         /\ \A g \in Heads \ {h} : list'[g] = list[g]
         /\ \A j \in 0 .. Len(list[h]) :
              At(h, j)' = IF j < i THEN At(h, j) ELSE At(h, j + 1)
<1> list' = [list EXCEPT ![h] = RemoveAt(list[h], i)]
  BY DEF Removes
<1>0. list[h] \in Seq(Elements) /\ Len(list[h]) \in Nat
  BY PlacesAre DEF ListsOK
<1>1. /\ RemoveAt(list[h], i) \in Seq(Elements)
      /\ Len(RemoveAt(list[h], i)) = Len(list[h]) - 1
      /\ \A j \in 1 .. Len(list[h]) - 1 :
           RemoveAt(list[h], i)[j] = IF j < i THEN list[h][j] ELSE list[h][j + 1]
  <2>1. i \in 1 .. Len(list[h])
    OBVIOUS
  <2> QED
    BY ONLY <1>0, <2>1, RemoveAtFacts
<1>2. list'[h] = RemoveAt(list[h], i) /\ \A g \in Heads \ {h} : list'[g] = list[g]
  BY DEF ListsOK
<1>3. list' \in [Heads -> Seq(Elements)]
  BY <1>1 DEF ListsOK
<1>4. \A g \in Heads : Len(list'[g]) \in Nat /\ Places(g)' = 1 .. Len(list'[g])
  BY <1>3, LenProperties DEF Places
<1> DEFINE Old(g, j) == IF g = h /\ j >= i THEN j + 1 ELSE j
<1>5. ASSUME NEW g \in Heads, NEW j \in 1 .. Len(list'[g])
      PROVE  /\ Old(g, j) \in 1 .. Len(list[g])
             /\ list'[g][j] = list[g][Old(g, j)]
  <2>1. CASE g # h
    BY <1>2, <1>5, <2>1
  <2>2. CASE g = h
    BY <1>0, <1>1, <1>2, <1>5, <2>2
  <2> QED
    BY <2>1, <2>2
<1>6. ASSUME NEW f \in Heads, NEW g \in Heads, NEW j \in Places(f)', NEW k \in Places(g)',
             list'[f][j] = list'[g][k]
      PROVE  f = g /\ j = k
  <2>1. j \in 1 .. Len(list'[f]) /\ k \in 1 .. Len(list'[g])
    BY <1>4, <1>6
  <2>2. /\ Old(f, j) \in 1 .. Len(list[f]) /\ Old(g, k) \in 1 .. Len(list[g])
        /\ list[f][Old(f, j)] = list[g][Old(g, k)]
    BY <1>5, <1>6, <2>1
  <2>3. f = g /\ Old(f, j) = Old(g, k)
    <3> HIDE DEF Old
    <3> QED
      BY <2>2, PlacesAre DEF ListsOK
  <2> QED
    BY <1>0, <2>1, <2>3
<1>7. ListsOK'
  BY <1>3, <1>6 DEF ListsOK
<1>8. ASSUME NEW j \in 0 .. Len(list[h])
      PROVE  At(h, j)' = IF j < i THEN At(h, j) ELSE At(h, j + 1)
  <2>0. End(h)' = End(h)
    BY DEF End
  <2>1. CASE j = 0
    BY <2>1, <1>0, <1>7, PlacesAre, PlacesAreNext
  <2>2. CASE j = Len(list[h])
    <3>1. At(h, j)' = End(h)'
      BY <1>0, <1>1, <1>2, <1>7, <2>2, PlacesAreNext
    <3>2. At(h, j + 1) = End(h)
      BY <1>0, <2>2, PlacesAre
    <3> QED
      BY <2>0, <2>2, <3>1, <3>2
  <2>3. CASE j \in 1 .. Len(list[h]) - 1
    <3>1. At(h, j)' = list'[h][j]
      BY <1>0, <1>1, <1>2, <1>7, <2>3, PlacesAreNext
    <3>2. At(h, j) = list[h][j] /\ At(h, j + 1) = list[h][j + 1]
      BY <1>0, <2>3, PlacesAre
    <3> QED
      BY <2>3, <3>1, <3>2, <1>1, <1>2
  <2> QED
    BY <1>0, <2>1, <2>2, <2>3
<1> QED
  BY <1>1, <1>2, <1>7, <1>8

\* A replacement changes one place.
LEMMA Replaced ==
  ASSUME ListsOK, kind' = kind, NEW h \in Heads, NEW i \in 1 .. Len(list[h]),
         NEW e \in Free, Replaces(h, i, e)
  PROVE  /\ ListsOK'
         /\ Len(list'[h]) = Len(list[h])
         /\ \A g \in Heads \ {h} : list'[g] = list[g]
         /\ \A j \in 0 .. Len(list[h]) + 1 :
              At(h, j)' = IF j = i THEN e ELSE At(h, j)
<1> list' = [list EXCEPT ![h] = [list[h] EXCEPT ![i] = e]]
  BY DEF Replaces
<1>0. /\ list[h] \in Seq(Elements) /\ Len(list[h]) \in Nat
      /\ e \in Elements
  BY PlacesAre, FreeIsNowhere DEF ListsOK
<1>1. /\ [list[h] EXCEPT ![i] = e] \in Seq(Elements)
      /\ Len([list[h] EXCEPT ![i] = e]) = Len(list[h])
      /\ \A j \in 1 .. Len(list[h]) :
           [list[h] EXCEPT ![i] = e][j] = IF j = i THEN e ELSE list[h][j]
  <2>1. i \in 1 .. Len(list[h])
    OBVIOUS
  <2> QED
    BY ONLY <1>0, <2>1, ExceptSeq
<1>2. /\ list'[h] = [list[h] EXCEPT ![i] = e]
      /\ \A g \in Heads \ {h} : list'[g] = list[g]
  BY DEF ListsOK
<1>3. list' \in [Heads -> Seq(Elements)]
  BY <1>1 DEF ListsOK
<1>4. \A g \in Heads : Len(list'[g]) \in Nat /\ Places(g)' = 1 .. Len(list'[g])
  BY <1>3, LenProperties DEF Places
<1>5. ASSUME NEW g \in Heads, NEW j \in 1 .. Len(list'[g])
      PROVE  /\ j \in 1 .. Len(list[g])
             /\ list'[g][j] = IF g = h /\ j = i THEN e ELSE At(g, j)
             /\ At(g, j) # e
  <2>1. j \in 1 .. Len(list[g])
    BY <1>1, <1>2, <1>5
  <2>2. At(g, j) = list[g][j] /\ At(g, j) # e
    BY <2>1, PlacesAre, FreeIsNowhere
  <2> QED
    BY <1>1, <1>2, <2>1, <2>2
<1>6. ASSUME NEW f \in Heads, NEW g \in Heads, NEW j \in Places(f)', NEW k \in Places(g)',
             list'[f][j] = list'[g][k]
      PROVE  f = g /\ j = k
  <2>1. j \in 1 .. Len(list'[f]) /\ k \in 1 .. Len(list'[g])
    BY <1>4, <1>6
  <2>2. CASE (f = h /\ j = i) \/ (g = h /\ k = i)
    BY <1>5, <1>6, <2>1, <2>2
  <2>3. CASE ~(f = h /\ j = i) /\ ~(g = h /\ k = i)
    <3>1. j \in 0 .. Len(list[f]) /\ k \in 0 .. Len(list[g]) /\ At(f, j) = At(g, k)
      BY <1>5, <1>6, <2>1, <2>3, PlacesAre
    <3> QED
      BY <3>1, AtInjective
  <2> QED
    BY <2>2, <2>3
<1>7. ListsOK'
  BY <1>3, <1>6 DEF ListsOK
<1>8. ASSUME NEW j \in 0 .. Len(list[h]) + 1
      PROVE  At(h, j)' = IF j = i THEN e ELSE At(h, j)
  <2>0. End(h)' = End(h)
    BY DEF End
  <2>1. CASE j = 0
    BY <2>1, <1>0, <1>7, PlacesAre, PlacesAreNext
  <2>2. CASE j = Len(list[h]) + 1
    <3>1. At(h, j)' = End(h)'
      BY <1>0, <1>1, <1>2, <1>7, <2>2, PlacesAreNext
    <3>2. At(h, j) = End(h) /\ j # i
      BY <1>0, <2>2, PlacesAre
    <3> QED
      BY <2>0, <3>1, <3>2
  <2>3. CASE j \in 1 .. Len(list[h])
    <3>1. At(h, j)' = list'[h][j]
      BY <1>0, <1>1, <1>2, <1>7, <2>3, PlacesAreNext
    <3>2. At(h, j) = list[h][j]
      BY <1>0, <2>3, PlacesAre
    <3> QED
      BY <2>3, <3>1, <3>2, <1>1, <1>2
  <2> QED
    BY <1>0, <2>1, <2>2, <2>3
<1> QED
  BY <1>1, <1>2, <1>7, <1>8

\* An emptied list has its head and its end.
LEMMA Emptied ==
  ASSUME ListsOK, kind' = kind, NEW h \in Heads, Empties(h)
  PROVE  /\ ListsOK'
         /\ Len(list'[h]) = 0
         /\ \A g \in Heads \ {h} : list'[g] = list[g]
         /\ At(h, 0)' = h /\ At(h, 1)' = End(h)
<1> list' = [list EXCEPT ![h] = <<>>]
  BY DEF Empties
<1>1. list'[h] = <<>> /\ \A g \in Heads \ {h} : list'[g] = list[g]
  BY DEF ListsOK
<1>2. list' \in [Heads -> Seq(Elements)] /\ Len(list'[h]) = 0
  BY <1>1 DEF ListsOK
<1>3. ASSUME NEW f \in Heads, NEW g \in Heads, NEW j \in Places(f)', NEW k \in Places(g)',
             list'[f][j] = list'[g][k]
      PROVE  f = g /\ j = k
  <2>1. f # h /\ g # h
    BY <1>1, <1>3 DEF Places
  <2> QED
    BY <1>1, <1>3, <2>1 DEF ListsOK, Places
<1>4. ListsOK'
  BY <1>2, <1>3 DEF ListsOK
<1>5. \A j \in Nat : j = 1 => At(h, j)' = End(h)'
  BY <1>2, <1>4, PlacesAreNext
<1>6. End(h)' = End(h)
  BY DEF End
<1> QED
  BY <1>1, <1>2, <1>4, <1>5, <1>6, PlacesAreNext

\* Of two joined lists, the second one's places follow the first one's.
LEMMA Joined ==
  ASSUME ListsOK, kind' = kind, kind # "CIRCLEQ", NEW f \in Heads, NEW h \in Heads, f # h,
         Joins(f, h)
  PROVE  /\ ListsOK'
         /\ Len(list'[f]) = Len(list[f]) + Len(list[h]) /\ Len(list'[h]) = 0
         /\ \A g \in Heads \ {f, h} : list'[g] = list[g]
         /\ At(h, 0)' = h /\ At(h, 1)' = End(h)
         /\ \A j \in 0 .. Len(list[f]) + Len(list[h]) + 1 :
              At(f, j)' = IF j <= Len(list[f]) THEN At(f, j) ELSE At(h, j - Len(list[f]))
<1>1. PICK m \in Nat, n \in Nat :
        /\ m = Len(list[f]) /\ n = Len(list[h])
        /\ list[f] \in Seq(Elements) /\ list[h] \in Seq(Elements)
  BY PlacesAre DEF ListsOK
<1>2. PICK s \in Seq(Elements) :
        /\ s = list[f] \o list[h] /\ Len(s) = m + n
        /\ \A j \in 1 .. m + n : s[j] = IF j <= m THEN list[f][j] ELSE list[h][j - m]
  <2>1. /\ list[f] \o list[h] \in Seq(Elements)
        /\ Len(list[f] \o list[h]) = Len(list[f]) + Len(list[h])
        /\ \A j \in 1 .. Len(list[f]) + Len(list[h]) :
             (list[f] \o list[h])[j] =
               IF j <= Len(list[f]) THEN list[f][j] ELSE list[h][j - Len(list[f])]
    BY ONLY <1>1, ConcatProperties
  <2> QED
    BY <1>1, <2>1
<1>3. list' = [list EXCEPT ![f] = s, ![h] = <<>>]
  BY <1>2 DEF Joins
<1>4. /\ list' \in [Heads -> Seq(Elements)]
      /\ list'[f] = s /\ list'[h] = <<>> /\ Len(list'[h]) = 0
      /\ \A g \in Heads \ {f, h} : list'[g] = list[g]
  <2>1. /\ list \in [Heads -> Seq(Elements)] /\ <<>> \in Seq(Elements)
        /\ f # h /\ f \in Heads /\ h \in Heads /\ s \in Seq(Elements)
    BY DEF ListsOK
  <2> QED
    BY ONLY <1>3, <2>1
<1>5. ListsOK' /\ \A g \in Heads : Len(list'[g]) \in Nat /\ Places(g)' = 1 .. Len(list'[g])
  <2>1. \A g \in Heads : Len(list'[g]) \in Nat /\ Places(g)' = 1 .. Len(list'[g])
    BY <1>4, LenProperties DEF Places
  <2>2. \A j \in Places(h)' : FALSE
    BY <1>4, <2>1
  <2>3. ASSUME NEW j \in Places(f)'
        PROVE  \/ j \in Places(f) /\ j <= m /\ list'[f][j] = list[f][j]
               \/ j > m /\ j - m \in Places(h) /\ list'[f][j] = list[h][j - m]
    <3>1. j \in 1 .. m + n /\ Places(f) = 1 .. m /\ Places(h) = 1 .. n
      BY <1>1, <1>2, <1>4, <2>1, PlacesAre
    <3>2. j <= m => j \in 1 .. m
      BY <3>1
    <3>3. ~(j <= m) => j > m /\ j - m \in 1 .. n
      BY <3>1
    <3> QED
      BY <1>2, <1>4, <3>1, <3>2, <3>3
  <2>4. \A g \in Heads \ {f, h} : Places(g)' = Places(g)
    BY <1>4 DEF Places
  <2>5. ASSUME NEW a \in Heads, NEW b \in Heads, NEW j \in Places(a)', NEW k \in Places(b)',
               list'[a][j] = list'[b][k]
        PROVE  a = b /\ j = k
    <3>0. a # h /\ b # h /\ j \in Nat /\ k \in Nat
      BY <2>1, <2>2
    <3>1. CASE a = f /\ b = f
      <4>1. \/ j \in Places(f) /\ j <= m /\ list'[f][j] = list[f][j]
            \/ j > m /\ j - m \in Places(h) /\ list'[f][j] = list[h][j - m]
        BY <2>3, <3>1
      <4>2. \/ k \in Places(f) /\ k <= m /\ list'[f][k] = list[f][k]
            \/ k > m /\ k - m \in Places(h) /\ list'[f][k] = list[h][k - m]
        BY <2>3, <3>1
      <4> QED
        BY <2>5, <3>0, <3>1, <4>1, <4>2 DEF ListsOK
    <3>2. CASE a = f /\ b # f
      <4>1. \/ j \in Places(f) /\ list'[f][j] = list[f][j]
            \/ j - m \in Places(h) /\ list'[f][j] = list[h][j - m]
        BY <2>3, <3>2
      <4> QED
        BY <1>4, <2>4, <2>5, <3>0, <3>2, <4>1 DEF ListsOK
    <3>3. CASE a # f /\ b = f
      <4>1. \/ k \in Places(f) /\ list'[f][k] = list[f][k]
            \/ k - m \in Places(h) /\ list'[f][k] = list[h][k - m]
        BY <2>3, <3>3
      <4> QED
        BY <1>4, <2>4, <2>5, <3>0, <3>3, <4>1 DEF ListsOK
    <3>4. CASE a # f /\ b # f
      BY <1>4, <2>4, <2>5, <3>0, <3>4 DEF ListsOK
    <3> QED
      BY <3>1, <3>2, <3>3, <3>4
  <2> QED
    BY <1>4, <2>1, <2>5 DEF ListsOK
<1>6. /\ Len(list'[f]) = m + n
      /\ At(f, 0) = f /\ At(f, 0)' = f
      /\ \A j \in 1 .. m : At(f, j) = list[f][j]
      /\ \A j \in 1 .. n : At(h, j) = list[h][j]
      /\ At(h, n + 1) = End(h)
      /\ \A j \in 1 .. m + n : At(f, j)' = list'[f][j]
  <2>1. Len(list'[f]) = m + n
    BY <1>2, <1>4
  <2>2. At(f, 0)' = f /\ \A j \in 1 .. m + n : At(f, j)' = list'[f][j]
    BY <2>1, <1>5, PlacesAreNext
  <2> QED
    BY <1>1, <2>1, <2>2, PlacesAre
<1>7. ASSUME NEW j \in 0 .. m + n + 1
      PROVE  At(f, j)' = IF j <= m THEN At(f, j) ELSE At(h, j - m)
  <2>0. End(f)' = End(f) /\ End(f) = End(h)
    BY DEF End
  <2>1. CASE j = 0
    BY <2>1, <1>6
  <2>2. CASE j = m + n + 1
    <3>1. j = Len(list'[f]) + 1 /\ j \in Nat
      BY <1>6, <2>2
    <3>2. At(f, j)' = End(f)'
      BY <3>1, <1>5, PlacesAreNext
    <3>3. j - m = n + 1 /\ ~(j <= m)
      BY <2>2
    <3> QED
      BY <2>0, <3>2, <3>3, <1>6
  <2>3. CASE j \in 1 .. m + n
    <3>1. j <= m => j \in 1 .. m
      BY <2>3
    <3>2. ~(j <= m) => j - m \in 1 .. n
      BY <2>3
    <3>3. At(f, j)' = s[j]
      BY <2>3, <1>4, <1>6
    <3>4. s[j] = IF j <= m THEN list[f][j] ELSE list[h][j - m]
      BY <2>3, <1>2
    <3> QED
      BY <3>1, <3>2, <3>3, <3>4, <1>6
  <2> QED
    BY <2>1, <2>2, <2>3
<1>8. At(h, 0)' = h /\ At(h, 1)' = End(h)
  <2>1. \A j \in Nat : j = 1 => At(h, j)' = End(h)'
    BY <1>4, <1>5, PlacesAreNext
  <2>2. End(h)' = End(h)
    BY DEF End
  <2> QED
    BY <2>1, <2>2, <1>5, PlacesAreNext
<1> QED
  BY <1>1, <1>4, <1>5, <1>6, <1>7, <1>8

-----------------------------------------------------------------------------

\* What a loop's condition compares var with, NULL or the head of a CIRCLEQ, is
\* no element, so a loop ends there and nowhere else.
LEMMA EndIsNoElement ==
  ASSUME NEW h \in Heads
  PROVE  End(h) \notin Elements /\ End(h) \in Values /\ End(h) # Garbage
BY OwnersAssumption DEF End, Values, Owners

\* What is at a place.
LEMMA AtIsOwner ==
  ASSUME ListsOK, NEW h \in Heads
  PROVE  /\ Len(list[h]) \in Nat
         /\ At(h, 0) = h /\ At(h, Len(list[h]) + 1) = End(h)
         /\ \A i \in 0 .. Len(list[h]) : At(h, i) \in Owners
         /\ \A i \in 1 .. Len(list[h]) : At(h, i) \in Elements
BY PlacesAre DEF Owners

-----------------------------------------------------------------------------
(* Insertion of e at place i of h.                                           *)

\* An _INSERT_ macro that makes e point to what is at place i, and what is before
\* that place point to e, leaves every list spelt by its forward pointers.
LEMMA InsertForward ==
  ASSUME ListsOK, Forward, kind' = kind, NEW h \in Heads, NEW e \in Free,
         NEW i \in 1 .. Len(list[h]) + 1,
         Inserts(h, i, e),
         \A o \in Owners :
           mem'.next[o] = IF o = e THEN At(h, i)
                          ELSE IF o = At(h, i - 1) THEN e ELSE mem.next[o]
  PROVE  Forward'
<1>1. PICK n \in Nat : n = Len(list[h]) /\ i \in 1 .. n + 1
  BY AtIsOwner
<1>2. /\ ListsOK'
      /\ Len(list'[h]) = n + 1
      /\ \A g \in Heads \ {h} : list'[g] = list[g]
      /\ \A j \in 0 .. n + 2 :
           At(h, j)' = IF j < i THEN At(h, j) ELSE IF j = i THEN e ELSE At(h, j - 1)
  BY <1>1, Inserted
<1>3. /\ e \in Elements /\ e \in Owners
      /\ \A g \in Heads : \A j \in 0 .. Len(list[g]) : At(g, j) # e
  BY FreeIsNowhere DEF Owners
<1>4. ASSUME NEW g \in Heads \ {h}, NEW j \in 0 .. Len(list'[g])
      PROVE  mem'.next[At(g, j)'] = At(g, j + 1)'
  <2>1. Len(list'[g]) = Len(list[g]) /\ Len(list[g]) \in Nat /\ j \in 0 .. Len(list[g])
    BY <1>2, AtIsOwner
  <2>2. At(g, j)' = At(g, j) /\ At(g, j + 1)' = At(g, j + 1)
    BY <1>2, <2>1, OthersStay
  <2>3. At(g, j) \in Owners /\ At(g, j) # e
    BY <1>3, <2>1, AtIsOwner
  <2>4. i - 1 \in 0 .. Len(list[h])
    BY <1>1
  <2>5. At(g, j) # At(h, i - 1)
    BY <2>1, <2>4, AtInjective
  <2> QED
    BY <2>1, <2>2, <2>3, <2>5 DEF Forward
<1>5. ASSUME NEW j \in 0 .. n + 1
      PROVE  mem'.next[At(h, j)'] = At(h, j + 1)'
  <2>0. /\ At(h, j)' = IF j < i THEN At(h, j) ELSE IF j = i THEN e ELSE At(h, j - 1)
        /\ At(h, j + 1)' =
             IF j + 1 < i THEN At(h, j + 1) ELSE IF j + 1 = i THEN e ELSE At(h, j)
    <3>1. j \in 0 .. n + 2 /\ j + 1 \in 0 .. n + 2 /\ j + 1 - 1 = j
      BY <1>5
    <3> QED
      BY <1>2, <3>1
  <2>1. ASSUME NEW k \in 0 .. n, k # i - 1
        PROVE  mem'.next[At(h, k)] = At(h, k + 1)
    <3>1. At(h, k) \in Owners /\ At(h, k) # e
      BY <1>1, <1>3, AtIsOwner
    <3>2. At(h, k) # At(h, i - 1)
      <4>1. k \in 0 .. Len(list[h]) /\ i - 1 \in 0 .. Len(list[h])
        BY <1>1
      <4> QED
        BY <4>1, <2>1, AtInjective
    <3> QED
      BY <1>1, <3>1, <3>2 DEF Forward
  <2>2. CASE j + 1 < i
    BY <2>0, <2>1, <2>2, <1>1
  <2>3. CASE j + 1 = i
    <3>1. At(h, j) \in Owners /\ At(h, j) # e /\ j = i - 1
      BY <1>1, <1>3, <2>3, AtIsOwner
    <3> QED
      BY <2>0, <2>3, <3>1
  <2>4. CASE j = i
    <3>1. At(h, j)' = e /\ At(h, j + 1)' = At(h, i)
      BY <2>0, <2>4
    <3> QED
      BY <1>3, <3>1
  <2>5. CASE j > i
    <3>1. j - 1 \in 0 .. n /\ j - 1 # i - 1 /\ j - 1 + 1 = j
      BY <1>1, <2>5
    <3>2. mem'.next[At(h, j - 1)] = At(h, j)
      BY <2>1, <3>1
    <3> QED
      BY <2>0, <2>5, <3>2
  <2> QED
    BY <1>1, <2>2, <2>3, <2>4, <2>5
<1> QED
  BY <1>1, <1>2, <1>4, <1>5 DEF Forward

\* The back pointers after it, if e points back to what is before it and the
\* element behind it points back to e.
LEMMA InsertBackward ==
  ASSUME ListsOK, Backward, kind' = kind, NEW h \in Heads, NEW e \in Free,
         NEW i \in 1 .. Len(list[h]) + 1,
         Inserts(h, i, e),
         moved' = moved \/ (i = 1 /\ moved' = moved \ {h}),
         \A o \in Elements :
           mem'.prev[o] = IF o = e THEN At(h, i - 1)
                          ELSE IF o = At(h, i) THEN e ELSE mem.prev[o]
  PROVE  Backward'
<1>1. PICK n \in Nat : n = Len(list[h]) /\ i \in 1 .. n + 1
  BY AtIsOwner
<1>2. /\ ListsOK'
      /\ Len(list'[h]) = n + 1
      /\ \A g \in Heads \ {h} : list'[g] = list[g]
      /\ \A j \in 0 .. n + 2 :
           At(h, j)' = IF j < i THEN At(h, j) ELSE IF j = i THEN e ELSE At(h, j - 1)
  BY <1>1, Inserted
<1>3. /\ e \in Elements
      /\ \A g \in Heads : \A j \in 0 .. Len(list[g]) : At(g, j) # e
  BY FreeIsNowhere
<1>4. ASSUME NEW g \in Heads, NEW j \in 1 .. Len(list[g]), g # h \/ j # i
      PROVE  At(g, j) \in Elements /\ mem'.prev[At(g, j)] = mem.prev[At(g, j)]
  <2>1. At(g, j) \in Elements /\ At(g, j) # e /\ j \in 0 .. Len(list[g])
    BY <1>3, AtIsOwner
  <2>2. At(g, j) # At(h, i)
    <3>1. CASE i \in 1 .. n
      <4>1. i \in 0 .. Len(list[h])
        BY <1>1, <3>1
      <4> QED
        BY <1>4, <2>1, <4>1, AtInjective
    <3>2. CASE i = n + 1
      BY <1>1, <2>1, <3>2, AtIsOwner, EndIsNoElement
    <3> QED
      BY <1>1, <3>1, <3>2
  <2> QED
    BY <2>1, <2>2
<1>5. ASSUME NEW g \in Heads \ {h}, NEW j \in 1 .. Len(list'[g])
      PROVE  mem'.prev[At(g, j)'] = At(g, j - 1)' \/ (j = 1 /\ g \in moved')
  <2>1. Len(list'[g]) = Len(list[g]) /\ Len(list[g]) \in Nat /\ j \in 1 .. Len(list[g])
    BY <1>2, AtIsOwner
  <2>2. At(g, j)' = At(g, j) /\ At(g, j - 1)' = At(g, j - 1)
    BY <1>2, <2>1, OthersStay
  <2> QED
    BY <1>4, <2>1, <2>2 DEF Backward
<1>6. ASSUME NEW j \in 1 .. n + 1
      PROVE  mem'.prev[At(h, j)'] = At(h, j - 1)' \/ (j = 1 /\ h \in moved')
  <2>0. /\ At(h, j)' = IF j < i THEN At(h, j) ELSE IF j = i THEN e ELSE At(h, j - 1)
        /\ At(h, j - 1)' =
             IF j - 1 < i THEN At(h, j - 1) ELSE IF j - 1 = i THEN e ELSE At(h, j - 2)
    <3>1. j \in 0 .. n + 2 /\ j - 1 \in 0 .. n + 2 /\ j - 1 - 1 = j - 2
      BY <1>6
    <3> QED
      BY <1>2, <3>1
  <2>1. CASE j < i
    <3>1. j \in 1 .. Len(list[h])
      BY <1>1, <2>1
    <3>2. mem'.prev[At(h, j)] = At(h, j - 1) \/ (j = 1 /\ h \in moved)
      BY <1>4, <2>1, <3>1 DEF Backward
    <3>3. moved' = moved
      BY <2>1
    <3> QED
      BY <2>0, <2>1, <3>2, <3>3
  <2>2. CASE j = i
    BY <1>3, <2>0, <2>2
  <2>3. CASE j = i + 1
    <3>1. i \in 1 .. Len(list[h])
      BY <1>1, <2>3
    <3>2. At(h, i) \in Elements /\ At(h, i) # e
      BY <1>3, <3>1, AtIsOwner
    <3>3. At(h, j)' = At(h, i) /\ At(h, j - 1)' = e
      BY <2>0, <2>3
    <3> QED
      BY <3>2, <3>3
  <2>4. CASE j > i + 1
    <3>1. j - 1 \in 1 .. Len(list[h]) /\ j - 1 # i /\ j - 1 # 1 /\ j - 1 - 1 = j - 2
      BY <1>1, <2>4
    <3>2. mem'.prev[At(h, j - 1)] = At(h, j - 2)
      BY <1>4, <3>1 DEF Backward
    <3> QED
      BY <2>0, <2>4, <3>2
  <2> QED
    BY <1>1, <2>1, <2>2, <2>3, <2>4
<1> QED
  BY <1>2, <1>5, <1>6 DEF Backward

\* The last slots after it, if only an insertion at the end moves that of h.
LEMMA InsertLasts ==
  ASSUME ListsOK, Lasts, kind' = kind, NEW h \in Heads, NEW e \in Free,
         NEW i \in 1 .. Len(list[h]) + 1,
         Inserts(h, i, e),
         \A g \in Heads :
           mem'.prev[g] = IF g = h /\ i = Len(list[h]) + 1 THEN e ELSE mem.prev[g]
  PROVE  Lasts'
<1>1. PICK n \in Nat : n = Len(list[h]) /\ i \in 1 .. n + 1
  BY AtIsOwner
<1>2. /\ ListsOK'
      /\ Len(list'[h]) = n + 1
      /\ \A g \in Heads \ {h} : list'[g] = list[g]
      /\ \A j \in 0 .. n + 2 :
           At(h, j)' = IF j < i THEN At(h, j) ELSE IF j = i THEN e ELSE At(h, j - 1)
  BY <1>1, Inserted
<1>3. ASSUME NEW g \in Heads, NEW k \in Nat, k = Len(list'[g])
      PROVE  mem'.prev[g] = At(g, k)'
  <2>1. CASE g = h
    <3>1. k = n + 1 /\ k - 1 = n /\ k \in 0 .. n + 2
      BY <1>2, <1>3, <2>1
    <3>2. At(h, k)' = IF k < i THEN At(h, k) ELSE IF k = i THEN e ELSE At(h, n)
      BY <1>2, <3>1
    <3> QED
      BY <1>1, <2>1, <3>1, <3>2 DEF Lasts
  <2>2. CASE g # h
    <3>1. k = Len(list[g]) /\ At(g, k)' = At(g, k)
      BY <1>2, <1>3, <2>2, OthersStay
    <3> QED
      BY <2>2, <3>1 DEF Lasts
  <2> QED
    BY <2>1, <2>2
<1>4. \A g \in Heads : Len(list'[g]) \in Nat
  BY <1>2, PlacesAreNext
<1> QED
  BY <1>3, <1>4 DEF Lasts

-----------------------------------------------------------------------------
(* Removal of the element at place i of h; its own slots do not matter.      *)

\* A _REMOVE macro that makes what is before place i point to what is behind it
\* leaves every list spelt by its forward pointers.
LEMMA RemoveForward ==
  ASSUME ListsOK, Forward, kind' = kind, NEW h \in Heads, NEW i \in 1 .. Len(list[h]),
         Removes(h, i),
         \A o \in Owners \ {At(h, i)} :
           mem'.next[o] = IF o = At(h, i - 1) THEN At(h, i + 1) ELSE mem.next[o]
  PROVE  Forward'
<1>1. PICK n \in Nat : n = Len(list[h]) /\ i \in 1 .. n
  BY AtIsOwner
<1>2. /\ ListsOK'
      /\ Len(list'[h]) = n - 1
      /\ \A g \in Heads \ {h} : list'[g] = list[g]
      /\ \A j \in 0 .. n : At(h, j)' = IF j < i THEN At(h, j) ELSE At(h, j + 1)
  BY <1>1, Removed
<1>3. ASSUME NEW g \in Heads, NEW j \in 0 .. Len(list[g]), g # h \/ (j # i /\ j # i - 1)
      PROVE  mem'.next[At(g, j)] = At(g, j + 1)
  <2>1. i \in 0 .. Len(list[h]) /\ i - 1 \in 0 .. Len(list[h])
    BY <1>1
  <2>2. At(g, j) \in Owners /\ At(g, j) # At(h, i) /\ At(g, j) # At(h, i - 1)
    BY <1>3, <2>1, AtIsOwner, AtInjective
  <2> QED
    BY <2>2 DEF Forward
<1>4. ASSUME NEW g \in Heads \ {h}, NEW j \in 0 .. Len(list'[g])
      PROVE  mem'.next[At(g, j)'] = At(g, j + 1)'
  <2>1. Len(list'[g]) = Len(list[g]) /\ Len(list[g]) \in Nat /\ j \in 0 .. Len(list[g])
    BY <1>2, AtIsOwner
  <2>2. At(g, j)' = At(g, j) /\ At(g, j + 1)' = At(g, j + 1)
    BY <1>2, <2>1, OthersStay
  <2> QED
    BY <1>3, <2>1, <2>2
<1>5. ASSUME NEW j \in 0 .. n - 1
      PROVE  mem'.next[At(h, j)'] = At(h, j + 1)'
  <2>0. /\ At(h, j)' = IF j < i THEN At(h, j) ELSE At(h, j + 1)
        /\ At(h, j + 1)' = IF j + 1 < i THEN At(h, j + 1) ELSE At(h, j + 2)
    <3>1. j \in 0 .. n /\ j + 1 \in 0 .. n /\ j + 1 + 1 = j + 2
      BY <1>5
    <3> QED
      BY <1>2, <3>1
  <2>1. CASE j + 1 < i
    <3>1. j \in 0 .. Len(list[h]) /\ j # i /\ j # i - 1 /\ j < i
      BY <1>1, <2>1
    <3> QED
      BY <1>3, <2>0, <2>1, <3>1
  <2>2. CASE j + 1 = i
    <3>1. /\ j \in 0 .. Len(list[h]) /\ i \in 0 .. Len(list[h])
          /\ j < i /\ j = i - 1 /\ j + 2 = i + 1 /\ ~(j + 1 < i)
      BY <1>1, <2>2
    <3>2. At(h, j) \in Owners /\ At(h, j) # At(h, i)
      BY <3>1, AtIsOwner, AtInjective
    <3>3. mem'.next[At(h, j)] = At(h, i + 1)
      BY <3>1, <3>2
    <3> QED
      BY <2>0, <3>1, <3>3
  <2>3. CASE j >= i
    <3>1. /\ j + 1 \in 0 .. Len(list[h]) /\ j + 1 # i /\ j + 1 # i - 1
          /\ ~(j < i) /\ ~(j + 1 < i) /\ j + 1 + 1 = j + 2
      BY <1>1, <2>3
    <3>2. mem'.next[At(h, j + 1)] = At(h, j + 2)
      BY <1>3, <3>1
    <3> QED
      BY <2>0, <3>1, <3>2
  <2> QED
    BY <1>1, <2>1, <2>2, <2>3
<1> QED
  BY <1>1, <1>2, <1>4, <1>5 DEF Forward

\* The back pointers after it, if the element behind points to what is before.
LEMMA RemoveBackward ==
  ASSUME ListsOK, Backward, kind' = kind, NEW h \in Heads, NEW i \in 1 .. Len(list[h]),
         Removes(h, i),
         moved' = moved,
         \A o \in Elements \ {At(h, i)} :
           mem'.prev[o] = IF o = At(h, i + 1) THEN At(h, i - 1) ELSE mem.prev[o]
  PROVE  Backward'
<1>1. PICK n \in Nat : n = Len(list[h]) /\ i \in 1 .. n
  BY AtIsOwner
<1>2. /\ ListsOK'
      /\ Len(list'[h]) = n - 1
      /\ \A g \in Heads \ {h} : list'[g] = list[g]
      /\ \A j \in 0 .. n : At(h, j)' = IF j < i THEN At(h, j) ELSE At(h, j + 1)
  BY <1>1, Removed
<1>3. ASSUME NEW g \in Heads, NEW j \in 1 .. Len(list[g]), g # h \/ (j # i /\ j # i + 1)
      PROVE  At(g, j) \in Elements /\ mem'.prev[At(g, j)] = mem.prev[At(g, j)]
  <2>1. At(g, j) \in Elements /\ j \in 0 .. Len(list[g]) /\ i \in 0 .. Len(list[h])
    BY <1>1, AtIsOwner
  <2>2. At(g, j) # At(h, i)
    BY <1>3, <2>1, AtInjective
  <2>3. At(g, j) # At(h, i + 1)
    <3>1. CASE i = n
      BY <1>1, <2>1, <3>1, AtIsOwner, EndIsNoElement
    <3>2. CASE i \in 1 .. n - 1
      <4>1. i + 1 \in 0 .. Len(list[h])
        BY <1>1, <3>2
      <4> QED
        BY <1>3, <2>1, <4>1, AtInjective
    <3> QED
      BY <1>1, <3>1, <3>2
  <2> QED
    BY <2>1, <2>2, <2>3
<1>4. ASSUME NEW g \in Heads \ {h}, NEW j \in 1 .. Len(list'[g])
      PROVE  mem'.prev[At(g, j)'] = At(g, j - 1)' \/ (j = 1 /\ g \in moved')
  <2>1. Len(list'[g]) = Len(list[g]) /\ Len(list[g]) \in Nat /\ j \in 1 .. Len(list[g])
    BY <1>2, AtIsOwner
  <2>2. At(g, j)' = At(g, j) /\ At(g, j - 1)' = At(g, j - 1)
    BY <1>2, <2>1, OthersStay
  <2> QED
    BY <1>3, <2>1, <2>2 DEF Backward
<1>5. ASSUME NEW j \in 1 .. n - 1
      PROVE  mem'.prev[At(h, j)'] = At(h, j - 1)' \/ (j = 1 /\ h \in moved')
  <2>0. /\ At(h, j)' = IF j < i THEN At(h, j) ELSE At(h, j + 1)
        /\ At(h, j - 1)' = IF j - 1 < i THEN At(h, j - 1) ELSE At(h, j)
    <3>1. j \in 0 .. n /\ j - 1 \in 0 .. n /\ j - 1 + 1 = j
      BY <1>5
    <3> QED
      BY <1>2, <3>1
  <2>1. CASE j < i
    <3>1. j \in 1 .. Len(list[h]) /\ j # i /\ j # i + 1 /\ j - 1 < i
      BY <1>1, <2>1
    <3> QED
      BY <1>3, <2>0, <2>1, <3>1 DEF Backward
  <2>2. CASE j = i
    <3>1. /\ j + 1 \in 1 .. Len(list[h]) /\ i + 1 \in 0 .. Len(list[h])
          /\ i \in 0 .. Len(list[h]) /\ j - 1 < i /\ i # i + 1
      BY <1>1, <2>2
    <3>2. At(h, i + 1) \in Elements /\ At(h, i + 1) # At(h, i)
      BY <2>2, <3>1, AtIsOwner, AtInjective
    <3>3. mem'.prev[At(h, i + 1)] = At(h, i - 1)
      BY <3>2
    <3> QED
      BY <2>0, <2>2, <3>1, <3>3
  <2>3. CASE j > i
    <3>1. /\ j + 1 \in 1 .. Len(list[h]) /\ j + 1 # i /\ j + 1 # i + 1 /\ j + 1 # 1
          /\ ~(j < i) /\ ~(j - 1 < i) /\ j + 1 - 1 = j
      BY <1>1, <2>3
    <3>2. mem'.prev[At(h, j + 1)] = At(h, j)
      BY <1>3, <3>1 DEF Backward
    <3> QED
      BY <2>0, <3>1, <3>2
  <2> QED
    BY <1>1, <2>1, <2>2, <2>3
<1> QED
  BY <1>2, <1>4, <1>5 DEF Backward

\* The last slots after it, if only a removal at the end moves that of h.
LEMMA RemoveLasts ==
  ASSUME ListsOK, Lasts, kind' = kind, NEW h \in Heads, NEW i \in 1 .. Len(list[h]),
         Removes(h, i),
         \A g \in Heads :
           mem'.prev[g] = IF g = h /\ i = Len(list[h]) THEN At(h, i - 1) ELSE mem.prev[g]
  PROVE  Lasts'
<1>1. PICK n \in Nat : n = Len(list[h]) /\ i \in 1 .. n
  BY AtIsOwner
<1>2. /\ ListsOK'
      /\ Len(list'[h]) = n - 1
      /\ \A g \in Heads \ {h} : list'[g] = list[g]
      /\ \A j \in 0 .. n : At(h, j)' = IF j < i THEN At(h, j) ELSE At(h, j + 1)
  BY <1>1, Removed
<1>3. ASSUME NEW g \in Heads, NEW k \in Nat, k = Len(list'[g])
      PROVE  mem'.prev[g] = At(g, k)'
  <2>1. CASE g = h
    <3>1. k = n - 1 /\ k + 1 = n /\ k \in 0 .. n /\ (k < i <=> i = n)
      BY <1>1, <1>2, <1>3, <2>1
    <3>2. At(h, k)' = IF k < i THEN At(h, k) ELSE At(h, n)
      BY <1>2, <3>1
    <3> QED
      BY <1>1, <2>1, <3>1, <3>2 DEF Lasts
  <2>2. CASE g # h
    <3>1. k = Len(list[g]) /\ At(g, k)' = At(g, k)
      BY <1>2, <1>3, <2>2, OthersStay
    <3> QED
      BY <2>2, <3>1 DEF Lasts
  <2> QED
    BY <2>1, <2>2
<1>4. \A g \in Heads : Len(list'[g]) \in Nat
  BY <1>2, PlacesAreNext
<1> QED
  BY <1>3, <1>4 DEF Lasts

-----------------------------------------------------------------------------
(* Replacement of the element at place i of h by e.                          *)

\* A _REPLACE macro that gives e the neighbours of the element at place i leaves
\* every list spelt by its forward pointers.
LEMMA ReplaceForward ==
  ASSUME ListsOK, Forward, kind' = kind, NEW h \in Heads, NEW i \in 1 .. Len(list[h]),
         NEW e \in Free, Replaces(h, i, e),
         \A o \in Owners \ {At(h, i)} :
           mem'.next[o] = IF o = e THEN At(h, i + 1)
                          ELSE IF o = At(h, i - 1) THEN e ELSE mem.next[o]
  PROVE  Forward'
<1>1. PICK n \in Nat : n = Len(list[h]) /\ i \in 1 .. n
  BY AtIsOwner
<1>2. /\ ListsOK'
      /\ Len(list'[h]) = n
      /\ \A g \in Heads \ {h} : list'[g] = list[g]
      /\ \A j \in 0 .. n + 1 : At(h, j)' = IF j = i THEN e ELSE At(h, j)
  BY <1>1, Replaced
<1>3. /\ e \in Elements /\ e \in Owners
      /\ \A g \in Heads : \A j \in 0 .. Len(list[g]) : At(g, j) # e
  BY FreeIsNowhere DEF Owners
<1>4. ASSUME NEW g \in Heads, NEW j \in 0 .. Len(list[g]), g # h \/ (j # i /\ j # i - 1)
      PROVE  mem'.next[At(g, j)] = At(g, j + 1)
  <2>1. i \in 0 .. Len(list[h]) /\ i - 1 \in 0 .. Len(list[h])
    BY <1>1
  <2>2. /\ At(g, j) \in Owners /\ At(g, j) # e
        /\ At(g, j) # At(h, i) /\ At(g, j) # At(h, i - 1)
    BY <1>3, <1>4, <2>1, AtIsOwner, AtInjective
  <2> QED
    BY <2>2 DEF Forward
<1>5. ASSUME NEW g \in Heads \ {h}, NEW j \in 0 .. Len(list'[g])
      PROVE  mem'.next[At(g, j)'] = At(g, j + 1)'
  <2>1. Len(list'[g]) = Len(list[g]) /\ Len(list[g]) \in Nat /\ j \in 0 .. Len(list[g])
    BY <1>2, AtIsOwner
  <2>2. At(g, j)' = At(g, j) /\ At(g, j + 1)' = At(g, j + 1)
    BY <1>2, <2>1, OthersStay
  <2> QED
    BY <1>4, <2>1, <2>2
<1>6. ASSUME NEW j \in 0 .. n
      PROVE  mem'.next[At(h, j)'] = At(h, j + 1)'
  <2>0. /\ At(h, j)' = IF j = i THEN e ELSE At(h, j)
        /\ At(h, j + 1)' = IF j + 1 = i THEN e ELSE At(h, j + 1)
    <3>1. j \in 0 .. n + 1 /\ j + 1 \in 0 .. n + 1
      BY <1>6
    <3> QED
      BY <1>2, <3>1
  <2>1. CASE j = i
    <3>1. i \in 0 .. Len(list[h]) /\ j + 1 # i
      BY <1>1, <2>1
    <3>2. e \in Owners \ {At(h, i)}
      BY <1>3, <3>1
    <3> QED
      BY <2>0, <2>1, <3>1, <3>2
  <2>2. CASE j + 1 = i
    <3>1. /\ j \in 0 .. Len(list[h]) /\ i \in 0 .. Len(list[h])
          /\ j # i /\ j = i - 1
      BY <1>1, <2>2
    <3>2. At(h, j) \in Owners /\ At(h, j) # At(h, i) /\ At(h, j) # e
      BY <1>3, <3>1, AtIsOwner, AtInjective
    <3> QED
      BY <2>0, <2>2, <3>1, <3>2
  <2>3. CASE j # i /\ j + 1 # i
    <3>1. j \in 0 .. Len(list[h]) /\ j # i /\ j # i - 1
      BY <1>1, <2>3
    <3> QED
      BY <1>4, <2>0, <2>3, <3>1
  <2> QED
    BY <2>1, <2>2, <2>3
<1> QED
  BY <1>1, <1>2, <1>5, <1>6 DEF Forward

\* The back pointers after it, if those of e and of the element behind are set.
LEMMA ReplaceBackward ==
  ASSUME ListsOK, Backward, kind' = kind, NEW h \in Heads, NEW i \in 1 .. Len(list[h]),
         NEW e \in Free, Replaces(h, i, e),
         moved' = moved,
         \A o \in Elements \ {At(h, i)} :
           mem'.prev[o] = IF o = e THEN At(h, i - 1)
                          ELSE IF o = At(h, i + 1) THEN e ELSE mem.prev[o]
  PROVE  Backward'
<1>1. PICK n \in Nat : n = Len(list[h]) /\ i \in 1 .. n
  BY AtIsOwner
<1>2. /\ ListsOK'
      /\ Len(list'[h]) = n
      /\ \A g \in Heads \ {h} : list'[g] = list[g]
      /\ \A j \in 0 .. n + 1 : At(h, j)' = IF j = i THEN e ELSE At(h, j)
  BY <1>1, Replaced
<1>3. /\ e \in Elements
      /\ \A g \in Heads : \A j \in 0 .. Len(list[g]) : At(g, j) # e
  BY FreeIsNowhere
<1>4. ASSUME NEW g \in Heads, NEW j \in 1 .. Len(list[g]), g # h \/ (j # i /\ j # i + 1)
      PROVE  At(g, j) \in Elements /\ mem'.prev[At(g, j)] = mem.prev[At(g, j)]
  <2>1. At(g, j) \in Elements /\ j \in 0 .. Len(list[g]) /\ i \in 0 .. Len(list[h])
    BY <1>1, AtIsOwner
  <2>2. At(g, j) # At(h, i) /\ At(g, j) # e
    BY <1>3, <1>4, <2>1, AtInjective
  <2>3. At(g, j) # At(h, i + 1)
    <3>1. CASE i = n
      BY <1>1, <2>1, <3>1, AtIsOwner, EndIsNoElement
    <3>2. CASE i \in 1 .. n - 1
      <4>1. i + 1 \in 0 .. Len(list[h])
        BY <1>1, <3>2
      <4> QED
        BY <1>4, <2>1, <4>1, AtInjective
    <3> QED
      BY <1>1, <3>1, <3>2
  <2> QED
    BY <2>1, <2>2, <2>3
<1>5. ASSUME NEW g \in Heads \ {h}, NEW j \in 1 .. Len(list'[g])
      PROVE  mem'.prev[At(g, j)'] = At(g, j - 1)' \/ (j = 1 /\ g \in moved')
  <2>1. Len(list'[g]) = Len(list[g]) /\ Len(list[g]) \in Nat /\ j \in 1 .. Len(list[g])
    BY <1>2, AtIsOwner
  <2>2. At(g, j)' = At(g, j) /\ At(g, j - 1)' = At(g, j - 1)
    BY <1>2, <2>1, OthersStay
  <2> QED
    BY <1>4, <2>1, <2>2 DEF Backward
<1>6. ASSUME NEW j \in 1 .. n
      PROVE  mem'.prev[At(h, j)'] = At(h, j - 1)' \/ (j = 1 /\ h \in moved')
  <2>0. /\ At(h, j)' = IF j = i THEN e ELSE At(h, j)
        /\ At(h, j - 1)' = IF j - 1 = i THEN e ELSE At(h, j - 1)
    <3>1. j \in 0 .. n + 1 /\ j - 1 \in 0 .. n + 1
      BY <1>6
    <3> QED
      BY <1>2, <3>1
  <2>1. CASE j = i
    <3>1. i \in 0 .. Len(list[h]) /\ j - 1 # i
      BY <1>1, <2>1
    <3>2. e \in Elements \ {At(h, i)}
      BY <1>3, <3>1
    <3> QED
      BY <2>0, <2>1, <3>1, <3>2
  <2>2. CASE j = i + 1
    <3>1. /\ i + 1 \in 1 .. Len(list[h]) /\ i + 1 \in 0 .. Len(list[h])
          /\ i \in 0 .. Len(list[h]) /\ i # i + 1 /\ j - 1 = i /\ j # i
      BY <1>1, <2>2
    <3>2. /\ At(h, i + 1) \in Elements /\ At(h, i + 1) # At(h, i)
          /\ At(h, i + 1) # e
      BY <1>3, <3>1, AtIsOwner, AtInjective
    <3>3. mem'.prev[At(h, i + 1)] = e
      BY <3>2
    <3> QED
      BY <2>0, <2>2, <3>1, <3>3
  <2>3. CASE j # i /\ j # i + 1
    <3>1. j \in 1 .. Len(list[h]) /\ j # i /\ j # i + 1 /\ j - 1 # i
      BY <1>1, <2>3
    <3> QED
      BY <1>4, <2>0, <2>3, <3>1 DEF Backward
  <2> QED
    BY <2>1, <2>2, <2>3
<1> QED
  BY <1>2, <1>5, <1>6 DEF Backward

\* The last slots after it, if only a replacement at the end moves that of h.
LEMMA ReplaceLasts ==
  ASSUME ListsOK, Lasts, kind' = kind, NEW h \in Heads, NEW i \in 1 .. Len(list[h]),
         NEW e \in Free, Replaces(h, i, e),
         \A g \in Heads :
           mem'.prev[g] = IF g = h /\ i = Len(list[h]) THEN e ELSE mem.prev[g]
  PROVE  Lasts'
<1>1. PICK n \in Nat : n = Len(list[h]) /\ i \in 1 .. n
  BY AtIsOwner
<1>2. /\ ListsOK'
      /\ Len(list'[h]) = n
      /\ \A g \in Heads \ {h} : list'[g] = list[g]
      /\ \A j \in 0 .. n + 1 : At(h, j)' = IF j = i THEN e ELSE At(h, j)
  BY <1>1, Replaced
<1>3. ASSUME NEW g \in Heads, NEW k \in Nat, k = Len(list'[g])
      PROVE  mem'.prev[g] = At(g, k)'
  <2>1. CASE g = h
    <3>1. k = n /\ k \in 0 .. n + 1
      BY <1>2, <1>3, <2>1
    <3> QED
      BY <1>1, <1>2, <2>1, <3>1 DEF Lasts
  <2>2. CASE g # h
    <3>1. k = Len(list[g]) /\ At(g, k)' = At(g, k)
      BY <1>2, <1>3, <2>2, OthersStay
    <3> QED
      BY <2>2, <3>1 DEF Lasts
  <2> QED
    BY <2>1, <2>2
<1>4. \A g \in Heads : Len(list'[g]) \in Nat
  BY <1>2, PlacesAreNext
<1> QED
  BY <1>3, <1>4 DEF Lasts

-----------------------------------------------------------------------------
(* A list is emptied, as at its declaration.                                 *)

\* An _INIT macro that makes the head point to its end empties the list; the
\* other lists keep their forward pointers.
LEMMA EmptyForward ==
  ASSUME ListsOK, Forward, kind' = kind, NEW h \in Heads,
         Empties(h),
         \A o \in Owners : mem'.next[o] = IF o = h THEN End(h) ELSE mem.next[o]
  PROVE  Forward'
<1>1. /\ ListsOK' /\ Len(list'[h]) = 0
      /\ \A g \in Heads \ {h} : list'[g] = list[g]
      /\ At(h, 0)' = h /\ At(h, 1)' = End(h)
  BY Emptied
<1>2. ASSUME NEW g \in Heads \ {h}, NEW j \in 0 .. Len(list'[g])
      PROVE  mem'.next[At(g, j)'] = At(g, j + 1)'
  <2>1. Len(list'[g]) = Len(list[g]) /\ Len(list[g]) \in Nat /\ j \in 0 .. Len(list[g])
    BY <1>1, AtIsOwner
  <2>2. At(g, j)' = At(g, j) /\ At(g, j + 1)' = At(g, j + 1)
    BY <1>1, <2>1, OthersStay
  <2>3. 0 \in 0 .. Len(list[h]) /\ At(h, 0) = h
    BY AtIsOwner
  <2>4. At(g, j) \in Owners /\ At(g, j) # h
    BY <2>1, <2>3, AtIsOwner, AtInjective
  <2> QED
    BY <2>1, <2>2, <2>4 DEF Forward
<1>3. ASSUME NEW j \in 0 .. 0 PROVE mem'.next[At(h, j)'] = At(h, j + 1)'
  <2>1. j = 0 /\ j + 1 = 1 /\ h \in Owners
    BY DEF Owners
  <2> QED
    BY <1>1, <2>1
<1> QED
  BY <1>1, <1>2, <1>3 DEF Forward

\* The back pointers after it: those of the other lists are left alone.
LEMMA EmptyBackward ==
  ASSUME ListsOK, Backward, kind' = kind, NEW h \in Heads,
         Empties(h),
         moved \ {h} \subseteq moved',
         \A o \in Elements : mem'.prev[o] = mem.prev[o]
  PROVE  Backward'
<1>1. /\ ListsOK' /\ Len(list'[h]) = 0
      /\ \A g \in Heads \ {h} : list'[g] = list[g]
  BY Emptied
<1>2. ASSUME NEW g \in Heads \ {h}, NEW j \in 1 .. Len(list'[g])
      PROVE  mem'.prev[At(g, j)'] = At(g, j - 1)' \/ (j = 1 /\ g \in moved')
  <2>1. Len(list'[g]) = Len(list[g]) /\ Len(list[g]) \in Nat /\ j \in 1 .. Len(list[g])
    BY <1>1, AtIsOwner
  <2>2. At(g, j)' = At(g, j) /\ At(g, j - 1)' = At(g, j - 1)
    BY <1>1, <2>1, OthersStay
  <2>3. At(g, j) \in Elements
    BY <2>1, AtIsOwner
  <2> QED
    BY <2>1, <2>2, <2>3 DEF Backward
<1>3. \A j \in 1 .. Len(list'[h]) : FALSE
  BY <1>1
<1> QED
  BY <1>2, <1>3 DEF Backward

\* The last slots after it: that of h is its own forward slot again.
LEMMA EmptyLasts ==
  ASSUME ListsOK, Lasts, kind' = kind, NEW h \in Heads,
         Empties(h),
         \A g \in Heads : mem'.prev[g] = IF g = h THEN h ELSE mem.prev[g]
  PROVE  Lasts'
<1>1. /\ ListsOK' /\ Len(list'[h]) = 0 /\ At(h, 0)' = h
      /\ \A g \in Heads \ {h} : list'[g] = list[g]
  BY Emptied
<1>2. ASSUME NEW g \in Heads, NEW k \in Nat, k = Len(list'[g])
      PROVE  mem'.prev[g] = At(g, k)'
  <2>1. CASE g = h
    BY <1>1, <1>2, <2>1
  <2>2. CASE g # h
    <3>1. k = Len(list[g]) /\ At(g, k)' = At(g, k)
      BY <1>1, <1>2, <2>2, OthersStay
    <3> QED
      BY <2>2, <3>1 DEF Lasts
  <2> QED
    BY <2>1, <2>2
<1>3. \A g \in Heads : Len(list'[g]) \in Nat
  BY <1>1, PlacesAreNext
<1> QED
  BY <1>2, <1>3 DEF Lasts

-----------------------------------------------------------------------------
(* The list of h is appended to the one of f and emptied.                    *)

\* _CONCAT, or LIST_MOVE to an empty list: the last element of f points to the
\* first of h, whose head is initialized, and so the lists are joined.
LEMMA JoinForward ==
  ASSUME ListsOK, Forward, kind' = kind, kind # "CIRCLEQ",
         NEW f \in Heads, NEW h \in Heads, f # h,
         Joins(f, h),
         \A o \in Owners :
           mem'.next[o] = IF o = h THEN End(h)
                          ELSE IF o = At(f, Len(list[f])) THEN At(h, 1) ELSE mem.next[o]
  PROVE  Forward'
<1>m. PICK m \in Nat : m = Len(list[f])
  BY AtIsOwner
<1>n. PICK n \in Nat : n = Len(list[h])
  BY AtIsOwner
<1>1. m = Len(list[f]) /\ n = Len(list[h]) /\ m \in Nat /\ n \in Nat
  BY <1>m, <1>n
<1>2. /\ ListsOK'
      /\ Len(list'[f]) = m + n /\ Len(list'[h]) = 0
      /\ \A g \in Heads \ {f, h} : list'[g] = list[g]
      /\ At(h, 0)' = h /\ At(h, 1)' = End(h)
      /\ \A j \in 0 .. m + n + 1 : At(f, j)' = IF j <= m THEN At(f, j) ELSE At(h, j - m)
  BY <1>1, Joined
<1>3. ASSUME NEW g \in Heads, NEW j \in 0 .. Len(list[g]),
             g = h => j # 0, g = f => j # m
      PROVE  mem'.next[At(g, j)] = At(g, j + 1)
  <2>1. 0 \in 0 .. Len(list[h]) /\ m \in 0 .. Len(list[f]) /\ At(h, 0) = h
    BY <1>1, AtIsOwner
  <2>2. At(g, j) \in Owners /\ At(g, j) # h /\ At(g, j) # At(f, m)
    BY <1>3, <2>1, AtIsOwner, AtInjective
  <2> QED
    BY <1>1, <2>2 DEF Forward
<1>4. ASSUME NEW g \in Heads \ {f, h}, NEW j \in 0 .. Len(list'[g])
      PROVE  mem'.next[At(g, j)'] = At(g, j + 1)'
  <2>1. Len(list'[g]) = Len(list[g]) /\ Len(list[g]) \in Nat /\ j \in 0 .. Len(list[g])
    BY <1>2, AtIsOwner
  <2>2. At(g, j)' = At(g, j) /\ At(g, j + 1)' = At(g, j + 1)
    BY <1>2, <2>1, OthersStay
  <2> QED
    BY <1>3, <2>1, <2>2
<1>5. ASSUME NEW j \in 0 .. m + n
      PROVE  mem'.next[At(f, j)'] = At(f, j + 1)'
  <2>0. /\ At(f, j)' = IF j <= m THEN At(f, j) ELSE At(h, j - m)
        /\ At(f, j + 1)' = IF j + 1 <= m THEN At(f, j + 1) ELSE At(h, j + 1 - m)
    BY <1>2
  <2>b. m \in Nat /\ n \in Nat /\ j \in 0 .. m + n
    BY Zenon
  <2>a. m \in Nat /\ n \in Nat /\ j \in Nat /\ j <= m + n
    BY ONLY <2>b
  <2>1. CASE j < m
    <3>1. j \in 0 .. m /\ j # m /\ j <= m /\ j + 1 <= m
      BY ONLY <2>a, <2>1
    <3>2. mem'.next[At(f, j)] = At(f, j + 1)
      BY <1>1, <1>3, <3>1
    <3> QED
      BY <2>0, <3>1, <3>2
  <2>2. CASE j = m
    <3>1. /\ m \in 0 .. Len(list[f]) /\ 0 \in 0 .. Len(list[h]) /\ At(h, 0) = h
          /\ j + 1 - m = 1 /\ j <= m /\ ~(j + 1 <= m)
      BY <1>1, <2>2, AtIsOwner
    <3>2. At(f, m) \in Owners /\ At(f, m) # h
      BY <3>1, AtIsOwner, AtInjective
    <3> QED
      BY <1>1, <2>0, <2>2, <3>1, <3>2
  <2>3. CASE j > m
    <3>1. /\ j - m \in 0 .. n /\ j - m # 0 /\ j - m + 1 = j + 1 - m
          /\ ~(j <= m) /\ ~(j + 1 <= m)
      BY ONLY <2>a, <2>3
    <3>2. mem'.next[At(h, j - m)] = At(h, j + 1 - m)
      BY <1>1, <1>3, <3>1
    <3> QED
      BY <2>0, <3>1, <3>2
  <2> QED
    BY <2>1, <2>2, <2>3
<1>6. ASSUME NEW j \in 0 .. 0 PROVE mem'.next[At(h, j)'] = At(h, j + 1)'
  <2>1. j = 0 /\ j + 1 = 1 /\ h \in Owners
    BY DEF Owners
  <2> QED
    BY <1>2, <2>1
<1> QED
  BY <1>2, <1>4, <1>5, <1>6 DEF Forward

\* The back pointers after it, if the first element of h points to the last of f,
\* or is one that LIST_MOVE has left behind.
LEMMA JoinBackward ==
  ASSUME ListsOK, Backward, kind' = kind, kind # "CIRCLEQ",
         NEW f \in Heads, NEW h \in Heads, f # h,
         Joins(f, h),
         \A g \in Heads \ {f, h} : g \in moved => g \in moved',
         Len(list[f]) # 0 /\ f \in moved => f \in moved',
         \A o \in Elements \ {At(h, 1)} : mem'.prev[o] = mem.prev[o],
         Len(list[h]) # 0 => \/ mem'.prev[At(h, 1)] = At(f, Len(list[f]))
                             \/ Len(list[f]) = 0 /\ f \in moved'
  PROVE  Backward'
<1>m. PICK m \in Nat : m = Len(list[f])
  BY AtIsOwner
<1>n. PICK n \in Nat : n = Len(list[h])
  BY AtIsOwner
<1>1. m = Len(list[f]) /\ n = Len(list[h]) /\ m \in Nat /\ n \in Nat
  BY <1>m, <1>n
<1>2. /\ ListsOK'
      /\ Len(list'[f]) = m + n /\ Len(list'[h]) = 0
      /\ \A g \in Heads \ {f, h} : list'[g] = list[g]
      /\ \A j \in 0 .. m + n + 1 : At(f, j)' = IF j <= m THEN At(f, j) ELSE At(h, j - m)
  BY <1>1, Joined
<1>3. ASSUME NEW g \in Heads, NEW j \in 1 .. Len(list[g]), g = h => j # 1
      PROVE  mem'.prev[At(g, j)] = mem.prev[At(g, j)]
  <2>1. At(g, j) \in Elements /\ j \in 0 .. Len(list[g])
    BY AtIsOwner
  <2>2. At(g, j) # At(h, 1)
    <3>1. CASE n = 0
      <4>1. n + 1 = 1
        BY ONLY <3>1
      <4> QED
        BY <1>1, <2>1, <4>1, AtIsOwner, EndIsNoElement
    <3>2. CASE n # 0
      <4>1. 1 \in 0 .. Len(list[h])
        BY <1>1, <3>2
      <4> QED
        BY <1>3, <2>1, <4>1, AtInjective
    <3> QED
      BY <3>1, <3>2
  <2> QED
    BY <2>1, <2>2
<1>4. ASSUME NEW g \in Heads \ {f, h}, NEW j \in 1 .. Len(list'[g])
      PROVE  mem'.prev[At(g, j)'] = At(g, j - 1)' \/ (j = 1 /\ g \in moved')
  <2>1. Len(list'[g]) = Len(list[g]) /\ Len(list[g]) \in Nat /\ j \in 1 .. Len(list[g])
    BY <1>2, AtIsOwner
  <2>2. At(g, j)' = At(g, j) /\ At(g, j - 1)' = At(g, j - 1)
    BY <1>2, <2>1, OthersStay
  <2> QED
    BY <1>3, <2>1, <2>2 DEF Backward
<1>5. ASSUME NEW j \in 1 .. m + n
      PROVE  mem'.prev[At(f, j)'] = At(f, j - 1)' \/ (j = 1 /\ f \in moved')
  <2>0. /\ At(f, j)' = IF j <= m THEN At(f, j) ELSE At(h, j - m)
        /\ At(f, j - 1)' = IF j - 1 <= m THEN At(f, j - 1) ELSE At(h, j - 1 - m)
    <3>1. j \in 0 .. m + n + 1 /\ j - 1 \in 0 .. m + n + 1
      BY <1>5
    <3> QED
      BY <1>2, <3>1
  <2>b. m \in Nat /\ n \in Nat /\ j \in 1 .. m + n
    BY Zenon
  <2>a. m \in Nat /\ n \in Nat /\ j \in Nat /\ j <= m + n
    BY ONLY <2>b
  <2>1. CASE j <= m
    <3>1. j \in 1 .. Len(list[f]) /\ j - 1 <= m /\ Len(list[f]) # 0
      BY <1>1, <2>1
    <3>2. mem.prev[At(f, j)] = At(f, j - 1) \/ (j = 1 /\ f \in moved)
      BY <3>1 DEF Backward
    <3>3. mem'.prev[At(f, j)] = mem.prev[At(f, j)]
      BY <1>3, <3>1
    <3> QED
      BY <2>0, <2>1, <3>1, <3>2, <3>3
  <2>2. CASE j = m + 1
    <3>1. j - m = 1 /\ j - 1 = m /\ ~(j <= m) /\ n # 0
      BY ONLY <2>a, <2>2
    <3>2. m = 0 => j = 1
      BY ONLY <2>2
    <3>3. mem'.prev[At(h, 1)] = At(f, m) \/ (j = 1 /\ f \in moved')
      BY <1>1, <3>1, <3>2
    <3> QED
      BY <2>0, <3>1, <3>3
  <2>3. CASE j > m + 1
    <3>1. /\ j - m \in 1 .. n /\ j - m # 1 /\ j - m - 1 = j - 1 - m
          /\ ~(j <= m) /\ ~(j - 1 <= m)
      BY ONLY <2>a, <2>3
    <3>2. mem'.prev[At(h, j - m)] = At(h, j - 1 - m)
      BY <1>1, <1>3, <3>1 DEF Backward
    <3> QED
      BY <2>0, <3>1, <3>2
  <2> QED
    BY <2>1, <2>2, <2>3
<1>6. \A j \in 1 .. Len(list'[h]) : FALSE
  BY <1>2
<1> QED
  BY <1>2, <1>4, <1>5, <1>6 DEF Backward

\* The last slots after it: that of f is the one h had, unless h was empty.
LEMMA JoinLasts ==
  ASSUME ListsOK, Lasts, kind' = kind, kind # "CIRCLEQ",
         NEW f \in Heads, NEW h \in Heads, f # h,
         Joins(f, h),
         \A g \in Heads :
           mem'.prev[g] = IF g = h THEN h
                          ELSE IF g = f /\ Len(list[h]) # 0 THEN mem.prev[h]
                          ELSE mem.prev[g]
  PROVE  Lasts'
<1>m. PICK m \in Nat : m = Len(list[f])
  BY AtIsOwner
<1>n. PICK n \in Nat : n = Len(list[h])
  BY AtIsOwner
<1>1. m = Len(list[f]) /\ n = Len(list[h]) /\ m \in Nat /\ n \in Nat
  BY <1>m, <1>n
<1>2. /\ ListsOK'
      /\ Len(list'[f]) = m + n /\ Len(list'[h]) = 0
      /\ \A g \in Heads \ {f, h} : list'[g] = list[g]
      /\ At(h, 0)' = h
      /\ \A j \in 0 .. m + n + 1 : At(f, j)' = IF j <= m THEN At(f, j) ELSE At(h, j - m)
  BY <1>1, Joined
<1>3. ASSUME NEW g \in Heads, NEW k \in Nat, k = Len(list'[g])
      PROVE  mem'.prev[g] = At(g, k)'
  <2>1. CASE g = h
    BY <1>2, <1>3, <2>1
  <2>2. CASE g = f
    <3>1. k = m + n /\ k - m = n /\ (k <= m <=> n = 0) /\ k \in 0 .. m + n + 1
      BY <1>2, <1>3, <2>2
    <3>2. At(f, k)' = IF n = 0 THEN At(f, k) ELSE At(h, n)
      BY <1>2, <3>1
    <3>3. n = 0 => k = m
      BY <3>1
    <3> QED
      BY <1>1, <2>2, <3>2, <3>3 DEF Lasts
  <2>3. CASE g \notin {f, h}
    <3>1. k = Len(list[g]) /\ At(g, k)' = At(g, k)
      BY <1>2, <1>3, <2>3, OthersStay
    <3> QED
      BY <2>3, <3>1 DEF Lasts
  <2> QED
    BY <2>1, <2>2, <2>3
<1>4. \A g \in Heads : Len(list'[g]) \in Nat
  BY <1>2, PlacesAreNext
<1> QED
  BY <1>3, <1>4 DEF Lasts

==============================================================================
