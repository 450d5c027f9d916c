---------------------------- MODULE SysQueueProofs ---------------------------
(***************************************************************************)
(* A program that uses sys-queue.h keeps the invariant of SysQueue,        *)
(* whatever family it has picked; so its lists are what it put into them.  *)
(***************************************************************************)
EXTENDS QueueMacroProofs

-----------------------------------------------------------------------------
(* The macros that are like others, search, or work on whole lists.          *)

\* The macros that insert and remove at the head make the assignments of those
\* that do so after an element.
LEMMA HeadIsAfter ==
  ASSUME NEW m, NEW h, NEW e
  PROVE  /\ SL!SLIST_INSERT_HEAD(m, h, e) = SL!SLIST_INSERT_AFTER(m, h, e)
         /\ SL!SLIST_REMOVE_HEAD(m, h) = SL!SLIST_REMOVE_AFTER(m, h)
         /\ LL!LIST_INSERT_HEAD(m, h, e) = LL!LIST_INSERT_AFTER(m, h, e)
         /\ SQ!SIMPLEQ_INSERT_HEAD(m, h, e) = SQ!SIMPLEQ_INSERT_AFTER(m, h, h, e)
         /\ SQ!SIMPLEQ_REMOVE_HEAD(m, h) = SQ!SIMPLEQ_REMOVE_AFTER(m, h, h)
         /\ TQ!TAILQ_INSERT_HEAD(m, h, e) = TQ!TAILQ_INSERT_AFTER(m, h, h, e)
BY DEF SL!SLIST_INSERT_HEAD, SL!SLIST_INSERT_AFTER,
       SL!SLIST_REMOVE_HEAD, SL!SLIST_REMOVE_AFTER, SL!SLIST_NEXT,
       LL!LIST_INSERT_HEAD, LL!LIST_INSERT_AFTER, LL!LIST_END,
       SQ!SIMPLEQ_INSERT_HEAD, SQ!SIMPLEQ_INSERT_AFTER,
       SQ!SIMPLEQ_REMOVE_HEAD, SQ!SIMPLEQ_REMOVE_AFTER,
       TQ!TAILQ_INSERT_HEAD, TQ!TAILQ_INSERT_AFTER

\* The search is the same in SLIST_REMOVE, SIMPLEQ_REMOVE and STAILQ_REMOVE.
LEMMA SearchIs ==
  ASSUME NEW m, NEW v, NEW x
  PROVE  /\ SL!Before(m, v, x) = Before(m, v, x)
         /\ SQ!Before(m, v, x) = Before(m, v, x)
         /\ ST!S!Before(m, v, x) = Before(m, v, x)
<1>1. /\ SL!Cardinality(Elements) = Cardinality(Elements)
      /\ SQ!Cardinality(Elements) = Cardinality(Elements)
      /\ ST!S!Cardinality(Elements) = Cardinality(Elements)
  BY DEF SL!Cardinality, SQ!Cardinality, ST!S!Cardinality, Cardinality
<1> QED
  BY <1>1 DEF SL!Before, SQ!Before, ST!S!Before, Before

\* SLIST_REMOVE takes x out from between a and b, and of the slots that stay
\* in use assigns no other.
LEMMA SinglyRemove ==
  ASSUME NEW h, NEW x, NEW a, NEW b, kind = "SLIST", Around(h, x, a, b),
         mem' = SL!SLIST_REMOVE(mem, h, x)
  PROVE  Removing(h, x, a, b)
<1>1. IF mem.next[h] = x THEN a = h ELSE Before(mem, mem.next[h], x) = a
  BY DEF Around
<1>2. mem' = SL!SLIST_REMOVE_AFTER(mem, a)
  BY <1>1, HeadIsAfter, SearchIs DEF SL!SLIST_REMOVE, SL!SLIST_REMOVE_AFTER, SL!SLIST_NEXT
<1> QED
  BY <1>2, SinglyRemoveAfter

\* SIMPLEQ_REMOVE takes x out from between a and b, and of the slots that stay
\* in use assigns no other.
LEMMA SimpleRemove ==
  ASSUME NEW h, NEW x, NEW a, NEW b, kind \in {"SIMPLEQ", "STAILQ"}, Around(h, x, a, b),
         mem' = SQ!SIMPLEQ_REMOVE(mem, h, x)
  PROVE  Removing(h, x, a, b)
<1>1. IF mem.next[h] = x THEN a = h ELSE Before(mem, mem.next[h], x) = a
  BY DEF Around
<1>2. mem' = SQ!SIMPLEQ_REMOVE_AFTER(mem, h, a)
  BY <1>1, HeadIsAfter, SearchIs DEF SQ!SIMPLEQ_REMOVE
<1> QED
  BY <1>2, SimpleRemoveAfter

\* The STAILQ macros make the assignments of the SIMPLEQ ones.
LEMMA STailIsSimple ==
  /\ \A m, h : ST!STAILQ_INIT(m, h) = SQ!SIMPLEQ_INIT(m, h)
  /\ \A m, h, e : ST!STAILQ_INSERT_HEAD(m, h, e) = SQ!SIMPLEQ_INSERT_HEAD(m, h, e)
  /\ \A m, h, e : ST!STAILQ_INSERT_TAIL(m, h, e) = SQ!SIMPLEQ_INSERT_TAIL(m, h, e)
  /\ \A m, h, x, e : ST!STAILQ_INSERT_AFTER(m, h, x, e) = SQ!SIMPLEQ_INSERT_AFTER(m, h, x, e)
  /\ \A m, h : ST!STAILQ_REMOVE_HEAD(m, h) = SQ!SIMPLEQ_REMOVE_HEAD(m, h)
  /\ \A m, h, x : ST!STAILQ_REMOVE(m, h, x) = SQ!SIMPLEQ_REMOVE(m, h, x)
  /\ \A m, h, x : ST!STAILQ_CONCAT(m, h, x) = SQ!SIMPLEQ_CONCAT(m, h, x)
  /\ \A m, h : ST!STAILQ_LAST(m, h) = SQ!SIMPLEQ_LAST(m, h)
<1>1. /\ \A k, o, v : ST!S!SetNext(k, o, v) = SQ!SetNext(k, o, v)
      /\ \A k, o, v : ST!S!SetPrev(k, o, v) = SQ!SetPrev(k, o, v)
  BY DEF ST!S!SetNext, ST!S!SetPrev, SQ!SetNext, SQ!SetPrev
<1>2. \A m, h : ST!STAILQ_INIT(m, h) = SQ!SIMPLEQ_INIT(m, h)
  BY <1>1 DEF ST!STAILQ_INIT, ST!S!SIMPLEQ_INIT, SQ!SIMPLEQ_INIT
<1>3. \A m, h, e : ST!STAILQ_INSERT_HEAD(m, h, e) = SQ!SIMPLEQ_INSERT_HEAD(m, h, e)
  BY <1>1 DEF ST!STAILQ_INSERT_HEAD, ST!S!SIMPLEQ_INSERT_HEAD, SQ!SIMPLEQ_INSERT_HEAD
<1>4. \A m, h, e : ST!STAILQ_INSERT_TAIL(m, h, e) = SQ!SIMPLEQ_INSERT_TAIL(m, h, e)
  BY <1>1 DEF ST!STAILQ_INSERT_TAIL, ST!S!SIMPLEQ_INSERT_TAIL, SQ!SIMPLEQ_INSERT_TAIL
<1>5. \A m, h, x, e : ST!STAILQ_INSERT_AFTER(m, h, x, e) = SQ!SIMPLEQ_INSERT_AFTER(m, h, x, e)
  BY <1>1 DEF ST!STAILQ_INSERT_AFTER, ST!S!SIMPLEQ_INSERT_AFTER, SQ!SIMPLEQ_INSERT_AFTER
<1>6. \A m, h : ST!S!SIMPLEQ_REMOVE_HEAD(m, h) = SQ!SIMPLEQ_REMOVE_HEAD(m, h)
  BY <1>1 DEF ST!S!SIMPLEQ_REMOVE_HEAD, SQ!SIMPLEQ_REMOVE_HEAD
<1>7. \A m, h, y : ST!S!SIMPLEQ_REMOVE_AFTER(m, h, y) = SQ!SIMPLEQ_REMOVE_AFTER(m, h, y)
  BY <1>1 DEF ST!S!SIMPLEQ_REMOVE_AFTER, SQ!SIMPLEQ_REMOVE_AFTER
<1>8. \A m, h, x : ST!STAILQ_REMOVE(m, h, x) = SQ!SIMPLEQ_REMOVE(m, h, x)
  BY <1>6, <1>7, SearchIs DEF ST!STAILQ_REMOVE, ST!S!SIMPLEQ_REMOVE, SQ!SIMPLEQ_REMOVE
<1>9. \A m, h, x : ST!STAILQ_CONCAT(m, h, x) = SQ!SIMPLEQ_CONCAT(m, h, x)
  BY <1>1 DEF ST!STAILQ_CONCAT, ST!S!SIMPLEQ_CONCAT, SQ!SIMPLEQ_CONCAT,
              ST!S!SIMPLEQ_INIT, SQ!SIMPLEQ_INIT,
              ST!S!SIMPLEQ_EMPTY, SQ!SIMPLEQ_EMPTY, ST!S!SIMPLEQ_END, SQ!SIMPLEQ_END
<1>10. \A m, h : ST!STAILQ_LAST(m, h) = SQ!SIMPLEQ_LAST(m, h)
  BY DEF ST!STAILQ_LAST, ST!S!SIMPLEQ_LAST, SQ!SIMPLEQ_LAST,
         ST!S!SIMPLEQ_EMPTY, SQ!SIMPLEQ_EMPTY, ST!S!SIMPLEQ_END, SQ!SIMPLEQ_END
<1> QED
  BY <1>2, <1>3, <1>4, <1>5, <1>6, <1>8, <1>9, <1>10 DEF ST!STAILQ_REMOVE_HEAD

\* The initializers.
LEMMA Initialized ==
  ASSUME mem \in Memory, NEW h \in Heads,
         \/ kind = "SLIST" /\ mem' = SL!SLIST_INIT(mem, h)
         \/ kind = "LIST" /\ mem' = LL!LIST_INIT(mem, h)
         \/ kind \in {"SIMPLEQ", "STAILQ"} /\ mem' = SQ!SIMPLEQ_INIT(mem, h)
         \/ kind = "TAILQ" /\ mem' = TQ!TAILQ_INIT(mem, h)
         \/ kind = "CIRCLEQ" /\ mem' = CQ!CIRCLEQ_INIT(mem, h)
  PROVE  Emptying(h)
<1>1. h \in Owners /\ h \notin Elements /\ End(h) \in Values /\ h \in Values
  BY OwnersAssumption DEF Owners, Values, End
<1>2. PICK m1 \in Memory :
        /\ m1 = SetNext(mem, h, End(h)) /\ m1.prev = mem.prev
        /\ \A o \in Owners : m1.next[o] = IF o = h THEN End(h) ELSE mem.next[o]
  BY <1>1, SetNextIs
<1>3. PICK m2 \in Memory :
        /\ m2 = SetPrev(m1, h, h) /\ m2.next = m1.next
        /\ \A o \in Owners : m2.prev[o] = IF o = h THEN h ELSE m1.prev[o]
  BY <1>1, SetPrevIs
<1>4. \/ ~Tailed /\ mem' = m1
      \/ Tailed /\ mem' = m2
  BY <1>2, <1>3, SinglySets, ListSets, SimpleSets, TailSets, CircSets
  DEF Tailed, End, SL!SLIST_INIT, LL!LIST_INIT, SQ!SIMPLEQ_INIT, TQ!TAILQ_INIT, CQ!CIRCLEQ_INIT,
      SL!SLIST_END, LL!LIST_END, TQ!TAILQ_END, CQ!CIRCLEQ_END
<1> QED
  BY <1>1, <1>2, <1>3, <1>4 DEF Emptying, Owners

\* The macros that join two lists, but LIST_MOVE.
LEMMA SimpleConcat ==
  ASSUME NEW f, NEW h, NEW p, NEW q, kind \in {"SIMPLEQ", "STAILQ"}, Facing(f, h, p, q),
         mem' = SQ!SIMPLEQ_CONCAT(mem, f, h)
  PROVE  Joining(f, h)
<1>1. ~Doubly /\ Tailed /\ End(h) = Null
  BY DEF Doubly, Tailed, End
<1>2. /\ mem \in Memory /\ f \in Owners /\ h \in Owners /\ h \in Values /\ p \in Owners /\ q \in Values
      /\ Null \in Values /\ f # h /\ p # h /\ p # q
      /\ mem.next[p] = Null /\ mem.next[h] = q /\ mem.prev[f] = p /\ mem.prev[h] \in Values
      /\ q = Null => mem.prev[h] = h
  BY <1>1, OwnersAssumption DEF Facing, Owners, Values, Memory
<1>3. PICK v \in Values : v = mem.prev[h]
  BY <1>2
<1>4. CASE q = Null
  <2>1. mem' = mem
    BY <1>2, <1>4 DEF SQ!SIMPLEQ_CONCAT, SQ!SIMPLEQ_EMPTY, SQ!SIMPLEQ_END
  <2> QED
    BY <1>1, <1>2, <1>4, <2>1 DEF Joining, Facing
<1>5. CASE q # Null
  <2>1. PICK m1 \in Memory :
          /\ m1 = SetNext(mem, p, q) /\ m1.prev = mem.prev
          /\ \A o \in Owners : m1.next[o] = IF o = p THEN q ELSE mem.next[o]
    BY <1>2, SetNextIs
  <2>2. PICK m2 \in Memory :
          /\ m2 = SetPrev(m1, f, v) /\ m2.next = m1.next
          /\ \A o \in Owners : m2.prev[o] = IF o = f THEN v ELSE m1.prev[o]
    BY <1>2, SetPrevIs
  <2>3. PICK m3 \in Memory :
          /\ m3 = SetNext(m2, h, Null) /\ m3.prev = m2.prev
          /\ \A o \in Owners : m3.next[o] = IF o = h THEN Null ELSE m2.next[o]
    BY <1>2, SetNextIs
  <2>4. PICK m4 \in Memory :
          /\ m4 = SetPrev(m3, h, h) /\ m4.next = m3.next
          /\ \A o \in Owners : m4.prev[o] = IF o = h THEN h ELSE m3.prev[o]
    BY <1>2, SetPrevIs
  <2>5. mem' = m4
    BY <1>2, <1>5, <1>3, <2>1, <2>2, <2>3, <2>4, SimpleSets
    DEF SQ!SIMPLEQ_CONCAT, SQ!SIMPLEQ_EMPTY, SQ!SIMPLEQ_INIT, SQ!SIMPLEQ_END
  <2>6. \A o \in Owners : mem'.next[o] = IF o = h THEN Null ELSE IF o = p THEN q ELSE mem.next[o]
    BY <1>2, <2>1, <2>2, <2>3, <2>4, <2>5
  <2>7. \A g \in Heads : mem'.prev[g] = IF g = h THEN h ELSE IF g = f THEN v ELSE mem.prev[g]
    BY <1>2, <2>1, <2>2, <2>3, <2>4, <2>5 DEF Owners
  <2> QED
    BY <1>1, <1>5, <1>3, <2>5, <2>6, <2>7 DEF Joining, Facing
<1> QED
  BY <1>4, <1>5

\* TAILQ_CONCAT also sets the back pointer of the second list's first element.
LEMMA TailConcat ==
  ASSUME NEW f, NEW h, NEW p, NEW q, kind = "TAILQ", Facing(f, h, p, q),
         mem' = TQ!TAILQ_CONCAT(mem, f, h)
  PROVE  Joining(f, h)
<1>1. Doubly /\ Tailed /\ End(h) = Null
  BY DEF Doubly, Tailed, End
<1>2. /\ mem \in Memory /\ f \in Owners /\ h \in Owners /\ h \in Values /\ p \in Owners /\ q \in Values
      /\ p \in Values /\ Null \in Values /\ f # h /\ p # h /\ p # q /\ q # h /\ q # f
      /\ h \notin Elements /\ f \notin Elements
      /\ mem.next[p] = Null /\ mem.next[h] = q /\ mem.prev[f] = p /\ mem.prev[h] \in Values
      /\ q = Null => mem.prev[h] = h
      /\ q # Null => q \in Owners
  BY <1>1, OwnersAssumption DEF Facing, Owners, Values, Memory
<1>3. PICK v \in Values : v = mem.prev[h]
  BY <1>2
<1>4. CASE q = Null
  <2>1. mem' = mem
    BY <1>2, <1>4 DEF TQ!TAILQ_CONCAT, TQ!TAILQ_EMPTY, TQ!TAILQ_FIRST, TQ!TAILQ_END
  <2> QED
    BY <1>1, <1>2, <1>4, <2>1 DEF Joining, Facing
<1>5. CASE q # Null
  <2>1. PICK m1 \in Memory :
          /\ m1 = SetNext(mem, p, q) /\ m1.prev = mem.prev
          /\ \A o \in Owners : m1.next[o] = IF o = p THEN q ELSE mem.next[o]
    BY <1>2, SetNextIs
  <2>2. PICK m2 \in Memory :
          /\ m2 = SetPrev(m1, q, p) /\ m2.next = m1.next
          /\ \A o \in Owners : m2.prev[o] = IF o = q THEN p ELSE m1.prev[o]
    BY <1>2, <1>5, SetPrevIs
  <2>3. PICK m3 \in Memory :
          /\ m3 = SetPrev(m2, f, v) /\ m3.next = m2.next
          /\ \A o \in Owners : m3.prev[o] = IF o = f THEN v ELSE m2.prev[o]
    BY <1>2, SetPrevIs
  <2>4. PICK m4 \in Memory :
          /\ m4 = SetNext(m3, h, Null) /\ m4.prev = m3.prev
          /\ \A o \in Owners : m4.next[o] = IF o = h THEN Null ELSE m3.next[o]
    BY <1>2, SetNextIs
  <2>5. PICK m5 \in Memory :
          /\ m5 = SetPrev(m4, h, h) /\ m5.next = m4.next
          /\ \A o \in Owners : m5.prev[o] = IF o = h THEN h ELSE m4.prev[o]
    BY <1>2, SetPrevIs
  <2>6. m1.next[h] = q /\ m1.prev[f] = p /\ m2.prev[h] = v
    BY <1>2, <1>3, <2>1, <2>2
  <2>7. mem' = m5
    BY <1>2, <1>5, <1>3, <2>1, <2>2, <2>3, <2>4, <2>5, <2>6, TailSets
    DEF TQ!TAILQ_CONCAT, TQ!TAILQ_EMPTY, TQ!TAILQ_FIRST, TQ!TAILQ_INIT, TQ!TAILQ_END
  <2>8. \A o \in Owners : mem'.next[o] = IF o = h THEN Null ELSE IF o = p THEN q ELSE mem.next[o]
    BY <1>2, <2>1, <2>2, <2>3, <2>4, <2>5, <2>7
  <2>9. \A o \in Elements : mem'.prev[o] = IF o = q THEN p ELSE mem.prev[o]
    BY <1>2, <2>1, <2>2, <2>3, <2>4, <2>5, <2>7 DEF Owners
  <2>10. \A g \in Heads : mem'.prev[g] = IF g = h THEN h ELSE IF g = f THEN v ELSE mem.prev[g]
    BY <1>2, <2>1, <2>2, <2>3, <2>4, <2>5, <2>7, OwnersAssumption DEF Owners, Facing
  <2>11. q \in Elements
    BY <1>5 DEF Facing
  <2> QED
    BY <1>1, <1>5, <1>3, <2>7, <2>8, <2>9, <2>10, <2>11 DEF Joining, Facing
<1> QED
  BY <1>4, <1>5

\* LIST_MOVE to an empty list leaves the back pointer of the first element.
LEMMA ListMove ==
  ASSUME NEW f, NEW h, NEW q, kind = "LIST", Facing(f, h, f, q),
         Len(list[f]) = 0, q # Null => f \in moved',
         mem' = LL!LIST_MOVE(mem, h, f)
  PROVE  Joining(f, h)
<1>1. Doubly /\ ~Tailed /\ End(h) = Null
  BY DEF Doubly, Tailed, End
<1>2. /\ mem \in Memory /\ f \in Owners /\ h \in Owners /\ q \in Values
      /\ Null \in Values /\ f # h /\ mem.next[f] = Null /\ mem.next[h] = q
  BY OwnersAssumption DEF Facing, Owners, Values, Memory
<1>3. PICK m1 \in Memory :
        /\ m1 = SetNext(mem, f, Null) /\ m1.prev = mem.prev
        /\ \A o \in Owners : m1.next[o] = IF o = f THEN Null ELSE mem.next[o]
  BY <1>2, SetNextIs
<1>4. PICK m2 \in Memory :
        /\ m2 = SetNext(m1, f, q) /\ m2.prev = m1.prev
        /\ \A o \in Owners : m2.next[o] = IF o = f THEN q ELSE m1.next[o]
  BY <1>2, SetNextIs
<1>5. PICK m3 \in Memory :
        /\ m3 = SetNext(m2, h, Null) /\ m3.prev = m2.prev
        /\ \A o \in Owners : m3.next[o] = IF o = h THEN Null ELSE m2.next[o]
  BY <1>2, SetNextIs
<1>6. m1.next[h] = q
  BY <1>2, <1>3
<1>7. mem' = IF q = Null THEN m1 ELSE m3
  BY <1>3, <1>4, <1>5, <1>6, ListSets DEF LL!LIST_MOVE, LL!LIST_INIT, LL!LIST_EMPTY, LL!LIST_END
<1>8. mem'.prev = mem.prev /\ mem' \in Memory
  BY <1>3, <1>4, <1>5, <1>7
<1>9. \A o \in Owners : mem'.next[o] = IF o = h THEN Null ELSE IF o = f THEN q ELSE mem.next[o]
  BY <1>2, <1>3, <1>4, <1>5, <1>7
<1> QED
  BY <1>1, <1>8, <1>9 DEF Joining, Facing

-----------------------------------------------------------------------------
(* The operations of the program.                                            *)

\* The loop steps nowhere when an element is forgotten.
LEMMA NoStep ==
  ASSUME LoopInv, \/ UNCHANGED loop
                  \/ \E S : loop' = Forget(S)
  PROVE  StaysInList
<1>1. loop'.var = loop.var
  BY ForgetFacts
<1> QED
  BY <1>1 DEF StaysInList

\* An insertion: what is left to show of a macro is Inserting.
LEMMA InsertStep ==
  ASSUME Inv, kind' = kind, NEW h \in Heads, NEW e \in Free,
         NEW i \in 1 .. Len(list[h]) + 1, NEW m, Insert(h, i, e, m),
         \/ moved' = moved
         \/ kind = "LIST" /\ i = 1 /\ moved' = moved \ {h},
         NEW a, a = At(h, i - 1), NEW b, b = At(h, i),
         Between(h, e, a, b) => Inserting(h, e, a, b)
  PROVE  Inv' /\ StaysInList
<1>1. Program
  BY DEF Program, Insert, Inv, Shape
<1>2. Inserts(h, i, e) /\ loop' = loop
  BY DEF Insert, Inserts
<1>3. Inserting(h, e, At(h, i - 1), At(h, i))
  <2>1. Shape
    BY DEF Inv
  <2> QED
    BY <2>1, BetweenPlaces
<1>4. moved' = moved \/ (i = 1 /\ moved' = moved \ {h})
  OBVIOUS
<1>5. Inv'
  <2> HIDE DEF Inv
  <2> QED
    BY <1>1, <1>2, <1>3, <1>4, InsertKeeps
<1> QED
  BY <1>2, <1>5, NoStep DEF Inv

\* A removal.
LEMMA RemoveStep ==
  ASSUME Inv, UNCHANGED <<kind, moved>>, NEW h \in Heads, NEW i \in 1 .. Len(list[h]),
         NEW m, Remove1(h, i, m),
         NEW a, a = At(h, i - 1), NEW x, x = At(h, i), NEW b, b = At(h, i + 1),
         Around(h, x, a, b) => Removing(h, x, a, b)
  PROVE  Inv' /\ StaysInList
<1>1. Program /\ ListsOK /\ Shape /\ LoopInv
  BY DEF Program, Remove1, Inv, Shape
<1>2. list[h][i] = At(h, i)
  BY <1>1, PlacesAre
<1>3. Removes(h, i) /\ MayRemove(At(h, i)) /\ loop' = Forget({At(h, i)})
  BY <1>2 DEF Remove1, Removes
<1>4. Removing(h, At(h, i), At(h, i - 1), At(h, i + 1))
  BY <1>1, AroundPlace
<1>5. Inv'
  BY <1>1, <1>3, <1>4, RemoveKeeps
<1> QED
  BY <1>1, <1>3, <1>5, NoStep

\* A replacement.
LEMMA ReplaceStep ==
  ASSUME Inv, UNCHANGED <<kind, moved>>, NEW h \in Heads, NEW i \in 1 .. Len(list[h]),
         NEW e \in Free, NEW m, Replace1(h, i, e, m),
         NEW a, a = At(h, i - 1), NEW x, x = At(h, i), NEW b, b = At(h, i + 1),
         Around(h, x, a, b) /\ e \in Elements /\ e \notin {a, x, b}
           => Replacing(h, x, e, a, b)
  PROVE  Inv' /\ StaysInList
<1>1. Program /\ ListsOK /\ Shape /\ LoopInv
  BY DEF Program, Replace1, Inv, Shape
<1>2. list[h][i] = At(h, i)
  BY <1>1, PlacesAre
<1>3. Replaces(h, i, e) /\ MayRemove(At(h, i)) /\ loop' = Forget({At(h, i)})
  BY <1>2 DEF Replace1, Replaces
<1>4. Replacing(h, At(h, i), e, At(h, i - 1), At(h, i + 1))
  BY <1>1, AroundPlace
<1>5. Inv'
  BY <1>1, <1>3, <1>4, ReplaceKeeps
<1> QED
  BY <1>1, <1>3, <1>5, NoStep

\* An initialization.
LEMMA ResetStep ==
  ASSUME Inv, kind' = kind, NEW h \in Heads, NEW m, Reset(h, m),
         moved' = moved \/ (kind = "LIST" /\ moved' = moved \ {h}), Emptying(h)
  PROVE  Inv' /\ StaysInList
<1>1. Program /\ LoopInv
  BY DEF Program, Reset, Inv, Shape
<1>2. Empties(h) /\ NotLooped(h) /\ loop' = loop
  BY DEF Reset, Empties
<1>3. moved \ {h} \subseteq moved'
  OBVIOUS
<1>4. Inv'
  BY <1>1, <1>2, <1>3, EmptyKeeps
<1> QED
  BY <1>1, <1>2, <1>4, NoStep

\* The joining of two lists.
LEMMA JoinStep ==
  ASSUME Inv, kind' = kind, kind # "CIRCLEQ", NEW f \in Heads, NEW h \in Heads,
         NEW m, Append2(f, h, m),
         \/ moved' = moved
         \/ /\ kind = "LIST" /\ Len(list[f]) = 0
            /\ moved' \in {moved \ {h}, (moved \ {h}) \union {f}},
         NEW p, p = At(f, Len(list[f])), NEW q, q = At(h, 1),
         Facing(f, h, p, q) => Joining(f, h)
  PROVE  Inv' /\ StaysInList
<1>1. Program /\ LoopInv /\ Shape
  BY DEF Program, Append2, Inv, Shape
<1>2. f # h /\ Joins(f, h) /\ NotLooped(f) /\ NotLooped(h) /\ loop' = loop
  BY DEF Append2, Joins
<1>3. Joining(f, h)
  BY <1>1, <1>2, FacingEnds
<1>4. /\ \A g \in Heads \ {f, h} : g \in moved => g \in moved'
      /\ Len(list[f]) # 0 /\ f \in moved => f \in moved'
  BY <1>2
<1>5. Inv'
  BY <1>1, <1>2, <1>3, <1>4, JoinKeeps
<1> QED
  BY <1>1, <1>2, <1>5, NoStep

\* The places that the operations name.
LEMMA PlaceFacts ==
  ASSUME Inv, NEW h \in Heads
  PROVE  /\ 1 \in 1 .. Len(list[h]) + 1 /\ At(h, 1 - 1) = h
         /\ Len(list[h]) + 1 \in 1 .. Len(list[h]) + 1
         /\ At(h, Len(list[h]) + 1) = End(h)
         /\ \A i \in Places(h) :
              /\ i \in 1 .. Len(list[h]) /\ i \in 1 .. Len(list[h]) + 1
              /\ i + 1 \in 1 .. Len(list[h]) + 1
              /\ list[h][i] = At(h, i) /\ At(h, i) \in Elements
              /\ At(h, (i + 1) - 1) = At(h, i)
              /\ i < Len(list[h]) => i + 1 \in 1 .. Len(list[h])
              /\ At(h, i - 1) = h => i = 1
         /\ kind # "LIST" => h \notin moved
         /\ kind # "CIRCLEQ" /\ mem.next[h] # Null => 1 \in 1 .. Len(list[h])
<1>1. ListsOK /\ Forward /\ (kind # "LIST" => h \notin moved)
  BY DEF Inv, Shape
<1>2. PICK n \in Nat : n = Len(list[h]) /\ Places(h) = 1 .. n
  BY <1>1, PlacesAre
<1>3. /\ At(h, 0) = h /\ At(h, n + 1) = End(h)
      /\ \A i \in 1 .. n : list[h][i] = At(h, i) /\ At(h, i) \in Elements
  BY <1>1, <1>2, PlacesAre
<1>4. \A i \in 1 .. n : /\ i \in 1 .. n + 1 /\ i + 1 \in 1 .. n + 1 /\ (i + 1) - 1 = i
                        /\ i < n => i + 1 \in 1 .. n
                        /\ i - 1 \in 0 .. n /\ (i - 1 = 0 => i = 1)
  BY <1>2
<1>5. 1 \in 1 .. n + 1 /\ 1 - 1 = 0 /\ n + 1 \in 1 .. n + 1 /\ 0 \in 0 .. n /\ 0 + 1 = 1
  BY <1>2
<1>6. \A i \in 1 .. n : At(h, i - 1) = h => i = 1
  BY <1>1, <1>2, <1>3, <1>4, <1>5, AtInjective
<1>7. mem.next[h] = At(h, 1)
  BY <1>1, <1>2, <1>3, <1>5 DEF Forward
<1>8. kind # "CIRCLEQ" /\ mem.next[h] # Null => 1 \in 1 .. n
  <2> SUFFICES ASSUME kind # "CIRCLEQ", n = 0 PROVE mem.next[h] = Null
    BY <1>2
  <2>1. At(h, 1) = End(h) /\ End(h) = Null
    BY <1>3 DEF End
  <2> QED
    BY <2>1, <1>7
<1> QED
  BY <1>1, <1>2, <1>3, <1>4, <1>5, <1>6, <1>8

\* A program that uses SLIST.
LEMMA SinglySteps ==
  ASSUME Inv, kind = "SLIST", SL!Next, UNCHANGED <<kind, moved>>
  PROVE  Inv' /\ StaysInList
<1>1. /\ SL!Free = Free /\ \A h : SL!Places(h) = Places(h)
  BY SinglyCalls
<1>2. ASSUME NEW h \in Heads, SL!InitHead(h) PROVE Inv' /\ StaysInList
  <2>1. Reset(h, SL!SLIST_INIT(mem, h)) /\ mem \in Memory
    BY <1>2, SinglyCalls DEF SL!InitHead, Inv, Shape
  <2>2. Emptying(h)
    BY <2>1, Initialized DEF Reset
  <2> QED
    BY <2>1, <2>2, ResetStep
<1>3. ASSUME NEW h \in Heads, SL!InsertHead(h) PROVE Inv' /\ StaysInList
  <2>1. PICK e \in Free : Insert(h, 1, e, SL!SLIST_INSERT_HEAD(mem, h, e))
    BY <1>3, SinglyCalls DEF SL!InsertHead
  <2>2. mem' = SL!SLIST_INSERT_AFTER(mem, h, e)
    BY <2>1, HeadIsAfter DEF Insert
  <2> QED
    BY <2>1, <2>2, PlaceFacts, InsertStep, SinglyInsertAfter
<1>4. ASSUME NEW h \in Heads, SL!RemoveHead(h) PROVE Inv' /\ StaysInList
  <2>1. mem.next[h] # Null /\ Remove1(h, 1, SL!SLIST_REMOVE_HEAD(mem, h))
    BY <1>4, SinglyCalls DEF SL!RemoveHead, SL!SLIST_EMPTY
  <2>2. mem' = SL!SLIST_REMOVE_AFTER(mem, h)
    BY <2>1, HeadIsAfter DEF Remove1
  <2> QED
    BY <2>1, <2>2, PlaceFacts, RemoveStep, SinglyRemoveAfter
<1>5. ASSUME NEW h \in Heads, NEW i \in Places(h), SL!InsertAfter(h, i)
      PROVE  Inv' /\ StaysInList
  <2>1. PICK e \in Free : Insert(h, i + 1, e, SL!SLIST_INSERT_AFTER(mem, list[h][i], e))
    BY <1>5, SinglyCalls DEF SL!InsertAfter
  <2>2. mem' = SL!SLIST_INSERT_AFTER(mem, At(h, i), e)
    BY <2>1, PlaceFacts DEF Insert
  <2> QED
    BY <2>1, <2>2, PlaceFacts, InsertStep, SinglyInsertAfter
<1>6. ASSUME NEW h \in Heads, NEW i \in Places(h), SL!RemoveAfter(h, i)
      PROVE  Inv' /\ StaysInList
  <2>1. i < Len(list[h]) /\ Remove1(h, i + 1, SL!SLIST_REMOVE_AFTER(mem, list[h][i]))
    BY <1>6, SinglyCalls DEF SL!RemoveAfter
  <2>2. mem' = SL!SLIST_REMOVE_AFTER(mem, At(h, i))
    BY <2>1, PlaceFacts DEF Remove1
  <2> QED
    BY <2>1, <2>2, PlaceFacts, RemoveStep, SinglyRemoveAfter
<1>7. ASSUME NEW h \in Heads, NEW i \in Places(h), SL!RemoveElement(h, i)
      PROVE  Inv' /\ StaysInList
  <2>1. Remove1(h, i, SL!SLIST_REMOVE(mem, h, list[h][i]))
    BY <1>7, SinglyCalls DEF SL!RemoveElement
  <2>2. mem' = SL!SLIST_REMOVE(mem, h, At(h, i))
    BY <2>1, PlaceFacts DEF Remove1
  <2> QED
    BY <2>1, <2>2, PlaceFacts, RemoveStep, SinglyRemove
<1>8. SL!SLIST_FOREACH \/ SL!SLIST_FOREACH_SAFE \/ SL!Leave => Inv' /\ StaysInList
  BY SinglyCalls, ForEachKeeps, ForEachSafeKeeps, LeaveKeeps
  DEF SL!SLIST_FOREACH, SL!SLIST_FOREACH_SAFE
<1> QED
  BY <1>1, <1>2, <1>3, <1>4, <1>5, <1>6, <1>7, <1>8 DEF SL!Next

\* A program that uses SIMPLEQ.
LEMMA SimpleSteps ==
  ASSUME Inv, kind = "SIMPLEQ", SQ!Next, UNCHANGED <<kind, moved>>
  PROVE  Inv' /\ StaysInList
<1>1. SQ!Free = Free /\ \A h : SQ!Places(h) = Places(h)
  BY SimpleCalls
<1>2. ASSUME NEW h \in Heads, SQ!InitHead(h) PROVE Inv' /\ StaysInList
  <2>1. Reset(h, SQ!SIMPLEQ_INIT(mem, h)) /\ mem \in Memory
    BY <1>2, SimpleCalls DEF SQ!InitHead, Inv, Shape
  <2>2. Emptying(h)
    BY <2>1, Initialized DEF Reset
  <2> QED
    BY <2>1, <2>2, ResetStep
<1>3. ASSUME NEW h \in Heads, SQ!InsertHead(h) PROVE Inv' /\ StaysInList
  <2>1. PICK e \in Free : Insert(h, 1, e, SQ!SIMPLEQ_INSERT_HEAD(mem, h, e))
    BY <1>3, SimpleCalls DEF SQ!InsertHead
  <2>2. mem' = SQ!SIMPLEQ_INSERT_AFTER(mem, h, h, e)
    BY <2>1, PlaceFacts, HeadIsAfter DEF Insert
  <2> QED
    BY <2>1, <2>2, PlaceFacts, InsertStep, SimpleInsertAfter
<1>4. ASSUME NEW h \in Heads, SQ!InsertTail(h) PROVE Inv' /\ StaysInList
  <2>1. PICK e \in Free : Insert(h, Len(list[h]) + 1, e, SQ!SIMPLEQ_INSERT_TAIL(mem, h, e))
    BY <1>4, SimpleCalls DEF SQ!InsertTail
  <2>2. mem' = SQ!SIMPLEQ_INSERT_TAIL(mem, h, e)
    BY <2>1, PlaceFacts DEF Insert
  <2>3. At(h, Len(list[h]) + 1) = Null
    BY <1>4, PlaceFacts DEF SQ!InsertTail, End
  <2> QED
    BY <2>1, <2>2, <2>3, PlaceFacts, InsertStep, SimpleInsertTail
<1>5. ASSUME NEW h \in Heads, SQ!RemoveHead(h) PROVE Inv' /\ StaysInList
  <2>1. mem.next[h] # Null /\ Remove1(h, 1, SQ!SIMPLEQ_REMOVE_HEAD(mem, h))
    BY <1>5, SimpleCalls DEF SQ!RemoveHead, SQ!SIMPLEQ_EMPTY, SQ!SIMPLEQ_END
  <2>2. mem' = SQ!SIMPLEQ_REMOVE_AFTER(mem, h, h)
    BY <2>1, PlaceFacts, HeadIsAfter DEF Remove1
  <2> QED
    BY <2>1, <2>2, PlaceFacts, RemoveStep, SimpleRemoveAfter
<1>6. ASSUME NEW h \in Heads, NEW g \in Heads, SQ!Concat(h, g) PROVE Inv' /\ StaysInList
  <2>1. Append2(h, g, SQ!SIMPLEQ_CONCAT(mem, h, g))
    BY <1>6, SimpleCalls DEF SQ!Concat
  <2>2. mem' = SQ!SIMPLEQ_CONCAT(mem, h, g)
    BY <2>1 DEF Append2
  <2> QED
    BY <2>1, <2>2, JoinStep, SimpleConcat
<1>7. ASSUME NEW h \in Heads, NEW i \in Places(h), SQ!InsertAfter(h, i) PROVE Inv' /\ StaysInList
  <2>1. PICK e \in Free : Insert(h, i + 1, e, SQ!SIMPLEQ_INSERT_AFTER(mem, h, list[h][i], e))
    BY <1>7, SimpleCalls DEF SQ!InsertAfter
  <2>2. mem' = SQ!SIMPLEQ_INSERT_AFTER(mem, h, At(h, i), e)
    BY <2>1, PlaceFacts DEF Insert
  <2> QED
    BY <2>1, <2>2, PlaceFacts, InsertStep, SimpleInsertAfter
<1>8. ASSUME NEW h \in Heads, NEW i \in Places(h), SQ!RemoveAfter(h, i) PROVE Inv' /\ StaysInList
  <2>1. i < Len(list[h]) /\ Remove1(h, i + 1, SQ!SIMPLEQ_REMOVE_AFTER(mem, h, list[h][i]))
    BY <1>8, SimpleCalls DEF SQ!RemoveAfter
  <2>2. mem' = SQ!SIMPLEQ_REMOVE_AFTER(mem, h, At(h, i))
    BY <2>1, PlaceFacts DEF Remove1
  <2> QED
    BY <2>1, <2>2, PlaceFacts, RemoveStep, SimpleRemoveAfter
<1>9. ASSUME NEW h \in Heads, NEW i \in Places(h), SQ!RemoveElement(h, i) PROVE Inv' /\ StaysInList
  <2>1. Remove1(h, i, SQ!SIMPLEQ_REMOVE(mem, h, list[h][i]))
    BY <1>9, SimpleCalls DEF SQ!RemoveElement
  <2>2. mem' = SQ!SIMPLEQ_REMOVE(mem, h, At(h, i))
    BY <2>1, PlaceFacts DEF Remove1
  <2> QED
    BY <2>1, <2>2, PlaceFacts, RemoveStep, SimpleRemove
<1>10. SQ!SIMPLEQ_FOREACH \/ SQ!SIMPLEQ_FOREACH_SAFE \/ SQ!Leave => Inv' /\ StaysInList
  BY SimpleCalls, ForEachKeeps, ForEachSafeKeeps, LeaveKeeps
  DEF SQ!SIMPLEQ_FOREACH, SQ!SIMPLEQ_FOREACH_SAFE
<1> QED
  BY <1>1, <1>2, <1>3, <1>4, <1>5, <1>6, <1>7, <1>8, <1>9, <1>10 DEF SQ!Next

\* A program that uses STAILQ.
LEMMA STailSteps ==
  ASSUME Inv, kind = "STAILQ", ST!Next, UNCHANGED <<kind, moved>>
  PROVE  Inv' /\ StaysInList
<1>1. ST!Free = Free /\ \A h : ST!Places(h) = Places(h)
  BY STailCalls
<1>2. ASSUME NEW h \in Heads, ST!InitHead(h) PROVE Inv' /\ StaysInList
  <2>1. Reset(h, ST!STAILQ_INIT(mem, h)) /\ mem \in Memory
    BY <1>2, STailCalls DEF ST!InitHead, Inv, Shape
  <2>2. Emptying(h)
    BY <2>1, Initialized, STailIsSimple DEF Reset
  <2> QED
    BY <2>1, <2>2, ResetStep
<1>3. ASSUME NEW h \in Heads, ST!InsertHead(h) PROVE Inv' /\ StaysInList
  <2>1. PICK e \in Free : Insert(h, 1, e, ST!STAILQ_INSERT_HEAD(mem, h, e))
    BY <1>3, STailCalls DEF ST!InsertHead
  <2>2. mem' = SQ!SIMPLEQ_INSERT_AFTER(mem, h, h, e)
    BY <2>1, PlaceFacts, STailIsSimple, HeadIsAfter DEF Insert
  <2> QED
    BY <2>1, <2>2, PlaceFacts, InsertStep, SimpleInsertAfter
<1>4. ASSUME NEW h \in Heads, ST!InsertTail(h) PROVE Inv' /\ StaysInList
  <2>1. PICK e \in Free : Insert(h, Len(list[h]) + 1, e, ST!STAILQ_INSERT_TAIL(mem, h, e))
    BY <1>4, STailCalls DEF ST!InsertTail
  <2>2. mem' = SQ!SIMPLEQ_INSERT_TAIL(mem, h, e)
    BY <2>1, PlaceFacts, STailIsSimple DEF Insert
  <2>3. At(h, Len(list[h]) + 1) = Null
    BY <1>4, PlaceFacts DEF ST!InsertTail, End
  <2> QED
    BY <2>1, <2>2, <2>3, PlaceFacts, InsertStep, SimpleInsertTail
<1>5. ASSUME NEW h \in Heads, ST!RemoveHead(h) PROVE Inv' /\ StaysInList
  <2>1. mem.next[h] # Null /\ Remove1(h, 1, ST!STAILQ_REMOVE_HEAD(mem, h))
    BY <1>5, STailCalls DEF ST!RemoveHead, ST!STAILQ_EMPTY
  <2>2. mem' = SQ!SIMPLEQ_REMOVE_AFTER(mem, h, h)
    BY <2>1, PlaceFacts, STailIsSimple, HeadIsAfter DEF Remove1
  <2> QED
    BY <2>1, <2>2, PlaceFacts, RemoveStep, SimpleRemoveAfter
<1>6. ASSUME NEW h \in Heads, NEW g \in Heads, ST!Concat(h, g) PROVE Inv' /\ StaysInList
  <2>1. Append2(h, g, ST!STAILQ_CONCAT(mem, h, g))
    BY <1>6, STailCalls DEF ST!Concat
  <2>2. mem' = SQ!SIMPLEQ_CONCAT(mem, h, g)
    BY <2>1, STailIsSimple DEF Append2
  <2> QED
    BY <2>1, <2>2, JoinStep, SimpleConcat
<1>7. ASSUME NEW h \in Heads, NEW i \in Places(h), ST!InsertAfter(h, i) PROVE Inv' /\ StaysInList
  <2>1. PICK e \in Free : Insert(h, i + 1, e, ST!STAILQ_INSERT_AFTER(mem, h, list[h][i], e))
    BY <1>7, STailCalls DEF ST!InsertAfter
  <2>2. mem' = SQ!SIMPLEQ_INSERT_AFTER(mem, h, At(h, i), e)
    BY <2>1, PlaceFacts, STailIsSimple DEF Insert
  <2> QED
    BY <2>1, <2>2, PlaceFacts, InsertStep, SimpleInsertAfter
<1>8. ASSUME NEW h \in Heads, NEW i \in Places(h), ST!RemoveElement(h, i) PROVE Inv' /\ StaysInList
  <2>1. Remove1(h, i, ST!STAILQ_REMOVE(mem, h, list[h][i]))
    BY <1>8, STailCalls DEF ST!RemoveElement
  <2>2. mem' = SQ!SIMPLEQ_REMOVE(mem, h, At(h, i))
    BY <2>1, PlaceFacts, STailIsSimple DEF Remove1
  <2> QED
    BY <2>1, <2>2, PlaceFacts, RemoveStep, SimpleRemove
<1>9. ST!STAILQ_FOREACH \/ ST!STAILQ_FOREACH_SAFE \/ ST!Leave => Inv' /\ StaysInList
  BY STailCalls, ForEachKeeps, ForEachSafeKeeps, LeaveKeeps
  DEF ST!STAILQ_FOREACH, ST!STAILQ_FOREACH_SAFE
<1> QED
  BY <1>1, <1>2, <1>3, <1>4, <1>5, <1>6, <1>7, <1>8, <1>9 DEF ST!Next

\* A program that uses TAILQ.
LEMMA TailSteps ==
  ASSUME Inv, kind = "TAILQ", TQ!Next, UNCHANGED <<kind, moved>>
  PROVE  Inv' /\ StaysInList
<1>1. TQ!Free = Free /\ \A h : TQ!Places(h) = Places(h)
  BY TailCalls
<1>2. ASSUME NEW h \in Heads, TQ!InitHead(h) PROVE Inv' /\ StaysInList
  <2>1. Reset(h, TQ!TAILQ_INIT(mem, h)) /\ mem \in Memory
    BY <1>2, TailCalls DEF TQ!InitHead, Inv, Shape
  <2>2. Emptying(h)
    BY <2>1, Initialized DEF Reset
  <2> QED
    BY <2>1, <2>2, ResetStep
<1>3. ASSUME NEW h \in Heads, TQ!InsertHead(h) PROVE Inv' /\ StaysInList
  <2>1. PICK e \in Free : Insert(h, 1, e, TQ!TAILQ_INSERT_HEAD(mem, h, e))
    BY <1>3, TailCalls DEF TQ!InsertHead
  <2>2. mem' = TQ!TAILQ_INSERT_AFTER(mem, h, h, e)
    BY <2>1, PlaceFacts, HeadIsAfter DEF Insert
  <2> QED
    BY <2>1, <2>2, PlaceFacts, InsertStep, TailInsertAfter
<1>4. ASSUME NEW h \in Heads, TQ!InsertTail(h) PROVE Inv' /\ StaysInList
  <2>1. PICK e \in Free : Insert(h, Len(list[h]) + 1, e, TQ!TAILQ_INSERT_TAIL(mem, h, e))
    BY <1>4, TailCalls DEF TQ!InsertTail
  <2>2. mem' = TQ!TAILQ_INSERT_TAIL(mem, h, e)
    BY <2>1, PlaceFacts DEF Insert
  <2>3. At(h, Len(list[h]) + 1) = Null
    BY <1>4, PlaceFacts DEF TQ!InsertTail, End
  <2> QED
    BY <2>1, <2>2, <2>3, PlaceFacts, InsertStep, TailInsertTail
<1>5. ASSUME NEW h \in Heads, NEW g \in Heads, TQ!Concat(h, g) PROVE Inv' /\ StaysInList
  <2>1. Append2(h, g, TQ!TAILQ_CONCAT(mem, h, g))
    BY <1>5, TailCalls DEF TQ!Concat
  <2>2. mem' = TQ!TAILQ_CONCAT(mem, h, g)
    BY <2>1 DEF Append2
  <2> QED
    BY <2>1, <2>2, JoinStep, TailConcat
<1>6. ASSUME NEW h \in Heads, NEW i \in Places(h), TQ!InsertAfter(h, i) PROVE Inv' /\ StaysInList
  <2>1. PICK e \in Free : Insert(h, i + 1, e, TQ!TAILQ_INSERT_AFTER(mem, h, list[h][i], e))
    BY <1>6, TailCalls DEF TQ!InsertAfter
  <2>2. mem' = TQ!TAILQ_INSERT_AFTER(mem, h, At(h, i), e)
    BY <2>1, PlaceFacts DEF Insert
  <2> QED
    BY <2>1, <2>2, PlaceFacts, InsertStep, TailInsertAfter
<1>7. ASSUME NEW h \in Heads, NEW i \in Places(h), TQ!InsertBefore(h, i) PROVE Inv' /\ StaysInList
  <2>1. PICK e \in Free : Insert(h, i, e, TQ!TAILQ_INSERT_BEFORE(mem, list[h][i], e))
    BY <1>7, TailCalls DEF TQ!InsertBefore
  <2>2. mem' = TQ!TAILQ_INSERT_BEFORE(mem, At(h, i), e)
    BY <2>1, PlaceFacts DEF Insert
  <2> QED
    BY <2>1, <2>2, PlaceFacts, InsertStep, TailInsertBefore
<1>8. ASSUME NEW h \in Heads, NEW i \in Places(h), TQ!RemoveElement(h, i) PROVE Inv' /\ StaysInList
  <2>1. Remove1(h, i, TQ!TAILQ_REMOVE(mem, h, list[h][i]))
    BY <1>8, TailCalls DEF TQ!RemoveElement
  <2>2. mem' = TQ!TAILQ_REMOVE(mem, h, At(h, i))
    BY <2>1, PlaceFacts DEF Remove1
  <2> QED
    BY <2>1, <2>2, PlaceFacts, RemoveStep, TailRemove
<1>9. ASSUME NEW h \in Heads, NEW i \in Places(h), TQ!Replace(h, i) PROVE Inv' /\ StaysInList
  <2>1. PICK e \in Free : Replace1(h, i, e, TQ!TAILQ_REPLACE(mem, h, list[h][i], e))
    BY <1>9, TailCalls DEF TQ!Replace
  <2>2. mem' = TQ!TAILQ_REPLACE(mem, h, At(h, i), e)
    BY <2>1, PlaceFacts DEF Replace1
  <2> QED
    BY <2>1, <2>2, PlaceFacts, ReplaceStep, TailReplace
<1>10. TQ!TAILQ_FOREACH \/ TQ!TAILQ_FOREACH_SAFE \/ TQ!TAILQ_FOREACH_REVERSE
        \/ TQ!TAILQ_FOREACH_REVERSE_SAFE \/ TQ!Leave => Inv' /\ StaysInList
  BY TailCalls, ForEachKeeps, ForEachSafeKeeps, LeaveKeeps, TailReverseKeeps, TailReverseSafeKeeps
  DEF TQ!TAILQ_FOREACH, TQ!TAILQ_FOREACH_SAFE
<1> QED
  BY <1>1, <1>2, <1>3, <1>4, <1>5, <1>6, <1>7, <1>8, <1>9, <1>10 DEF TQ!Next

\* A program that uses CIRCLEQ.
LEMMA CircSteps ==
  ASSUME Inv, kind = "CIRCLEQ", CQ!Next, UNCHANGED <<kind, moved>>
  PROVE  Inv' /\ StaysInList
<1>1. CQ!Free = Free /\ \A h : CQ!Places(h) = Places(h)
  BY CircCalls
<1>2. ASSUME NEW h \in Heads, CQ!InitHead(h) PROVE Inv' /\ StaysInList
  <2>1. Reset(h, CQ!CIRCLEQ_INIT(mem, h)) /\ mem \in Memory
    BY <1>2, CircCalls DEF CQ!InitHead, Inv, Shape
  <2>2. Emptying(h)
    BY <2>1, Initialized DEF Reset
  <2> QED
    BY <2>1, <2>2, ResetStep
<1>3. ASSUME NEW h \in Heads, CQ!InsertHead(h) PROVE Inv' /\ StaysInList
  <2>1. PICK e \in Free : Insert(h, 1, e, CQ!CIRCLEQ_INSERT_HEAD(mem, h, e))
    BY <1>3, CircCalls DEF CQ!InsertHead
  <2>2. mem' = CQ!CIRCLEQ_INSERT_HEAD(mem, h, e)
    BY <2>1, PlaceFacts DEF Insert
  <2> QED
    BY <2>1, <2>2, PlaceFacts, InsertStep, CircInsertHead
<1>4. ASSUME NEW h \in Heads, CQ!InsertTail(h) PROVE Inv' /\ StaysInList
  <2>1. PICK e \in Free : Insert(h, Len(list[h]) + 1, e, CQ!CIRCLEQ_INSERT_TAIL(mem, h, e))
    BY <1>4, CircCalls DEF CQ!InsertTail
  <2>2. mem' = CQ!CIRCLEQ_INSERT_TAIL(mem, h, e)
    BY <2>1, PlaceFacts DEF Insert
  <2>3. At(h, Len(list[h]) + 1) = h
    BY <1>4, PlaceFacts DEF CQ!InsertTail, End
  <2> QED
    BY <2>1, <2>2, <2>3, PlaceFacts, InsertStep, CircInsertTail
<1>5. ASSUME NEW h \in Heads, NEW i \in Places(h), CQ!InsertAfter(h, i) PROVE Inv' /\ StaysInList
  <2>1. PICK e \in Free : Insert(h, i + 1, e, CQ!CIRCLEQ_INSERT_AFTER(mem, h, list[h][i], e))
    BY <1>5, CircCalls DEF CQ!InsertAfter
  <2>2. mem' = CQ!CIRCLEQ_INSERT_AFTER(mem, h, At(h, i), e)
    BY <2>1, PlaceFacts DEF Insert
  <2> QED
    BY <2>1, <2>2, PlaceFacts, InsertStep, CircInsertAfter
<1>6. ASSUME NEW h \in Heads, NEW i \in Places(h), CQ!InsertBefore(h, i) PROVE Inv' /\ StaysInList
  <2>1. PICK e \in Free : Insert(h, i, e, CQ!CIRCLEQ_INSERT_BEFORE(mem, h, list[h][i], e))
    BY <1>6, CircCalls DEF CQ!InsertBefore
  <2>2. mem' = CQ!CIRCLEQ_INSERT_BEFORE(mem, h, At(h, i), e)
    BY <2>1, PlaceFacts DEF Insert
  <2> QED
    BY <2>1, <2>2, PlaceFacts, InsertStep, CircInsertBefore
<1>7. ASSUME NEW h \in Heads, NEW i \in Places(h), CQ!RemoveElement(h, i) PROVE Inv' /\ StaysInList
  <2>1. Remove1(h, i, CQ!CIRCLEQ_REMOVE(mem, h, list[h][i]))
    BY <1>7, CircCalls DEF CQ!RemoveElement
  <2>2. mem' = CQ!CIRCLEQ_REMOVE(mem, h, At(h, i))
    BY <2>1, PlaceFacts DEF Remove1
  <2> QED
    BY <2>1, <2>2, PlaceFacts, RemoveStep, CircRemove
<1>8. CQ!CIRCLEQ_FOREACH \/ CQ!CIRCLEQ_FOREACH_REVERSE \/ CQ!Leave => Inv' /\ StaysInList
  BY CircCalls, ForEachKeeps, LeaveKeeps, CircReverseKeeps DEF CQ!CIRCLEQ_FOREACH
<1> QED
  BY <1>1, <1>2, <1>3, <1>4, <1>5, <1>6, <1>7, <1>8 DEF CQ!Next

\* A program that uses LIST.
LEMMA ListSteps ==
  ASSUME Inv, kind = "LIST", LL!Next, kind' = kind, ~TrustMoved
  PROVE  Inv' /\ StaysInList
<1>1. LL!Free = Free /\ \A h : LL!Places(h) = Places(h)
  BY ListCalls
<1>2. ASSUME NEW h \in Heads, LL!InitHead(h) PROVE Inv' /\ StaysInList
  <2>1. Reset(h, LL!LIST_INIT(mem, h)) /\ mem \in Memory /\ moved' = moved \ {h}
    BY <1>2, ListCalls DEF LL!InitHead, Inv, Shape
  <2>2. Emptying(h)
    BY <2>1, Initialized DEF Reset
  <2> QED
    BY <2>1, <2>2, ResetStep
<1>3. ASSUME NEW h \in Heads, LL!InsertHead(h) PROVE Inv' /\ StaysInList
  <2>1. PICK e \in Free : Insert(h, 1, e, LL!LIST_INSERT_HEAD(mem, h, e))
    BY <1>3, ListCalls DEF LL!InsertHead
  <2>2. mem' = LL!LIST_INSERT_AFTER(mem, h, e)
    BY <2>1, PlaceFacts, HeadIsAfter DEF Insert
  <2>3. moved' = moved \ {h}
    BY <1>3 DEF LL!InsertHead
  <2> QED
    BY <2>1, <2>2, <2>3, PlaceFacts, InsertStep, ListInsertAfter
<1>4. ASSUME NEW h \in Heads, NEW g \in Heads, LL!Move(h, g) PROVE Inv' /\ StaysInList
  <2>1. /\ list[g] = <<>> /\ Append2(g, h, LL!LIST_MOVE(mem, h, g))
        /\ moved' = (moved \ {h}) \union (IF list[h] = <<>> THEN {} ELSE {g})
    BY <1>4, ListCalls DEF LL!Move
  <2>2. mem' = LL!LIST_MOVE(mem, h, g) /\ Len(list[g]) = 0 /\ ListsOK
    BY <2>1 DEF Append2, Inv, Shape
  <2>3. At(g, Len(list[g])) = g
    BY <2>2, PlacesAre
  <2>4. moved' \in {moved \ {h}, (moved \ {h}) \union {g}}
    BY <2>1
  <2>5. Len(list[h]) # 0 => g \in moved'
    BY <2>1
  <2>6. Facing(g, h, g, At(h, 1)) => Joining(g, h)
    <3> SUFFICES ASSUME Facing(g, h, g, At(h, 1)) PROVE Joining(g, h)
      OBVIOUS
    <3>1. At(h, 1) # Null => g \in moved'
      BY <2>5 DEF Facing
    <3> QED
      BY <2>2, <3>1, ListMove
  <2> QED
    BY <2>1, <2>2, <2>3, <2>4, <2>6, JoinStep
<1>5. ASSUME NEW h \in Heads, NEW i \in Places(h), LL!InsertAfter(h, i) PROVE Inv' /\ StaysInList
  <2>1. PICK e \in Free : Insert(h, i + 1, e, LL!LIST_INSERT_AFTER(mem, list[h][i], e))
    BY <1>5, ListCalls DEF LL!InsertAfter
  <2>2. mem' = LL!LIST_INSERT_AFTER(mem, At(h, i), e)
    BY <2>1, PlaceFacts DEF Insert
  <2>3. moved' = moved
    BY <1>5 DEF LL!InsertAfter
  <2> QED
    BY <2>1, <2>2, <2>3, PlaceFacts, InsertStep, ListInsertAfter
<1>6. ASSUME NEW h \in Heads, NEW i \in Places(h), LL!InsertBefore(h, i) PROVE Inv' /\ StaysInList
  <2>1. PICK e \in Free : Insert(h, i, e, LL!LIST_INSERT_BEFORE(mem, list[h][i], e))
    BY <1>6, ListCalls DEF LL!InsertBefore
  <2>2. mem' = LL!LIST_INSERT_BEFORE(mem, At(h, i), e)
    BY <2>1, PlaceFacts DEF Insert
  <2>3. moved' = moved /\ (i = 1 => h \notin moved)
    BY <1>6 DEF LL!InsertBefore, LL!Trusts
  <2> QED
    BY <2>1, <2>2, <2>3, PlaceFacts, InsertStep, ListInsertBefore
<1>7. ASSUME NEW h \in Heads, NEW i \in Places(h), LL!RemoveElement(h, i) PROVE Inv' /\ StaysInList
  <2>1. Remove1(h, i, LL!LIST_REMOVE(mem, list[h][i]))
    BY <1>7, ListCalls DEF LL!RemoveElement
  <2>2. mem' = LL!LIST_REMOVE(mem, At(h, i))
    BY <2>1, PlaceFacts DEF Remove1
  <2>3. moved' = moved /\ (i = 1 => h \notin moved)
    BY <1>7 DEF LL!RemoveElement, LL!Trusts
  <2> QED
    BY <2>1, <2>2, <2>3, PlaceFacts, RemoveStep, ListRemove
<1>8. ASSUME NEW h \in Heads, NEW i \in Places(h), LL!Replace(h, i) PROVE Inv' /\ StaysInList
  <2>1. PICK e \in Free : Replace1(h, i, e, LL!LIST_REPLACE(mem, list[h][i], e))
    BY <1>8, ListCalls DEF LL!Replace
  <2>2. mem' = LL!LIST_REPLACE(mem, At(h, i), e)
    BY <2>1, PlaceFacts DEF Replace1
  <2>3. moved' = moved /\ (i = 1 => h \notin moved)
    BY <1>8 DEF LL!Replace, LL!Trusts
  <2> QED
    BY <2>1, <2>2, <2>3, PlaceFacts, ReplaceStep, ListReplace
<1>9. LL!LIST_FOREACH \/ LL!LIST_FOREACH_SAFE \/ (LL!Leave /\ UNCHANGED moved) => Inv' /\ StaysInList
  BY ListCalls, ForEachKeeps, ForEachSafeKeeps, LeaveKeeps DEF LL!LIST_FOREACH, LL!LIST_FOREACH_SAFE
<1> QED
  BY <1>1, <1>2, <1>3, <1>4, <1>5, <1>6, <1>7, <1>8, <1>9 DEF LL!Next

-----------------------------------------------------------------------------
(* The invariant of the program.                                             *)

\* After LIST_MOVE the program uses a list as the back pointer allows.
Careful == kind = "LIST" => ~TrustMoved

\* After the initializers of the heads the invariant holds in every family.
LEMMA InitInv == Init => Inv
<1> SUFFICES ASSUME Init PROVE Inv
  OBVIOUS
<1>1. /\ kind \in Kinds /\ debug \in BOOLEAN /\ moved = {} /\ loop = NoLoop
      /\ list = [h \in Heads |-> <<>>]
      /\ mem = [next |-> [o \in Owners |-> IF o \in Heads THEN End(o) ELSE Garbage],
                prev |-> [o \in Owners |-> IF o \in Heads /\ Tailed THEN o ELSE Garbage]]
  BY DEF Init, Kinds, End, Tailed, NoLoop, Owners,
         SL!Init, SL!InitWith, SL!NoLoop, SL!Owners,
         LL!Init, LL!InitWith, LL!NoLoop, LL!Owners,
         SQ!Init, SQ!InitWith, SQ!NoLoop, SQ!Owners,
         TQ!Init, TQ!InitWith, TQ!NoLoop, TQ!Owners, TQ!TAILQ_END,
         ST!Init, ST!InitWith, ST!NoLoop, ST!Owners,
         CQ!Init, CQ!InitWith, CQ!NoLoop, CQ!Owners, CQ!CIRCLEQ_END
<1>2. mem \in Memory
  <2>1. \A h \in Heads : End(h) \in Values /\ h \in Values
    BY DEF End, Owners, Values
  <2>2. Garbage \in Values
    BY DEF Values
  <2> QED
    BY <1>1, <2>1, <2>2 DEF Memory
<1>3. ListsOK /\ \A h \in Heads : Len(list[h]) = 0 /\ list[h] = <<>>
  BY <1>1 DEF ListsOK, Places
<1>4. \A h \in Heads : At(h, 0) = h /\ At(h, 0 + 1) = End(h)
  <2> SUFFICES ASSUME NEW h \in Heads PROVE At(h, 0) = h /\ At(h, 0 + 1) = End(h)
    OBVIOUS
  <2>1. Len(list[h]) = 0
    BY <1>3
  <2> QED
    BY <1>3, <2>1, PlacesAre
<1>5. \A h \in Heads : h \in Owners /\ mem.next[h] = End(h) /\ (Tailed => mem.prev[h] = h)
  BY <1>1 DEF Owners
<1>6. Forward
  <2> SUFFICES ASSUME NEW h \in Heads, NEW i \in 0 .. Len(list[h])
               PROVE  mem.next[At(h, i)] = At(h, i + 1)
    BY DEF Forward
  <2>1. i = 0
    BY <1>3
  <2> QED
    BY <1>4, <1>5, <2>1
<1>7. Backward /\ (Tailed => Lasts)
  BY <1>3, <1>4, <1>5 DEF Backward, Lasts
<1>8. LoopInv
  BY <1>1, OwnersAssumption DEF LoopInv, NoLoop, Loop, Cursor, Values
<1> QED
  BY <1>1, <1>2, <1>3, <1>6, <1>7, <1>8 DEF Inv, Shape

\* Every call of a macro and every step of a loop keeps the invariant, and no
\* loop steps on an element outside its list.
LEMMA NextInv == Inv /\ Careful /\ [Next]_vars => Inv' /\ Careful' /\ [StaysInList]_qvars
<1> SUFFICES ASSUME Inv, Careful, [Next]_vars
             PROVE  Inv' /\ Careful' /\ [StaysInList]_qvars
  OBVIOUS
<1>1. CASE UNCHANGED vars
  <2>1. Still /\ UNCHANGED loop
    BY <1>1 DEF vars, qvars, Still
  <2>2. Inv'
    BY <1>1 DEF vars, qvars, Inv, Shape, LoopInv, ListsOK, Forward, Backward, Lasts, Places, At, Place, End, Doubly, Tailed, Cursor, InLoop, StandsAt, ToCome, Past
  <2> QED
    BY <1>1, <2>2 DEF vars, qvars, Careful
<1>2. CASE Next
  <2>1. kind' = kind /\ kind \in Kinds
    BY <1>2 DEF Next, Inv, Shape
  <2>2. Inv' /\ StaysInList
    BY <1>2, <2>1, SinglySteps, ListSteps, SimpleSteps, TailSteps, STailSteps, CircSteps
    DEF Next, Careful
  <2> QED
    BY <2>1, <2>2 DEF Careful
<1> QED
  BY <1>1, <1>2

\* The invariant holds in every family; of LIST, in programs that do not use
\* the back pointer of a list that LIST_MOVE has filled.
THEOREM QueueInvariant == Spec /\ Careful => [](Inv /\ Careful)
BY InitInv, NextInv, PTL DEF Spec

\* Whatever the body of a FOREACH or of a _SAFE loop inserts and removes, with
\* the exception of the element to be read next, no step leads out of the list.
THEOREM LoopsStayInLists == Spec /\ Careful => LoopStaysInList
<1>1. [StaysInList]_qvars =>
        [loop'.var # loop.var /\ loop'.var \in Elements \union {Garbage}
           => loop'.var \in ToSet(list[loop'.head])]_qvars
  BY DEF StaysInList
<1> QED
  BY InitInv, NextInv, <1>1, PTL DEF Spec, LoopStaysInList

\* A FOREACH, in either direction, that ends by its condition has visited every
\* element that was in the list from its beginning and was not removed.
THEOREM LoopsMissNothing == Spec /\ Careful => []LoopMissesNothing
<1>1. Inv => LoopMissesNothing
  BY DEF Inv, LoopInv, LoopMissesNothing
<1> QED
  BY QueueInvariant, <1>1, PTL

\* The slots keep their types, and no head points to garbage: a QUEUEDEBUG build
\* poisons the entries that no list leads to any more.
THEOREM QueueTypes == Spec /\ Careful => []TypeOK
<1>1. Inv => TypeOK
  <2> SUFFICES ASSUME Inv PROVE TypeOK
    OBVIOUS
  <2>1. /\ debug \in BOOLEAN /\ mem \in Memory /\ ListsOK /\ Forward
        /\ loop \in Loop /\ list \in [Heads -> Seq(Elements)]
    BY DEF Inv, Shape, LoopInv, ListsOK
  <2>2. ASSUME NEW h \in Heads PROVE mem.next[h] # Garbage
    <3>1. PICK n \in Nat : n = Len(list[h])
      BY <2>1, PlacesAre
    <3>2. 0 \in 0 .. n /\ 0 + 1 = 1 /\ (n # 0 => 1 \in 1 .. n) /\ (n = 0 => n + 1 = 1)
      BY <3>1
    <3>3. mem.next[h] = At(h, 1)
      BY <2>1, <3>1, <3>2, PlacesAre DEF Forward
    <3>4. At(h, 1) \in Elements \/ At(h, 1) = End(h)
      BY <2>1, <3>1, <3>2, PlacesAre
    <3> QED
      BY <3>3, <3>4, EndIsNoElement, OwnersAssumption
  <2>3. ASSUME NEW h \in Heads PROVE ToSet(list[h]) \subseteq Elements
    <3>1. \A x : x \in ToSet(list[h]) => \E j \in 1 .. Len(list[h]) : At(h, j) = x
      BY <2>1, ToSetIs
    <3> QED
      BY <2>1, <3>1, PlacesAre
  <2> QED
    BY <2>1, <2>2, <2>3 DEF TypeOK
<1> QED
  BY QueueInvariant, <1>1, PTL

-----------------------------------------------------------------------------
(* What the invariant says of every family.                                  *)

\* The families name places as At does.
LEMMA FamilyPlaces ==
  /\ \A h, i, n : SL!Place(h, i, n) = Place(h, i, n)
  /\ \A h, i, n : LL!Place(h, i, n) = Place(h, i, n)
  /\ \A h, i, n : SQ!Place(h, i, n) = Place(h, i, n)
  /\ \A h, i, n : TQ!Place(h, i, n) = Place(h, i, n)
  /\ \A h, i, n : ST!S!Place(h, i, n) = Place(h, i, n)
  /\ \A h, i, n : CQ!Place(h, i, n) = Place(h, i, n)
BY DEF Place, Places, SL!Place, SL!Places, LL!Place, LL!Places, SQ!Place, SQ!Places,
       TQ!Place, TQ!Places, ST!S!Place, ST!S!Places, CQ!Place, CQ!Places

\* The invariant, list by list, in terms of places.
LEMMA ShapeFacts ==
  ASSUME Inv, NEW h \in Heads
  PROVE  /\ Len(list[h]) \in Nat /\ Places(h) = 1 .. Len(list[h])
         /\ \A i \in Places(h) : list[h][i] = Place(h, i, End(h))
         /\ \A i \in 0 .. Len(list[h]) :
              mem.next[Place(h, i, End(h))] = Place(h, i + 1, End(h))
         /\ Doubly => \A i \in Places(h) :
              \/ mem.prev[Place(h, i, End(h))] = Place(h, i - 1, End(h))
              \/ i = 1 /\ h \in moved
         /\ Tailed => mem.prev[h] = Place(h, Len(list[h]), End(h))
         /\ Place(h, 0, End(h)) = h /\ Place(h, Len(list[h]) + 1, End(h)) = End(h)
         /\ kind # "LIST" => h \notin moved
<1>1. /\ ListsOK /\ Forward /\ (Doubly => Backward) /\ (Tailed => Lasts)
      /\ kind # "LIST" => h \notin moved
  BY DEF Inv, Shape
<1>2. \A i : At(h, i) = Place(h, i, End(h))
  BY DEF At
<1>3. /\ Len(list[h]) \in Nat /\ Places(h) = 1 .. Len(list[h])
      /\ At(h, 0) = h /\ At(h, Len(list[h]) + 1) = End(h)
      /\ \A i \in Places(h) : list[h][i] = At(h, i)
  BY <1>1, PlacesAre
<1>4. \A i \in 0 .. Len(list[h]) : mem.next[At(h, i)] = At(h, i + 1)
  BY <1>1 DEF Forward
<1>5. Doubly => \A i \in Places(h) :
        mem.prev[At(h, i)] = At(h, i - 1) \/ (i = 1 /\ h \in moved)
  BY <1>1, <1>3 DEF Backward
<1>6. Tailed => mem.prev[h] = At(h, Len(list[h]))
  BY <1>1 DEF Lasts
<1> QED
  BY <1>1, <1>2, <1>3, <1>4, <1>5, <1>6

\* The invariant is what Linked says, family by family.
LEMMA InvLinked == Inv => Linked
<1> SUFFICES ASSUME Inv PROVE Linked
  OBVIOUS
<1>1. CASE kind = "SLIST"
  <2>1. SL!Linked
    BY <1>1, ShapeFacts, FamilyPlaces DEF SL!Linked, SL!Chain, SL!SLIST_END, End
  <2> QED
    BY <1>1, <2>1 DEF Linked
<1>2. CASE kind = "LIST"
  <2>1. /\ Doubly /\ \A h : End(h) = Null /\ LL!Places(h) = Places(h)
    BY <1>2 DEF Doubly, End, LL!Places, Places
  <2>2. LL!Linked
    BY <2>1, ShapeFacts, FamilyPlaces DEF LL!Linked, LL!Chain, LL!LIST_END
  <2> QED
    BY <1>2, <2>2 DEF Linked
<1>3. CASE kind = "SIMPLEQ"
  <2>1. Tailed /\ \A h : End(h) = Null
    BY <1>3 DEF Tailed, End
  <2>2. SQ!Linked
    BY <2>1, ShapeFacts, FamilyPlaces DEF SQ!Linked, SQ!Chain, SQ!SIMPLEQ_END
  <2> QED
    BY <1>3, <2>2 DEF Linked
<1>4. CASE kind = "TAILQ"
  <2>1. /\ Doubly /\ Tailed /\ \A h : End(h) = Null /\ TQ!Places(h) = Places(h)
    BY <1>4 DEF Doubly, Tailed, End, TQ!Places, Places
  <2>2. TQ!Linked
    BY <1>4, <2>1, ShapeFacts, FamilyPlaces DEF TQ!Linked, TQ!Chain, TQ!TAILQ_END
  <2> QED
    BY <1>4, <2>2 DEF Linked
<1>5. CASE kind = "STAILQ"
  <2>1. Tailed /\ \A h : End(h) = Null
    BY <1>5 DEF Tailed, End
  <2>2. ST!Linked
    BY <2>1, ShapeFacts, FamilyPlaces DEF ST!Linked, ST!S!Linked, ST!S!Chain, ST!S!SIMPLEQ_END
  <2> QED
    BY <1>5, <2>2 DEF Linked
<1>6. CASE kind = "CIRCLEQ"
  <2>1. /\ Doubly /\ Tailed /\ \A h : End(h) = h
    BY <1>6 DEF Doubly, Tailed, End
  <2>2. ASSUME NEW h \in Heads PROVE CQ!Chain(h, h)
    BY <2>1, ShapeFacts, FamilyPlaces DEF CQ!Chain
  <2>3. ASSUME NEW h \in Heads, NEW i \in 0 .. Len(list[h])
        PROVE  mem.prev[Place(h, i + 1, h)] = Place(h, i, h)
    <3>1. CASE i = Len(list[h])
      BY <2>1, <3>1, ShapeFacts
    <3>2. CASE i # Len(list[h])
      <4>1. i + 1 \in Places(h) /\ i + 1 - 1 = i
        BY <3>2, ShapeFacts
      <4> QED
        BY <1>6, <2>1, <4>1, ShapeFacts
    <3> QED
      BY <3>1, <3>2
  <2>4. CQ!Linked
    BY <2>2, <2>3, FamilyPlaces DEF CQ!Linked, CQ!CIRCLEQ_END
  <2> QED
    BY <1>6, <2>4 DEF Linked
<1> QED
  BY <1>1, <1>2, <1>3, <1>4, <1>5, <1>6 DEF Inv, Shape, Kinds

\* Whatever macros of a family are called in whatever order, the pointers of every
\* list spell what the program has put into it, in the families with back
\* pointers in both directions.
THEOREM QueuesLinked == Spec /\ Careful => []Linked
BY QueueInvariant, InvLinked, PTL

\* By the invariant the accessors return what the lists have there.
LEMMA InvEndsAgree == Inv => EndsAgree
<1> SUFFICES ASSUME Inv PROVE EndsAgree
  OBVIOUS
<1>0. Shape /\ ListsOK
  BY DEF Inv, Shape
<1>1. ASSUME NEW h \in Heads
      PROVE  /\ list[h] = <<>> <=> Len(list[h]) = 0
             /\ Last(list[h]) = list[h][Len(list[h])]
             /\ SQ!Last(list[h]) = list[h][Len(list[h])]
             /\ TQ!Last(list[h]) = list[h][Len(list[h])]
             /\ ST!Last(list[h]) = list[h][Len(list[h])]
             /\ CQ!Last(list[h]) = list[h][Len(list[h])]
             /\ Len(list[h]) # 0 => Head(list[h]) = list[h][1]
  <2>1. list[h] \in Seq(Elements)
    BY <1>0 DEF ListsOK
  <2> QED
    BY <2>1 DEF Last, SQ!Last, TQ!Last, ST!Last, CQ!Last
<1>2. kind \in {"SIMPLEQ", "STAILQ"} =>
        \A h \in Heads : SQ!SIMPLEQ_LAST(mem, h) =
          IF list[h] = <<>> THEN Null ELSE list[h][Len(list[h])]
  <2> SUFFICES ASSUME kind \in {"SIMPLEQ", "STAILQ"}, NEW h \in Heads
               PROVE  SQ!SIMPLEQ_LAST(mem, h) =
                        IF list[h] = <<>> THEN Null ELSE list[h][Len(list[h])]
    OBVIOUS
  <2>1. Tailed /\ End(h) = Null
    BY DEF Tailed, End
  <2>2. PICK n \in Nat : n = Len(list[h]) /\ 0 \in 0 .. n /\ 0 + 1 = 1 /\ (n # 0 => n \in 1 .. n /\ 1 \in 1 .. n)
    BY <1>0, PlacesAre
  <2>3. /\ mem.prev[h] = At(h, n) /\ mem.next[h] = At(h, 1)
        /\ n # 0 => At(h, n) = list[h][n] /\ At(h, 1) \in Elements
        /\ n = 0 => At(h, 1) = Null
    BY <1>0, <2>1, <2>2, PlacesAre DEF Shape, Lasts, Forward
  <2>4. Null \notin Elements
    BY OwnersAssumption
  <2> QED
    BY <1>1, <2>2, <2>3, <2>4 DEF SQ!SIMPLEQ_LAST, SQ!SIMPLEQ_EMPTY, SQ!SIMPLEQ_END
<1>3. kind = "SIMPLEQ" => SQ!EndsAgree
  BY <1>1, <1>2 DEF SQ!EndsAgree
<1>4. kind = "STAILQ" => ST!EndsAgree
  BY <1>1, <1>2, STailIsSimple DEF ST!EndsAgree
<1>5. kind = "TAILQ" => TQ!EndsAgree
  <2> SUFFICES ASSUME kind = "TAILQ", NEW h \in Heads
               PROVE  /\ TQ!TAILQ_LAST(mem, h) = IF list[h] = <<>> THEN Null ELSE TQ!Last(list[h])
                      /\ \A i \in Places(h) :
                           TQ!TAILQ_PREV(mem, list[h][i]) = IF i = 1 THEN Null ELSE list[h][i - 1]
    BY TailCalls DEF TQ!EndsAgree
  <2>1. /\ TQ!TAILQ_LAST(mem, h) = IF Len(list[h]) = 0 THEN Null ELSE At(h, Len(list[h]))
        /\ \A i \in 1 .. Len(list[h]) :
             TQ!TAILQ_PREV(mem, At(h, i)) = IF i = 1 THEN Null ELSE At(h, i - 1)
    BY <1>0, TailLast
  <2>2. PICK n \in Nat : n = Len(list[h]) /\ Places(h) = 1 .. n
    BY <1>0, PlacesAre
  <2>3. \A i \in 1 .. n : At(h, i) = list[h][i]
    BY <1>0, <2>2, PlacesAre
  <2>4. n # 0 => n \in 1 .. n
    BY <2>2
  <2>5. \A i \in 1 .. n : i # 1 => i - 1 \in 1 .. n
    BY <2>2
  <2> QED
    BY <1>1, <2>1, <2>2, <2>3, <2>4, <2>5
<1>6. kind = "CIRCLEQ" => CQ!EndsAgree
  <2> SUFFICES ASSUME kind = "CIRCLEQ", NEW h \in Heads
               PROVE  /\ CQ!CIRCLEQ_EMPTY(mem, h) <=> list[h] = <<>>
                      /\ \A i \in Places(h) :
                           /\ CQ!CIRCLEQ_LOOP_NEXT(mem, h, list[h][i]) =
                                IF i = Len(list[h]) THEN Head(list[h]) ELSE list[h][i + 1]
                           /\ CQ!CIRCLEQ_LOOP_PREV(mem, h, list[h][i]) =
                                IF i = 1 THEN CQ!Last(list[h]) ELSE list[h][i - 1]
    BY CircCalls DEF CQ!EndsAgree
  <2>1. Doubly /\ Tailed /\ End(h) = h /\ h \notin moved /\ h \notin Elements
    BY <1>0, OwnersAssumption DEF Shape, Doubly, Tailed, End
  <2>2. PICK n \in Nat : /\ n = Len(list[h]) /\ Places(h) = 1 .. n
                         /\ 0 \in 0 .. n /\ 0 + 1 = 1 /\ (n # 0 => n \in 1 .. n /\ 1 \in 1 .. n)
                         /\ n = 0 => n + 1 = 1
    BY <1>0, PlacesAre
  <2>3. /\ At(h, 0) = h /\ At(h, n + 1) = h
        /\ mem.prev[h] = At(h, n) /\ mem.next[h] = At(h, 1)
        /\ \A i \in 1 .. n : At(h, i) = list[h][i] /\ At(h, i) \in Elements
    BY <1>0, <2>1, <2>2, PlacesAre DEF Shape, Lasts, Forward
  <2>4. \A i \in 1 .. n : mem.next[At(h, i)] = At(h, i + 1) /\ mem.prev[At(h, i)] = At(h, i - 1)
    BY <1>0, <2>1, <2>2 DEF Shape, Backward, Forward
  <2>5. CQ!CIRCLEQ_EMPTY(mem, h) <=> list[h] = <<>>
    BY <1>1, <2>1, <2>2, <2>3 DEF CQ!CIRCLEQ_EMPTY, CQ!CIRCLEQ_FIRST, CQ!CIRCLEQ_END
  <2>6. ASSUME NEW i \in 1 .. n
        PROVE  /\ CQ!CIRCLEQ_LOOP_NEXT(mem, h, At(h, i)) = IF i = n THEN At(h, 1) ELSE At(h, i + 1)
               /\ CQ!CIRCLEQ_LOOP_PREV(mem, h, At(h, i)) = IF i = 1 THEN At(h, n) ELSE At(h, i - 1)
    <3>1. /\ i # n => i + 1 \in 1 .. n
          /\ i # 1 => i - 1 \in 1 .. n
          /\ i = 1 => i - 1 = 0
      BY <2>2, <2>6
    <3>2. /\ At(h, i + 1) = h <=> i = n
          /\ At(h, i - 1) = h <=> i = 1
      BY <2>1, <2>3, <3>1
    <3> QED
      BY <2>3, <2>4, <3>2 DEF CQ!CIRCLEQ_LOOP_NEXT, CQ!CIRCLEQ_LOOP_PREV, CQ!CIRCLEQ_END
  <2>7. ASSUME NEW i \in 1 .. n
        PROVE  /\ i # n => At(h, i + 1) = list[h][i + 1]
               /\ i # 1 => At(h, i - 1) = list[h][i - 1]
               /\ n # 0
    <3>1. /\ i # n => i + 1 \in 1 .. n
          /\ i # 1 => i - 1 \in 1 .. n
          /\ n # 0
      BY <2>2, <2>7
    <3> QED
      BY <2>3, <3>1
  <2> QED
    BY <1>1, <2>2, <2>3, <2>5, <2>6, <2>7
<1> QED
  BY <1>3, <1>4, <1>5, <1>6 DEF EndsAgree

\* SIMPLEQ_LAST, STAILQ_LAST, TAILQ_LAST, TAILQ_PREV and CIRCLEQ_LOOP_* return
\* the element that the list has there, or NULL where it has none.
THEOREM AccessorsAgree == Spec /\ Careful => []EndsAgree
BY QueueInvariant, InvEndsAgree, PTL

\* In a family whose lists end at NULL, what the checks of LIST and of TAILQ
\* read: the element after a place points back to it, and the one before it
\* forth to it, unless LIST_MOVE left the first back pointer behind.
LEMMA NeighboursAgree ==
  ASSUME Inv, Doubly, NEW h \in Heads, End(h) = Null
  PROVE  /\ h \notin moved => (mem.next[h] # Null => mem.prev[mem.next[h]] = h)
         /\ \A i \in Places(h) :
              /\ mem.next[list[h][i]] # Null => mem.prev[mem.next[list[h][i]]] = list[h][i]
              /\ i # 1 \/ h \notin moved => mem.next[mem.prev[list[h][i]]] = list[h][i]
              /\ mem.next[list[h][i]] = Null => i = Len(list[h])
<1>0. ListsOK /\ Forward /\ Backward
  BY DEF Inv, Shape
<1>1. PICK n \in Nat : n = Len(list[h]) /\ Places(h) = 1 .. n
  BY <1>0, PlacesAre
<1>2. /\ At(h, 0) = h /\ At(h, n + 1) = Null
      /\ \A i \in 1 .. n : At(h, i) = list[h][i] /\ At(h, i) # Null
  BY <1>0, <1>1, PlacesAre, OwnersAssumption
<1>3. \A i \in 0 .. n : mem.next[At(h, i)] = At(h, i + 1)
  BY <1>0, <1>1 DEF Forward
<1>4. \A i \in 1 .. n : i # 1 \/ h \notin moved => mem.prev[At(h, i)] = At(h, i - 1)
  BY <1>0, <1>1 DEF Backward
<1>5. ASSUME NEW i \in 0 .. n
      PROVE  /\ i # n => i + 1 \in 1 .. n /\ i + 1 - 1 = i
             /\ i # 0 => i - 1 \in 0 .. n /\ i - 1 + 1 = i /\ i + 1 # 1 /\ i \in 1 .. n
  BY <1>1
<1>6. ASSUME NEW i \in 0 .. n, mem.next[At(h, i)] # Null
      PROVE  i # n
  BY <1>2, <1>3, <1>6
<1>7. ASSUME NEW i \in 0 .. n, mem.next[At(h, i)] # Null, i # 0 \/ h \notin moved
      PROVE  mem.prev[mem.next[At(h, i)]] = At(h, i)
  BY <1>3, <1>4, <1>5, <1>6, <1>7
<1>8. h \notin moved => (mem.next[h] # Null => mem.prev[mem.next[h]] = h)
  <2>1. 0 \in 0 .. n
    BY <1>1
  <2> QED
    BY <1>2, <1>7, <2>1
<1>9. ASSUME NEW i \in 1 .. n
      PROVE  /\ mem.next[At(h, i)] # Null => mem.prev[mem.next[At(h, i)]] = At(h, i)
             /\ i # 1 \/ h \notin moved => mem.next[mem.prev[At(h, i)]] = At(h, i)
             /\ mem.next[At(h, i)] = Null => i = n
  <2>1. i \in 0 .. n /\ i # 0
    BY <1>1
  <2>2. mem.next[At(h, i)] # Null => mem.prev[mem.next[At(h, i)]] = At(h, i)
    BY <1>7, <2>1
  <2>3. i # 1 \/ h \notin moved => mem.next[mem.prev[At(h, i)]] = At(h, i)
    BY <1>3, <1>4, <1>5, <2>1
  <2>4. mem.next[At(h, i)] = Null => i = n
    BY <1>2, <1>3, <1>5, <2>1
  <2> QED
    BY <2>2, <2>3, <2>4
<1> QED
  BY <1>1, <1>2, <1>8, <1>9

\* By the invariant no check of a QUEUEDEBUG build aborts.
LEMMA InvChecksPass == Inv /\ Careful => ChecksPass
<1> SUFFICES ASSUME Inv, Careful PROVE ChecksPass
  OBVIOUS
<1>0. Shape /\ ListsOK
  BY DEF Inv, Shape
<1>1. kind = "LIST" => LL!ChecksPass
  <2> SUFFICES ASSUME kind = "LIST" PROVE LL!ChecksPass
    OBVIOUS
  <2>1. /\ Doubly /\ \A h : End(h) = Null /\ LL!Places(h) = Places(h)
        /\ \A h, i : LL!Trusts(h, i) <=> (i # 1 \/ h \notin moved)
    BY DEF Doubly, End, LL!Places, Places, LL!Trusts, Careful
  <2> QED
    BY <2>1, NeighboursAgree
       DEF LL!ChecksPass, LL!QUEUEDEBUG_LIST_INSERT_HEAD, LL!QUEUEDEBUG_LIST_OP
<1>2. kind = "TAILQ" => TQ!ChecksPass
  <2> SUFFICES ASSUME kind = "TAILQ", NEW h \in Heads
               PROVE  /\ TQ!QUEUEDEBUG_TAILQ_INSERT_HEAD(mem, h)
                      /\ TQ!QUEUEDEBUG_TAILQ_INSERT_TAIL(mem, h)
                      /\ \A i \in Places(h) :
                           /\ TQ!QUEUEDEBUG_TAILQ_OP(mem, list[h][i])
                           /\ TQ!QUEUEDEBUG_TAILQ_PREREMOVE(mem, h, list[h][i])
    BY DEF TQ!ChecksPass, TQ!Places, Places
  <2>1. Doubly /\ Tailed /\ End(h) = Null /\ h \notin moved
    BY <1>0 DEF Doubly, Tailed, End, Shape
  <2>2. PICK n \in Nat : n = Len(list[h]) /\ Places(h) = 1 .. n /\ n \in 0 .. n
    BY <1>0, PlacesAre
  <2>3. mem.prev[h] = At(h, n) /\ mem.next[At(h, n)] = Null
    BY <1>0, <2>1, <2>2, PlacesAre DEF Shape, Lasts, Forward
  <2>4. \A i \in 1 .. n : list[h][i] = At(h, i)
    BY <1>0, <2>2, PlacesAre
  <2> QED
    BY <2>1, <2>2, <2>3, <2>4, NeighboursAgree
       DEF TQ!QUEUEDEBUG_TAILQ_INSERT_HEAD, TQ!QUEUEDEBUG_TAILQ_INSERT_TAIL,
           TQ!QUEUEDEBUG_TAILQ_OP, TQ!QUEUEDEBUG_TAILQ_PREREMOVE
<1>3. kind = "CIRCLEQ" => CQ!ChecksPass
  <2> SUFFICES ASSUME kind = "CIRCLEQ", NEW h \in Heads
               PROVE  /\ CQ!QUEUEDEBUG_CIRCLEQ_HEAD(mem, h)
                      /\ \A i \in Places(h) : CQ!QUEUEDEBUG_CIRCLEQ_ELM(mem, h, list[h][i])
    BY DEF CQ!ChecksPass, CQ!Places, Places
  <2>1. Doubly /\ Tailed /\ End(h) = h /\ h \notin moved
    BY <1>0 DEF Shape, Doubly, Tailed, End
  <2>2. PICK n \in Nat : n = Len(list[h]) /\ Places(h) = 1 .. n
    BY <1>0, PlacesAre
  <2>3. /\ At(h, 0) = h /\ At(h, n + 1) = h /\ mem.prev[h] = At(h, n)
        /\ \A i \in 1 .. n : At(h, i) = list[h][i]
    BY <1>0, <2>1, <2>2, PlacesAre DEF Shape, Lasts
  <2>4. \A i \in 0 .. n : mem.next[At(h, i)] = At(h, i + 1)
    BY <1>0, <2>2 DEF Shape, Forward
  <2>5. \A i \in 1 .. n : mem.prev[At(h, i)] = At(h, i - 1)
    BY <1>0, <2>1, <2>2 DEF Shape, Backward
  <2>6. ASSUME NEW i \in 0 .. n
        PROVE  mem.prev[mem.next[At(h, i)]] = At(h, i)
    <3>1. CASE i = n
      BY <2>3, <2>4, <3>1
    <3>2. CASE i # n
      <4>1. i + 1 \in 1 .. n /\ i + 1 - 1 = i
        BY <2>2, <3>2
      <4> QED
        BY <2>4, <2>5, <4>1
    <3> QED
      BY <3>1, <3>2
  <2>7. ASSUME NEW i \in 1 .. n
        PROVE  i \in 0 .. n /\ mem.next[mem.prev[At(h, i)]] = At(h, i)
    <3>1. i \in 0 .. n /\ i - 1 \in 0 .. n /\ i - 1 + 1 = i
      BY <2>2
    <3> QED
      BY <2>4, <2>5, <3>1
  <2>8. 0 \in 0 .. n /\ n \in 0 .. n
    BY <2>2
  <2>9. CQ!QUEUEDEBUG_CIRCLEQ_HEAD(mem, h)
    BY <2>3, <2>4, <2>6, <2>8 DEF CQ!QUEUEDEBUG_CIRCLEQ_HEAD, CQ!CIRCLEQ_END
  <2>10. \A i \in Places(h) : CQ!QUEUEDEBUG_CIRCLEQ_ELM(mem, h, list[h][i])
    BY <2>2, <2>3, <2>6, <2>7 DEF CQ!QUEUEDEBUG_CIRCLEQ_ELM, CQ!CIRCLEQ_END
  <2> QED
    BY <2>9, <2>10
<1> QED
  BY <1>1, <1>2, <1>3 DEF ChecksPass

\* No check of a QUEUEDEBUG build aborts a program that keeps to the rules.
THEOREM ChecksNeverAbort == Spec /\ Careful => []ChecksPass
BY QueueInvariant, InvChecksPass, PTL

==============================================================================
