---------------------------- MODULE SimpleQueue ----------------------------
(* The SIMPLEQ macros of sys-queue.h, and a program that uses them.  The     *)
(* *_last slot of a head points to the next slot of its last element, or to  *)
(* its own *_first.                                                          *)
EXTENDS QueueMemory

SIMPLEQ_END == Null
SIMPLEQ_FIRST(m, h) == m.next[h]
SIMPLEQ_EMPTY(m, h) == m.next[h] = SIMPLEQ_END
SIMPLEQ_NEXT(m, e) == m.next[e]

\* Mutant: an empty list is not tested for.
SIMPLEQ_LAST_NoEmpty(m, h) == m.prev[h]

\* offsetof takes the address of the last next slot back to its element.
SIMPLEQ_LAST(m, h) == IF SIMPLEQ_EMPTY(m, h) THEN Null ELSE m.prev[h]

SIMPLEQ_INIT(m, h) == SetPrev(SetNext(m, h, Null), h, h)

SIMPLEQ_INSERT_HEAD(m, h, e) ==
  LET m1 == SetNext(m, e, m.next[h])
      m2 == IF m1.next[e] = Null THEN SetPrev(m1, h, e) ELSE m1
  IN  SetNext(m2, h, e)

SIMPLEQ_INSERT_TAIL(m, h, e) ==
  LET m1 == SetNext(m, e, Null)
      m2 == SetNext(m1, m1.prev[h], e)
  IN  SetPrev(m2, h, e)

SIMPLEQ_INSERT_AFTER(m, h, x, e) ==
  LET m1 == SetNext(m, e, m.next[x])
      m2 == IF m1.next[e] = Null THEN SetPrev(m1, h, e) ELSE m1
  IN  SetNext(m2, x, e)

SIMPLEQ_REMOVE_HEAD(m, h) ==
  LET m1 == SetNext(m, h, m.next[m.next[h]])
  IN  IF m1.next[h] = Null THEN SetPrev(m1, h, h) ELSE m1

\* Mutant: the last slot is not moved back.
SIMPLEQ_REMOVE_AFTER_Dangling(m, h, x) == SetNext(m, x, m.next[m.next[x]])

SIMPLEQ_REMOVE_AFTER(m, h, x) ==
  LET m1 == SetNext(m, x, m.next[m.next[x]])
  IN  IF m1.next[x] = Null THEN SetPrev(m1, h, x) ELSE m1

SIMPLEQ_REMOVE(m, h, e) ==
  IF m.next[h] = e THEN SIMPLEQ_REMOVE_HEAD(m, h)
  ELSE SIMPLEQ_REMOVE_AFTER(m, h, Before(m, m.next[h], e))

SIMPLEQ_CONCAT(m, h1, h2) ==
  LET m1 == SetNext(m, m.prev[h1], m.next[h2])
      m2 == SetPrev(m1, h1, m1.prev[h2])
  IN  IF SIMPLEQ_EMPTY(m, h2) THEN m ELSE SIMPLEQ_INIT(m2, h2)

-----------------------------------------------------------------------------
(* The program.                                                              *)

Init == InitWith([h \in Heads |-> Null], [h \in Heads |-> h])

InitHead(h) == Reset(h, SIMPLEQ_INIT(mem, h))

InsertHead(h) == \E e \in Free : Insert(h, 1, e, SIMPLEQ_INSERT_HEAD(mem, h, e))

InsertTail(h) ==
  \E e \in Free : Insert(h, Len(list[h]) + 1, e, SIMPLEQ_INSERT_TAIL(mem, h, e))

InsertAfter(h, i) ==
  \E e \in Free : Insert(h, i + 1, e, SIMPLEQ_INSERT_AFTER(mem, h, list[h][i], e))

RemoveHead(h) ==
  ~SIMPLEQ_EMPTY(mem, h) /\ Remove1(h, 1, SIMPLEQ_REMOVE_HEAD(mem, h))

RemoveAfter(h, i) ==
  /\ i < Len(list[h])
  /\ Remove1(h, i + 1, SIMPLEQ_REMOVE_AFTER(mem, h, list[h][i]))

RemoveElement(h, i) == Remove1(h, i, SIMPLEQ_REMOVE(mem, h, list[h][i]))

Concat(h1, h2) == Append2(h1, h2, SIMPLEQ_CONCAT(mem, h1, h2))

SIMPLEQ_FOREACH == ForEach

SIMPLEQ_FOREACH_SAFE == ForEachSafe

Next ==
  \/ \E h \in Heads :
       \/ InitHead(h) \/ InsertHead(h) \/ InsertTail(h) \/ RemoveHead(h)
       \/ \E h2 \in Heads : Concat(h, h2)
       \/ \E i \in Places(h) : InsertAfter(h, i) \/ RemoveAfter(h, i) \/ RemoveElement(h, i)
  \/ SIMPLEQ_FOREACH \/ SIMPLEQ_FOREACH_SAFE \/ Leave

Spec == Init /\ [][Next]_qvars

-----------------------------------------------------------------------------

\* The pointers of every list spell the list, and the last slot is the one
\* that an insertion at the tail has to fill.
Linked ==
  \A h \in Heads :
    /\ Chain(h, SIMPLEQ_END)
    /\ mem.prev[h] = Place(h, Len(list[h]), Null)

\* The accessor of the last element returns it.
EndsAgree ==
  \A h \in Heads :
    SIMPLEQ_LAST(mem, h) = IF list[h] = <<>> THEN Null ELSE Last(list[h])

=============================================================================
