--------------------------- MODULE CircularQueue ---------------------------
(* The CIRCLEQ macros of sys-queue.h, and a program that uses them.  Both    *)
(* slots hold elements, and the ends of a list hold the head itself; the     *)
(* comparisons with the head hold at run time, as __launder_type makes sure. *)
EXTENDS QueueMemory

CIRCLEQ_END(h) == h
CIRCLEQ_FIRST(m, h) == m.next[h]
CIRCLEQ_LAST(m, h) == m.prev[h]
CIRCLEQ_NEXT(m, e) == m.next[e]
CIRCLEQ_PREV(m, e) == m.prev[e]
CIRCLEQ_EMPTY(m, h) == CIRCLEQ_FIRST(m, h) = CIRCLEQ_END(h)

CIRCLEQ_LOOP_NEXT(m, h, e) ==
  IF m.next[e] = CIRCLEQ_END(h) THEN m.next[h] ELSE m.next[e]

CIRCLEQ_LOOP_PREV(m, h, e) ==
  IF m.prev[e] = CIRCLEQ_END(h) THEN m.prev[h] ELSE m.prev[e]

CIRCLEQ_INIT(m, h) == SetPrev(SetNext(m, h, CIRCLEQ_END(h)), h, CIRCLEQ_END(h))

\* The two branches of each if assign to the head, or to the element, that the
\* tested pointer holds: with h for the end, both are the same assignment.
CIRCLEQ_INSERT_AFTER(m, h, x, e) ==
  LET m1 == SetNext(m, e, m.next[x])
      m2 == SetPrev(m1, e, x)
      m3 == SetPrev(m2, m2.next[x], e)
  IN  SetNext(m3, x, e)

CIRCLEQ_INSERT_BEFORE(m, h, x, e) ==
  LET m1 == SetNext(m, e, x)
      m2 == SetPrev(m1, e, m1.prev[x])
      m3 == SetNext(m2, m2.prev[x], e)
  IN  SetPrev(m3, x, e)

\* Tests the last slot and assigns through the first one.
CIRCLEQ_INSERT_HEAD(m, h, e) ==
  LET m1 == SetNext(m, e, m.next[h])
      m2 == SetPrev(m1, e, CIRCLEQ_END(h))
      m3 == SetPrev(m2, IF m2.prev[h] = CIRCLEQ_END(h) THEN h ELSE m2.next[h], e)
  IN  SetNext(m3, h, e)

\* Tests the first slot and assigns through the last one.
CIRCLEQ_INSERT_TAIL(m, h, e) ==
  LET m1 == SetNext(m, e, CIRCLEQ_END(h))
      m2 == SetPrev(m1, e, m1.prev[h])
      m3 == SetNext(m2, IF m2.next[h] = CIRCLEQ_END(h) THEN h ELSE m2.prev[h], e)
  IN  SetPrev(m3, h, e)

CIRCLEQ_REMOVE(m, h, e) ==
  LET m1 == SetPrev(m, m.next[e], m.prev[e])
      m2 == SetNext(m1, m1.prev[e], m1.next[e])
  IN  POSTREMOVE(m2, e)

\* The conditions under which a QUEUEDEBUG build does not abort.
QUEUEDEBUG_CIRCLEQ_HEAD(m, h) ==
  /\ m.next[h] # CIRCLEQ_END(h) => m.prev[m.next[h]] = CIRCLEQ_END(h)
  /\ m.prev[h] # CIRCLEQ_END(h) => m.next[m.prev[h]] = CIRCLEQ_END(h)
QUEUEDEBUG_CIRCLEQ_ELM(m, h, e) ==
  /\ m.prev[IF m.next[e] = CIRCLEQ_END(h) THEN h ELSE m.next[e]] = e
  /\ m.next[IF m.prev[e] = CIRCLEQ_END(h) THEN h ELSE m.prev[e]] = e

-----------------------------------------------------------------------------
(* The program.                                                              *)

Init == InitWith([h \in Heads |-> CIRCLEQ_END(h)], [h \in Heads |-> CIRCLEQ_END(h)])

InitHead(h) == Reset(h, CIRCLEQ_INIT(mem, h))

InsertHead(h) == \E e \in Free : Insert(h, 1, e, CIRCLEQ_INSERT_HEAD(mem, h, e))

InsertTail(h) ==
  \E e \in Free : Insert(h, Len(list[h]) + 1, e, CIRCLEQ_INSERT_TAIL(mem, h, e))

InsertAfter(h, i) ==
  \E e \in Free : Insert(h, i + 1, e, CIRCLEQ_INSERT_AFTER(mem, h, list[h][i], e))

InsertBefore(h, i) ==
  \E e \in Free : Insert(h, i, e, CIRCLEQ_INSERT_BEFORE(mem, h, list[h][i], e))

RemoveElement(h, i) == Remove1(h, i, CIRCLEQ_REMOVE(mem, h, list[h][i]))

CIRCLEQ_FOREACH == ForEach

CIRCLEQ_FOREACH_REVERSE ==
  \/ \E h \in Heads : Begin(h, FALSE, TRUE, CIRCLEQ_LAST(mem, h), Null)
  \/ Iterate(FALSE, TRUE, CIRCLEQ_PREV(mem, loop.var), Null)

Next ==
  \/ \E h \in Heads :
       \/ InitHead(h) \/ InsertHead(h) \/ InsertTail(h)
       \/ \E i \in Places(h) : InsertAfter(h, i) \/ InsertBefore(h, i) \/ RemoveElement(h, i)
  \/ CIRCLEQ_FOREACH \/ CIRCLEQ_FOREACH_REVERSE \/ Leave

Spec == Init /\ [][Next]_qvars

-----------------------------------------------------------------------------

\* The pointers of every list spell the list in both directions, around the
\* head.
Linked ==
  \A h \in Heads :
    /\ Chain(h, CIRCLEQ_END(h))
    /\ \A i \in 0 .. Len(list[h]) : mem.prev[Place(h, i + 1, h)] = Place(h, i, h)

\* The accessors return the ends of the list, and the ones that go round step
\* from each end to the other.
EndsAgree ==
  \A h \in Heads :
    /\ CIRCLEQ_EMPTY(mem, h) <=> list[h] = <<>>
    /\ \A i \in Places(h) :
         /\ CIRCLEQ_LOOP_NEXT(mem, h, list[h][i]) =
              IF i = Len(list[h]) THEN Head(list[h]) ELSE list[h][i + 1]
         /\ CIRCLEQ_LOOP_PREV(mem, h, list[h][i]) =
              IF i = 1 THEN Last(list[h]) ELSE list[h][i - 1]

\* No macro that the program may call next aborts.
ChecksPass ==
  \A h \in Heads :
    /\ QUEUEDEBUG_CIRCLEQ_HEAD(mem, h)
    /\ \A i \in Places(h) : QUEUEDEBUG_CIRCLEQ_ELM(mem, h, list[h][i])

=============================================================================
