----------------------------- MODULE TailQueue -----------------------------
(* The TAILQ macros of sys-queue.h, and a program that uses them.  The entry *)
(* field of an element has the layout of a head, which TAILQ_LAST and        *)
(* TAILQ_PREV rely on.                                                       *)
EXTENDS QueueMemory

TAILQ_END == Null
TAILQ_FIRST(m, h) == m.next[h]
TAILQ_NEXT(m, e) == m.next[e]
TAILQ_EMPTY(m, h) == TAILQ_FIRST(m, h) = TAILQ_END

\* Mutant: the last slot is followed once.
TAILQ_LAST_Direct(m, h) == m.next[m.prev[h]]

\* The structure with the last next slot is read as a head: its second slot
\* leads to the slot that points to the last element.
TAILQ_LAST(m, h) == m.next[m.prev[m.prev[h]]]

TAILQ_PREV(m, e) == m.next[m.prev[m.prev[e]]]

TAILQ_INIT(m, h) == SetPrev(SetNext(m, h, TAILQ_END), h, h)

\* What has to point back to e: the next element, or at the end the last slot
\* of the head.
Follower(m, h, e) == IF m.next[e] # TAILQ_END THEN m.next[e] ELSE h

TAILQ_INSERT_HEAD(m, h, e) ==
  LET m1 == SetNext(m, e, m.next[h])
      m2 == SetPrev(m1, Follower(m1, h, e), e)
      m3 == SetNext(m2, h, e)
  IN  SetPrev(m3, e, h)

TAILQ_INSERT_TAIL(m, h, e) ==
  LET m1 == SetNext(m, e, TAILQ_END)
      m2 == SetPrev(m1, e, m1.prev[h])
      m3 == SetNext(m2, m2.prev[h], e)
  IN  SetPrev(m3, h, e)

TAILQ_INSERT_AFTER(m, h, x, e) ==
  LET m1 == SetNext(m, e, m.next[x])
      m2 == SetPrev(m1, Follower(m1, h, e), e)
      m3 == SetNext(m2, x, e)
  IN  SetPrev(m3, e, x)

TAILQ_INSERT_BEFORE(m, x, e) ==
  LET m1 == SetPrev(m, e, m.prev[x])
      m2 == SetNext(m1, e, x)
      m3 == SetNext(m2, m2.prev[x], e)
  IN  SetPrev(m3, x, e)

\* Mutant: the pointers of the element are overwritten before they are used.
TAILQ_REMOVE_EarlyPoison(m, h, e) ==
  LET m1 == SetPrev(m, Follower(m, h, e), m.prev[e])
  IN  SetNext(POSTREMOVE(m1, e), m1.prev[e], POSTREMOVE(m1, e).next[e])

TAILQ_REMOVE(m, h, e) ==
  LET m1 == SetPrev(m, Follower(m, h, e), m.prev[e])
      m2 == SetNext(m1, m1.prev[e], m1.next[e])
  IN  POSTREMOVE(m2, e)

\* Does not call QUEUEDEBUG_TAILQ_OP.
TAILQ_REPLACE(m, h, e, e2) ==
  LET m1 == SetNext(m, e2, m.next[e])
      m2 == SetPrev(m1, Follower(m1, h, e2), e2)
      m3 == SetPrev(m2, e2, m2.prev[e])
      m4 == SetNext(m3, m3.prev[e2], e2)
  IN  POSTREMOVE(m4, e)

\* Mutant: the first element of the second list keeps its back pointer.
TAILQ_CONCAT_Moved(m, h1, h2) ==
  LET m1 == SetNext(m, m.prev[h1], m.next[h2])
      m2 == SetPrev(m1, h1, m1.prev[h2])
  IN  IF TAILQ_EMPTY(m, h2) THEN m ELSE TAILQ_INIT(m2, h2)

TAILQ_CONCAT(m, h1, h2) ==
  LET m1 == SetNext(m, m.prev[h1], m.next[h2])
      m2 == SetPrev(m1, m1.next[h2], m1.prev[h1])
      m3 == SetPrev(m2, h1, m2.prev[h2])
  IN  IF TAILQ_EMPTY(m, h2) THEN m ELSE TAILQ_INIT(m3, h2)

\* The conditions under which a QUEUEDEBUG build does not abort.
QUEUEDEBUG_TAILQ_INSERT_HEAD(m, h) ==
  m.next[h] # Null => m.prev[m.next[h]] = h
QUEUEDEBUG_TAILQ_INSERT_TAIL(m, h) == m.next[m.prev[h]] = Null
QUEUEDEBUG_TAILQ_OP(m, e) ==
  /\ m.next[e] # Null => m.prev[m.next[e]] = e
  /\ m.next[m.prev[e]] = e
QUEUEDEBUG_TAILQ_PREREMOVE(m, h, e) == m.next[e] = Null => m.prev[h] = e

-----------------------------------------------------------------------------
(* The program.                                                              *)

Init == InitWith([h \in Heads |-> TAILQ_END], [h \in Heads |-> h])

InitHead(h) == Reset(h, TAILQ_INIT(mem, h))

InsertHead(h) == \E e \in Free : Insert(h, 1, e, TAILQ_INSERT_HEAD(mem, h, e))

InsertTail(h) ==
  \E e \in Free : Insert(h, Len(list[h]) + 1, e, TAILQ_INSERT_TAIL(mem, h, e))

InsertAfter(h, i) ==
  \E e \in Free : Insert(h, i + 1, e, TAILQ_INSERT_AFTER(mem, h, list[h][i], e))

InsertBefore(h, i) ==
  \E e \in Free : Insert(h, i, e, TAILQ_INSERT_BEFORE(mem, list[h][i], e))

RemoveElement(h, i) == Remove1(h, i, TAILQ_REMOVE(mem, h, list[h][i]))

Replace(h, i) ==
  \E e \in Free : Replace1(h, i, e, TAILQ_REPLACE(mem, h, list[h][i], e))

Concat(h1, h2) == Append2(h1, h2, TAILQ_CONCAT(mem, h1, h2))

TAILQ_FOREACH == ForEach

TAILQ_FOREACH_SAFE == ForEachSafe

TAILQ_FOREACH_REVERSE ==
  \/ \E h \in Heads : Begin(h, FALSE, TRUE, TAILQ_LAST(mem, h), Null)
  \/ Iterate(FALSE, TRUE, TAILQ_PREV(mem, loop.var), Null)

Behind(v) == IF v = TAILQ_END THEN Null ELSE TAILQ_PREV(mem, v)

TAILQ_FOREACH_REVERSE_SAFE ==
  \/ \E h \in Heads :
       Begin(h, TRUE, TRUE, TAILQ_LAST(mem, h), Behind(TAILQ_LAST(mem, h)))
  \/ Iterate(TRUE, TRUE, loop.tvar, Behind(loop.tvar))

Next ==
  \/ \E h \in Heads :
       \/ InitHead(h) \/ InsertHead(h) \/ InsertTail(h)
       \/ \E h2 \in Heads : Concat(h, h2)
       \/ \E i \in Places(h) :
            InsertAfter(h, i) \/ InsertBefore(h, i) \/ RemoveElement(h, i) \/ Replace(h, i)
  \/ TAILQ_FOREACH \/ TAILQ_FOREACH_SAFE
  \/ TAILQ_FOREACH_REVERSE \/ TAILQ_FOREACH_REVERSE_SAFE
  \/ Leave

Spec == Init /\ [][Next]_qvars

-----------------------------------------------------------------------------

\* The pointers of every list spell the list in both directions, from the head
\* and from the last slot.
Linked ==
  \A h \in Heads :
    /\ Chain(h, TAILQ_END)
    /\ \A i \in Places(h) : mem.prev[list[h][i]] = Place(h, i - 1, Null)
    /\ mem.prev[h] = Place(h, Len(list[h]), Null)

\* The accessors that read an entry field as a head return the last and the
\* preceding element, and NULL where there is none.
EndsAgree ==
  \A h \in Heads :
    /\ TAILQ_LAST(mem, h) = IF list[h] = <<>> THEN Null ELSE Last(list[h])
    /\ \A i \in Places(h) :
         TAILQ_PREV(mem, list[h][i]) = IF i = 1 THEN Null ELSE list[h][i - 1]

\* No macro that the program may call next aborts.
ChecksPass ==
  \A h \in Heads :
    /\ QUEUEDEBUG_TAILQ_INSERT_HEAD(mem, h)
    /\ QUEUEDEBUG_TAILQ_INSERT_TAIL(mem, h)
    /\ \A i \in Places(h) : /\ QUEUEDEBUG_TAILQ_OP(mem, list[h][i])
                            /\ QUEUEDEBUG_TAILQ_PREREMOVE(mem, h, list[h][i])

=============================================================================
