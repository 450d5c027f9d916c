-------------------------- MODULE SinglyLinkedList --------------------------
(* The SLIST macros of sys-queue.h, and a program that uses them.            *)
EXTENDS QueueMemory

SLIST_END == Null
SLIST_FIRST(m, h) == m.next[h]
SLIST_NEXT(m, e) == m.next[e]
SLIST_EMPTY(m, h) == m.next[h] = Null

SLIST_INIT(m, h) == SetNext(m, h, SLIST_END)

SLIST_INSERT_AFTER(m, x, e) ==
  LET m1 == SetNext(m, e, m.next[x])
  IN  SetNext(m1, x, e)

SLIST_INSERT_HEAD(m, h, e) ==
  LET m1 == SetNext(m, e, m.next[h])
  IN  SetNext(m1, h, e)

SLIST_REMOVE_AFTER(m, x) == SetNext(m, x, SLIST_NEXT(m, SLIST_NEXT(m, x)))

SLIST_REMOVE_HEAD(m, h) == SetNext(m, h, m.next[m.next[h]])

\* Mutant: the loop is entered for the first element too.
SLIST_REMOVE_NoHead(m, h, e) ==
  LET curelm == IF m.next[m.next[h]] = Null THEN h ELSE Before(m, m.next[h], e)
  IN  SetNext(m, curelm, m.next[m.next[curelm]])

SLIST_REMOVE(m, h, e) ==
  IF m.next[h] = e THEN SLIST_REMOVE_HEAD(m, h)
  ELSE LET curelm == Before(m, m.next[h], e)
       IN  SetNext(m, curelm, m.next[m.next[curelm]])

-----------------------------------------------------------------------------
(* The program.                                                              *)

Init == InitWith([h \in Heads |-> Null], [h \in Heads |-> Garbage])

InitHead(h) == Reset(h, SLIST_INIT(mem, h))

InsertHead(h) == \E e \in Free : Insert(h, 1, e, SLIST_INSERT_HEAD(mem, h, e))

InsertAfter(h, i) ==
  \E e \in Free : Insert(h, i + 1, e, SLIST_INSERT_AFTER(mem, list[h][i], e))

RemoveHead(h) == ~SLIST_EMPTY(mem, h) /\ Remove1(h, 1, SLIST_REMOVE_HEAD(mem, h))

RemoveAfter(h, i) ==
  i < Len(list[h]) /\ Remove1(h, i + 1, SLIST_REMOVE_AFTER(mem, list[h][i]))

RemoveElement(h, i) == Remove1(h, i, SLIST_REMOVE(mem, h, list[h][i]))

SLIST_FOREACH == ForEach

\* Mutant: the next element is read after the body.
SLIST_FOREACH_SAFE_Late ==
  \/ \E h \in Heads : Begin(h, TRUE, FALSE, SLIST_FIRST(mem, h), Null)
  \/ Iterate(TRUE, FALSE, SLIST_NEXT(mem, loop.var), Null)

SLIST_FOREACH_SAFE == ForEachSafe

Next ==
  \/ \E h \in Heads :
       \/ InitHead(h) \/ InsertHead(h) \/ RemoveHead(h)
       \/ \E i \in Places(h) : InsertAfter(h, i) \/ RemoveAfter(h, i) \/ RemoveElement(h, i)
  \/ SLIST_FOREACH \/ SLIST_FOREACH_SAFE \/ Leave

Spec == Init /\ [][Next]_qvars

-----------------------------------------------------------------------------

\* The pointers of every list spell the list.
Linked == \A h \in Heads : Chain(h, SLIST_END)

=============================================================================
