----------------------------- MODULE STailQueue -----------------------------
(* The STAILQ macros of sys-queue.h, and a program that uses them.  They make *)
(* the assignments of the SIMPLEQ macros on fields of other names; there is   *)
(* no STAILQ_REMOVE_AFTER.                                                    *)
EXTENDS QueueMemory

S == INSTANCE SimpleQueue

STAILQ_EMPTY(m, h) == m.next[h] = Null
STAILQ_LAST(m, h) == S!SIMPLEQ_LAST(m, h)

STAILQ_INIT(m, h) == S!SIMPLEQ_INIT(m, h)

STAILQ_INSERT_HEAD(m, h, e) == S!SIMPLEQ_INSERT_HEAD(m, h, e)

STAILQ_INSERT_TAIL(m, h, e) == S!SIMPLEQ_INSERT_TAIL(m, h, e)

STAILQ_INSERT_AFTER(m, h, x, e) == S!SIMPLEQ_INSERT_AFTER(m, h, x, e)

STAILQ_REMOVE_HEAD(m, h) == S!SIMPLEQ_REMOVE_HEAD(m, h)

STAILQ_REMOVE(m, h, e) == S!SIMPLEQ_REMOVE(m, h, e)

STAILQ_CONCAT(m, h1, h2) == S!SIMPLEQ_CONCAT(m, h1, h2)

-----------------------------------------------------------------------------
(* The program.                                                              *)

Init == InitWith([h \in Heads |-> Null], [h \in Heads |-> h])

InitHead(h) == Reset(h, STAILQ_INIT(mem, h))

InsertHead(h) == \E e \in Free : Insert(h, 1, e, STAILQ_INSERT_HEAD(mem, h, e))

InsertTail(h) ==
  \E e \in Free : Insert(h, Len(list[h]) + 1, e, STAILQ_INSERT_TAIL(mem, h, e))

InsertAfter(h, i) ==
  \E e \in Free : Insert(h, i + 1, e, STAILQ_INSERT_AFTER(mem, h, list[h][i], e))

RemoveHead(h) ==
  ~STAILQ_EMPTY(mem, h) /\ Remove1(h, 1, STAILQ_REMOVE_HEAD(mem, h))

RemoveElement(h, i) == Remove1(h, i, STAILQ_REMOVE(mem, h, list[h][i]))

Concat(h1, h2) == Append2(h1, h2, STAILQ_CONCAT(mem, h1, h2))

STAILQ_FOREACH == ForEach

STAILQ_FOREACH_SAFE == ForEachSafe

Next ==
  \/ \E h \in Heads :
       \/ InitHead(h) \/ InsertHead(h) \/ InsertTail(h) \/ RemoveHead(h)
       \/ \E h2 \in Heads : Concat(h, h2)
       \/ \E i \in Places(h) : InsertAfter(h, i) \/ RemoveElement(h, i)
  \/ STAILQ_FOREACH \/ STAILQ_FOREACH_SAFE \/ Leave

Spec == Init /\ [][Next]_qvars

-----------------------------------------------------------------------------

\* The pointers spell the lists, and the last slot is the one to fill next.
Linked == S!Linked

\* The accessor of the last element returns it.
EndsAgree ==
  \A h \in Heads :
    STAILQ_LAST(mem, h) = IF list[h] = <<>> THEN Null ELSE Last(list[h])

=============================================================================
