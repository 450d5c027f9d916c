----------------------------- MODULE LinkedList -----------------------------
(* The LIST macros of sys-queue.h, and a program that uses them.             *)
EXTENDS QueueMemory

CONSTANT TrustMoved  \* the program uses a moved list as any other

VARIABLE moved  \* lists that LIST_MOVE has filled

vars == <<qvars, moved>>

LIST_END == Null
LIST_FIRST(m, h) == m.next[h]
LIST_EMPTY(m, h) == m.next[h] = LIST_END
LIST_NEXT(m, e) == m.next[e]

LIST_INIT(m, h) == SetNext(m, h, LIST_END)

\* The first element's le_prev is not assigned.
LIST_MOVE(m, h1, h2) ==
  LET m1 == LIST_INIT(m, h2)
      m2 == SetNext(m1, h2, m1.next[h1])
  IN  IF LIST_EMPTY(m1, h1) THEN m1 ELSE LIST_INIT(m2, h1)

LIST_INSERT_AFTER(m, x, e) ==
  LET m1 == SetNext(m, e, m.next[x])
      m2 == IF m1.next[e] # Null THEN SetPrev(m1, m1.next[x], e) ELSE m1
      m3 == SetNext(m2, x, e)
  IN  SetPrev(m3, e, x)

LIST_INSERT_BEFORE(m, x, e) ==
  LET m1 == SetPrev(m, e, m.prev[x])
      m2 == SetNext(m1, e, x)
      m3 == SetNext(m2, m2.prev[x], e)
  IN  SetPrev(m3, x, e)

LIST_INSERT_HEAD(m, h, e) ==
  LET m1 == SetNext(m, e, m.next[h])
      m2 == IF m1.next[e] # LIST_END THEN SetPrev(m1, m1.next[h], e) ELSE m1
      m3 == SetNext(m2, h, e)
  IN  SetPrev(m3, e, h)

\* Mutant: the following element keeps the address of the removed one.
LIST_REMOVE_Forward(m, e) == POSTREMOVE(SetNext(m, m.prev[e], m.next[e]), e)

LIST_REMOVE(m, e) ==
  LET m1 == IF m.next[e] # Null THEN SetPrev(m, m.next[e], m.prev[e]) ELSE m
      m2 == SetNext(m1, m1.prev[e], m1.next[e])
  IN  POSTREMOVE(m2, e)

LIST_REPLACE(m, e, e2) ==
  LET m1 == SetNext(m, e2, m.next[e])
      m2 == IF m1.next[e2] # Null THEN SetPrev(m1, m1.next[e2], e2) ELSE m1
      m3 == SetPrev(m2, e2, m2.prev[e])
      m4 == SetNext(m3, m3.prev[e2], e2)
  IN  POSTREMOVE(m4, e)

\* The conditions under which a QUEUEDEBUG build does not abort.
QUEUEDEBUG_LIST_INSERT_HEAD(m, h) ==
  m.next[h] # Null => m.prev[m.next[h]] = h
QUEUEDEBUG_LIST_OP(m, e) ==
  /\ m.next[e] # Null => m.prev[m.next[e]] = e
  /\ m.next[m.prev[e]] = e

-----------------------------------------------------------------------------
(* The program.                                                              *)

Init == InitWith([h \in Heads |-> Null], [h \in Heads |-> Garbage]) /\ moved = {}

\* Of a moved list, it leaves the back pointer of the first element alone.
Trusts(h, i) == i = 1 /\ h \in moved => TrustMoved

InitHead(h) == Reset(h, LIST_INIT(mem, h)) /\ moved' = moved \ {h}

Move(h1, h2) ==
  /\ list[h2] = <<>>
  /\ Append2(h2, h1, LIST_MOVE(mem, h1, h2))
  /\ moved' = (moved \ {h1}) \union (IF list[h1] = <<>> THEN {} ELSE {h2})

\* Without QUEUEDEBUG, this makes a moved list whole again.
InsertHead(h) ==
  /\ debug => Trusts(h, 1)
  /\ \E e \in Free : Insert(h, 1, e, LIST_INSERT_HEAD(mem, h, e))
  /\ moved' = moved \ {h}

InsertAfter(h, i) ==
  /\ debug => Trusts(h, i)
  /\ \E e \in Free : Insert(h, i + 1, e, LIST_INSERT_AFTER(mem, list[h][i], e))
  /\ UNCHANGED moved

InsertBefore(h, i) ==
  /\ Trusts(h, i)
  /\ \E e \in Free : Insert(h, i, e, LIST_INSERT_BEFORE(mem, list[h][i], e))
  /\ UNCHANGED moved

RemoveElement(h, i) ==
  /\ Trusts(h, i)
  /\ Remove1(h, i, LIST_REMOVE(mem, list[h][i]))
  /\ UNCHANGED moved

Replace(h, i) ==
  /\ Trusts(h, i)
  /\ \E e \in Free : Replace1(h, i, e, LIST_REPLACE(mem, list[h][i], e))
  /\ UNCHANGED moved

LIST_FOREACH == ForEach /\ UNCHANGED moved

LIST_FOREACH_SAFE == ForEachSafe /\ UNCHANGED moved

Next ==
  \/ \E h \in Heads :
       \/ InitHead(h) \/ InsertHead(h)
       \/ \E h2 \in Heads : Move(h, h2)
       \/ \E i \in Places(h) :
            InsertAfter(h, i) \/ InsertBefore(h, i) \/ RemoveElement(h, i) \/ Replace(h, i)
  \/ LIST_FOREACH \/ LIST_FOREACH_SAFE
  \/ Leave /\ UNCHANGED moved

Spec == Init /\ [][Next]_vars

-----------------------------------------------------------------------------

\* The pointers spell the list in both directions; only LIST_MOVE leaves one
\* back pointer behind.
Linked ==
  \A h \in Heads :
    /\ Chain(h, LIST_END)
    /\ \A i \in Places(h) :
         mem.prev[list[h][i]] = Place(h, i - 1, Null) \/ (i = 1 /\ h \in moved)

\* No macro that the program may call next aborts.
ChecksPass ==
  \A h \in Heads :
    /\ Trusts(h, 1) => QUEUEDEBUG_LIST_INSERT_HEAD(mem, h)
    /\ \A i \in Places(h) : Trusts(h, i) => QUEUEDEBUG_LIST_OP(mem, list[h][i])

=============================================================================
