---------------------------- MODULE QueueMemory ----------------------------
(***************************************************************************)
(* sys-queue.h, which the builds of lldpd, libtirpc and nfsrahead install  *)
(* as sys/queue.h: the memory its macros work on, and the program that     *)
(* calls them.                                                             *)
(*                                                                         *)
(* A list head and an element's entry field each have a slot for a forward *)
(* pointer and, except in the singly linked families, a second slot:       *)
(*   next    *_first of a head, *_next of an element                       *)
(*   prev    *_last of a head, *_prev of an element                        *)
(* Where the header takes an address it is always that of a next slot, so  *)
(* the address is represented by the head or element the slot belongs to.  *)
(* The macros are operators from memories to memories, one LET definition  *)
(* per assignment.                                                         *)
(***************************************************************************)
EXTENDS Naturals, SequencesExt

CONSTANTS
  Heads,     \* list heads
  Elements,  \* structures with an entry field
  Null,      \* NULL
  Garbage    \* a slot not assigned yet, or (void * ) 1L

ASSUME OwnersAssumption ==
  /\ Heads \cap Elements = {}
  /\ {Null, Garbage} \cap (Heads \union Elements) = {}
  /\ Null # Garbage
  /\ IsFiniteSet(Elements)

Owners == Heads \union Elements
Values == Owners \union {Null, Garbage}
Memory == [next : [Owners -> Values], prev : [Owners -> Values]]

VARIABLES
  debug,  \* the program is compiled with QUEUEDEBUG
  mem,    \* the slots
  list,   \* what the program has put into every list, in order
  loop    \* the FOREACH the program is in

qvars == <<debug, mem, list, loop>>

SetNext(m, o, v) == [m EXCEPT !.next[o] = v]
SetPrev(m, o, v) == [m EXCEPT !.prev[o] = v]

\* QUEUEDEBUG_*_POSTREMOVE.
POSTREMOVE(m, e) ==
  IF debug THEN SetPrev(SetNext(m, e, Garbage), e, Garbage) ELSE m

\* The while loop of the singly linked families' _REMOVE: on from first, until
\* the next element is e; no list takes more rounds than there are elements.
Before(m, first, e) ==
  LET curelm[n \in Nat] ==
        IF n = 0 THEN first
        ELSE IF m.next[curelm[n - 1]] = e THEN curelm[n - 1]
        ELSE m.next[curelm[n - 1]]
  IN  curelm[Cardinality(Elements)]

-----------------------------------------------------------------------------
(* The program.  Only elements in no list are inserted, and inside a loop    *)
(* the element that the loop will read next is not removed.                  *)

NoLoop == [head |-> Null, safe |-> FALSE, back |-> FALSE,
           var |-> Null, tvar |-> Null, todo |-> {}]
Loop   == [head : Heads \union {Null}, safe : BOOLEAN, back : BOOLEAN,
           var : Values, tvar : Values, todo : SUBSET Elements]

InLoop == loop.head # Null

\* Memory after the initializers of the heads; the elements are not set yet.
InitWith(first, last) ==
  /\ debug \in BOOLEAN
  /\ mem = [next |-> [o \in Owners |-> IF o \in Heads THEN first[o] ELSE Garbage],
            prev |-> [o \in Owners |-> IF o \in Heads THEN last[o] ELSE Garbage]]
  /\ list = [h \in Heads |-> <<>>]
  /\ loop = NoLoop

Places(h) == DOMAIN list[h]
Free == Elements \ UNION {ToSet(list[h]) : h \in Heads}

\* What the loop reads once its body has ended: tvar, or else the entry of var.
Cursor == IF loop.safe THEN loop.tvar ELSE loop.var

MayRemove(e) == InLoop => e # Cursor

Forget(es) == [loop EXCEPT !.todo = @ \ es]

Insert(h, i, e, m) ==
  /\ mem' = m
  /\ list' = [list EXCEPT ![h] = InsertAt(@, i, e)]
  /\ UNCHANGED <<debug, loop>>

Remove1(h, i, m) ==
  /\ MayRemove(list[h][i])
  /\ mem' = m
  /\ list' = [list EXCEPT ![h] = RemoveAt(@, i)]
  /\ loop' = Forget({list[h][i]})
  /\ UNCHANGED debug

Replace1(h, i, e, m) ==
  /\ MayRemove(list[h][i])
  /\ mem' = m
  /\ list' = [list EXCEPT ![h][i] = e]
  /\ loop' = Forget({list[h][i]})
  /\ UNCHANGED debug

\* The lists of a loop are neither emptied nor joined inside it.
NotLooped(h) == loop.head # h

Reset(h, m) ==
  /\ NotLooped(h)
  /\ mem' = m
  /\ list' = [list EXCEPT ![h] = <<>>]
  /\ UNCHANGED <<debug, loop>>

Append2(h1, h2, m) ==
  /\ h1 # h2 /\ NotLooped(h1) /\ NotLooped(h2)
  /\ mem' = m
  /\ list' = [list EXCEPT ![h1] = @ \o list[h2], ![h2] = <<>>]
  /\ UNCHANGED <<debug, loop>>

-----------------------------------------------------------------------------
(* The for statements: first and next are what the initialisation and the    *)
(* increment of the loop assign to var, ahead what the condition of a _SAFE  *)
(* loop assigns to tvar.                                                     *)

Begin(h, safe, back, first, ahead) ==
  /\ ~InLoop
  /\ loop' = [head |-> h, safe |-> safe, back |-> back,
              var |-> first, tvar |-> ahead, todo |-> ToSet(list[h]) \ {first}]
  /\ UNCHANGED <<debug, mem, list>>

\* Also checks the condition, which is false at NULL and at a head.
Iterate(safe, back, next, ahead) ==
  /\ loop.var \in Elements
  /\ loop.safe = safe /\ loop.back = back
  /\ loop' = [loop EXCEPT !.var = next, !.tvar = ahead, !.todo = @ \ {next}]
  /\ UNCHANGED <<debug, mem, list>>

\* The condition is false, or the body breaks.
Leave ==
  /\ InLoop
  /\ loop' = NoLoop
  /\ UNCHANGED <<debug, mem, list>>

\* The forward loops of the families; they differ only in the end they test.
ForEach ==
  \/ \E h \in Heads : Begin(h, FALSE, FALSE, mem.next[h], Null)
  \/ Iterate(FALSE, FALSE, mem.next[loop.var], Null)

\* What a _SAFE loop reads ahead of element v.
Ahead(v) == IF v \in Elements THEN mem.next[v] ELSE Null

ForEachSafe ==
  \/ \E h \in Heads : Begin(h, TRUE, FALSE, mem.next[h], Ahead(mem.next[h]))
  \/ Iterate(TRUE, FALSE, loop.tvar, Ahead(loop.tvar))

-----------------------------------------------------------------------------
(* What the families share of their correctness.                             *)

\* The slots of the heads and elements hold what C lets them hold; a head
\* always has been initialized.
TypeOK ==
  /\ debug \in BOOLEAN
  /\ mem \in Memory
  /\ \A h \in Heads : mem.next[h] # Garbage
  /\ DOMAIN list = Heads
  /\ \A h \in Heads : ToSet(list[h]) \subseteq Elements
  /\ loop \in Loop

\* Place 0 of a list is its head, and after the last element comes its end.
Place(h, i, end) ==
  CASE i = 0 -> h [] i \in Places(h) -> list[h][i] [] OTHER -> end

\* Following the forward pointers from the head meets the elements that were
\* put into the list, in that order, and then the end.
Chain(h, end) ==
  \A i \in 0 .. Len(list[h]) : mem.next[Place(h, i, end)] = Place(h, i + 1, end)

\* No loop steps on an element that has left the list meanwhile.
LoopStaysInList ==
  [][loop'.var # loop.var /\ loop'.var \in Elements \union {Garbage}
       => loop'.var \in ToSet(list[loop'.head])]_qvars

\* When a loop ends by its condition, the elements that were in the list when
\* it began and have not been removed have all been visited.
LoopMissesNothing ==
  InLoop /\ loop.var \notin Elements => loop.todo = {}

=============================================================================
