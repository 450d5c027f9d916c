------------------------------ MODULE SysQueue ------------------------------
(***************************************************************************)
(* A program compiled against sys-queue.h: it picks one family of macros   *)
(* and uses it on its lists.                                               *)
(***************************************************************************)
EXTENDS QueueMemory

CONSTANT TrustMoved  \* the program uses a list that LIST_MOVE filled as any other

VARIABLES
  kind,   \* the family
  moved   \* of LIST: the lists that LIST_MOVE has filled

vars == <<kind, moved, qvars>>

Kinds == {"SLIST", "LIST", "SIMPLEQ", "TAILQ", "STAILQ", "CIRCLEQ"}

SL == INSTANCE SinglyLinkedList
LL == INSTANCE LinkedList
SQ == INSTANCE SimpleQueue
TQ == INSTANCE TailQueue
ST == INSTANCE STailQueue
CQ == INSTANCE CircularQueue

Init ==
  /\ moved = {}
  /\ \/ kind = "SLIST" /\ SL!Init
     \/ kind = "LIST" /\ LL!Init
     \/ kind = "SIMPLEQ" /\ SQ!Init
     \/ kind = "TAILQ" /\ TQ!Init
     \/ kind = "STAILQ" /\ ST!Init
     \/ kind = "CIRCLEQ" /\ CQ!Init

Next ==
  /\ UNCHANGED kind
  /\ \/ kind = "SLIST" /\ SL!Next /\ UNCHANGED moved
     \/ kind = "LIST" /\ LL!Next
     \/ kind = "SIMPLEQ" /\ SQ!Next /\ UNCHANGED moved
     \/ kind = "TAILQ" /\ TQ!Next /\ UNCHANGED moved
     \/ kind = "STAILQ" /\ ST!Next /\ UNCHANGED moved
     \/ kind = "CIRCLEQ" /\ CQ!Next /\ UNCHANGED moved

Spec == Init /\ [][Next]_vars

-----------------------------------------------------------------------------

\* The pointers of every list spell what the program has put into it: whatever
\* the order of the calls, the assignments of the family's macros agree.
Linked ==
  CASE kind = "SLIST" -> SL!Linked
    [] kind = "LIST" -> LL!Linked
    [] kind = "SIMPLEQ" -> SQ!Linked
    [] kind = "TAILQ" -> TQ!Linked
    [] kind = "STAILQ" -> ST!Linked
    [] kind = "CIRCLEQ" -> CQ!Linked

\* The accessors that compute an element, by offsetof, by reading an entry as
\* a head or by going round, return the one the list has there.
EndsAgree ==
  /\ kind = "SIMPLEQ" => SQ!EndsAgree
  /\ kind = "TAILQ" => TQ!EndsAgree
  /\ kind = "STAILQ" => ST!EndsAgree
  /\ kind = "CIRCLEQ" => CQ!EndsAgree

\* The program gives the macros of a QUEUEDEBUG build no reason to abort.
ChecksPass ==
  debug => /\ kind = "LIST" => LL!ChecksPass
           /\ kind = "TAILQ" => TQ!ChecksPass
           /\ kind = "CIRCLEQ" => CQ!ChecksPass

-----------------------------------------------------------------------------
(* Why all this holds: one inductive invariant for the six families.         *)

\* What the last forward pointer of a list holds.
End(h) == IF kind = "CIRCLEQ" THEN h ELSE Null

At(h, i) == Place(h, i, End(h))

Doubly == kind \in {"LIST", "TAILQ", "CIRCLEQ"}  \* elements have a back pointer
Tailed == kind \notin {"SLIST", "LIST"}          \* heads have a last slot

\* No element is in two places.
ListsOK ==
  /\ list \in [Heads -> Seq(Elements)]
  /\ \A g, h \in Heads : \A i \in Places(g), j \in Places(h) :
       list[g][i] = list[h][j] => g = h /\ i = j

\* What the slots hold: Linked, in terms common to the families.
Forward ==
  \A h \in Heads : \A i \in 0 .. Len(list[h]) : mem.next[At(h, i)] = At(h, i + 1)

Backward ==
  \A h \in Heads : \A i \in 1 .. Len(list[h]) :
    mem.prev[At(h, i)] = At(h, i - 1) \/ (i = 1 /\ h \in moved)

Lasts == \A h \in Heads : mem.prev[h] = At(h, Len(list[h]))

Shape ==
  /\ kind \in Kinds /\ debug \in BOOLEAN /\ mem \in Memory
  /\ moved \subseteq Heads
  /\ kind # "LIST" => moved = {}
  /\ ListsOK
  /\ Forward
  /\ Doubly => Backward
  /\ Tailed => Lasts

\* Whether the loop comes to place j after place p, or to p itself when p is
\* the place of tvar.
Past(back, j, p) == IF back THEN j < p ELSE j > p
ToCome(j, p) == Past(loop.back, j, p) \/ (loop.safe /\ j = p)

\* The loop stands at place p of its list, and all that it has still to visit
\* is to come.
StandsAt(p) ==
  /\ At(loop.head, p) = Cursor
  /\ \A x \in loop.todo : \E j \in 1 .. Len(list[loop.head]) :
       At(loop.head, j) = x /\ ToCome(j, p)

LoopInv ==
  /\ loop \in Loop
  /\ loop.back => kind \in {"TAILQ", "CIRCLEQ"}
  /\ loop.var # Garbage /\ loop.tvar \in Elements \union {Null}
  /\ loop.var \notin Elements => loop.todo = {}
  /\ Cursor \notin Elements => loop.todo = {}
  /\ Cursor \in Elements =>
       InLoop /\ \E p \in 1 .. Len(list[loop.head]) : StandsAt(p)

=============================================================================
