--------------------------- MODULE QueueMacroProofs --------------------------
(***************************************************************************)
(* The loops, while their bodies change the lists, and the macros: what    *)
(* each of them assigns, one assignment after the other.                   *)
(***************************************************************************)
EXTENDS QueueListProofs, WellFoundedInduction, FiniteSetTheorems

-----------------------------------------------------------------------------
(* The loop, while its body changes the lists.                               *)

\* Forgetting what was removed leaves the rest of the loop alone.
LEMMA ForgetFacts ==
  ASSUME LoopInv, NEW S, loop' = Forget(S)
  PROVE  /\ loop' \in Loop /\ loop'.head = loop.head /\ loop'.safe = loop.safe
         /\ loop'.back = loop.back /\ loop'.var = loop.var /\ loop'.tvar = loop.tvar
         /\ loop'.todo = loop.todo \ S
<1>1. loop \in Loop
  BY DEF LoopInv
<1>2. loop' = [loop EXCEPT !.todo = loop.todo \ S]
  BY DEF Forget
<1> QED
  BY <1>1, <1>2 DEF Loop

\* Where the loop reads next, and which way it goes, depend on those fields.
LEMMA CursorKept ==
  ASSUME LoopInv, NEW S, loop' = Forget(S)
  PROVE  /\ Cursor' = Cursor
         /\ InLoop' <=> InLoop
         /\ \A j, p : Past(loop.back, j, p)' <=> Past(loop.back, j, p)
<1>1. /\ loop'.head = loop.head /\ loop'.safe = loop.safe /\ loop'.back = loop.back
      /\ loop'.var = loop.var /\ loop'.tvar = loop.tvar
  BY ForgetFacts
<1> QED
  BY <1>1 DEF Cursor, InLoop, Past

\* A change of the lists that keeps the order of what it does not remove keeps
\* the loop going; F says where it moves the places of the list looped over.
LEMMA LoopFollows ==
  ASSUME LoopInv, kind' = kind, NEW S, loop' = Forget(S),
         InLoop => Cursor \notin S,
         NEW hd, hd = loop.head, NEW F,
         hd \in Heads =>
           /\ \A j \in 1 .. Len(list[hd]) : At(hd, j) \notin S =>
                F[j] \in 1 .. Len(list'[hd]) /\ At(hd, F[j])' = At(hd, j)
           /\ \A j, k \in 1 .. Len(list[hd]) :
                At(hd, j) \notin S /\ At(hd, k) \notin S /\ j < k => F[j] < F[k]
  PROVE  LoopInv'
<1>1. /\ loop' \in Loop /\ loop'.head = hd /\ loop'.safe = loop.safe
      /\ loop'.back = loop.back /\ loop'.var = loop.var /\ loop'.tvar = loop.tvar
      /\ loop'.todo = loop.todo \ S
  BY ForgetFacts
<1>2. Cursor' = Cursor /\ (InLoop' <=> InLoop)
  BY CursorKept
<1>3. ASSUME Cursor \in Elements
      PROVE  InLoop /\ \E p \in 1 .. Len(list'[hd]) : StandsAt(p)'
  <2>1. PICK p \in 1 .. Len(list[hd]) : InLoop /\ StandsAt(p)
    BY <1>3 DEF LoopInv
  <2>2. hd \in Heads
    BY <2>1 DEF LoopInv, Loop, InLoop
  <2>3. At(hd, p) = Cursor
    BY <2>1 DEF StandsAt
  <2>4. F[p] \in 1 .. Len(list'[hd]) /\ At(hd, F[p])' = Cursor'
    BY <1>2, <2>1, <2>2, <2>3
  <2>5. ASSUME NEW x \in loop.todo \ S
        PROVE  \E j \in 1 .. Len(list'[hd]) : At(hd, j)' = x /\ ToCome(j, F[p])'
    <3>1. PICK j \in 1 .. Len(list[hd]) : At(hd, j) = x /\ ToCome(j, p)
      BY <2>1, <2>5 DEF StandsAt
    <3>2. F[j] \in 1 .. Len(list'[hd]) /\ At(hd, F[j])' = x
      BY <2>2, <2>5, <3>1
    <3>3. Past(loop.back, j, p) => Past(loop.back, F[j], F[p])
      BY <1>2, <2>1, <2>2, <2>3, <2>5, <3>1 DEF Past
    <3>4. ToCome(F[j], F[p])'
      BY <1>1, <3>1, <3>3 DEF ToCome
    <3> QED
      BY <3>2, <3>4
  <2>6. StandsAt(F[p])'
    BY <1>1, <2>4, <2>5 DEF StandsAt
  <2> QED
    BY <2>1, <2>4, <2>6
<1>4. /\ loop.back => kind \in {"TAILQ", "CIRCLEQ"}
      /\ loop.var # Garbage /\ loop.tvar \in Elements \union {Null}
      /\ loop.var \notin Elements => loop.todo = {}
      /\ Cursor \notin Elements => loop.todo = {}
  BY DEF LoopInv
<1> QED
  BY <1>1, <1>2, <1>3, <1>4 DEF LoopInv

\* A loop that its body does not affect.
LEMMA NothingForgotten ==
  ASSUME LoopInv
  PROVE  loop = Forget({}) /\ Forget({}) = [loop EXCEPT !.todo = loop.todo]
<1>1. loop \in Loop
  BY DEF LoopInv
<1>2. loop.todo \ {} = loop.todo
  OBVIOUS
<1>3. Forget({}) = [loop EXCEPT !.todo = loop.todo]
  BY <1>2 DEF Forget
<1> QED
  BY <1>1, <1>3 DEF Loop

-----------------------------------------------------------------------------
(* What the operations assign.                                               *)

\* Insertion of e between a and b, of which a is h at the front of the list and
\* b the end of the list at its back.
Inserting(h, e, a, b) ==
  /\ mem' \in Memory
  /\ \A o \in Owners :
       mem'.next[o] = IF o = e THEN b ELSE IF o = a THEN e ELSE mem.next[o]
  /\ Doubly => \A o \in Elements :
       mem'.prev[o] = IF o = e THEN a ELSE IF o = b THEN e ELSE mem.prev[o]
  /\ Tailed => \A g \in Heads :
       mem'.prev[g] = IF g = h /\ b \notin Elements THEN e ELSE mem.prev[g]

\* Removal of x from between a and b; the slots of x do not matter.
Removing(h, x, a, b) ==
  /\ mem' \in Memory
  /\ \A o \in Owners \ {x} : mem'.next[o] = IF o = a THEN b ELSE mem.next[o]
  /\ Doubly => \A o \in Elements \ {x} :
       mem'.prev[o] = IF o = b THEN a ELSE mem.prev[o]
  /\ Tailed => \A g \in Heads :
       mem'.prev[g] = IF g = h /\ b \notin Elements THEN a ELSE mem.prev[g]

\* Replacement of x by e between a and b.
Replacing(h, x, e, a, b) ==
  /\ mem' \in Memory
  /\ \A o \in Owners \ {x} :
       mem'.next[o] = IF o = e THEN b ELSE IF o = a THEN e ELSE mem.next[o]
  /\ Doubly => \A o \in Elements \ {x} :
       mem'.prev[o] = IF o = e THEN a ELSE IF o = b THEN e ELSE mem.prev[o]
  /\ Tailed => \A g \in Heads :
       mem'.prev[g] = IF g = h /\ b \notin Elements THEN e ELSE mem.prev[g]

\* The initialization of the head h.
Emptying(h) ==
  /\ mem' \in Memory
  /\ \A o \in Owners : mem'.next[o] = IF o = h THEN End(h) ELSE mem.next[o]
  /\ Doubly => \A o \in Elements : mem'.prev[o] = mem.prev[o]
  /\ Tailed => \A g \in Heads : mem'.prev[g] = IF g = h THEN h ELSE mem.prev[g]

\* LIST_MOVE, which only appends to an empty list, leaves the back pointer.
Joining(f, h) ==
  /\ mem' \in Memory
  /\ \A o \in Owners :
       mem'.next[o] = IF o = h THEN End(h)
                      ELSE IF o = At(f, Len(list[f])) THEN At(h, 1) ELSE mem.next[o]
  /\ Doubly => /\ \A o \in Elements \ {At(h, 1)} : mem'.prev[o] = mem.prev[o]
               /\ Len(list[h]) # 0 => \/ mem'.prev[At(h, 1)] = At(f, Len(list[f]))
                                      \/ Len(list[f]) = 0 /\ f \in moved'
  /\ Tailed => \A g \in Heads :
       mem'.prev[g] = IF g = h THEN h
                      ELSE IF g = f /\ Len(list[h]) # 0 THEN mem.prev[h]
                      ELSE mem.prev[g]

(* How they move the places of a list.                                       *)

\* Where an insertion at place i, a removal there and a replacement move a place.
Shift(i) == [j \in Nat |-> IF j < i THEN j ELSE j + 1]
Unshift(i) == [j \in Nat |-> IF j < i THEN j ELSE j - 1]
Same == [j \in Nat |-> j]

\* Shift moves the places in a loop's list as an insertion does: no place is lost
\* and none overtakes another.
LEMMA ShiftFacts ==
  ASSUME NEW n \in Nat, NEW i \in 1 .. n + 1
  PROVE  /\ \A j \in 1 .. n :
              /\ Shift(i)[j] \in 1 .. n + 1 /\ Shift(i)[j] \in 0 .. n + 2
              /\ IF j < i THEN Shift(i)[j] = j /\ Shift(i)[j] < i
                 ELSE Shift(i)[j] - 1 = j /\ ~(Shift(i)[j] < i) /\ Shift(i)[j] # i
         /\ \A j, k \in 1 .. n : j < k => Shift(i)[j] < Shift(i)[k]
BY DEF Shift

\* Unshift moves them as a removal does.
LEMMA UnshiftFacts ==
  ASSUME NEW n \in Nat, NEW i \in 1 .. n
  PROVE  /\ \A j \in 1 .. n : j # i =>
              /\ Unshift(i)[j] \in 1 .. n - 1 /\ Unshift(i)[j] \in 0 .. n
              /\ IF j < i THEN Unshift(i)[j] = j /\ Unshift(i)[j] < i
                 ELSE Unshift(i)[j] + 1 = j /\ ~(Unshift(i)[j] < i)
         /\ \A j, k \in 1 .. n : j # i /\ k # i /\ j < k => Unshift(i)[j] < Unshift(i)[k]
BY DEF Unshift

\* A replacement leaves them where they are.
LEMMA SameFacts == \A j \in Nat : Same[j] = j
BY DEF Same

Inv == Shape /\ LoopInv

\* What no operation changes, and what they may do with the moved lists.
Program ==
  /\ kind' = kind /\ debug' = debug
  /\ moved' \subseteq Heads
  /\ kind # "LIST" => moved' = {}

\* A loop over another list is not affected.
LEMMA LoopUnaffected ==
  ASSUME LoopInv, ListsOK, ListsOK', kind' = kind, NEW S, loop' = Forget(S),
         InLoop => Cursor \notin S,
         NEW hd, hd = loop.head, hd \in Heads => list'[hd] = list[hd]
  PROVE  LoopInv'
<1>1. hd \in Heads => /\ Len(list'[hd]) = Len(list[hd]) /\ Len(list[hd]) \in Nat
                      /\ \A j \in 0 .. Len(list[hd]) + 1 : At(hd, j)' = At(hd, j)
  BY OthersStay, AtIsOwner
<1>2. hd \in Heads =>
        /\ \A j \in 1 .. Len(list[hd]) :
             Same[j] = j /\ Same[j] \in 1 .. Len(list'[hd]) /\ At(hd, Same[j])' = At(hd, j)
        /\ \A j, k \in 1 .. Len(list[hd]) : j < k => Same[j] < Same[k]
  BY <1>1, SameFacts
<1> QED
  BY <1>2, LoopFollows

\* The end of a list is no element.
LEMMA EndOrElement ==
  ASSUME ListsOK, NEW h \in Heads, NEW i \in 1 .. Len(list[h]) + 1
  PROVE  At(h, i) \notin Elements <=> i = Len(list[h]) + 1
<1>1. PICK n \in Nat : n = Len(list[h]) /\ i \in 1 .. n + 1
  BY AtIsOwner
<1>2. i = n + 1 \/ i \in 1 .. n
  BY <1>1
<1> QED
  BY <1>1, <1>2, AtIsOwner, EndIsNoElement

\* Whatever assigns the slots as an insertion should keeps the invariant, that of
\* a FOREACH the call is made in included.
LEMMA InsertKeeps ==
  ASSUME Inv, Program, NEW h \in Heads, NEW e \in Free,
         NEW i \in 1 .. Len(list[h]) + 1,
         Inserts(h, i, e),
         moved' = moved \/ (i = 1 /\ moved' = moved \ {h}),
         loop' = loop, Inserting(h, e, At(h, i - 1), At(h, i))
  PROVE  Inv'
<1>1. kind' = kind /\ ListsOK /\ Forward /\ (Doubly => Backward) /\ (Tailed => Lasts)
  BY DEF Inv, Shape, Program
<1>2. (Doubly' <=> Doubly) /\ (Tailed' <=> Tailed)
  BY <1>1 DEF Doubly, Tailed
<1>3. Forward'
  BY <1>1, InsertForward DEF Inserting
<1>4. Doubly => Backward'
  BY <1>1, InsertBackward DEF Inserting
<1>5. Tailed => Lasts'
  <2> SUFFICES ASSUME Tailed PROVE Lasts'
    OBVIOUS
  <2>1. \A g \in Heads :
          mem'.prev[g] = IF g = h /\ At(h, i) \notin Elements THEN e ELSE mem.prev[g]
    BY Zenon DEF Inserting
  <2>2. At(h, i) \notin Elements <=> i = Len(list[h]) + 1
    BY <1>1, EndOrElement
  <2> QED
    BY <1>1, <2>1, <2>2, InsertLasts
<1>6. ListsOK'
  BY <1>1, Inserted
<1>7. Shape'
  BY <1>2, <1>3, <1>4, <1>5, <1>6 DEF Inv, Shape, Program, Inserting
<1>8. LoopInv'
  <2>1. LoopInv /\ loop' = Forget({})
    BY NothingForgotten DEF Inv
  <2>2. PICK hd : hd = loop.head
    OBVIOUS
  <2>3. CASE hd = h
    <3>1. PICK n \in Nat : n = Len(list[h]) /\ i \in 1 .. n + 1
      BY <1>1, AtIsOwner
    <3>2. /\ Len(list'[h]) = n + 1
          /\ \A j \in 0 .. n + 2 :
               At(h, j)' = IF j < i THEN At(h, j) ELSE IF j = i THEN e ELSE At(h, j - 1)
      BY <1>1, <3>1, Inserted
    <3>3. \A j \in 1 .. n : At(h, Shift(i)[j])' = At(h, j)
      BY <3>1, <3>2, ShiftFacts
    <3>4. /\ \A j \in 1 .. n : Shift(i)[j] \in 1 .. Len(list'[h])
          /\ \A j, k \in 1 .. n : j < k => Shift(i)[j] < Shift(i)[k]
      BY <3>1, <3>2, ShiftFacts
    <3> QED
      BY <1>1, <2>1, <2>2, <2>3, <3>1, <3>3, <3>4, LoopFollows
  <2>4. CASE hd # h
    BY <1>1, <1>6, <2>1, <2>2, <2>4, Inserted, LoopUnaffected
  <2> QED
    BY <2>3, <2>4
<1> QED
  BY <1>7, <1>8 DEF Inv

\* So does a removal of an element that the FOREACH does not read next.
LEMMA RemoveKeeps ==
  ASSUME Inv, Program, NEW h \in Heads, NEW i \in 1 .. Len(list[h]), Removes(h, i),
         moved' = moved, MayRemove(At(h, i)), loop' = Forget({At(h, i)}),
         Removing(h, At(h, i), At(h, i - 1), At(h, i + 1))
  PROVE  Inv'
<1>1. kind' = kind /\ ListsOK /\ Forward /\ (Doubly => Backward) /\ (Tailed => Lasts)
  BY DEF Inv, Shape, Program
<1>2. (Doubly' <=> Doubly) /\ (Tailed' <=> Tailed)
  BY <1>1 DEF Doubly, Tailed
<1>3. Forward'
  BY <1>1, RemoveForward DEF Removing
<1>4. Doubly => Backward'
  <2> SUFFICES ASSUME Doubly PROVE Backward'
    OBVIOUS
  <2>1. \A o \in Elements \ {At(h, i)} :
          mem'.prev[o] = IF o = At(h, i + 1) THEN At(h, i - 1) ELSE mem.prev[o]
    BY Zenon DEF Removing
  <2> QED
    BY <1>1, <2>1, RemoveBackward
<1>5. Tailed => Lasts'
  <2> SUFFICES ASSUME Tailed PROVE Lasts'
    OBVIOUS
  <2>1. \A g \in Heads :
          mem'.prev[g] = IF g = h /\ At(h, i + 1) \notin Elements THEN At(h, i - 1) ELSE mem.prev[g]
    BY Zenon DEF Removing
  <2>2. PICK n \in Nat : n = Len(list[h]) /\ i \in 1 .. n
    BY <1>1, AtIsOwner
  <2>3. i + 1 \in 1 .. Len(list[h]) + 1 /\ (i + 1 = n + 1 <=> i = n)
    BY <2>2
  <2>4. At(h, i + 1) \notin Elements <=> i = Len(list[h])
    BY <1>1, <2>2, <2>3, EndOrElement
  <2> QED
    BY <1>1, <2>1, <2>4, RemoveLasts
<1>6. ListsOK'
  BY <1>1, Removed
<1>7. Shape'
  BY <1>2, <1>3, <1>4, <1>5, <1>6 DEF Inv, Shape, Program, Removing
<1>8. LoopInv'
  <2>1. LoopInv /\ (InLoop => Cursor \notin {At(h, i)})
    BY DEF Inv, MayRemove
  <2>2. PICK hd : hd = loop.head
    OBVIOUS
  <2>3. CASE hd = h
    <3>1. PICK n \in Nat : n = Len(list[h]) /\ i \in 1 .. n
      BY <1>1, AtIsOwner
    <3>2. /\ Len(list'[h]) = n - 1
          /\ \A j \in 0 .. n : At(h, j)' = IF j < i THEN At(h, j) ELSE At(h, j + 1)
      BY <1>1, <3>1, Removed
    <3>3. \A j \in 1 .. n : j # i => /\ Unshift(i)[j] \in 1 .. Len(list'[h])
                                     /\ At(h, Unshift(i)[j])' = At(h, j)
      BY <3>1, <3>2, UnshiftFacts
    <3>4. \A j, k \in 1 .. n : j # i /\ k # i /\ j < k => Unshift(i)[j] < Unshift(i)[k]
      BY <3>1, UnshiftFacts
    <3>5. \A j \in 1 .. n : At(h, j) \notin {At(h, i)} => j # i
      OBVIOUS
    <3> QED
      BY <1>1, <2>1, <2>2, <2>3, <3>1, <3>3, <3>4, <3>5, LoopFollows
  <2>4. CASE hd # h
    BY <1>1, <1>6, <2>1, <2>2, <2>4, Removed, LoopUnaffected
  <2> QED
    BY <2>3, <2>4
<1> QED
  BY <1>7, <1>8 DEF Inv

\* So does the replacement of such an element.
LEMMA ReplaceKeeps ==
  ASSUME Inv, Program, NEW h \in Heads, NEW i \in 1 .. Len(list[h]), NEW e \in Free,
         Replaces(h, i, e), moved' = moved,
         MayRemove(At(h, i)), loop' = Forget({At(h, i)}),
         Replacing(h, At(h, i), e, At(h, i - 1), At(h, i + 1))
  PROVE  Inv'
<1>1. kind' = kind /\ ListsOK /\ Forward /\ (Doubly => Backward) /\ (Tailed => Lasts)
  BY DEF Inv, Shape, Program
<1>2. (Doubly' <=> Doubly) /\ (Tailed' <=> Tailed)
  BY <1>1 DEF Doubly, Tailed
<1>3. Forward'
  BY <1>1, ReplaceForward DEF Replacing
<1>4. Doubly => Backward'
  <2> SUFFICES ASSUME Doubly PROVE Backward'
    OBVIOUS
  <2>1. \A o \in Elements \ {At(h, i)} :
          mem'.prev[o] = IF o = e THEN At(h, i - 1)
                         ELSE IF o = At(h, i + 1) THEN e ELSE mem.prev[o]
    BY Zenon DEF Replacing
  <2> QED
    BY <1>1, <2>1, ReplaceBackward
<1>5. Tailed => Lasts'
  <2> SUFFICES ASSUME Tailed PROVE Lasts'
    OBVIOUS
  <2>1. \A g \in Heads :
          mem'.prev[g] = IF g = h /\ At(h, i + 1) \notin Elements THEN e ELSE mem.prev[g]
    BY Zenon DEF Replacing
  <2>2. PICK n \in Nat : n = Len(list[h]) /\ i \in 1 .. n
    BY <1>1, AtIsOwner
  <2>3. i + 1 \in 1 .. Len(list[h]) + 1 /\ (i + 1 = n + 1 <=> i = n)
    BY <2>2
  <2>4. At(h, i + 1) \notin Elements <=> i = Len(list[h])
    BY <1>1, <2>2, <2>3, EndOrElement
  <2> QED
    BY <1>1, <2>1, <2>4, ReplaceLasts
<1>6. ListsOK'
  BY <1>1, Replaced
<1>7. Shape'
  BY <1>2, <1>3, <1>4, <1>5, <1>6 DEF Inv, Shape, Program, Replacing
<1>8. LoopInv'
  <2>1. LoopInv /\ (InLoop => Cursor \notin {At(h, i)})
    BY DEF Inv, MayRemove
  <2>2. PICK hd : hd = loop.head
    OBVIOUS
  <2>3. CASE hd = h
    <3>1. PICK n \in Nat : n = Len(list[h]) /\ i \in 1 .. n
      BY <1>1, AtIsOwner
    <3>2. /\ Len(list'[h]) = n
          /\ \A j \in 0 .. n + 1 : At(h, j)' = IF j = i THEN e ELSE At(h, j)
      BY <1>1, <3>1, Replaced
    <3>3. \A j \in 1 .. n : /\ Same[j] \in 1 .. Len(list'[h])
                            /\ j # i => At(h, Same[j])' = At(h, j)
      BY <3>1, <3>2, SameFacts
    <3>4. \A j, k \in 1 .. n : j < k => Same[j] < Same[k]
      BY <3>1, SameFacts
    <3>5. \A j \in 1 .. n : At(h, j) \notin {At(h, i)} => j # i
      OBVIOUS
    <3> QED
      BY <1>1, <2>1, <2>2, <2>3, <3>1, <3>3, <3>4, <3>5, LoopFollows
  <2>4. CASE hd # h
    BY <1>1, <1>6, <2>1, <2>2, <2>4, Replaced, LoopUnaffected
  <2> QED
    BY <2>3, <2>4
<1> QED
  BY <1>7, <1>8 DEF Inv

\* So does the initialization of a list that no FOREACH goes over.
LEMMA EmptyKeeps ==
  ASSUME Inv, Program, NEW h \in Heads, Empties(h), moved \ {h} \subseteq moved',
         NotLooped(h), loop' = loop, Emptying(h)
  PROVE  Inv'
<1>1. kind' = kind /\ ListsOK /\ Forward /\ (Doubly => Backward) /\ (Tailed => Lasts)
  BY DEF Inv, Shape, Program
<1>2. (Doubly' <=> Doubly) /\ (Tailed' <=> Tailed)
  BY <1>1 DEF Doubly, Tailed
<1>3. Forward'
  BY <1>1, EmptyForward DEF Emptying
<1>4. Doubly => Backward'
  BY <1>1, EmptyBackward DEF Emptying
<1>5. Tailed => Lasts'
  <2> SUFFICES ASSUME Tailed PROVE Lasts'
    OBVIOUS
  <2>1. \A g \in Heads : mem'.prev[g] = IF g = h THEN h ELSE mem.prev[g]
    BY Zenon DEF Emptying
  <2> QED
    BY <1>1, <2>1, EmptyLasts
<1>6. ListsOK'
  BY <1>1, Emptied
<1>7. Shape'
  BY <1>2, <1>3, <1>4, <1>5, <1>6 DEF Inv, Shape, Program, Emptying
<1>8. LoopInv'
  <2>1. LoopInv /\ loop' = Forget({}) /\ loop.head # h
    BY NothingForgotten DEF Inv, NotLooped
  <2> QED
    BY <1>1, <1>6, <2>1, Emptied, LoopUnaffected
<1> QED
  BY <1>7, <1>8 DEF Inv

\* So does the joining of two lists that no FOREACH goes over.
LEMMA JoinKeeps ==
  ASSUME Inv, Program, kind # "CIRCLEQ", NEW f \in Heads, NEW h \in Heads, f # h,
         Joins(f, h),
         \A g \in Heads \ {f, h} : g \in moved => g \in moved',
         Len(list[f]) # 0 /\ f \in moved => f \in moved',
         NotLooped(f), NotLooped(h), loop' = loop, Joining(f, h)
  PROVE  Inv'
<1>1. kind' = kind /\ ListsOK /\ Forward /\ (Doubly => Backward) /\ (Tailed => Lasts)
  BY DEF Inv, Shape, Program
<1>2. (Doubly' <=> Doubly) /\ (Tailed' <=> Tailed)
  BY <1>1 DEF Doubly, Tailed
<1>3. Forward'
  BY <1>1, JoinForward DEF Joining
<1>4. Doubly => Backward'
  <2> SUFFICES ASSUME Doubly PROVE Backward'
    OBVIOUS
  <2>1. /\ \A o \in Elements \ {At(h, 1)} : mem'.prev[o] = mem.prev[o]
        /\ Len(list[h]) # 0 => \/ mem'.prev[At(h, 1)] = At(f, Len(list[f]))
                               \/ Len(list[f]) = 0 /\ f \in moved'
    BY Zenon DEF Joining
  <2> QED
    BY <1>1, <2>1, JoinBackward
<1>5. Tailed => Lasts'
  <2> SUFFICES ASSUME Tailed PROVE Lasts'
    OBVIOUS
  <2>1. \A g \in Heads :
          mem'.prev[g] = IF g = h THEN h
                         ELSE IF g = f /\ Len(list[h]) # 0 THEN mem.prev[h]
                         ELSE mem.prev[g]
    BY Zenon DEF Joining
  <2> QED
    BY <1>1, <2>1, JoinLasts
<1>6. ListsOK'
  BY <1>1, Joined
<1>7. Shape'
  BY <1>2, <1>3, <1>4, <1>5, <1>6 DEF Inv, Shape, Program, Joining
<1>8. LoopInv'
  <2>1. LoopInv /\ loop' = Forget({}) /\ loop.head # h /\ loop.head # f
    BY NothingForgotten DEF Inv, NotLooped
  <2>2. PICK hd : hd = loop.head
    OBVIOUS
  <2>3. \A g \in Heads \ {f, h} : list'[g] = list[g]
    BY <1>1, Joined
  <2>4. hd \in Heads => list'[hd] = list[hd]
    BY <2>1, <2>2, <2>3
  <2> QED
    BY <1>1, <1>6, <2>1, <2>2, <2>4, LoopUnaffected
<1> QED
  BY <1>7, <1>8 DEF Inv

-----------------------------------------------------------------------------
(* The for statements.                                                       *)

Still == UNCHANGED <<kind, moved, debug, mem, list>>

\* A step of a loop leaves the lists and the slots alone.
LEMMA StillKeeps ==
  ASSUME Still
  PROVE  /\ \A h : Len(list[h])' = Len(list[h])
         /\ \A h, j : At(h, j)' = At(h, j)
         /\ Shape => Shape'
<1>1. /\ \A h : Len(list[h])' = Len(list[h])
      /\ \A h, j : At(h, j)' = At(h, j)
  BY DEF Still, At, Place, Places, End
<1>2. ASSUME Shape PROVE Shape'
  <2>1. (Doubly' <=> Doubly) /\ (Tailed' <=> Tailed)
    BY DEF Still, Doubly, Tailed
  <2>2. ListsOK'
    BY <1>2 DEF Still, Shape, ListsOK, Places
  <2>3. Forward'
    BY <1>1, <1>2 DEF Still, Shape, Forward
  <2>4. Doubly => Backward'
    BY <1>1, <1>2 DEF Still, Shape, Backward
  <2>5. Tailed => Lasts'
    BY <1>1, <1>2 DEF Still, Shape, Lasts
  <2> QED
    BY <1>2, <2>1, <2>2, <2>3, <2>4, <2>5 DEF Still, Shape
<1> QED
  BY <1>1, <1>2

\* The elements of a list are what its places hold.
LEMMA ToSetIs ==
  ASSUME ListsOK, NEW h \in Heads
  PROVE  \A x : x \in ToSet(list[h]) <=> \E j \in 1 .. Len(list[h]) : At(h, j) = x
<1>1. Places(h) = 1 .. Len(list[h]) /\ \A j \in 1 .. Len(list[h]) : At(h, j) = list[h][j]
  BY PlacesAre
<1> QED
  BY <1>1 DEF ToSet, Places

\* The first place of a loop, and the one it goes to from place p.
Start(h, back) == IF back THEN Len(list[h]) ELSE 1
Step(back, p) == IF back THEN p - 1 ELSE p + 1

\* In a list of n places, the next place of a FOREACH is still a place when
\* another one is to come, and every one but it is still to come from there.
LEMMA StepFacts ==
  ASSUME NEW n \in Nat
  PROVE  /\ \A p, j \in 1 .. n : Past(FALSE, j, p) =>
              p + 1 \in 1 .. n /\ (j # p + 1 => Past(FALSE, j, p + 1))
         /\ \A p, j \in 1 .. n : Past(TRUE, j, p) =>
              p - 1 \in 1 .. n /\ (j # p - 1 => Past(TRUE, j, p - 1))
         /\ \A j \in 1 .. n : 1 \in 1 .. n /\ (j # 1 => Past(FALSE, j, 1))
         /\ \A j \in 1 .. n : n \in 1 .. n /\ (j # n => Past(TRUE, j, n))
BY DEF Past

\* Reading toward place j of h gives v: the element there, or the end.
Reads(h, j, v) ==
  /\ v \in Values \ {Garbage}
  /\ IF j \in 1 .. Len(list[h]) THEN v = At(h, j) ELSE v \notin Elements

\* Stepping from place p, and starting, lose no place to come.
LEMMA StepOn ==
  ASSUME NEW h, Len(list[h]) \in Nat, NEW back \in BOOLEAN,
         NEW p \in 1 .. Len(list[h]), NEW j \in 1 .. Len(list[h]), Past(back, j, p)
  PROVE  /\ Step(back, p) \in 1 .. Len(list[h])
         /\ j # Step(back, p) => Past(back, j, Step(back, p))
<1>1. PICK n \in Nat : n = Len(list[h]) /\ p \in 1 .. n /\ j \in 1 .. n
  OBVIOUS
<1>2. CASE back = TRUE
  <2>1. Step(back, p) = p - 1 /\ Past(TRUE, j, p)
    BY <1>2 DEF Step
  <2> QED
    BY <1>1, <1>2, <2>1, StepFacts
<1>3. CASE back = FALSE
  <2>1. Step(back, p) = p + 1 /\ Past(FALSE, j, p)
    BY <1>3 DEF Step
  <2> QED
    BY <1>1, <1>3, <2>1, StepFacts
<1> QED
  BY <1>2, <1>3

\* The first place of a FOREACH leaves all others to come.
LEMMA StartOff ==
  ASSUME NEW h, Len(list[h]) \in Nat, NEW back \in BOOLEAN, NEW j \in 1 .. Len(list[h])
  PROVE  /\ Start(h, back) \in 1 .. Len(list[h])
         /\ j # Start(h, back) => Past(back, j, Start(h, back))
<1>1. PICK n \in Nat : n = Len(list[h]) /\ j \in 1 .. n
  OBVIOUS
<1>2. CASE back = TRUE
  <2>1. Start(h, back) = n
    BY <1>1, <1>2 DEF Start
  <2> QED
    BY <1>1, <1>2, <2>1, StepFacts
<1>3. CASE back = FALSE
  <2>1. Start(h, back) = 1
    BY <1>3 DEF Start
  <2> QED
    BY <1>1, <1>3, <2>1, StepFacts
<1> QED
  BY <1>2, <1>3

\* What is wanted of the step of a loop.
StaysInList ==
  loop'.var # loop.var /\ loop'.var \in Elements \union {Garbage}
    => loop'.var \in ToSet(list[loop'.head])

\* A FOREACH keeps its invariant if it reads next from a place of its list, with
\* what it has to visit to come.
LEMMA Standing ==
  ASSUME Still, loop' \in Loop, InLoop',
         loop'.var # Garbage, loop'.tvar \in Elements \union {Null},
         loop'.var \notin Elements => loop'.todo = {},
         NEW back, loop'.back = back, back => kind \in {"TAILQ", "CIRCLEQ"},
         NEW h, loop'.head = h,
         NEW p \in 1 .. Len(list[h]), Cursor' = At(h, p), At(h, p) \in Elements,
         \A x \in loop'.todo : \E j \in 1 .. Len(list[h]) :
           At(h, j) = x /\ (Past(back, j, p) \/ (loop'.safe /\ j = p))
  PROVE  LoopInv'
<1>1. /\ Len(list'[h]) = Len(list[h])
      /\ \A j : At(h, j)' = At(h, j)
      /\ kind' = kind
  BY StillKeeps DEF Still
<1>2. \A j : ToCome(j, p)' <=> Past(back, j, p) \/ (loop'.safe /\ j = p)
  BY DEF ToCome, Past
<1>3. StandsAt(p)'
  BY <1>1, <1>2 DEF StandsAt
<1> QED
  BY <1>1, <1>3 DEF LoopInv

\* The initialization of a FOREACH, if first is what its direction starts from.
LEMMA BeginPlain ==
  ASSUME Inv, Still, NEW h \in Heads, NEW back \in BOOLEAN,
         back => kind \in {"TAILQ", "CIRCLEQ"},
         NEW first, Reads(h, Start(h, back), first),
         Begin(h, FALSE, back, first, Null)
  PROVE  Inv' /\ StaysInList
<1>1. /\ ListsOK /\ LoopInv /\ Len(list[h]) \in Nat
      /\ \A j \in 1 .. Len(list[h]) : At(h, j) \in Elements
  BY AtIsOwner DEF Inv, Shape
<1>2. /\ loop'.head = h /\ loop'.var = first /\ loop'.tvar = Null
      /\ loop'.todo = ToSet(list[h]) \ {first}
      /\ loop'.back = back /\ loop'.safe = FALSE
  BY DEF Begin
<1>3. ToSet(list[h]) \subseteq Elements
  BY <1>1, ToSetIs
<1>4. loop' \in Loop
  <2>1. first \in Values /\ Null \in Values /\ ToSet(list[h]) \ {first} \subseteq Elements
    BY <1>3 DEF Reads, Values
  <2> QED
    BY <2>1 DEF Begin, Loop
<1>5. Cursor' = first
  BY <1>2 DEF Cursor
<1>6. InLoop'
  BY <1>2, OwnersAssumption DEF InLoop, Owners
<1>7. first # Garbage /\ Null # Garbage /\ Null \notin Elements
  BY OwnersAssumption DEF Reads, Owners
<1>8. CASE Start(h, back) \in 1 .. Len(list[h])
  <2>1. first = At(h, Start(h, back)) /\ first \in Elements
    BY <1>1, <1>8 DEF Reads
  <2>2. ASSUME NEW x \in loop'.todo
        PROVE  \E j \in 1 .. Len(list[h]) : At(h, j) = x /\ Past(back, j, Start(h, back))
    <3>1. PICK j \in 1 .. Len(list[h]) : At(h, j) = x /\ x # first
      BY <1>1, <1>2, <2>2, ToSetIs
    <3> QED
      BY <1>1, <2>1, <3>1, StartOff
  <2>3. LoopInv'
    BY <1>2, <1>4, <1>5, <1>6, <1>7, <1>8, <2>1, <2>2, Standing
  <2> QED
    BY <1>1, <1>2, <1>8, <2>1, <2>3, StillKeeps, ToSetIs DEF Inv, StaysInList
<1>9. CASE Start(h, back) \notin 1 .. Len(list[h])
  <2>1. first \notin Elements /\ ToSet(list[h]) = {}
    BY <1>1, <1>9, StartOff, ToSetIs DEF Reads
  <2>2. LoopInv'
    BY <1>2, <1>4, <1>5, <1>6, <1>7, <2>1 DEF LoopInv, Still
  <2> QED
    BY <1>2, <1>7, <2>1, <2>2, StillKeeps DEF Inv, StaysInList
<1> QED
  BY <1>8, <1>9

\* The initialization of a FOREACH_SAFE, if also tvar is what follows first.
LEMMA BeginSafe ==
  ASSUME Inv, Still, NEW h \in Heads, NEW back \in BOOLEAN,
         back => kind \in {"TAILQ", "CIRCLEQ"},
         NEW first, Reads(h, Start(h, back), first),
         NEW ahead, Reads(h, Step(back, Start(h, back)), ahead),
         ahead \in Elements \union {Null},
         Begin(h, TRUE, back, first, ahead)
  PROVE  Inv' /\ StaysInList
<1>1. /\ ListsOK /\ LoopInv /\ Len(list[h]) \in Nat
      /\ \A j \in 1 .. Len(list[h]) : At(h, j) \in Elements
  BY AtIsOwner DEF Inv, Shape
<1>2. /\ loop'.head = h /\ loop'.var = first /\ loop'.tvar = ahead
      /\ loop'.todo = ToSet(list[h]) \ {first}
      /\ loop'.back = back /\ loop'.safe = TRUE
  BY DEF Begin
<1>3. ToSet(list[h]) \subseteq Elements
  BY <1>1, ToSetIs
<1>4. loop' \in Loop
  <2>1. first \in Values /\ ahead \in Values /\ ToSet(list[h]) \ {first} \subseteq Elements
    BY <1>3 DEF Reads
  <2> QED
    BY <2>1 DEF Begin, Loop
<1>5. Cursor' = ahead
  BY <1>2 DEF Cursor
<1>6. InLoop'
  BY <1>2, OwnersAssumption DEF InLoop, Owners
<1>7. first # Garbage /\ ahead # Garbage
  BY DEF Reads
<1>8. ASSUME NEW x \in loop'.todo
      PROVE  \E j \in 1 .. Len(list[h]) :
               /\ At(h, j) = x
               /\ Start(h, back) \in 1 .. Len(list[h]) /\ Past(back, j, Start(h, back))
  <2>1. PICK j \in 1 .. Len(list[h]) : At(h, j) = x /\ x # first
    BY <1>1, <1>2, <1>8, ToSetIs
  <2>2. Start(h, back) \in 1 .. Len(list[h])
    BY <1>1, <2>1, StartOff
  <2>3. first = At(h, Start(h, back))
    BY <2>2 DEF Reads
  <2> QED
    BY <1>1, <2>1, <2>2, <2>3, StartOff
<1>9. first \notin Elements => loop'.todo = {}
  BY <1>1, <1>8 DEF Reads
<1>10. first \in Elements => first \in ToSet(list[h])
  BY <1>1, ToSetIs DEF Reads
<1>11. CASE Step(back, Start(h, back)) \in 1 .. Len(list[h])
  <2>1. PICK q \in 1 .. Len(list[h]) : q = Step(back, Start(h, back))
    BY <1>11
  <2>2. ahead = At(h, q) /\ ahead \in Elements
    BY <1>1, <2>1 DEF Reads
  <2>3. ASSUME NEW x \in loop'.todo
        PROVE  \E j \in 1 .. Len(list[h]) :
                 At(h, j) = x /\ (Past(back, j, q) \/ (loop'.safe /\ j = q))
    <3>1. PICK j \in 1 .. Len(list[h]) :
             /\ At(h, j) = x
             /\ Start(h, back) \in 1 .. Len(list[h]) /\ Past(back, j, Start(h, back))
      BY <1>8, <2>3
    <3>2. j # q => Past(back, j, q)
      BY <1>1, <2>1, <3>1, StepOn
    <3> QED
      BY <1>2, <3>1, <3>2
  <2>4. LoopInv'
    BY <1>2, <1>4, <1>5, <1>6, <1>7, <1>9, <2>2, <2>3, Standing
  <2> QED
    BY <1>2, <1>7, <1>10, <2>4, StillKeeps DEF Inv, StaysInList
<1>12. CASE Step(back, Start(h, back)) \notin 1 .. Len(list[h])
  <2>1. ahead \notin Elements /\ loop'.todo = {}
    BY <1>1, <1>8, <1>12, StepOn DEF Reads
  <2>2. LoopInv'
    BY <1>2, <1>4, <1>5, <1>6, <1>7, <2>1 DEF LoopInv, Still
  <2> QED
    BY <1>2, <1>7, <1>10, <2>2, StillKeeps DEF Inv, StaysInList
<1> QED
  BY <1>11, <1>12

\* Where the loop reads on, from whatever place it stands at.
ReadsOn(back, v) ==
  \A h \in Heads : loop.head = h =>
    \A p \in 1 .. Len(list[h]) : At(h, p) = Cursor => Reads(h, Step(back, p), v)

\* The increment of a loop changes var, tvar and what there is to visit.
LEMMA IterateFields ==
  ASSUME LoopInv, Still, NEW back, NEW safe, NEW next \in Values, NEW ahead \in Values,
         Iterate(safe, back, next, ahead)
  PROVE  /\ loop' \in Loop
         /\ loop'.head = loop.head /\ loop'.var = next /\ loop'.tvar = ahead
         /\ loop'.todo = loop.todo \ {next}
         /\ loop'.back = back /\ loop'.safe = safe
<1>1. loop \in Loop
  BY DEF LoopInv
<1>2. /\ loop.safe = safe /\ loop.back = back
      /\ loop' = [loop EXCEPT !.var = next, !.tvar = ahead, !.todo = loop.todo \ {next}]
  BY DEF Iterate
<1> QED
  BY <1>1, <1>2 DEF Loop

\* The increment of a FOREACH, if it reads what follows var in its direction.
LEMMA IteratePlain ==
  ASSUME Inv, Still, NEW back \in BOOLEAN, NEW next, ReadsOn(back, next),
         Iterate(FALSE, back, next, Null)
  PROVE  Inv' /\ StaysInList
<1>1. /\ ListsOK /\ LoopInv /\ loop.var \in Elements /\ loop.safe = FALSE /\ loop.back = back
      /\ back => kind \in {"TAILQ", "CIRCLEQ"}
  BY DEF Inv, Shape, LoopInv, Iterate
<1>2. Cursor = loop.var
  BY <1>1 DEF Cursor
<1>3. PICK p \in 1 .. Len(list[loop.head]) : InLoop /\ StandsAt(p)
  BY <1>1, <1>2 DEF LoopInv
<1>4. PICK h \in Heads : h = loop.head
  BY <1>1, <1>3 DEF LoopInv, Loop, InLoop
<1>5. /\ Len(list[h]) \in Nat
      /\ \A j \in 1 .. Len(list[h]) : At(h, j) \in Elements
      /\ At(h, p) = Cursor
  BY <1>1, <1>3, <1>4, AtIsOwner DEF StandsAt
<1>6. Reads(h, Step(back, p), next)
  BY <1>3, <1>4, <1>5 DEF ReadsOn
<1>7. next \in Values /\ next # Garbage /\ Null \in Values /\ Null # Garbage
      /\ Null \notin Elements
  BY <1>6, OwnersAssumption DEF Reads, Values, Owners
<1>8. /\ loop' \in Loop
      /\ loop'.head = h /\ loop'.var = next /\ loop'.tvar = Null
      /\ loop'.todo = loop.todo \ {next}
      /\ loop'.back = back /\ loop'.safe = FALSE
  BY <1>1, <1>4, <1>7, IterateFields
<1>9. Cursor' = next /\ InLoop'
  BY <1>3, <1>4, <1>8 DEF Cursor, InLoop
<1>10. ASSUME NEW x \in loop.todo
       PROVE  \E j \in 1 .. Len(list[h]) : At(h, j) = x /\ Past(back, j, p)
  BY <1>1, <1>3, <1>4 DEF StandsAt, ToCome
<1>11. CASE Step(back, p) \in 1 .. Len(list[h])
  <2>1. PICK q \in 1 .. Len(list[h]) : q = Step(back, p)
    BY <1>11
  <2>2. next = At(h, q) /\ next \in Elements
    BY <1>5, <1>6, <2>1 DEF Reads
  <2>3. ASSUME NEW x \in loop'.todo
        PROVE  \E j \in 1 .. Len(list[h]) : At(h, j) = x /\ Past(back, j, q)
    <3>1. PICK j \in 1 .. Len(list[h]) : At(h, j) = x /\ Past(back, j, p) /\ x # next
      BY <1>8, <1>10, <2>3
    <3>2. j # q => Past(back, j, q)
      BY <1>3, <1>4, <1>5, <2>1, <3>1, StepOn
    <3> QED
      BY <2>2, <3>1, <3>2
  <2>4. LoopInv'
    BY <1>1, <1>7, <1>8, <1>9, <2>2, <2>3, Standing
  <2>5. next \in ToSet(list[h])
    BY <1>1, <2>2, ToSetIs
  <2> QED
    BY <1>8, <2>4, <2>5, StillKeeps DEF Inv, StaysInList
<1>12. CASE Step(back, p) \notin 1 .. Len(list[h])
  <2>1. next \notin Elements /\ loop'.todo = {}
    BY <1>3, <1>4, <1>5, <1>6, <1>8, <1>10, <1>12, StepOn DEF Reads
  <2>2. LoopInv'
    BY <1>1, <1>7, <1>8, <1>9, <2>1 DEF LoopInv, Still
  <2> QED
    BY <1>7, <1>8, <2>1, <2>2, StillKeeps DEF Inv, StaysInList
<1> QED
  BY <1>11, <1>12

\* The increment of a FOREACH_SAFE: var becomes tvar, which is still in the list
\* whatever the body has removed, and tvar what follows it.
LEMMA IterateSafe ==
  ASSUME Inv, Still, NEW back \in BOOLEAN, NEW ahead,
         IF loop.tvar \in Elements THEN ReadsOn(back, ahead) ELSE ahead = Null,
         ahead \in Elements \union {Null},
         Iterate(TRUE, back, loop.tvar, ahead)
  PROVE  Inv' /\ StaysInList
<1>1. /\ ListsOK /\ LoopInv /\ loop.var \in Elements /\ loop.safe = TRUE /\ loop.back = back
      /\ back => kind \in {"TAILQ", "CIRCLEQ"}
      /\ loop.tvar \in Values /\ loop.tvar # Garbage
  <2>1. /\ ListsOK /\ LoopInv /\ loop.var \in Elements /\ loop.safe = TRUE /\ loop.back = back
        /\ back => kind \in {"TAILQ", "CIRCLEQ"}
    BY DEF Inv, Shape, LoopInv, Iterate
  <2>2. loop.tvar \in Elements \union {Null}
    BY DEF Inv, LoopInv
  <2> QED
    BY <2>1, <2>2, OwnersAssumption DEF Values, Owners
<1>2. Cursor = loop.tvar
  BY <1>1 DEF Cursor
<1>a. Null \in Values /\ Null # Garbage /\ Null \notin Elements
  BY OwnersAssumption DEF Values, Owners
<1>b. CASE loop.tvar \notin Elements
  <2>1. ahead = Null /\ loop.todo = {}
    BY <1>1, <1>2, <1>b DEF LoopInv
  <2>2. /\ loop' \in Loop
        /\ loop'.head = loop.head /\ loop'.var = loop.tvar /\ loop'.tvar = Null
        /\ loop'.todo = loop.todo \ {loop.tvar}
        /\ loop'.back = back /\ loop'.safe = TRUE
    BY <1>1, <1>a, <2>1, IterateFields
  <2>3. Cursor' = Null /\ loop'.todo = {}
    BY <2>1, <2>2 DEF Cursor
  <2>4. LoopInv'
    BY <1>1, <1>a, <1>b, <2>2, <2>3 DEF LoopInv, Still
  <2> QED
    BY <1>1, <1>b, <2>2, <2>4, StillKeeps DEF Inv, StaysInList
<1>c. CASE loop.tvar \in Elements
  <2>1. PICK p \in 1 .. Len(list[loop.head]) : InLoop /\ StandsAt(p)
    BY <1>1, <1>2, <1>c DEF LoopInv
  <2>2. PICK h \in Heads : h = loop.head
    BY <1>1, <2>1 DEF LoopInv, Loop, InLoop
  <2>3. /\ Len(list[h]) \in Nat
        /\ \A j \in 1 .. Len(list[h]) : At(h, j) \in Elements
        /\ At(h, p) = Cursor
    BY <1>1, <2>1, <2>2, AtIsOwner DEF StandsAt
  <2>4. Reads(h, Step(back, p), ahead)
    BY <1>c, <2>1, <2>2, <2>3 DEF ReadsOn
  <2>5. ahead \in Values /\ ahead # Garbage
    BY <2>4 DEF Reads
  <2>6. /\ loop' \in Loop
        /\ loop'.head = h /\ loop'.var = loop.tvar /\ loop'.tvar = ahead
        /\ loop'.todo = loop.todo \ {loop.tvar}
        /\ loop'.back = back /\ loop'.safe = TRUE
    BY <1>1, <2>2, <2>5, IterateFields
  <2>7. Cursor' = ahead /\ InLoop'
    BY <2>1, <2>2, <2>6 DEF Cursor, InLoop
  <2>8. ASSUME NEW x \in loop'.todo
        PROVE  \E j \in 1 .. Len(list[h]) : At(h, j) = x /\ Past(back, j, p)
    <3>1. PICK j \in 1 .. Len(list[h]) : At(h, j) = x /\ ToCome(j, p) /\ x # Cursor
      BY <1>2, <2>1, <2>2, <2>6, <2>8 DEF StandsAt
    <3> QED
      BY <1>1, <2>3, <3>1 DEF ToCome
  <2>9. loop.tvar \in ToSet(list[h])
    BY <1>1, <1>2, <2>1, <2>2, <2>3, ToSetIs
  <2>10. CASE Step(back, p) \in 1 .. Len(list[h])
    <3>1. PICK q \in 1 .. Len(list[h]) : q = Step(back, p)
      BY <2>10
    <3>2. ahead = At(h, q) /\ ahead \in Elements
      BY <2>3, <2>4, <3>1 DEF Reads
    <3>3. ASSUME NEW x \in loop'.todo
          PROVE  \E j \in 1 .. Len(list[h]) :
                   At(h, j) = x /\ (Past(back, j, q) \/ (loop'.safe /\ j = q))
      <4>1. PICK j \in 1 .. Len(list[h]) : At(h, j) = x /\ Past(back, j, p)
        BY <2>8, <3>3
      <4>2. j # q => Past(back, j, q)
        BY <2>1, <2>2, <2>3, <3>1, <4>1, StepOn
      <4> QED
        BY <2>6, <4>1, <4>2
    <3>4. LoopInv'
      BY <1>1, <1>c, <2>5, <2>6, <2>7, <3>2, <3>3, Standing
    <3> QED
      BY <2>6, <2>9, <3>4, StillKeeps DEF Inv, StaysInList
  <2>11. CASE Step(back, p) \notin 1 .. Len(list[h])
    <3>1. ahead \notin Elements /\ loop'.todo = {}
      BY <2>1, <2>2, <2>3, <2>4, <2>8, <2>11, StepOn DEF Reads
    <3>2. LoopInv'
      BY <1>1, <1>c, <2>5, <2>6, <2>7, <3>1 DEF LoopInv, Still
    <3> QED
      BY <2>6, <2>9, <3>2, StillKeeps DEF Inv, StaysInList
  <2> QED
    BY <2>10, <2>11
<1> QED
  BY <1>b, <1>c

\* Following a forward pointer reads toward the next place.
LEMMA NextReads ==
  ASSUME ListsOK, Forward, NEW h \in Heads, NEW p \in 0 .. Len(list[h])
  PROVE  /\ Reads(h, p + 1, mem.next[At(h, p)])
         /\ p = 0 => At(h, p) = h
         /\ Step(FALSE, p) = p + 1
         /\ kind # "CIRCLEQ" => mem.next[At(h, p)] \in Elements \union {Null}
<1>1. PICK n \in Nat : n = Len(list[h]) /\ p \in 0 .. n
  BY AtIsOwner
<1>2. mem.next[At(h, p)] = At(h, p + 1)
  BY DEF Forward
<1>3. CASE p # n
  <2>1. p + 1 \in 1 .. Len(list[h]) 
    BY <1>1, <1>3
  <2>2. At(h, p + 1) \in Elements
    BY <2>1, AtIsOwner
  <2>3. At(h, p + 1) \in Values \ {Garbage}
    BY <2>2, OwnersAssumption DEF Values, Owners
  <2> QED
    BY <1>2, <2>1, <2>3, AtIsOwner DEF Reads, Step
<1>4. CASE p = n
  <2>1. p + 1 \notin 1 .. Len(list[h]) /\ At(h, p + 1) = End(h)
    BY <1>1, <1>4, AtIsOwner
  <2> QED
    BY <1>2, <2>1, EndIsNoElement, AtIsOwner DEF Reads, Step, End
<1> QED
  BY <1>1, <1>3, <1>4

\* The FOREACH macros of all six families keep the invariant and step on no
\* element outside the list.
LEMMA ForEachKeeps ==
  ASSUME Inv, ForEach, UNCHANGED <<kind, moved>>
  PROVE  Inv' /\ StaysInList
<1>1. ListsOK /\ Forward
  BY DEF Inv, Shape
<1>2. ASSUME NEW h \in Heads, Begin(h, FALSE, FALSE, mem.next[h], Null)
      PROVE  Inv' /\ StaysInList
  <2>1. Still
    BY <1>2 DEF Begin, Still
  <2>2. 0 \in 0 .. Len(list[h]) /\ 0 + 1 = 1
    BY <1>1, AtIsOwner
  <2>3. Reads(h, Start(h, FALSE), mem.next[h])
    BY <1>1, <2>2, NextReads DEF Start
  <2> QED
    BY <1>2, <2>1, <2>3, BeginPlain
<1>3. ASSUME Iterate(FALSE, FALSE, mem.next[loop.var], Null)
      PROVE  Inv' /\ StaysInList
  <2>1. Still /\ Cursor = loop.var
    BY <1>3 DEF Iterate, Still, Cursor
  <2>2. ReadsOn(FALSE, mem.next[loop.var])
    <3>1. ASSUME NEW h \in Heads, NEW p \in 1 .. Len(list[h]), At(h, p) = Cursor
          PROVE  Reads(h, Step(FALSE, p), mem.next[loop.var])
      <4>1. p \in 0 .. Len(list[h])
        OBVIOUS
      <4> QED
        BY <1>1, <2>1, <3>1, <4>1, NextReads
    <3> QED
      BY <3>1 DEF ReadsOn
  <2> QED
    BY <1>3, <2>1, <2>2, IteratePlain
<1> QED
  BY <1>2, <1>3 DEF ForEach

\* So do the _SAFE loops; CIRCLEQ has none.
LEMMA ForEachSafeKeeps ==
  ASSUME Inv, kind # "CIRCLEQ", ForEachSafe, UNCHANGED <<kind, moved>>
  PROVE  Inv' /\ StaysInList
<1>1. /\ ListsOK /\ Forward
      /\ Null \in Values \ {Garbage} /\ Null \notin Elements
  BY OwnersAssumption DEF Inv, Shape, Values, Owners
<1>2. ASSUME NEW h \in Heads, Begin(h, TRUE, FALSE, mem.next[h], Ahead(mem.next[h]))
      PROVE  Inv' /\ StaysInList
  <2>1. Still
    BY <1>2 DEF Begin, Still
  <2>2. PICK n \in Nat : n = Len(list[h])
    BY <1>1, AtIsOwner
  <2>3. 0 \in 0 .. Len(list[h]) /\ 0 + 1 = 1
    BY <2>2
  <2>4. Reads(h, 1, mem.next[h])
    BY <1>1, <2>3, NextReads
  <2>5. Reads(h, 2, Ahead(mem.next[h])) /\ Ahead(mem.next[h]) \in Elements \union {Null}
    <3>1. CASE n = 0
      <4>1. 1 \notin 1 .. Len(list[h]) /\ 2 \notin 1 .. Len(list[h])
        BY <2>2, <3>1
      <4> QED
        BY <1>1, <2>4, <4>1 DEF Reads, Ahead
    <3>2. CASE n # 0
      <4>1. 1 \in 1 .. Len(list[h]) /\ 1 \in 0 .. Len(list[h]) /\ 1 + 1 = 2
        BY <2>2, <3>2
      <4>2. mem.next[h] = At(h, 1) /\ At(h, 1) \in Elements
        BY <1>1, <2>4, <4>1, AtIsOwner DEF Reads
      <4> QED
        BY <1>1, <4>1, <4>2, NextReads DEF Ahead
    <3> QED
      BY <3>1, <3>2
  <2>6. Start(h, FALSE) = 1 /\ Step(FALSE, 1) = 2
    BY DEF Start, Step
  <2> QED
    BY <1>2, <2>1, <2>4, <2>5, <2>6, BeginSafe
<1>3. ASSUME Iterate(TRUE, FALSE, loop.tvar, Ahead(loop.tvar))
      PROVE  Inv' /\ StaysInList
  <2>1. Still /\ Cursor = loop.tvar
    BY <1>3 DEF Iterate, Still, Cursor
  <2>2. ASSUME loop.tvar \in Elements PROVE ReadsOn(FALSE, Ahead(loop.tvar))
    <3>1. ASSUME NEW h \in Heads, NEW p \in 1 .. Len(list[h]), At(h, p) = Cursor
          PROVE  Reads(h, Step(FALSE, p), Ahead(loop.tvar))
      <4>1. p \in 0 .. Len(list[h])
        OBVIOUS
      <4> QED
        <5>1. Ahead(loop.tvar) = mem.next[At(h, p)]
          BY <2>1, <2>2, <3>1 DEF Ahead
        <5> QED
          BY <1>1, <4>1, <5>1, NextReads
    <3> QED
      BY <3>1 DEF ReadsOn
  <2>3. loop.tvar \notin Elements => Ahead(loop.tvar) = Null
    BY DEF Ahead
  <2>4. Ahead(loop.tvar) \in Elements \union {Null}
    <3>1. CASE loop.tvar \in Elements
      <4>1. PICK p \in 1 .. Len(list[loop.head]) : InLoop /\ StandsAt(p)
        BY <2>1, <3>1 DEF Inv, LoopInv
      <4>2. PICK h \in Heads : h = loop.head
        BY <4>1 DEF Inv, LoopInv, Loop, InLoop
      <4>3. p \in 0 .. Len(list[h]) /\ At(h, p) = loop.tvar
        BY <2>1, <4>1, <4>2 DEF StandsAt
      <4> QED
        BY <1>1, <3>1, <4>3, NextReads DEF Ahead
    <3> QED
      BY <2>3, <3>1
  <2> QED
    BY <1>3, <2>1, <2>2, <2>3, <2>4, IterateSafe
<1> QED
  BY <1>2, <1>3 DEF ForEachSafe

\* The end of a loop.
LEMMA LeaveKeeps ==
  ASSUME Inv, Leave, UNCHANGED <<kind, moved>>
  PROVE  Inv' /\ StaysInList
<1>1. Still /\ loop' = NoLoop
  BY DEF Leave, Still
<1>2. /\ loop'.head = Null /\ loop'.var = Null /\ loop'.tvar = Null /\ loop'.todo = {}
      /\ loop'.safe = FALSE /\ loop'.back = FALSE
  BY <1>1 DEF NoLoop
<1>3. Null \in Values /\ Null # Garbage /\ Null \notin Elements
  BY OwnersAssumption DEF Values, Owners
<1>4. loop' \in Loop
  BY <1>1, <1>3 DEF NoLoop, Loop
<1>5. Cursor' = Null
  BY <1>2 DEF Cursor
<1>6. LoopInv'
  BY <1>2, <1>3, <1>4, <1>5 DEF LoopInv
<1> QED
  BY <1>1, <1>2, <1>3, <1>6, StillKeeps DEF Inv, StaysInList

-----------------------------------------------------------------------------
(* Backward pointers: the two families with a loop in reverse order.         *)

\* What a program does with its SLISTs is what the operations of QueueMemory say.
LEMMA SinglyCalls ==
  /\ \A h, safe, back, v, t : SL!Begin(h, safe, back, v, t) => Begin(h, safe, back, v, t)
  /\ \A safe, back, v, t : SL!Iterate(safe, back, v, t) => Iterate(safe, back, v, t)
  /\ \A h, i, e, m : SL!Insert(h, i, e, m) => Insert(h, i, e, m)
  /\ \A h, i, m : SL!Remove1(h, i, m) => Remove1(h, i, m)
  /\ \A h, i, e, m : SL!Replace1(h, i, e, m) => Replace1(h, i, e, m)
  /\ \A h, m : SL!Reset(h, m) => Reset(h, m)
  /\ \A h, f, m : SL!Append2(h, f, m) => Append2(h, f, m)
  /\ SL!Free = Free /\ \A h : SL!Places(h) = Places(h)
  /\ SL!Leave => Leave
  /\ SL!ForEach => ForEach
  /\ SL!ForEachSafe => ForEachSafe
BY DEF Begin, SL!Begin, Iterate, SL!Iterate, Insert, SL!Insert, Remove1,
       SL!Remove1, Replace1, SL!Replace1, Reset, SL!Reset, Append2, SL!Append2,
       MayRemove, SL!MayRemove, Cursor, SL!Cursor, InLoop, SL!InLoop, Forget,
       SL!Forget, NotLooped, SL!NotLooped, ToSet, SL!ToSet, InsertAt, SL!InsertAt,
       RemoveAt, SL!RemoveAt, ForEach, SL!ForEach, ForEachSafe, SL!ForEachSafe,
       Ahead, SL!Ahead, Leave, SL!Leave, NoLoop, SL!NoLoop, Free, SL!Free, Places,
       SL!Places

\* What a program does with its LISTs is what the operations of QueueMemory say.
LEMMA ListCalls ==
  /\ \A h, safe, back, v, t : LL!Begin(h, safe, back, v, t) => Begin(h, safe, back, v, t)
  /\ \A safe, back, v, t : LL!Iterate(safe, back, v, t) => Iterate(safe, back, v, t)
  /\ \A h, i, e, m : LL!Insert(h, i, e, m) => Insert(h, i, e, m)
  /\ \A h, i, m : LL!Remove1(h, i, m) => Remove1(h, i, m)
  /\ \A h, i, e, m : LL!Replace1(h, i, e, m) => Replace1(h, i, e, m)
  /\ \A h, m : LL!Reset(h, m) => Reset(h, m)
  /\ \A h, f, m : LL!Append2(h, f, m) => Append2(h, f, m)
  /\ LL!Free = Free /\ \A h : LL!Places(h) = Places(h)
  /\ LL!Leave => Leave
  /\ LL!ForEach => ForEach
  /\ LL!ForEachSafe => ForEachSafe
BY DEF Begin, LL!Begin, Iterate, LL!Iterate, Insert, LL!Insert, Remove1,
       LL!Remove1, Replace1, LL!Replace1, Reset, LL!Reset, Append2, LL!Append2,
       MayRemove, LL!MayRemove, Cursor, LL!Cursor, InLoop, LL!InLoop, Forget,
       LL!Forget, NotLooped, LL!NotLooped, ToSet, LL!ToSet, InsertAt, LL!InsertAt,
       RemoveAt, LL!RemoveAt, ForEach, LL!ForEach, ForEachSafe, LL!ForEachSafe,
       Ahead, LL!Ahead, Leave, LL!Leave, NoLoop, LL!NoLoop, Free, LL!Free, Places,
       LL!Places

\* What a program does with its SIMPLEQs is what the operations of QueueMemory say.
LEMMA SimpleCalls ==
  /\ \A h, safe, back, v, t : SQ!Begin(h, safe, back, v, t) => Begin(h, safe, back, v, t)
  /\ \A safe, back, v, t : SQ!Iterate(safe, back, v, t) => Iterate(safe, back, v, t)
  /\ \A h, i, e, m : SQ!Insert(h, i, e, m) => Insert(h, i, e, m)
  /\ \A h, i, m : SQ!Remove1(h, i, m) => Remove1(h, i, m)
  /\ \A h, i, e, m : SQ!Replace1(h, i, e, m) => Replace1(h, i, e, m)
  /\ \A h, m : SQ!Reset(h, m) => Reset(h, m)
  /\ \A h, f, m : SQ!Append2(h, f, m) => Append2(h, f, m)
  /\ SQ!Free = Free /\ \A h : SQ!Places(h) = Places(h)
  /\ SQ!Leave => Leave
  /\ SQ!ForEach => ForEach
  /\ SQ!ForEachSafe => ForEachSafe
BY DEF Begin, SQ!Begin, Iterate, SQ!Iterate, Insert, SQ!Insert, Remove1,
       SQ!Remove1, Replace1, SQ!Replace1, Reset, SQ!Reset, Append2, SQ!Append2,
       MayRemove, SQ!MayRemove, Cursor, SQ!Cursor, InLoop, SQ!InLoop, Forget,
       SQ!Forget, NotLooped, SQ!NotLooped, ToSet, SQ!ToSet, InsertAt, SQ!InsertAt,
       RemoveAt, SQ!RemoveAt, ForEach, SQ!ForEach, ForEachSafe, SQ!ForEachSafe,
       Ahead, SQ!Ahead, Leave, SQ!Leave, NoLoop, SQ!NoLoop, Free, SQ!Free, Places,
       SQ!Places

\* What a program does with its TAILQs is what the operations of QueueMemory say.
LEMMA TailCalls ==
  /\ \A h, safe, back, v, t : TQ!Begin(h, safe, back, v, t) => Begin(h, safe, back, v, t)
  /\ \A safe, back, v, t : TQ!Iterate(safe, back, v, t) => Iterate(safe, back, v, t)
  /\ \A h, i, e, m : TQ!Insert(h, i, e, m) => Insert(h, i, e, m)
  /\ \A h, i, m : TQ!Remove1(h, i, m) => Remove1(h, i, m)
  /\ \A h, i, e, m : TQ!Replace1(h, i, e, m) => Replace1(h, i, e, m)
  /\ \A h, m : TQ!Reset(h, m) => Reset(h, m)
  /\ \A h, f, m : TQ!Append2(h, f, m) => Append2(h, f, m)
  /\ TQ!Free = Free /\ \A h : TQ!Places(h) = Places(h)
  /\ TQ!Leave => Leave
  /\ TQ!ForEach => ForEach
  /\ TQ!ForEachSafe => ForEachSafe
BY DEF Begin, TQ!Begin, Iterate, TQ!Iterate, Insert, TQ!Insert, Remove1,
       TQ!Remove1, Replace1, TQ!Replace1, Reset, TQ!Reset, Append2, TQ!Append2,
       MayRemove, TQ!MayRemove, Cursor, TQ!Cursor, InLoop, TQ!InLoop, Forget,
       TQ!Forget, NotLooped, TQ!NotLooped, ToSet, TQ!ToSet, InsertAt, TQ!InsertAt,
       RemoveAt, TQ!RemoveAt, ForEach, TQ!ForEach, ForEachSafe, TQ!ForEachSafe,
       Ahead, TQ!Ahead, Leave, TQ!Leave, NoLoop, TQ!NoLoop, Free, TQ!Free, Places,
       TQ!Places

\* What a program does with its STAILQs is what the operations of QueueMemory say.
LEMMA STailCalls ==
  /\ \A h, safe, back, v, t : ST!Begin(h, safe, back, v, t) => Begin(h, safe, back, v, t)
  /\ \A safe, back, v, t : ST!Iterate(safe, back, v, t) => Iterate(safe, back, v, t)
  /\ \A h, i, e, m : ST!Insert(h, i, e, m) => Insert(h, i, e, m)
  /\ \A h, i, m : ST!Remove1(h, i, m) => Remove1(h, i, m)
  /\ \A h, i, e, m : ST!Replace1(h, i, e, m) => Replace1(h, i, e, m)
  /\ \A h, m : ST!Reset(h, m) => Reset(h, m)
  /\ \A h, f, m : ST!Append2(h, f, m) => Append2(h, f, m)
  /\ ST!Free = Free /\ \A h : ST!Places(h) = Places(h)
  /\ ST!Leave => Leave
  /\ ST!ForEach => ForEach
  /\ ST!ForEachSafe => ForEachSafe
BY DEF Begin, ST!Begin, Iterate, ST!Iterate, Insert, ST!Insert, Remove1,
       ST!Remove1, Replace1, ST!Replace1, Reset, ST!Reset, Append2, ST!Append2,
       MayRemove, ST!MayRemove, Cursor, ST!Cursor, InLoop, ST!InLoop, Forget,
       ST!Forget, NotLooped, ST!NotLooped, ToSet, ST!ToSet, InsertAt, ST!InsertAt,
       RemoveAt, ST!RemoveAt, ForEach, ST!ForEach, ForEachSafe, ST!ForEachSafe,
       Ahead, ST!Ahead, Leave, ST!Leave, NoLoop, ST!NoLoop, Free, ST!Free, Places,
       ST!Places

\* What a program does with its CIRCLEQs is what the operations of QueueMemory say.
LEMMA CircCalls ==
  /\ \A h, safe, back, v, t : CQ!Begin(h, safe, back, v, t) => Begin(h, safe, back, v, t)
  /\ \A safe, back, v, t : CQ!Iterate(safe, back, v, t) => Iterate(safe, back, v, t)
  /\ \A h, i, e, m : CQ!Insert(h, i, e, m) => Insert(h, i, e, m)
  /\ \A h, i, m : CQ!Remove1(h, i, m) => Remove1(h, i, m)
  /\ \A h, i, e, m : CQ!Replace1(h, i, e, m) => Replace1(h, i, e, m)
  /\ \A h, m : CQ!Reset(h, m) => Reset(h, m)
  /\ \A h, f, m : CQ!Append2(h, f, m) => Append2(h, f, m)
  /\ CQ!Free = Free /\ \A h : CQ!Places(h) = Places(h)
  /\ CQ!Leave => Leave
  /\ CQ!ForEach => ForEach
  /\ CQ!ForEachSafe => ForEachSafe
BY DEF Begin, CQ!Begin, Iterate, CQ!Iterate, Insert, CQ!Insert, Remove1,
       CQ!Remove1, Replace1, CQ!Replace1, Reset, CQ!Reset, Append2, CQ!Append2,
       MayRemove, CQ!MayRemove, Cursor, CQ!Cursor, InLoop, CQ!InLoop, Forget,
       CQ!Forget, NotLooped, CQ!NotLooped, ToSet, CQ!ToSet, InsertAt, CQ!InsertAt,
       RemoveAt, CQ!RemoveAt, ForEach, CQ!ForEach, ForEachSafe, CQ!ForEachSafe,
       Ahead, CQ!Ahead, Leave, CQ!Leave, NoLoop, CQ!NoLoop, Free, CQ!Free, Places,
       CQ!Places

\* TAILQ_LAST and TAILQ_PREV, which read an element's entry as if it were a head,
\* compute the last and the previous element.
LEMMA TailLast ==
  ASSUME Shape, kind = "TAILQ", NEW h \in Heads
  PROVE  /\ TQ!TAILQ_LAST(mem, h) =
              IF Len(list[h]) = 0 THEN Null ELSE At(h, Len(list[h]))
         /\ \A i \in 1 .. Len(list[h]) :
              TQ!TAILQ_PREV(mem, At(h, i)) = IF i = 1 THEN Null ELSE At(h, i - 1)
<1>1. /\ ListsOK /\ Forward /\ Lasts /\ End(h) = Null
      /\ \A i \in 1 .. Len(list[h]) : mem.prev[At(h, i)] = At(h, i - 1)
  BY DEF Shape, Doubly, Tailed, Backward, End
<1>2. PICK n \in Nat : n = Len(list[h])
  BY <1>1, AtIsOwner
<1>3. /\ At(h, 0) = h /\ At(h, n + 1) = Null /\ mem.prev[h] = At(h, n)
      /\ \A i \in 0 .. n : mem.next[At(h, i)] = At(h, i + 1)
      /\ \A i \in 1 .. n : mem.prev[At(h, i)] = At(h, i - 1)
  BY <1>1, <1>2, AtIsOwner DEF Lasts, Forward
<1>4. CASE n = 0
  <2>1. mem.prev[h] = h /\ mem.next[h] = Null
    BY <1>3, <1>4
  <2> QED
    BY <1>2, <1>4, <2>1 DEF TQ!TAILQ_LAST
<1>5. CASE n # 0
  <2>1. n \in 1 .. n /\ n - 1 \in 0 .. n /\ n - 1 + 1 = n /\ n \in 0 .. n
    BY <1>5
  <2>2. /\ mem.prev[At(h, n)] = At(h, n - 1) /\ mem.next[At(h, n - 1)] = At(h, n)
        /\ mem.next[At(h, n)] = Null
    BY <1>3, <2>1
  <2>3. TQ!TAILQ_LAST(mem, h) = At(h, n)
    BY <1>3, <2>2 DEF TQ!TAILQ_LAST
  <2>4. ASSUME NEW i \in 1 .. n
        PROVE  TQ!TAILQ_PREV(mem, At(h, i)) = IF i = 1 THEN Null ELSE At(h, i - 1)
    <3>1. mem.prev[At(h, i)] = At(h, i - 1)
      BY <1>3
    <3>2. CASE i = 1
      <4>1. At(h, i - 1) = h
        BY <1>3, <3>2
      <4> QED
        BY <1>3, <2>2, <3>1, <3>2, <4>1 DEF TQ!TAILQ_PREV
    <3>3. CASE i # 1
      <4>1. i - 1 \in 1 .. n /\ i - 1 - 1 \in 0 .. n /\ i - 1 - 1 + 1 = i - 1
        BY <3>3
      <4>2. mem.prev[At(h, i - 1)] = At(h, i - 1 - 1)
        BY <1>3, <4>1
      <4>3. mem.next[At(h, i - 1 - 1)] = At(h, i - 1)
        BY <1>3, <4>1
      <4> QED
        BY <3>1, <3>3, <4>2, <4>3 DEF TQ!TAILQ_PREV
    <3> QED
      BY <3>2, <3>3
  <2> QED
    BY <1>2, <1>5, <2>3, <2>4
<1> QED
  BY <1>4, <1>5

\* So the reverse loops of TAILQ read backward, place by place.
LEMMA TailReads ==
  ASSUME Shape, kind = "TAILQ", NEW h \in Heads
  PROVE  /\ Reads(h, Start(h, TRUE), TQ!TAILQ_LAST(mem, h))
         /\ TQ!TAILQ_LAST(mem, h) \in Elements \union {Null}
         /\ \A p \in 1 .. Len(list[h]) :
              /\ Reads(h, Step(TRUE, p), TQ!TAILQ_PREV(mem, At(h, p)))
              /\ TQ!TAILQ_PREV(mem, At(h, p)) \in Elements \union {Null}
<1>1. ListsOK /\ Null \in Values \ {Garbage} /\ Null \notin Elements
  BY OwnersAssumption DEF Shape, Values, Owners
<1>2. PICK n \in Nat : n = Len(list[h])
  BY <1>1, AtIsOwner
<1>3. \A j \in 1 .. n : At(h, j) \in Elements /\ At(h, j) \in Values \ {Garbage}
  BY <1>1, <1>2, AtIsOwner, OwnersAssumption DEF Values, Owners
<1>4. /\ TQ!TAILQ_LAST(mem, h) = IF n = 0 THEN Null ELSE At(h, n)
      /\ \A i \in 1 .. n :
            TQ!TAILQ_PREV(mem, At(h, i)) = IF i = 1 THEN Null ELSE At(h, i - 1)
  BY <1>1, <1>2, TailLast
<1>5. n \in 1 .. n <=> n # 0
  OBVIOUS
<1>6. Reads(h, n, TQ!TAILQ_LAST(mem, h)) /\ TQ!TAILQ_LAST(mem, h) \in Elements \union {Null}
  BY <1>1, <1>2, <1>3, <1>4, <1>5 DEF Reads
<1>7. ASSUME NEW p \in 1 .. n
      PROVE  /\ Reads(h, p - 1, TQ!TAILQ_PREV(mem, At(h, p)))
             /\ TQ!TAILQ_PREV(mem, At(h, p)) \in Elements \union {Null}
  <2>1. p - 1 \in 1 .. n <=> p # 1
    OBVIOUS
  <2> QED
    BY <1>1, <1>2, <1>3, <1>4, <2>1 DEF Reads
<1> QED
  BY <1>2, <1>6, <1>7 DEF Start, Step

\* TAILQ_FOREACH_REVERSE keeps the invariant.
LEMMA TailReverseKeeps ==
  ASSUME Inv, kind = "TAILQ", TQ!TAILQ_FOREACH_REVERSE, UNCHANGED <<kind, moved>>
  PROVE  Inv' /\ StaysInList
<1>1. Shape
  BY DEF Inv
<1>2. ASSUME NEW h \in Heads, Begin(h, FALSE, TRUE, TQ!TAILQ_LAST(mem, h), Null)
      PROVE  Inv' /\ StaysInList
  <2>1. Still
    BY <1>2 DEF Begin, Still
  <2> QED
    BY <1>1, <1>2, <2>1, TailReads, BeginPlain
<1>3. ASSUME Iterate(FALSE, TRUE, TQ!TAILQ_PREV(mem, loop.var), Null)
      PROVE  Inv' /\ StaysInList
  <2>1. Still /\ Cursor = loop.var
    BY <1>3 DEF Iterate, Still, Cursor
  <2>2. ReadsOn(TRUE, TQ!TAILQ_PREV(mem, loop.var))
    BY <1>1, <2>1, TailReads DEF ReadsOn
  <2> QED
    BY <1>3, <2>1, <2>2, IteratePlain
<1> QED
  BY <1>2, <1>3, TailCalls DEF TQ!TAILQ_FOREACH_REVERSE

\* TAILQ_FOREACH_REVERSE_SAFE keeps it too.
LEMMA TailReverseSafeKeeps ==
  ASSUME Inv, kind = "TAILQ", TQ!TAILQ_FOREACH_REVERSE_SAFE, UNCHANGED <<kind, moved>>
  PROVE  Inv' /\ StaysInList
<1>1. /\ Shape /\ ListsOK /\ Null \in Values \ {Garbage} /\ Null \notin Elements
  BY OwnersAssumption DEF Inv, Shape, Values, Owners
<1>2. ASSUME NEW h \in Heads,
             Begin(h, TRUE, TRUE, TQ!TAILQ_LAST(mem, h), TQ!Behind(TQ!TAILQ_LAST(mem, h)))
      PROVE  Inv' /\ StaysInList
  <2>1. Still
    BY <1>2 DEF Begin, Still
  <2>2. PICK n \in Nat : n = Len(list[h])
    BY <1>1, AtIsOwner
  <2>3. Start(h, TRUE) = n /\ Step(TRUE, n) = n - 1
    BY <2>2 DEF Start, Step
  <2>4. CASE n = 0
    <3>1. TQ!TAILQ_LAST(mem, h) = Null
      BY <1>1, <2>2, <2>4, TailLast
    <3>2. TQ!Behind(TQ!TAILQ_LAST(mem, h)) = Null
      BY <3>1 DEF TQ!Behind, TQ!TAILQ_END
    <3>3. n - 1 \notin 1 .. Len(list[h])
      BY <2>2, <2>4
    <3>4. Reads(h, n - 1, Null)
      BY <1>1, <3>3 DEF Reads
    <3> QED
      BY <1>1, <1>2, <2>1, <2>3, <3>2, <3>4, TailReads, BeginSafe
  <2>5. CASE n # 0
    <3>1. TQ!TAILQ_LAST(mem, h) = At(h, n) /\ n \in 1 .. Len(list[h])
      BY <1>1, <2>2, <2>5, TailLast
    <3>2. TQ!Behind(TQ!TAILQ_LAST(mem, h)) = TQ!TAILQ_PREV(mem, At(h, n))
      BY <1>1, <3>1, AtIsOwner DEF TQ!Behind, TQ!TAILQ_END
    <3>3. /\ Reads(h, n - 1, TQ!TAILQ_PREV(mem, At(h, n)))
          /\ TQ!TAILQ_PREV(mem, At(h, n)) \in Elements \union {Null}
      BY <1>1, <2>3, <3>1, TailReads
    <3> QED
      BY <1>1, <1>2, <2>1, <2>3, <3>2, <3>3, TailReads, BeginSafe
  <2> QED
    BY <2>4, <2>5
<1>3. ASSUME Iterate(TRUE, TRUE, loop.tvar, TQ!Behind(loop.tvar))
      PROVE  Inv' /\ StaysInList
  <2>1. Still /\ Cursor = loop.tvar /\ LoopInv /\ loop.tvar \in Elements \union {Null}
    BY <1>3 DEF Iterate, Still, Cursor, Inv, LoopInv
  <2>2. CASE loop.tvar \in Elements
    <3>1. TQ!Behind(loop.tvar) = TQ!TAILQ_PREV(mem, loop.tvar)
      BY <1>1, <2>2 DEF TQ!Behind, TQ!TAILQ_END
    <3>2. ReadsOn(TRUE, TQ!TAILQ_PREV(mem, loop.tvar))
      BY <1>1, <2>1, TailReads DEF ReadsOn
    <3>3. TQ!TAILQ_PREV(mem, loop.tvar) \in Elements \union {Null}
      <4>1. PICK p \in 1 .. Len(list[loop.head]) : InLoop /\ StandsAt(p)
        BY <2>1, <2>2 DEF LoopInv
      <4>2. PICK h \in Heads : h = loop.head
        BY <2>1, <4>1 DEF LoopInv, Loop, InLoop
      <4>3. p \in 1 .. Len(list[h]) /\ At(h, p) = loop.tvar
        BY <2>1, <4>1, <4>2 DEF StandsAt
      <4> QED
        BY <1>1, <4>3, TailReads
    <3> QED
      BY <1>3, <2>1, <2>2, <3>1, <3>2, <3>3, IterateSafe
  <2>3. CASE loop.tvar = Null
    <3>1. TQ!Behind(loop.tvar) = Null
      BY <2>3 DEF TQ!Behind, TQ!TAILQ_END
    <3> QED
      BY <1>1, <1>3, <2>1, <2>3, <3>1, IterateSafe
  <2> QED
    BY <2>1, <2>2, <2>3
<1> QED
  BY <1>2, <1>3, TailCalls DEF TQ!TAILQ_FOREACH_REVERSE_SAFE

\* CIRCLEQ_FOREACH_REVERSE keeps it too.
LEMMA CircReverseKeeps ==
  ASSUME Inv, kind = "CIRCLEQ", CQ!CIRCLEQ_FOREACH_REVERSE, UNCHANGED <<kind, moved>>
  PROVE  Inv' /\ StaysInList
<1>1. Shape /\ ListsOK
  BY DEF Inv, Shape
<1>2. ASSUME NEW h \in Heads
      PROVE  /\ Reads(h, Start(h, TRUE), mem.prev[h])
             /\ \A p \in 1 .. Len(list[h]) : Reads(h, Step(TRUE, p), mem.prev[At(h, p)])
  <2>1. /\ mem.prev[h] = At(h, Len(list[h])) /\ moved = {}
        /\ \A p \in 1 .. Len(list[h]) : mem.prev[At(h, p)] = At(h, p - 1)
    BY <1>1 DEF Shape, Doubly, Tailed, Backward, Lasts
  <2>2. PICK n \in Nat : n = Len(list[h])
    BY <1>1, AtIsOwner
  <2>3. /\ At(h, 0) = h /\ h \in Values \ {Garbage} /\ h \notin Elements
        /\ \A j \in 1 .. n : At(h, j) \in Values \ {Garbage}
    BY <1>1, <2>2, AtIsOwner, OwnersAssumption DEF Values, Owners
  <2>4. \A j \in 0 .. n : j \in 1 .. n \/ j = 0
    OBVIOUS
  <2>5. \A j \in 0 .. n : Reads(h, j, At(h, j))
    BY <2>2, <2>3, <2>4 DEF Reads
  <2>6. n \in 0 .. n /\ \A p \in 1 .. n : p - 1 \in 0 .. n
    OBVIOUS
  <2> QED
    BY <2>1, <2>2, <2>5, <2>6 DEF Start, Step
<1>3. ASSUME NEW h \in Heads, Begin(h, FALSE, TRUE, mem.prev[h], Null)
      PROVE  Inv' /\ StaysInList
  <2>1. Still
    BY <1>3 DEF Begin, Still
  <2> QED
    BY <1>2, <1>3, <2>1, BeginPlain
<1>4. ASSUME Iterate(FALSE, TRUE, mem.prev[loop.var], Null)
      PROVE  Inv' /\ StaysInList
  <2>1. Still /\ Cursor = loop.var
    BY <1>4 DEF Iterate, Still, Cursor
  <2>2. ReadsOn(TRUE, mem.prev[loop.var])
    BY <1>2, <2>1 DEF ReadsOn
  <2> QED
    BY <1>4, <2>1, <2>2, IteratePlain
<1> QED
  BY <1>3, <1>4, CircCalls
     DEF CQ!CIRCLEQ_FOREACH_REVERSE, CQ!CIRCLEQ_LAST, CQ!CIRCLEQ_PREV

-----------------------------------------------------------------------------
(* The search of _REMOVE in the singly linked families.                      *)

\* The order of the numbers, as a relation.
Below == {p \in Nat \X Nat : p[1] < p[2]}

\* A set of numbers has a least one.
LEMMA Least ==
  ASSUME NEW T, T \subseteq Nat, T # {}
  PROVE  \E x \in T : \A y \in T : x <= y
<1>1. IsWellFoundedOn(Below, Nat)
  BY NatLessThanWellFounded DEF OpToRel, Below
<1>2. PICK x \in T : \A y \in T : <<y, x>> \notin Below
  BY <1>1, WFMin
<1>3. \A y \in T : ~(y < x)
  <2> SUFFICES ASSUME NEW y \in T, y < x PROVE FALSE
    OBVIOUS
  <2>1. <<y, x>> \in Nat \X Nat /\ <<y, x>>[1] = y /\ <<y, x>>[2] = x
    OBVIOUS
  <2>2. <<y, x>> \in Below
    BY ONLY <2>1, y < x DEF Below
  <2> QED
    BY <2>2, <1>2
<1> QED
  BY <1>3

\* That g says what curelm is after every round of the while loop.
Follows(g, m, first, e) ==
  /\ g \in [Nat -> Elements] /\ g[0] = first
  /\ \A n \in Nat \ {0} :
       g[n] = IF m.next[g[n - 1]] = e THEN g[n - 1] ELSE m.next[g[n - 1]]

\* What the rounds of the while loop leave in curelm is what any function that
\* follows them round by round says.
LEMMA RoundsAre ==
  ASSUME NEW m, NEW first, NEW e, NEW g, Follows(g, m, first, e)
  PROVE  Before(m, first, e) = g[Cardinality(Elements)]
<1> DEFINE Rounds(c) == [n \in Nat |-> IF n = 0 THEN first
                                       ELSE IF m.next[c[n - 1]] = e THEN c[n - 1]
                                       ELSE m.next[c[n - 1]]]
<1>0. /\ g = [n \in Nat |-> g[n]] /\ g[0] = first
      /\ \A n \in Nat \ {0} :
           g[n] = IF m.next[g[n - 1]] = e THEN g[n - 1] ELSE m.next[g[n - 1]]
  BY DEF Follows
<1>1. g = Rounds(g)
  BY <1>0, Zenon
<1>2. \A c : c = Rounds(c) => c = g
  <2> SUFFICES ASSUME NEW c, c = Rounds(c) PROVE c = g
    OBVIOUS
  <2>1. /\ \A n \in Nat : c[n] = IF n = 0 THEN first
                                 ELSE IF m.next[c[n - 1]] = e THEN c[n - 1]
                                 ELSE m.next[c[n - 1]]
        /\ c = [n \in Nat |-> c[n]]
    BY Zenon
  <2>2. SUFFICES ASSUME {k \in Nat : c[k] # g[k]} # {} PROVE FALSE
    BY <1>0, <2>1
  <2>3. PICK n \in {k \in Nat : c[k] # g[k]} : \A y \in {k \in Nat : c[k] # g[k]} : n <= y
    BY <2>2, Least
  <2>4. n \in Nat /\ c[n] # g[n] /\ \A y \in Nat : c[y] # g[y] => n <= y
    BY <2>3
  <2>5. n # 0
    BY <1>0, <2>1, <2>4
  <2>6. n \in Nat \ {0} /\ n - 1 \in Nat /\ c[n - 1] = g[n - 1]
    BY <2>4, <2>5
  <2>7. c[n] = IF m.next[c[n - 1]] = e THEN c[n - 1] ELSE m.next[c[n - 1]]
    BY <2>1, <2>4, <2>5
  <2>8. g[n] = IF m.next[g[n - 1]] = e THEN g[n - 1] ELSE m.next[g[n - 1]]
    BY <1>0, <2>6
  <2> QED
    BY <2>4, <2>6, <2>7, <2>8
<1> QED
  BY <1>1, <1>2 DEF Before

\* A list has no more places than there are elements.
LEMMA ListIsShort ==
  ASSUME ListsOK, NEW h \in Heads
  PROVE  Cardinality(Elements) \in Nat /\ Len(list[h]) <= Cardinality(Elements)
<1>1. IsFiniteSet(Elements) /\ Cardinality(Elements) \in Nat
  BY OwnersAssumption, FS_CardinalityType
<1>2. PICK n \in Nat : n = Len(list[h])
  BY PlacesAre
<1>3. SUFFICES ASSUME Cardinality(Elements) < n PROVE FALSE
  BY <1>1, <1>2
<1>4. IsFiniteSet(1 .. n) /\ Cardinality(1 .. n) = n
  <2>1. 1 \in Int /\ n \in Int /\ ~(1 > n) /\ n - 1 + 1 = n
    BY <1>1, <1>2, <1>3
  <2> QED
    BY ONLY <2>1, FS_Interval
<1> DEFINE f == [i \in 1 .. n |-> At(h, i)]
<1>5. f \in [1 .. n -> Elements]
  BY <1>2, PlacesAre
<1>6. PICK i, j \in 1 .. n : i # j /\ f[i] = f[j]
  <2> HIDE DEF f
  <2> QED
    BY <1>1, <1>3, <1>4, <1>5, FS_PigeonHole
<1>7. At(h, i) = At(h, j) /\ i \in 0 .. Len(list[h]) /\ j \in 0 .. Len(list[h])
  BY <1>2, <1>6
<1> QED
  BY <1>6, <1>7, AtInjective

\* The element before one that is not the first is found.
LEMMA BeforeIs ==
  ASSUME ListsOK, Forward, NEW h \in Heads, NEW i \in 2 .. Len(list[h])
  PROVE  Before(mem, mem.next[h], At(h, i)) = At(h, i - 1)
<1>1. PICK n \in Nat : n = Len(list[h]) /\ i \in 2 .. n
  BY PlacesAre
<1>2. PICK c \in Nat : c = Cardinality(Elements) /\ n <= c
  BY <1>1, ListIsShort
<1> DEFINE P(k) == IF k + 1 < i - 1 THEN k + 1 ELSE i - 1
           g == [k \in Nat |-> At(h, P(k))]
<1>3. /\ \A k \in Nat : P(k) \in 1 .. n /\ P(k) \in 0 .. n /\ P(k) + 1 \in 1 .. n
      /\ P(0) = 1 /\ P(c) = i - 1
      /\ \A k \in Nat \ {0} : /\ k - 1 \in Nat
                              /\ P(k) = IF P(k - 1) + 1 = i THEN P(k - 1) ELSE P(k - 1) + 1
  BY <1>1, <1>2
<1>4. \A k \in 1 .. n : At(h, k) \in Elements /\ mem.next[At(h, k)] = At(h, k + 1)
  BY <1>1, AtIsOwner DEF Forward
<1>5. mem.next[h] = At(h, 1)
  <2>1. 0 \in 0 .. Len(list[h]) /\ 0 + 1 = 1
    BY <1>1
  <2> QED
    BY <2>1, AtIsOwner DEF Forward
<1>6. \A k \in 1 .. n : At(h, k) = At(h, i) <=> k = i
  BY <1>1, AtInjective
<1> HIDE DEF P
<1>7. g \in [Nat -> Elements] /\ g[0] = mem.next[h] /\ g[c] = At(h, i - 1)
  BY <1>3, <1>4, <1>5, <1>2
<1>8. \A k \in Nat \ {0} :
        g[k] = IF mem.next[g[k - 1]] = At(h, i) THEN g[k - 1] ELSE mem.next[g[k - 1]]
  <2> SUFFICES ASSUME NEW k \in Nat \ {0}
               PROVE  g[k] = IF mem.next[g[k - 1]] = At(h, i) THEN g[k - 1]
                             ELSE mem.next[g[k - 1]]
    OBVIOUS
  <2>1. g[k] = At(h, P(k)) /\ g[k - 1] = At(h, P(k - 1)) /\ k - 1 \in Nat
    BY <1>3
  <2>2. mem.next[At(h, P(k - 1))] = At(h, P(k - 1) + 1)
    BY <1>3, <1>4, <2>1
  <2>3. At(h, P(k - 1) + 1) = At(h, i) <=> P(k - 1) + 1 = i
    BY <1>3, <1>6, <2>1
  <2> QED
    BY <1>3, <2>1, <2>2, <2>3
<1> HIDE DEF g
<1>9. Follows(g, mem, mem.next[h], At(h, i))
  BY <1>7, <1>8 DEF Follows
<1> QED
  BY <1>2, <1>7, <1>9, RoundsAre

-----------------------------------------------------------------------------
(* What a macro finds in the slots that it reads.                            *)

\* Where e is to be inserted, between a and b.
Between(h, e, a, b) ==
  /\ mem \in Memory /\ h \in Heads /\ e \in Elements
  /\ a \in Elements \union {h} /\ a # e
  /\ b \in Elements \union {End(h)} /\ b # e
  /\ mem.next[a] = b
  /\ b \in Elements /\ Doubly => mem.prev[b] = a \/ (a = h /\ h \in moved)
  /\ b \notin Elements /\ Tailed => mem.prev[h] = a
  /\ b \notin Elements => (mem.next[h] = End(h) <=> a = h)
  /\ a = h /\ Tailed => (mem.prev[h] = h <=> b \notin Elements)

\* So it is at every place where an _INSERT_ macro may put e.
LEMMA BetweenPlaces ==
  ASSUME Shape, NEW h \in Heads, NEW e \in Free, NEW i \in 1 .. Len(list[h]) + 1
  PROVE  Between(h, e, At(h, i - 1), At(h, i))
<1>1. /\ ListsOK /\ Forward /\ (Doubly => Backward) /\ (Tailed => Lasts)
      /\ mem \in Memory
  BY DEF Shape
<1>2. PICK n \in Nat : n = Len(list[h]) /\ i \in 1 .. n + 1
  BY <1>1, AtIsOwner
<1>3. e \in Elements /\ \A j \in 0 .. n : At(h, j) # e
  BY <1>1, <1>2, FreeIsNowhere
<1>4. /\ i - 1 \in 0 .. n /\ i - 1 + 1 = i
      /\ i - 1 # 0 => i - 1 \in 1 .. n
      /\ i # n + 1 => i \in 1 .. n /\ i \in 0 .. n
      /\ 0 \in 0 .. n /\ n \in 0 .. n /\ 0 + 1 = 1
      /\ n # 0 => n \in 1 .. n /\ 1 \in 1 .. n
      /\ i = n + 1 => i - 1 = n
      /\ n = 0 => i = 1 /\ i - 1 = 0
      /\ i - 1 = 0 => i = 1 /\ (i = n + 1 <=> n = 0)
  BY <1>2
<1>5. /\ At(h, 0) = h /\ At(h, n + 1) = End(h) /\ h \notin Elements
      /\ \A j \in 0 .. n : mem.next[At(h, j)] = At(h, j + 1)
      /\ \A j \in 1 .. n : At(h, j) \in Elements
      /\ End(h) \notin Elements
  BY <1>1, <1>2, AtIsOwner, EndIsNoElement, OwnersAssumption DEF Forward
<1>6. /\ At(h, i - 1) \in Elements \union {h} /\ At(h, i - 1) # e
      /\ mem.next[At(h, i - 1)] = At(h, i)
      /\ At(h, i - 1) = h <=> i - 1 = 0
  BY <1>3, <1>4, <1>5
<1>7. /\ At(h, i) \in Elements <=> i # n + 1
      /\ i = n + 1 => At(h, i) = End(h)
      /\ At(h, i) # e
  BY <1>3, <1>4, <1>5
<1>8. i # n + 1 /\ Doubly => mem.prev[At(h, i)] = At(h, i - 1) \/ (i = 1 /\ h \in moved)
  BY <1>1, <1>2, <1>4 DEF Backward
<1>9. Tailed => mem.prev[h] = At(h, n)
  BY <1>1, <1>2 DEF Lasts
<1>10. /\ mem.next[h] = End(h) <=> n = 0
       /\ Tailed => (mem.prev[h] = h <=> n = 0)
  BY <1>4, <1>5, <1>9
<1> QED
  BY <1>1, <1>3, <1>4, <1>6, <1>7, <1>8, <1>9, <1>10 DEF Between

\* Where x is, between a and b.
Around(h, x, a, b) ==
  /\ mem \in Memory /\ h \in Heads /\ x \in Elements
  /\ a \in Elements \union {h} /\ a # x
  /\ b \in Elements \union {End(h)} /\ b # x
  /\ mem.next[a] = x /\ mem.next[x] = b
  /\ mem.next[h] = x <=> a = h
  /\ Doubly => mem.prev[x] = a \/ (a = h /\ h \in moved)
  /\ a # h => Before(mem, mem.next[h], x) = a

\* So it is at every place that a _REMOVE or _REPLACE macro is called for.
LEMMA AroundPlace ==
  ASSUME Shape, NEW h \in Heads, NEW i \in 1 .. Len(list[h])
  PROVE  /\ Around(h, At(h, i), At(h, i - 1), At(h, i + 1))
         /\ \A e \in Free : e \in Elements /\ e \notin {At(h, i - 1), At(h, i), At(h, i + 1)}
<1>1. /\ ListsOK /\ Forward /\ (Doubly => Backward) /\ mem \in Memory
  BY DEF Shape
<1>2. PICK n \in Nat : n = Len(list[h]) /\ i \in 1 .. n
  BY <1>1, AtIsOwner
<1>3. /\ i - 1 \in 0 .. n /\ i - 1 + 1 = i /\ i \in 0 .. n /\ i - 1 # i
      /\ i - 1 # 0 => i - 1 \in 1 .. n /\ i \in 2 .. n
      /\ i # n => i + 1 \in 1 .. n /\ i + 1 \in 0 .. n /\ i + 1 # i
      /\ 0 \in 0 .. n /\ 0 + 1 = 1 /\ 1 \in 0 .. n
      /\ i - 1 = 0 <=> i = 1
  BY <1>2
<1>4. /\ At(h, 0) = h /\ At(h, n + 1) = End(h) /\ h \notin Elements
      /\ \A j \in 0 .. n : mem.next[At(h, j)] = At(h, j + 1)
      /\ \A j \in 1 .. n : At(h, j) \in Elements
      /\ End(h) \notin Elements
  BY <1>1, <1>2, AtIsOwner, EndIsNoElement, OwnersAssumption DEF Forward
<1>5. \A j, k \in 0 .. n : At(h, j) = At(h, k) => j = k
  BY <1>1, <1>2, AtInjective
<1>6. /\ At(h, i) \in Elements /\ At(h, i - 1) \in Elements \union {h}
      /\ At(h, i - 1) # At(h, i) /\ mem.next[At(h, i - 1)] = At(h, i)
      /\ mem.next[At(h, i)] = At(h, i + 1)
      /\ At(h, i - 1) = h <=> i = 1
  BY <1>2, <1>3, <1>4, <1>5
<1>7. At(h, i + 1) \in Elements \union {End(h)} /\ At(h, i + 1) # At(h, i)
  BY <1>2, <1>3, <1>4, <1>5
<1>8. mem.next[h] = At(h, i) <=> i = 1
  BY <1>3, <1>4, <1>5
<1>9. Doubly => mem.prev[At(h, i)] = At(h, i - 1) \/ (i = 1 /\ h \in moved)
  BY <1>1 DEF Backward
<1>10. i # 1 => Before(mem, mem.next[h], At(h, i)) = At(h, i - 1)
  BY <1>1, <1>2, <1>3, BeforeIs
<1>11. \A e \in Free : e \in Elements /\ \A j \in 0 .. n : At(h, j) # e
  BY <1>1, <1>2, FreeIsNowhere
<1>12. \A e \in Free : e \in Elements /\ e \notin {At(h, i - 1), At(h, i), At(h, i + 1)}
  BY <1>2, <1>3, <1>4, <1>11
<1> QED
  BY <1>1, <1>6, <1>7, <1>8, <1>9, <1>10, <1>12 DEF Around

\* The last place p of f and the first place q of h.
Facing(f, h, p, q) ==
  /\ p = At(f, Len(list[f])) /\ q = At(h, 1) /\ (Len(list[h]) = 0 <=> q = Null)
  /\ mem \in Memory /\ f \in Heads /\ h \in Heads /\ f # h
  /\ p \in Elements \union {f} /\ mem.next[p] = Null
  /\ q \in Elements \union {Null} /\ q # p /\ mem.next[h] = q
  /\ Tailed => mem.prev[f] = p /\ (q = Null => mem.prev[h] = h)

\* So it is at the ends of two lists that are not CIRCLEQs.
LEMMA FacingEnds ==
  ASSUME Shape, kind # "CIRCLEQ", NEW f \in Heads, NEW h \in Heads, f # h
  PROVE  Facing(f, h, At(f, Len(list[f])), At(h, 1))
<1>1. ListsOK /\ Forward /\ (Tailed => Lasts) /\ mem \in Memory
  BY DEF Shape
<1>2. PICK m \in Nat, n \in Nat : m = Len(list[f]) /\ n = Len(list[h])
  BY <1>1, AtIsOwner
<1>3. /\ m \in 0 .. m /\ (m # 0 => m \in 1 .. m)
      /\ 0 \in 0 .. n /\ 0 + 1 = 1 /\ (n # 0 => 1 \in 1 .. n /\ 1 \in 0 .. n)
      /\ n = 0 => n + 1 = 1
  BY <1>2
<1>4. /\ End(f) = Null /\ End(h) = Null /\ Null \notin Elements /\ f \notin Elements
      /\ Null \notin Heads
  BY OwnersAssumption DEF End
<1>5. /\ At(f, 0) = f /\ At(f, m + 1) = Null /\ At(h, 0) = h /\ At(h, n + 1) = Null
      /\ mem.next[At(f, m)] = At(f, m + 1) /\ mem.next[At(h, 0)] = At(h, 0 + 1)
      /\ m # 0 => At(f, m) \in Elements
      /\ n # 0 => At(h, 1) \in Elements
  BY <1>1, <1>2, <1>3, <1>4, AtIsOwner DEF Forward
<1>6. At(h, 1) # At(f, m)
  BY <1>1, <1>2, <1>3, <1>4, <1>5, AtInjective
<1>7. Tailed => mem.prev[f] = At(f, m) /\ mem.prev[h] = At(h, n)
  BY <1>1, <1>2 DEF Lasts
<1> QED
  BY <1>1, <1>2, <1>3, <1>4, <1>5, <1>6, <1>7 DEF Facing

-----------------------------------------------------------------------------
(* The macros, one assignment after the other.                               *)

\* What an assignment to a slot changes.
LEMMA SetNextIs ==
  ASSUME NEW m \in Memory, NEW o \in Owners, NEW v \in Values
  PROVE  \E k \in Memory :
           /\ k = SetNext(m, o, v) /\ k.prev = m.prev
           /\ \A p \in Owners : k.next[p] = IF p = o THEN v ELSE m.next[p]
<1>1. /\ SetNext(m, o, v) \in Memory /\ SetNext(m, o, v).prev = m.prev
      /\ \A p \in Owners : SetNext(m, o, v).next[p] = IF p = o THEN v ELSE m.next[p]
  BY DEF SetNext, Memory
<1> QED
  BY <1>1

\* The same of the second slot.
LEMMA SetPrevIs ==
  ASSUME NEW m \in Memory, NEW o \in Owners, NEW v \in Values
  PROVE  \E k \in Memory :
           /\ k = SetPrev(m, o, v) /\ k.next = m.next
           /\ \A p \in Owners : k.prev[p] = IF p = o THEN v ELSE m.prev[p]
<1>1. /\ SetPrev(m, o, v) \in Memory /\ SetPrev(m, o, v).next = m.next
      /\ \A p \in Owners : SetPrev(m, o, v).prev[p] = IF p = o THEN v ELSE m.prev[p]
  BY DEF SetPrev, Memory
<1> QED
  BY <1>1

\* A QUEUEDEBUG build overwrites the slots of the removed element, and no other.
LEMMA PostRemoveIs ==
  ASSUME NEW m \in Memory, NEW x \in Owners
  PROVE  \E k \in Memory :
           /\ k = POSTREMOVE(m, x)
           /\ \A p \in Owners \ {x} : k.next[p] = m.next[p] /\ k.prev[p] = m.prev[p]
<1>1. Garbage \in Values
  BY DEF Values
<1>2. PICK k1 \in Memory :
        /\ k1 = SetNext(m, x, Garbage) /\ k1.prev = m.prev
        /\ \A p \in Owners : k1.next[p] = IF p = x THEN Garbage ELSE m.next[p]
  BY <1>1, SetNextIs
<1>3. PICK k2 \in Memory :
        /\ k2 = SetPrev(k1, x, Garbage) /\ k2.next = k1.next
        /\ \A p \in Owners : k2.prev[p] = IF p = x THEN Garbage ELSE k1.prev[p]
  BY <1>1, SetPrevIs
<1>4. POSTREMOVE(m, x) = IF debug THEN k2 ELSE m
  BY <1>2, <1>3 DEF POSTREMOVE
<1> QED
  BY <1>2, <1>3, <1>4

\* The assignments of the SLIST macros are these.
LEMMA SinglySets ==
  /\ \A m, o, v : SL!SetNext(m, o, v) = SetNext(m, o, v)
  /\ \A m, o, v : SL!SetPrev(m, o, v) = SetPrev(m, o, v)
  /\ \A m, e : SL!POSTREMOVE(m, e) = POSTREMOVE(m, e)
BY DEF SL!SetNext, SetNext, SL!SetPrev, SetPrev, SL!POSTREMOVE, POSTREMOVE

\* The assignments of the LIST macros are these.
LEMMA ListSets ==
  /\ \A m, o, v : LL!SetNext(m, o, v) = SetNext(m, o, v)
  /\ \A m, o, v : LL!SetPrev(m, o, v) = SetPrev(m, o, v)
  /\ \A m, e : LL!POSTREMOVE(m, e) = POSTREMOVE(m, e)
BY DEF LL!SetNext, SetNext, LL!SetPrev, SetPrev, LL!POSTREMOVE, POSTREMOVE

\* The assignments of the SIMPLEQ macros are these.
LEMMA SimpleSets ==
  /\ \A m, o, v : SQ!SetNext(m, o, v) = SetNext(m, o, v)
  /\ \A m, o, v : SQ!SetPrev(m, o, v) = SetPrev(m, o, v)
  /\ \A m, e : SQ!POSTREMOVE(m, e) = POSTREMOVE(m, e)
BY DEF SQ!SetNext, SetNext, SQ!SetPrev, SetPrev, SQ!POSTREMOVE, POSTREMOVE

\* The assignments of the TAILQ macros are these.
LEMMA TailSets ==
  /\ \A m, o, v : TQ!SetNext(m, o, v) = SetNext(m, o, v)
  /\ \A m, o, v : TQ!SetPrev(m, o, v) = SetPrev(m, o, v)
  /\ \A m, e : TQ!POSTREMOVE(m, e) = POSTREMOVE(m, e)
BY DEF TQ!SetNext, SetNext, TQ!SetPrev, SetPrev, TQ!POSTREMOVE, POSTREMOVE

\* The assignments of the CIRCLEQ macros are these.
LEMMA CircSets ==
  /\ \A m, o, v : CQ!SetNext(m, o, v) = SetNext(m, o, v)
  /\ \A m, o, v : CQ!SetPrev(m, o, v) = SetPrev(m, o, v)
  /\ \A m, e : CQ!POSTREMOVE(m, e) = POSTREMOVE(m, e)
BY DEF CQ!SetNext, SetNext, CQ!SetPrev, SetPrev, CQ!POSTREMOVE, POSTREMOVE

\* SLIST_INSERT_AFTER links e in between a and b, and assigns no other slot
\* that the family reads.
LEMMA SinglyInsertAfter ==
  ASSUME NEW h, NEW e, NEW a, NEW b,
         kind = "SLIST",
         Between(h, e, a, b),
         mem' = SL!SLIST_INSERT_AFTER(mem, a, e)
  PROVE  Inserting(h, e, a, b)
<1>1. ~Doubly /\ ~Tailed /\ End(h) = Null
  BY DEF Doubly, Tailed, End
<1>2. /\ mem \in Memory /\ h \notin Elements /\ Null \notin Owners /\ Null \in Values /\ b \in Values
      /\ h \in Owners /\ h \in Values /\ a \in Owners /\ a \in Values /\ e \in Owners /\ e \in Values
      /\ b \in Elements \/ b = Null
      /\ b # Null => b \in Owners
      /\ a \in Elements \/ a = h
      /\ e \in Elements /\ e # h
      /\ a # e /\ b # e
      /\ mem.next[a] = b
  BY <1>1, OwnersAssumption DEF Between, Owners, Values
<1>3. mem.next[a] = b
  BY <1>2
<1>4. PICK m1 \in Memory :
        /\ m1 = SetNext(mem, e, b) /\ m1.prev = mem.prev
        /\ \A o \in Owners : m1.next[o] = IF o = e THEN b ELSE mem.next[o]
  BY <1>2, SetNextIs
<1>5. PICK m2 \in Memory :
        /\ m2 = SetNext(m1, a, e) /\ m2.prev = m1.prev
        /\ \A o \in Owners : m2.next[o] = IF o = a THEN e ELSE m1.next[o]
  BY <1>2, SetNextIs
<1>6. mem' = m2
  BY <1>3, <1>4, <1>5, SinglySets DEF SL!SLIST_INSERT_AFTER, SL!SLIST_END
<1>7. \A o \in Owners : mem'.next[o] = IF o = e THEN b ELSE IF o = a THEN e ELSE mem.next[o]
  BY <1>2, <1>4, <1>5, <1>6
<1> QED
  BY <1>1, <1>6, <1>7 DEF Inserting

\* SLIST_REMOVE_AFTER takes x out from between a and b, and of the slots that
\* stay in use assigns no other.
LEMMA SinglyRemoveAfter ==
  ASSUME NEW h, NEW x, NEW a, NEW b,
         kind = "SLIST",
         Around(h, x, a, b),
         mem' = SL!SLIST_REMOVE_AFTER(mem, a)
  PROVE  Removing(h, x, a, b)
<1>1. ~Doubly /\ ~Tailed /\ End(h) = Null
  BY DEF Doubly, Tailed, End
<1>2. /\ mem \in Memory /\ h \notin Elements /\ Null \notin Owners /\ Null \in Values /\ b \in Values
      /\ h \in Owners /\ h \in Values /\ a \in Owners /\ a \in Values /\ x \in Owners /\ x \in Values
      /\ b \in Elements \/ b = Null
      /\ b # Null => b \in Owners
      /\ a \in Elements \/ a = h
      /\ x \in Elements /\ x # h
      /\ a # x /\ b # x
      /\ mem.next[a] = x /\ mem.next[x] = b
  BY <1>1, OwnersAssumption DEF Around, Owners, Values
<1>3. mem.next[mem.next[a]] = b
  BY <1>2
<1>4. PICK m1 \in Memory :
        /\ m1 = SetNext(mem, a, b) /\ m1.prev = mem.prev
        /\ \A o \in Owners : m1.next[o] = IF o = a THEN b ELSE mem.next[o]
  BY <1>2, SetNextIs
<1>5. mem' = m1
  BY <1>3, <1>4, SinglySets DEF SL!SLIST_REMOVE_AFTER, SL!SLIST_END, SL!SLIST_NEXT
<1>6. \A o \in Owners \ {x} : mem'.next[o] = IF o = a THEN b ELSE mem.next[o]
  BY <1>2, <1>4, <1>5
<1> QED
  BY <1>1, <1>5, <1>6 DEF Removing

\* LIST_INSERT_AFTER links e in between a and b, and assigns no other slot
\* that the family reads.
LEMMA ListInsertAfter ==
  ASSUME NEW h, NEW e, NEW a, NEW b,
         kind = "LIST",
         Between(h, e, a, b),
         mem' = LL!LIST_INSERT_AFTER(mem, a, e)
  PROVE  Inserting(h, e, a, b)
<1>1. Doubly /\ ~Tailed /\ End(h) = Null
  BY DEF Doubly, Tailed, End
<1>2. /\ mem \in Memory /\ h \notin Elements /\ Null \notin Owners /\ Null \in Values /\ b \in Values
      /\ h \in Owners /\ h \in Values /\ a \in Owners /\ a \in Values /\ e \in Owners /\ e \in Values
      /\ b \in Elements \/ b = Null
      /\ b # Null => b \in Owners
      /\ a \in Elements \/ a = h
      /\ e \in Elements /\ e # h
      /\ a # e /\ b # e
      /\ mem.next[a] = b
  BY <1>1, OwnersAssumption DEF Between, Owners, Values
<1>3. mem.next[a] = b
  BY <1>2
<1>4. PICK m1 \in Memory :
        /\ m1 = SetNext(mem, e, b) /\ m1.prev = mem.prev
        /\ \A o \in Owners : m1.next[o] = IF o = e THEN b ELSE mem.next[o]
  BY <1>2, SetNextIs
<1>5. m1.next[e] = b /\ m1.next[a] = b
  BY <1>2, <1>4
<1>6. PICK m2 \in Memory :
        /\ m2 = (IF b # Null THEN SetPrev(m1, b, e) ELSE m1) /\ m2.next = m1.next
        /\ \A o \in Owners : m2.prev[o] = IF b # Null /\ o = b THEN e ELSE m1.prev[o]
  <2>1. CASE b # Null
    BY <1>2, <2>1, SetPrevIs
  <2>2. CASE ~(b # Null)
    BY <1>2, <2>2 DEF Owners
  <2> QED
    BY <2>1, <2>2
<1>7. PICK m3 \in Memory :
        /\ m3 = SetNext(m2, a, e) /\ m3.prev = m2.prev
        /\ \A o \in Owners : m3.next[o] = IF o = a THEN e ELSE m2.next[o]
  BY <1>2, SetNextIs
<1>8. PICK m4 \in Memory :
        /\ m4 = SetPrev(m3, e, a) /\ m4.next = m3.next
        /\ \A o \in Owners : m4.prev[o] = IF o = e THEN a ELSE m3.prev[o]
  BY <1>2, SetPrevIs
<1>9. mem' = m4
  BY <1>3, <1>4, <1>5, <1>6, <1>7, <1>8, ListSets DEF LL!LIST_INSERT_AFTER, LL!LIST_END
<1>10. \A o \in Owners : mem'.next[o] = IF o = e THEN b ELSE IF o = a THEN e ELSE mem.next[o]
  BY <1>2, <1>4, <1>6, <1>7, <1>8, <1>9
<1>11. \A o \in Elements : mem'.prev[o] = IF o = e THEN a ELSE IF o = b THEN e ELSE mem.prev[o]
  BY <1>2, <1>4, <1>6, <1>7, <1>8, <1>9 DEF Owners
<1> QED
  BY <1>1, <1>9, <1>10, <1>11 DEF Inserting

\* LIST_INSERT_BEFORE links e in between a and b, and assigns no other slot
\* that the family reads; of a moved list it must not be called for the first
\* element.
LEMMA ListInsertBefore ==
  ASSUME NEW h, NEW e, NEW a, NEW b,
         kind = "LIST",
         Between(h, e, a, b),
         b \in Elements,
         a = h => h \notin moved,
         mem' = LL!LIST_INSERT_BEFORE(mem, b, e)
  PROVE  Inserting(h, e, a, b)
<1>1. Doubly /\ ~Tailed /\ End(h) = Null
  BY DEF Doubly, Tailed, End
<1>2. /\ mem \in Memory /\ h \notin Elements /\ Null \notin Owners /\ Null \in Values /\ b \in Values
      /\ h \in Owners /\ h \in Values /\ a \in Owners /\ a \in Values /\ e \in Owners /\ e \in Values
      /\ b \in Elements \/ b = Null
      /\ b # Null => b \in Owners
      /\ a \in Elements \/ a = h
      /\ e \in Elements /\ e # h
      /\ a # e /\ b # e
      /\ mem.next[a] = b
      /\ mem.prev[b] = a
      /\ b \in Owners
  BY <1>1, OwnersAssumption DEF Between, Owners, Values
<1>3. mem.prev[b] = a
  BY <1>2
<1>4. PICK m1 \in Memory :
        /\ m1 = SetPrev(mem, e, a) /\ m1.next = mem.next
        /\ \A o \in Owners : m1.prev[o] = IF o = e THEN a ELSE mem.prev[o]
  BY <1>2, SetPrevIs
<1>5. PICK m2 \in Memory :
        /\ m2 = SetNext(m1, e, b) /\ m2.prev = m1.prev
        /\ \A o \in Owners : m2.next[o] = IF o = e THEN b ELSE m1.next[o]
  BY <1>2, SetNextIs
<1>6. m2.prev[b] = a
  BY <1>2, <1>4, <1>5
<1>7. PICK m3 \in Memory :
        /\ m3 = SetNext(m2, a, e) /\ m3.prev = m2.prev
        /\ \A o \in Owners : m3.next[o] = IF o = a THEN e ELSE m2.next[o]
  BY <1>2, SetNextIs
<1>8. PICK m4 \in Memory :
        /\ m4 = SetPrev(m3, b, e) /\ m4.next = m3.next
        /\ \A o \in Owners : m4.prev[o] = IF o = b THEN e ELSE m3.prev[o]
  BY <1>2, SetPrevIs
<1>9. mem' = m4
  BY <1>3, <1>4, <1>5, <1>6, <1>7, <1>8, ListSets DEF LL!LIST_INSERT_BEFORE, LL!LIST_END
<1>10. \A o \in Owners : mem'.next[o] = IF o = e THEN b ELSE IF o = a THEN e ELSE mem.next[o]
  BY <1>2, <1>4, <1>5, <1>7, <1>8, <1>9
<1>11. \A o \in Elements : mem'.prev[o] = IF o = e THEN a ELSE IF o = b THEN e ELSE mem.prev[o]
  BY <1>2, <1>4, <1>5, <1>7, <1>8, <1>9 DEF Owners
<1> QED
  BY <1>1, <1>9, <1>10, <1>11 DEF Inserting

\* LIST_REMOVE takes x out from between a and b, and of the slots that stay in
\* use assigns no other.
LEMMA ListRemove ==
  ASSUME NEW h, NEW x, NEW a, NEW b,
         kind = "LIST",
         Around(h, x, a, b),
         a = h => h \notin moved,
         mem' = LL!LIST_REMOVE(mem, x)
  PROVE  Removing(h, x, a, b)
<1>1. Doubly /\ ~Tailed /\ End(h) = Null
  BY DEF Doubly, Tailed, End
<1>2. /\ mem \in Memory /\ h \notin Elements /\ Null \notin Owners /\ Null \in Values /\ b \in Values
      /\ h \in Owners /\ h \in Values /\ a \in Owners /\ a \in Values /\ x \in Owners /\ x \in Values
      /\ b \in Elements \/ b = Null
      /\ b # Null => b \in Owners
      /\ a \in Elements \/ a = h
      /\ x \in Elements /\ x # h
      /\ a # x /\ b # x
      /\ mem.next[a] = x /\ mem.next[x] = b
      /\ mem.prev[x] = a
  BY <1>1, OwnersAssumption DEF Around, Owners, Values
<1>3. mem.next[x] = b /\ mem.prev[x] = a
  BY <1>2
<1>4. PICK m1 \in Memory :
        /\ m1 = (IF b # Null THEN SetPrev(mem, b, a) ELSE mem) /\ m1.next = mem.next
        /\ \A o \in Owners : m1.prev[o] = IF b # Null /\ o = b THEN a ELSE mem.prev[o]
  <2>1. CASE b # Null
    BY <1>2, <2>1, SetPrevIs
  <2>2. CASE ~(b # Null)
    BY <1>2, <2>2 DEF Owners
  <2> QED
    BY <2>1, <2>2
<1>5. m1.prev[x] = a /\ m1.next[x] = b
  BY <1>2, <1>4
<1>6. PICK m2 \in Memory :
        /\ m2 = SetNext(m1, a, b) /\ m2.prev = m1.prev
        /\ \A o \in Owners : m2.next[o] = IF o = a THEN b ELSE m1.next[o]
  BY <1>2, SetNextIs
<1>7. PICK m3 \in Memory :
        /\ m3 = POSTREMOVE(m2, x)
        /\ \A o \in Owners \ {x} : m3.next[o] = m2.next[o] /\ m3.prev[o] = m2.prev[o]
  BY <1>2, PostRemoveIs
<1>8. mem' = m3
  BY <1>3, <1>4, <1>5, <1>6, <1>7, ListSets DEF LL!LIST_REMOVE, LL!LIST_END
<1>9. \A o \in Owners \ {x} : mem'.next[o] = IF o = a THEN b ELSE mem.next[o]
  BY <1>2, <1>4, <1>6, <1>7, <1>8
<1>10. \A o \in Elements \ {x} : mem'.prev[o] = IF o = b THEN a ELSE mem.prev[o]
  BY <1>2, <1>4, <1>6, <1>7, <1>8 DEF Owners
<1> QED
  BY <1>1, <1>8, <1>9, <1>10 DEF Removing

\* LIST_REPLACE puts e in the place of x, between a and b, and of the slots
\* that stay in use assigns no other.
LEMMA ListReplace ==
  ASSUME NEW h, NEW x, NEW e, NEW a, NEW b,
         kind = "LIST",
         Around(h, x, a, b),
         a = h => h \notin moved,
         e \in Elements, e # a, e # x, e # b,
         mem' = LL!LIST_REPLACE(mem, x, e)
  PROVE  Replacing(h, x, e, a, b)
<1>1. Doubly /\ ~Tailed /\ End(h) = Null
  BY DEF Doubly, Tailed, End
<1>2. /\ mem \in Memory /\ h \notin Elements /\ Null \notin Owners /\ Null \in Values /\ b \in Values
      /\ h \in Owners /\ h \in Values /\ a \in Owners /\ a \in Values /\ e \in Owners /\ e \in Values /\ x \in Owners /\ x \in Values
      /\ b \in Elements \/ b = Null
      /\ b # Null => b \in Owners
      /\ a \in Elements \/ a = h
      /\ e \in Elements /\ e # h /\ x \in Elements /\ x # h
      /\ a # e /\ b # e /\ a # x /\ b # x /\ x # e
      /\ mem.next[a] = x /\ mem.next[x] = b
      /\ mem.prev[x] = a
  BY <1>1, OwnersAssumption DEF Around, Owners, Values
<1>3. mem.next[x] = b
  BY <1>2
<1>4. PICK m1 \in Memory :
        /\ m1 = SetNext(mem, e, b) /\ m1.prev = mem.prev
        /\ \A o \in Owners : m1.next[o] = IF o = e THEN b ELSE mem.next[o]
  BY <1>2, SetNextIs
<1>5. m1.next[e] = b
  BY <1>2, <1>4
<1>6. PICK m2 \in Memory :
        /\ m2 = (IF b # Null THEN SetPrev(m1, b, e) ELSE m1) /\ m2.next = m1.next
        /\ \A o \in Owners : m2.prev[o] = IF b # Null /\ o = b THEN e ELSE m1.prev[o]
  <2>1. CASE b # Null
    BY <1>2, <2>1, SetPrevIs
  <2>2. CASE ~(b # Null)
    BY <1>2, <2>2 DEF Owners
  <2> QED
    BY <2>1, <2>2
<1>7. m2.prev[x] = a
  BY <1>2, <1>4, <1>6
<1>8. PICK m3 \in Memory :
        /\ m3 = SetPrev(m2, e, a) /\ m3.next = m2.next
        /\ \A o \in Owners : m3.prev[o] = IF o = e THEN a ELSE m2.prev[o]
  BY <1>2, SetPrevIs
<1>9. m3.prev[e] = a
  BY <1>2, <1>4, <1>6, <1>8
<1>10. PICK m4 \in Memory :
        /\ m4 = SetNext(m3, a, e) /\ m4.prev = m3.prev
        /\ \A o \in Owners : m4.next[o] = IF o = a THEN e ELSE m3.next[o]
  BY <1>2, SetNextIs
<1>11. PICK m5 \in Memory :
        /\ m5 = POSTREMOVE(m4, x)
        /\ \A o \in Owners \ {x} : m5.next[o] = m4.next[o] /\ m5.prev[o] = m4.prev[o]
  BY <1>2, PostRemoveIs
<1>12. mem' = m5
  <2>1. /\ mem' = LL!LIST_REPLACE(mem, x, e)
        /\ m1 = SetNext(mem, e, b)
        /\ m2 = (IF b # Null THEN SetPrev(m1, b, e) ELSE m1)
        /\ m3 = SetPrev(m2, e, a)
        /\ m4 = SetNext(m3, a, e)
        /\ m5 = POSTREMOVE(m4, x)
    BY <1>4, <1>6, <1>8, <1>10, <1>11
  <2> QED
    BY ONLY <2>1, <1>3, <1>5, <1>7, <1>9, ListSets DEF LL!LIST_REPLACE, LL!LIST_END
<1>13. \A o \in Owners \ {x} : mem'.next[o] = IF o = e THEN b ELSE IF o = a THEN e ELSE mem.next[o]
  BY <1>2, <1>4, <1>6, <1>8, <1>10, <1>11, <1>12
<1>14. \A o \in Elements \ {x} : mem'.prev[o] = IF o = e THEN a ELSE IF o = b THEN e ELSE mem.prev[o]
  BY <1>2, <1>4, <1>6, <1>8, <1>10, <1>11, <1>12 DEF Owners
<1> QED
  BY <1>1, <1>12, <1>13, <1>14 DEF Replacing

\* SIMPLEQ_INSERT_AFTER links e in between a and b, and assigns no other slot
\* that the family reads.
LEMMA SimpleInsertAfter ==
  ASSUME NEW h, NEW e, NEW a, NEW b,
         kind \in {"SIMPLEQ", "STAILQ"},
         Between(h, e, a, b),
         mem' = SQ!SIMPLEQ_INSERT_AFTER(mem, h, a, e)
  PROVE  Inserting(h, e, a, b)
<1>1. ~Doubly /\ Tailed /\ End(h) = Null
  BY DEF Doubly, Tailed, End
<1>2. /\ mem \in Memory /\ h \notin Elements /\ Null \notin Owners /\ Null \in Values /\ b \in Values
      /\ h \in Owners /\ h \in Values /\ a \in Owners /\ a \in Values /\ e \in Owners /\ e \in Values
      /\ b \in Elements \/ b = Null
      /\ b # Null => b \in Owners
      /\ a \in Elements \/ a = h
      /\ e \in Elements /\ e # h
      /\ a # e /\ b # e
      /\ mem.next[a] = b
  BY <1>1, OwnersAssumption DEF Between, Owners, Values
<1>3. mem.next[a] = b
  BY <1>2
<1>4. PICK m1 \in Memory :
        /\ m1 = SetNext(mem, e, b) /\ m1.prev = mem.prev
        /\ \A o \in Owners : m1.next[o] = IF o = e THEN b ELSE mem.next[o]
  BY <1>2, SetNextIs
<1>5. m1.next[e] = b
  BY <1>2, <1>4
<1>6. PICK m2 \in Memory :
        /\ m2 = (IF b = Null THEN SetPrev(m1, h, e) ELSE m1) /\ m2.next = m1.next
        /\ \A o \in Owners : m2.prev[o] = IF b = Null /\ o = h THEN e ELSE m1.prev[o]
  <2>1. CASE b = Null
    BY <1>2, <2>1, SetPrevIs
  <2>2. CASE ~(b = Null)
    BY <1>2, <2>2 DEF Owners
  <2> QED
    BY <2>1, <2>2
<1>7. PICK m3 \in Memory :
        /\ m3 = SetNext(m2, a, e) /\ m3.prev = m2.prev
        /\ \A o \in Owners : m3.next[o] = IF o = a THEN e ELSE m2.next[o]
  BY <1>2, SetNextIs
<1>8. mem' = m3
  BY <1>3, <1>4, <1>5, <1>6, <1>7, SimpleSets DEF SQ!SIMPLEQ_INSERT_AFTER, SQ!SIMPLEQ_END
<1>9. \A o \in Owners : mem'.next[o] = IF o = e THEN b ELSE IF o = a THEN e ELSE mem.next[o]
  BY <1>2, <1>4, <1>6, <1>7, <1>8
<1>10. \A g \in Heads : mem'.prev[g] = IF g = h /\ b \notin Elements THEN e ELSE mem.prev[g]
  BY <1>2, <1>4, <1>6, <1>7, <1>8, OwnersAssumption DEF Owners
<1> QED
  BY <1>1, <1>8, <1>9, <1>10 DEF Inserting

\* SIMPLEQ_INSERT_TAIL links e in between a and b, and assigns no other slot
\* that the family reads.
LEMMA SimpleInsertTail ==
  ASSUME NEW h, NEW e, NEW a,
         kind \in {"SIMPLEQ", "STAILQ"},
         Between(h, e, a, Null),
         mem' = SQ!SIMPLEQ_INSERT_TAIL(mem, h, e)
  PROVE  Inserting(h, e, a, Null)
<1>1. ~Doubly /\ Tailed /\ End(h) = Null
  BY DEF Doubly, Tailed, End
<1>2. /\ mem \in Memory /\ h \notin Elements /\ Null \notin Owners /\ Null \in Values /\ Null \in Values
      /\ h \in Owners /\ h \in Values /\ a \in Owners /\ a \in Values /\ e \in Owners /\ e \in Values
      /\ a \in Elements \/ a = h
      /\ e \in Elements /\ e # h
      /\ a # e
      /\ mem.next[a] = Null
      /\ mem.prev[h] = a
      /\ Null \notin Elements
  BY <1>1, OwnersAssumption DEF Between, Owners, Values
<1>3. PICK m1 \in Memory :
        /\ m1 = SetNext(mem, e, Null) /\ m1.prev = mem.prev
        /\ \A o \in Owners : m1.next[o] = IF o = e THEN Null ELSE mem.next[o]
  BY <1>2, SetNextIs
<1>4. m1.prev[h] = a
  BY <1>2, <1>3
<1>5. PICK m2 \in Memory :
        /\ m2 = SetNext(m1, a, e) /\ m2.prev = m1.prev
        /\ \A o \in Owners : m2.next[o] = IF o = a THEN e ELSE m1.next[o]
  BY <1>2, SetNextIs
<1>6. PICK m3 \in Memory :
        /\ m3 = SetPrev(m2, h, e) /\ m3.next = m2.next
        /\ \A o \in Owners : m3.prev[o] = IF o = h THEN e ELSE m2.prev[o]
  BY <1>2, SetPrevIs
<1>7. mem' = m3
  BY <1>3, <1>4, <1>5, <1>6, SimpleSets DEF SQ!SIMPLEQ_INSERT_TAIL, SQ!SIMPLEQ_END
<1>8. \A o \in Owners : mem'.next[o] = IF o = e THEN Null ELSE IF o = a THEN e ELSE mem.next[o]
  BY <1>2, <1>3, <1>5, <1>6, <1>7
<1>9. \A g \in Heads : mem'.prev[g] = IF g = h /\ Null \notin Elements THEN e ELSE mem.prev[g]
  BY <1>2, <1>3, <1>5, <1>6, <1>7, OwnersAssumption DEF Owners
<1> QED
  BY <1>1, <1>7, <1>8, <1>9 DEF Inserting

\* SIMPLEQ_REMOVE_AFTER takes x out from between a and b, and of the slots
\* that stay in use assigns no other.
LEMMA SimpleRemoveAfter ==
  ASSUME NEW h, NEW x, NEW a, NEW b,
         kind \in {"SIMPLEQ", "STAILQ"},
         Around(h, x, a, b),
         mem' = SQ!SIMPLEQ_REMOVE_AFTER(mem, h, a)
  PROVE  Removing(h, x, a, b)
<1>1. ~Doubly /\ Tailed /\ End(h) = Null
  BY DEF Doubly, Tailed, End
<1>2. /\ mem \in Memory /\ h \notin Elements /\ Null \notin Owners /\ Null \in Values /\ b \in Values
      /\ h \in Owners /\ h \in Values /\ a \in Owners /\ a \in Values /\ x \in Owners /\ x \in Values
      /\ b \in Elements \/ b = Null
      /\ b # Null => b \in Owners
      /\ a \in Elements \/ a = h
      /\ x \in Elements /\ x # h
      /\ a # x /\ b # x
      /\ mem.next[a] = x /\ mem.next[x] = b
  BY <1>1, OwnersAssumption DEF Around, Owners, Values
<1>3. mem.next[mem.next[a]] = b
  BY <1>2
<1>4. PICK m1 \in Memory :
        /\ m1 = SetNext(mem, a, b) /\ m1.prev = mem.prev
        /\ \A o \in Owners : m1.next[o] = IF o = a THEN b ELSE mem.next[o]
  BY <1>2, SetNextIs
<1>5. m1.next[a] = b
  BY <1>2, <1>4
<1>6. PICK m2 \in Memory :
        /\ m2 = (IF b = Null THEN SetPrev(m1, h, a) ELSE m1) /\ m2.next = m1.next
        /\ \A o \in Owners : m2.prev[o] = IF b = Null /\ o = h THEN a ELSE m1.prev[o]
  <2>1. CASE b = Null
    BY <1>2, <2>1, SetPrevIs
  <2>2. CASE ~(b = Null)
    BY <1>2, <2>2 DEF Owners
  <2> QED
    BY <2>1, <2>2
<1>7. mem' = m2
  BY <1>3, <1>4, <1>5, <1>6, SimpleSets DEF SQ!SIMPLEQ_REMOVE_AFTER, SQ!SIMPLEQ_END
<1>8. \A o \in Owners \ {x} : mem'.next[o] = IF o = a THEN b ELSE mem.next[o]
  BY <1>2, <1>4, <1>6, <1>7
<1>9. \A g \in Heads : mem'.prev[g] = IF g = h /\ b \notin Elements THEN a ELSE mem.prev[g]
  BY <1>2, <1>4, <1>6, <1>7, OwnersAssumption DEF Owners
<1> QED
  BY <1>1, <1>7, <1>8, <1>9 DEF Removing

\* TAILQ_INSERT_TAIL links e in between a and b, and assigns no other slot
\* that the family reads.
LEMMA TailInsertTail ==
  ASSUME NEW h, NEW e, NEW a,
         kind = "TAILQ",
         Between(h, e, a, Null),
         mem' = TQ!TAILQ_INSERT_TAIL(mem, h, e)
  PROVE  Inserting(h, e, a, Null)
<1>1. Doubly /\ Tailed /\ End(h) = Null
  BY DEF Doubly, Tailed, End
<1>2. /\ mem \in Memory /\ h \notin Elements /\ Null \notin Owners /\ Null \in Values /\ Null \in Values
      /\ h \in Owners /\ h \in Values /\ a \in Owners /\ a \in Values /\ e \in Owners /\ e \in Values
      /\ a \in Elements \/ a = h
      /\ e \in Elements /\ e # h
      /\ a # e
      /\ mem.next[a] = Null
      /\ mem.prev[h] = a
      /\ Null \notin Elements
  BY <1>1, OwnersAssumption DEF Between, Owners, Values
<1>3. PICK m1 \in Memory :
        /\ m1 = SetNext(mem, e, Null) /\ m1.prev = mem.prev
        /\ \A o \in Owners : m1.next[o] = IF o = e THEN Null ELSE mem.next[o]
  BY <1>2, SetNextIs
<1>4. m1.prev[h] = a
  BY <1>2, <1>3
<1>5. PICK m2 \in Memory :
        /\ m2 = SetPrev(m1, e, a) /\ m2.next = m1.next
        /\ \A o \in Owners : m2.prev[o] = IF o = e THEN a ELSE m1.prev[o]
  BY <1>2, SetPrevIs
<1>6. m2.prev[h] = a
  BY <1>2, <1>3, <1>5
<1>7. PICK m3 \in Memory :
        /\ m3 = SetNext(m2, a, e) /\ m3.prev = m2.prev
        /\ \A o \in Owners : m3.next[o] = IF o = a THEN e ELSE m2.next[o]
  BY <1>2, SetNextIs
<1>8. PICK m4 \in Memory :
        /\ m4 = SetPrev(m3, h, e) /\ m4.next = m3.next
        /\ \A o \in Owners : m4.prev[o] = IF o = h THEN e ELSE m3.prev[o]
  BY <1>2, SetPrevIs
<1>9. mem' = m4
  BY <1>3, <1>4, <1>5, <1>6, <1>7, <1>8, TailSets DEF TQ!TAILQ_INSERT_TAIL, TQ!TAILQ_END
<1>10. \A o \in Owners : mem'.next[o] = IF o = e THEN Null ELSE IF o = a THEN e ELSE mem.next[o]
  BY <1>2, <1>3, <1>5, <1>7, <1>8, <1>9
<1>11. \A o \in Elements : mem'.prev[o] = IF o = e THEN a ELSE IF o = Null THEN e ELSE mem.prev[o]
  BY <1>2, <1>3, <1>5, <1>7, <1>8, <1>9 DEF Owners
<1>12. \A g \in Heads : mem'.prev[g] = IF g = h /\ Null \notin Elements THEN e ELSE mem.prev[g]
  BY <1>2, <1>3, <1>5, <1>7, <1>8, <1>9, OwnersAssumption DEF Owners
<1> QED
  BY <1>1, <1>9, <1>10, <1>11, <1>12 DEF Inserting

\* TAILQ_INSERT_AFTER links e in between a and b, and assigns no other slot
\* that the family reads.
LEMMA TailInsertAfter ==
  ASSUME NEW h, NEW e, NEW a, NEW b,
         kind = "TAILQ",
         Between(h, e, a, b),
         mem' = TQ!TAILQ_INSERT_AFTER(mem, h, a, e)
  PROVE  Inserting(h, e, a, b)
<1>1. Doubly /\ Tailed /\ End(h) = Null
  BY DEF Doubly, Tailed, End
<1>2. /\ mem \in Memory /\ h \notin Elements /\ Null \notin Owners /\ Null \in Values /\ b \in Values
      /\ h \in Owners /\ h \in Values /\ a \in Owners /\ a \in Values /\ e \in Owners /\ e \in Values
      /\ b \in Elements \/ b = Null
      /\ b # Null => b \in Owners
      /\ a \in Elements \/ a = h
      /\ e \in Elements /\ e # h
      /\ a # e /\ b # e
      /\ mem.next[a] = b
  BY <1>1, OwnersAssumption DEF Between, Owners, Values
<1>3. PICK f \in Owners : f = (IF b = Null THEN h ELSE b)
  BY <1>2 DEF Owners
<1>4. mem.next[a] = b
  BY <1>2, <1>3 DEF TQ!Follower, TQ!TAILQ_END
<1>5. PICK m1 \in Memory :
        /\ m1 = SetNext(mem, e, b) /\ m1.prev = mem.prev
        /\ \A o \in Owners : m1.next[o] = IF o = e THEN b ELSE mem.next[o]
  BY <1>2, SetNextIs
<1>6. TQ!Follower(m1, h, e) = f
  BY <1>2, <1>3, <1>5 DEF TQ!Follower, TQ!TAILQ_END
<1>7. PICK m2 \in Memory :
        /\ m2 = SetPrev(m1, f, e) /\ m2.next = m1.next
        /\ \A o \in Owners : m2.prev[o] = IF o = f THEN e ELSE m1.prev[o]
  BY <1>2, SetPrevIs
<1>8. PICK m3 \in Memory :
        /\ m3 = SetNext(m2, a, e) /\ m3.prev = m2.prev
        /\ \A o \in Owners : m3.next[o] = IF o = a THEN e ELSE m2.next[o]
  BY <1>2, SetNextIs
<1>9. PICK m4 \in Memory :
        /\ m4 = SetPrev(m3, e, a) /\ m4.next = m3.next
        /\ \A o \in Owners : m4.prev[o] = IF o = e THEN a ELSE m3.prev[o]
  BY <1>2, SetPrevIs
<1>10. mem' = m4
  BY <1>3, <1>4, <1>5, <1>6, <1>7, <1>8, <1>9, TailSets DEF TQ!TAILQ_INSERT_AFTER, TQ!TAILQ_END
<1>11. \A o \in Owners : mem'.next[o] = IF o = e THEN b ELSE IF o = a THEN e ELSE mem.next[o]
  BY <1>2, <1>3, <1>5, <1>7, <1>8, <1>9, <1>10
<1>12. \A o \in Elements : mem'.prev[o] = IF o = e THEN a ELSE IF o = b THEN e ELSE mem.prev[o]
  BY <1>2, <1>3, <1>5, <1>7, <1>8, <1>9, <1>10 DEF Owners
<1>13. \A g \in Heads : mem'.prev[g] = IF g = h /\ b \notin Elements THEN e ELSE mem.prev[g]
  BY <1>2, <1>3, <1>5, <1>7, <1>8, <1>9, <1>10, OwnersAssumption DEF Owners
<1> QED
  BY <1>1, <1>10, <1>11, <1>12, <1>13 DEF Inserting

\* TAILQ_INSERT_BEFORE links e in between a and b, and assigns no other slot
\* that the family reads.
LEMMA TailInsertBefore ==
  ASSUME NEW h, NEW e, NEW a, NEW b,
         kind = "TAILQ",
         Between(h, e, a, b),
         b \in Elements,
         h \notin moved,
         mem' = TQ!TAILQ_INSERT_BEFORE(mem, b, e)
  PROVE  Inserting(h, e, a, b)
<1>1. Doubly /\ Tailed /\ End(h) = Null
  BY DEF Doubly, Tailed, End
<1>2. /\ mem \in Memory /\ h \notin Elements /\ Null \notin Owners /\ Null \in Values /\ b \in Values
      /\ h \in Owners /\ h \in Values /\ a \in Owners /\ a \in Values /\ e \in Owners /\ e \in Values
      /\ b \in Elements \/ b = Null
      /\ b # Null => b \in Owners
      /\ a \in Elements \/ a = h
      /\ e \in Elements /\ e # h
      /\ a # e /\ b # e
      /\ mem.next[a] = b
      /\ mem.prev[b] = a
      /\ b \in Owners
  BY <1>1, OwnersAssumption DEF Between, Owners, Values
<1>3. mem.prev[b] = a
  BY <1>2
<1>4. PICK m1 \in Memory :
        /\ m1 = SetPrev(mem, e, a) /\ m1.next = mem.next
        /\ \A o \in Owners : m1.prev[o] = IF o = e THEN a ELSE mem.prev[o]
  BY <1>2, SetPrevIs
<1>5. PICK m2 \in Memory :
        /\ m2 = SetNext(m1, e, b) /\ m2.prev = m1.prev
        /\ \A o \in Owners : m2.next[o] = IF o = e THEN b ELSE m1.next[o]
  BY <1>2, SetNextIs
<1>6. m2.prev[b] = a
  BY <1>2, <1>4, <1>5
<1>7. PICK m3 \in Memory :
        /\ m3 = SetNext(m2, a, e) /\ m3.prev = m2.prev
        /\ \A o \in Owners : m3.next[o] = IF o = a THEN e ELSE m2.next[o]
  BY <1>2, SetNextIs
<1>8. PICK m4 \in Memory :
        /\ m4 = SetPrev(m3, b, e) /\ m4.next = m3.next
        /\ \A o \in Owners : m4.prev[o] = IF o = b THEN e ELSE m3.prev[o]
  BY <1>2, SetPrevIs
<1>9. mem' = m4
  BY <1>3, <1>4, <1>5, <1>6, <1>7, <1>8, TailSets DEF TQ!TAILQ_INSERT_BEFORE, TQ!TAILQ_END
<1>10. \A o \in Owners : mem'.next[o] = IF o = e THEN b ELSE IF o = a THEN e ELSE mem.next[o]
  BY <1>2, <1>4, <1>5, <1>7, <1>8, <1>9
<1>11. \A o \in Elements : mem'.prev[o] = IF o = e THEN a ELSE IF o = b THEN e ELSE mem.prev[o]
  BY <1>2, <1>4, <1>5, <1>7, <1>8, <1>9 DEF Owners
<1>12. \A g \in Heads : mem'.prev[g] = IF g = h /\ b \notin Elements THEN e ELSE mem.prev[g]
  BY <1>2, <1>4, <1>5, <1>7, <1>8, <1>9, OwnersAssumption DEF Owners
<1> QED
  BY <1>1, <1>9, <1>10, <1>11, <1>12 DEF Inserting

\* TAILQ_REMOVE takes x out from between a and b, and of the slots that stay
\* in use assigns no other.
LEMMA TailRemove ==
  ASSUME NEW h, NEW x, NEW a, NEW b,
         kind = "TAILQ",
         Around(h, x, a, b),
         h \notin moved,
         mem' = TQ!TAILQ_REMOVE(mem, h, x)
  PROVE  Removing(h, x, a, b)
<1>1. Doubly /\ Tailed /\ End(h) = Null
  BY DEF Doubly, Tailed, End
<1>2. /\ mem \in Memory /\ h \notin Elements /\ Null \notin Owners /\ Null \in Values /\ b \in Values
      /\ h \in Owners /\ h \in Values /\ a \in Owners /\ a \in Values /\ x \in Owners /\ x \in Values
      /\ b \in Elements \/ b = Null
      /\ b # Null => b \in Owners
      /\ a \in Elements \/ a = h
      /\ x \in Elements /\ x # h
      /\ a # x /\ b # x
      /\ mem.next[a] = x /\ mem.next[x] = b
      /\ mem.prev[x] = a
  BY <1>1, OwnersAssumption DEF Around, Owners, Values
<1>3. PICK f \in Owners : f = (IF b = Null THEN h ELSE b)
  BY <1>2 DEF Owners
<1>4. TQ!Follower(mem, h, x) = f /\ mem.prev[x] = a
  BY <1>2, <1>3 DEF TQ!Follower, TQ!TAILQ_END
<1>5. PICK m1 \in Memory :
        /\ m1 = SetPrev(mem, f, a) /\ m1.next = mem.next
        /\ \A o \in Owners : m1.prev[o] = IF o = f THEN a ELSE mem.prev[o]
  BY <1>2, SetPrevIs
<1>6. m1.prev[x] = a /\ m1.next[x] = b
  BY <1>2, <1>3, <1>5 DEF TQ!Follower, TQ!TAILQ_END
<1>7. PICK m2 \in Memory :
        /\ m2 = SetNext(m1, a, b) /\ m2.prev = m1.prev
        /\ \A o \in Owners : m2.next[o] = IF o = a THEN b ELSE m1.next[o]
  BY <1>2, SetNextIs
<1>8. PICK m3 \in Memory :
        /\ m3 = POSTREMOVE(m2, x)
        /\ \A o \in Owners \ {x} : m3.next[o] = m2.next[o] /\ m3.prev[o] = m2.prev[o]
  BY <1>2, PostRemoveIs
<1>9. mem' = m3
  BY <1>3, <1>4, <1>5, <1>6, <1>7, <1>8, TailSets DEF TQ!TAILQ_REMOVE, TQ!TAILQ_END
<1>10. \A o \in Owners \ {x} : mem'.next[o] = IF o = a THEN b ELSE mem.next[o]
  BY <1>2, <1>3, <1>5, <1>7, <1>8, <1>9
<1>11. \A o \in Elements \ {x} : mem'.prev[o] = IF o = b THEN a ELSE mem.prev[o]
  BY <1>2, <1>3, <1>5, <1>7, <1>8, <1>9 DEF Owners
<1>12. \A g \in Heads : mem'.prev[g] = IF g = h /\ b \notin Elements THEN a ELSE mem.prev[g]
  BY <1>2, <1>3, <1>5, <1>7, <1>8, <1>9, OwnersAssumption DEF Owners
<1> QED
  BY <1>1, <1>9, <1>10, <1>11, <1>12 DEF Removing

\* TAILQ_REPLACE puts e in the place of x, between a and b, and of the slots
\* that stay in use assigns no other.
LEMMA TailReplace ==
  ASSUME NEW h, NEW x, NEW e, NEW a, NEW b,
         kind = "TAILQ",
         Around(h, x, a, b),
         h \notin moved,
         e \in Elements, e # a, e # x, e # b,
         mem' = TQ!TAILQ_REPLACE(mem, h, x, e)
  PROVE  Replacing(h, x, e, a, b)
<1>1. Doubly /\ Tailed /\ End(h) = Null
  BY DEF Doubly, Tailed, End
<1>2. /\ mem \in Memory /\ h \notin Elements /\ Null \notin Owners /\ Null \in Values /\ b \in Values
      /\ h \in Owners /\ h \in Values /\ a \in Owners /\ a \in Values /\ e \in Owners /\ e \in Values /\ x \in Owners /\ x \in Values
      /\ b \in Elements \/ b = Null
      /\ b # Null => b \in Owners
      /\ a \in Elements \/ a = h
      /\ e \in Elements /\ e # h /\ x \in Elements /\ x # h
      /\ a # e /\ b # e /\ a # x /\ b # x /\ x # e
      /\ mem.next[a] = x /\ mem.next[x] = b
      /\ mem.prev[x] = a
  BY <1>1, OwnersAssumption DEF Around, Owners, Values
<1>3. PICK f \in Owners : f = (IF b = Null THEN h ELSE b)
  BY <1>2 DEF Owners
<1>4. mem.next[x] = b
  BY <1>2, <1>3 DEF TQ!Follower, TQ!TAILQ_END
<1>5. PICK m1 \in Memory :
        /\ m1 = SetNext(mem, e, b) /\ m1.prev = mem.prev
        /\ \A o \in Owners : m1.next[o] = IF o = e THEN b ELSE mem.next[o]
  BY <1>2, SetNextIs
<1>6. TQ!Follower(m1, h, e) = f
  BY <1>2, <1>3, <1>5 DEF TQ!Follower, TQ!TAILQ_END
<1>7. PICK m2 \in Memory :
        /\ m2 = SetPrev(m1, f, e) /\ m2.next = m1.next
        /\ \A o \in Owners : m2.prev[o] = IF o = f THEN e ELSE m1.prev[o]
  BY <1>2, SetPrevIs
<1>8. m2.prev[x] = a
  BY <1>2, <1>3, <1>5, <1>7 DEF TQ!Follower, TQ!TAILQ_END
<1>9. PICK m3 \in Memory :
        /\ m3 = SetPrev(m2, e, a) /\ m3.next = m2.next
        /\ \A o \in Owners : m3.prev[o] = IF o = e THEN a ELSE m2.prev[o]
  BY <1>2, SetPrevIs
<1>10. m3.prev[e] = a
  BY <1>2, <1>3, <1>5, <1>7, <1>9 DEF TQ!Follower, TQ!TAILQ_END
<1>11. PICK m4 \in Memory :
        /\ m4 = SetNext(m3, a, e) /\ m4.prev = m3.prev
        /\ \A o \in Owners : m4.next[o] = IF o = a THEN e ELSE m3.next[o]
  BY <1>2, SetNextIs
<1>12. PICK m5 \in Memory :
        /\ m5 = POSTREMOVE(m4, x)
        /\ \A o \in Owners \ {x} : m5.next[o] = m4.next[o] /\ m5.prev[o] = m4.prev[o]
  BY <1>2, PostRemoveIs
<1>13. mem' = m5
  BY <1>3, <1>4, <1>5, <1>6, <1>7, <1>8, <1>9, <1>10, <1>11, <1>12, TailSets DEF TQ!TAILQ_REPLACE, TQ!TAILQ_END
<1>14. \A o \in Owners \ {x} : mem'.next[o] = IF o = e THEN b ELSE IF o = a THEN e ELSE mem.next[o]
  BY <1>2, <1>3, <1>5, <1>7, <1>9, <1>11, <1>12, <1>13
<1>15. \A o \in Elements \ {x} : mem'.prev[o] = IF o = e THEN a ELSE IF o = b THEN e ELSE mem.prev[o]
  BY <1>2, <1>3, <1>5, <1>7, <1>9, <1>11, <1>12, <1>13 DEF Owners
<1>16. \A g \in Heads : mem'.prev[g] = IF g = h /\ b \notin Elements THEN e ELSE mem.prev[g]
  BY <1>2, <1>3, <1>5, <1>7, <1>9, <1>11, <1>12, <1>13, OwnersAssumption DEF Owners
<1> QED
  BY <1>1, <1>13, <1>14, <1>15, <1>16 DEF Replacing

\* CIRCLEQ_INSERT_AFTER links e in between a and b, and assigns no other slot
\* that the family reads.
LEMMA CircInsertAfter ==
  ASSUME NEW h, NEW e, NEW a, NEW b,
         kind = "CIRCLEQ",
         Between(h, e, a, b),
         mem' = CQ!CIRCLEQ_INSERT_AFTER(mem, h, a, e)
  PROVE  Inserting(h, e, a, b)
<1>1. Doubly /\ Tailed /\ End(h) = h
  BY DEF Doubly, Tailed, End
<1>2. /\ mem \in Memory /\ h \notin Elements /\ Null \notin Owners /\ Null \in Values /\ b \in Values
      /\ h \in Owners /\ h \in Values /\ a \in Owners /\ a \in Values /\ e \in Owners /\ e \in Values
      /\ b \in Elements \/ b = h
      /\ b \in Owners
      /\ a \in Elements \/ a = h
      /\ e \in Elements /\ e # h
      /\ a # e /\ b # e
      /\ mem.next[a] = b
  BY <1>1, OwnersAssumption DEF Between, Owners, Values
<1>3. mem.next[a] = b
  BY <1>2
<1>4. PICK m1 \in Memory :
        /\ m1 = SetNext(mem, e, b) /\ m1.prev = mem.prev
        /\ \A o \in Owners : m1.next[o] = IF o = e THEN b ELSE mem.next[o]
  BY <1>2, SetNextIs
<1>5. PICK m2 \in Memory :
        /\ m2 = SetPrev(m1, e, a) /\ m2.next = m1.next
        /\ \A o \in Owners : m2.prev[o] = IF o = e THEN a ELSE m1.prev[o]
  BY <1>2, SetPrevIs
<1>6. m2.next[a] = b
  BY <1>2, <1>4, <1>5
<1>7. PICK m3 \in Memory :
        /\ m3 = SetPrev(m2, b, e) /\ m3.next = m2.next
        /\ \A o \in Owners : m3.prev[o] = IF o = b THEN e ELSE m2.prev[o]
  BY <1>2, SetPrevIs
<1>8. PICK m4 \in Memory :
        /\ m4 = SetNext(m3, a, e) /\ m4.prev = m3.prev
        /\ \A o \in Owners : m4.next[o] = IF o = a THEN e ELSE m3.next[o]
  BY <1>2, SetNextIs
<1>9. mem' = m4
  BY <1>3, <1>4, <1>5, <1>6, <1>7, <1>8, CircSets DEF CQ!CIRCLEQ_INSERT_AFTER, CQ!CIRCLEQ_END
<1>10. \A o \in Owners : mem'.next[o] = IF o = e THEN b ELSE IF o = a THEN e ELSE mem.next[o]
  BY <1>2, <1>4, <1>5, <1>7, <1>8, <1>9
<1>11. \A o \in Elements : mem'.prev[o] = IF o = e THEN a ELSE IF o = b THEN e ELSE mem.prev[o]
  BY <1>2, <1>4, <1>5, <1>7, <1>8, <1>9 DEF Owners
<1>12. \A g \in Heads : mem'.prev[g] = IF g = h /\ b \notin Elements THEN e ELSE mem.prev[g]
  BY <1>2, <1>4, <1>5, <1>7, <1>8, <1>9, OwnersAssumption DEF Owners
<1> QED
  BY <1>1, <1>9, <1>10, <1>11, <1>12 DEF Inserting

\* CIRCLEQ_INSERT_BEFORE links e in between a and b, and assigns no other slot
\* that the family reads.
LEMMA CircInsertBefore ==
  ASSUME NEW h, NEW e, NEW a, NEW b,
         kind = "CIRCLEQ",
         Between(h, e, a, b),
         h \notin moved,
         mem' = CQ!CIRCLEQ_INSERT_BEFORE(mem, h, b, e)
  PROVE  Inserting(h, e, a, b)
<1>1. Doubly /\ Tailed /\ End(h) = h
  BY DEF Doubly, Tailed, End
<1>2. /\ mem \in Memory /\ h \notin Elements /\ Null \notin Owners /\ Null \in Values /\ b \in Values
      /\ h \in Owners /\ h \in Values /\ a \in Owners /\ a \in Values /\ e \in Owners /\ e \in Values
      /\ b \in Elements \/ b = h
      /\ b \in Owners
      /\ a \in Elements \/ a = h
      /\ e \in Elements /\ e # h
      /\ a # e /\ b # e
      /\ mem.next[a] = b
      /\ mem.prev[b] = a
  BY <1>1, OwnersAssumption DEF Between, Owners, Values
<1>3. PICK m1 \in Memory :
        /\ m1 = SetNext(mem, e, b) /\ m1.prev = mem.prev
        /\ \A o \in Owners : m1.next[o] = IF o = e THEN b ELSE mem.next[o]
  BY <1>2, SetNextIs
<1>4. m1.prev[b] = a
  BY <1>2, <1>3
<1>5. PICK m2 \in Memory :
        /\ m2 = SetPrev(m1, e, a) /\ m2.next = m1.next
        /\ \A o \in Owners : m2.prev[o] = IF o = e THEN a ELSE m1.prev[o]
  BY <1>2, SetPrevIs
<1>6. m2.prev[b] = a
  BY <1>2, <1>3, <1>5
<1>7. PICK m3 \in Memory :
        /\ m3 = SetNext(m2, a, e) /\ m3.prev = m2.prev
        /\ \A o \in Owners : m3.next[o] = IF o = a THEN e ELSE m2.next[o]
  BY <1>2, SetNextIs
<1>8. PICK m4 \in Memory :
        /\ m4 = SetPrev(m3, b, e) /\ m4.next = m3.next
        /\ \A o \in Owners : m4.prev[o] = IF o = b THEN e ELSE m3.prev[o]
  BY <1>2, SetPrevIs
<1>9. mem' = m4
  BY <1>3, <1>4, <1>5, <1>6, <1>7, <1>8, CircSets DEF CQ!CIRCLEQ_INSERT_BEFORE, CQ!CIRCLEQ_END
<1>10. \A o \in Owners : mem'.next[o] = IF o = e THEN b ELSE IF o = a THEN e ELSE mem.next[o]
  BY <1>2, <1>3, <1>5, <1>7, <1>8, <1>9
<1>11. \A o \in Elements : mem'.prev[o] = IF o = e THEN a ELSE IF o = b THEN e ELSE mem.prev[o]
  BY <1>2, <1>3, <1>5, <1>7, <1>8, <1>9 DEF Owners
<1>12. \A g \in Heads : mem'.prev[g] = IF g = h /\ b \notin Elements THEN e ELSE mem.prev[g]
  BY <1>2, <1>3, <1>5, <1>7, <1>8, <1>9, OwnersAssumption DEF Owners
<1> QED
  BY <1>1, <1>9, <1>10, <1>11, <1>12 DEF Inserting

\* CIRCLEQ_INSERT_HEAD links e in between a and b, and assigns no other slot
\* that the family reads.
LEMMA CircInsertHead ==
  ASSUME NEW h, NEW e, NEW b,
         kind = "CIRCLEQ",
         Between(h, e, h, b),
         mem' = CQ!CIRCLEQ_INSERT_HEAD(mem, h, e)
  PROVE  Inserting(h, e, h, b)
<1>1. Doubly /\ Tailed /\ End(h) = h
  BY DEF Doubly, Tailed, End
<1>2. /\ mem \in Memory /\ h \notin Elements /\ Null \notin Owners /\ Null \in Values /\ b \in Values
      /\ h \in Owners /\ h \in Values /\ e \in Owners /\ e \in Values
      /\ b \in Elements \/ b = h
      /\ b \in Owners
      /\ e \in Elements /\ e # h
      /\ b # e
      /\ mem.next[h] = b
      /\ mem.prev[h] = h <=> b = h
  BY <1>1, OwnersAssumption DEF Between, Owners, Values
<1>3. mem.next[h] = b
  BY <1>2
<1>4. PICK m1 \in Memory :
        /\ m1 = SetNext(mem, e, b) /\ m1.prev = mem.prev
        /\ \A o \in Owners : m1.next[o] = IF o = e THEN b ELSE mem.next[o]
  BY <1>2, SetNextIs
<1>5. PICK m2 \in Memory :
        /\ m2 = SetPrev(m1, e, h) /\ m2.next = m1.next
        /\ \A o \in Owners : m2.prev[o] = IF o = e THEN h ELSE m1.prev[o]
  BY <1>2, SetPrevIs
<1>6. (IF m2.prev[h] = h THEN h ELSE m2.next[h]) = b
  BY <1>2, <1>4, <1>5
<1>7. PICK m3 \in Memory :
        /\ m3 = SetPrev(m2, b, e) /\ m3.next = m2.next
        /\ \A o \in Owners : m3.prev[o] = IF o = b THEN e ELSE m2.prev[o]
  BY <1>2, SetPrevIs
<1>8. PICK m4 \in Memory :
        /\ m4 = SetNext(m3, h, e) /\ m4.prev = m3.prev
        /\ \A o \in Owners : m4.next[o] = IF o = h THEN e ELSE m3.next[o]
  BY <1>2, SetNextIs
<1>9. mem' = m4
  BY <1>3, <1>4, <1>5, <1>6, <1>7, <1>8, CircSets DEF CQ!CIRCLEQ_INSERT_HEAD, CQ!CIRCLEQ_END
<1>10. \A o \in Owners : mem'.next[o] = IF o = e THEN b ELSE IF o = h THEN e ELSE mem.next[o]
  BY <1>2, <1>4, <1>5, <1>7, <1>8, <1>9
<1>11. \A o \in Elements : mem'.prev[o] = IF o = e THEN h ELSE IF o = b THEN e ELSE mem.prev[o]
  BY <1>2, <1>4, <1>5, <1>7, <1>8, <1>9 DEF Owners
<1>12. \A g \in Heads : mem'.prev[g] = IF g = h /\ b \notin Elements THEN e ELSE mem.prev[g]
  BY <1>2, <1>4, <1>5, <1>7, <1>8, <1>9, OwnersAssumption DEF Owners
<1> QED
  BY <1>1, <1>9, <1>10, <1>11, <1>12 DEF Inserting

\* CIRCLEQ_INSERT_TAIL links e in between a and b, and assigns no other slot
\* that the family reads.
LEMMA CircInsertTail ==
  ASSUME NEW h, NEW e, NEW a,
         kind = "CIRCLEQ",
         Between(h, e, a, h),
         mem' = CQ!CIRCLEQ_INSERT_TAIL(mem, h, e)
  PROVE  Inserting(h, e, a, h)
<1>1. Doubly /\ Tailed /\ End(h) = h
  BY DEF Doubly, Tailed, End
<1>2. /\ mem \in Memory /\ h \notin Elements /\ Null \notin Owners /\ Null \in Values /\ h \in Values
      /\ h \in Owners /\ h \in Values /\ a \in Owners /\ a \in Values /\ e \in Owners /\ e \in Values
      /\ a \in Elements \/ a = h
      /\ e \in Elements /\ e # h
      /\ a # e
      /\ mem.next[a] = h
      /\ mem.prev[h] = a
      /\ mem.next[h] = h <=> a = h
  BY <1>1, OwnersAssumption DEF Between, Owners, Values
<1>3. PICK m1 \in Memory :
        /\ m1 = SetNext(mem, e, h) /\ m1.prev = mem.prev
        /\ \A o \in Owners : m1.next[o] = IF o = e THEN h ELSE mem.next[o]
  BY <1>2, SetNextIs
<1>4. m1.prev[h] = a
  BY <1>2, <1>3
<1>5. PICK m2 \in Memory :
        /\ m2 = SetPrev(m1, e, a) /\ m2.next = m1.next
        /\ \A o \in Owners : m2.prev[o] = IF o = e THEN a ELSE m1.prev[o]
  BY <1>2, SetPrevIs
<1>6. (IF m2.next[h] = h THEN h ELSE m2.prev[h]) = a
  BY <1>2, <1>3, <1>5
<1>7. PICK m3 \in Memory :
        /\ m3 = SetNext(m2, a, e) /\ m3.prev = m2.prev
        /\ \A o \in Owners : m3.next[o] = IF o = a THEN e ELSE m2.next[o]
  BY <1>2, SetNextIs
<1>8. PICK m4 \in Memory :
        /\ m4 = SetPrev(m3, h, e) /\ m4.next = m3.next
        /\ \A o \in Owners : m4.prev[o] = IF o = h THEN e ELSE m3.prev[o]
  BY <1>2, SetPrevIs
<1>9. mem' = m4
  BY <1>3, <1>4, <1>5, <1>6, <1>7, <1>8, CircSets DEF CQ!CIRCLEQ_INSERT_TAIL, CQ!CIRCLEQ_END
<1>10. \A o \in Owners : mem'.next[o] = IF o = e THEN h ELSE IF o = a THEN e ELSE mem.next[o]
  BY <1>2, <1>3, <1>5, <1>7, <1>8, <1>9
<1>11. \A o \in Elements : mem'.prev[o] = IF o = e THEN a ELSE IF o = h THEN e ELSE mem.prev[o]
  BY <1>2, <1>3, <1>5, <1>7, <1>8, <1>9 DEF Owners
<1>12. \A g \in Heads : mem'.prev[g] = IF g = h /\ h \notin Elements THEN e ELSE mem.prev[g]
  BY <1>2, <1>3, <1>5, <1>7, <1>8, <1>9, OwnersAssumption DEF Owners
<1> QED
  BY <1>1, <1>9, <1>10, <1>11, <1>12 DEF Inserting

\* CIRCLEQ_REMOVE takes x out from between a and b, and of the slots that stay
\* in use assigns no other.
LEMMA CircRemove ==
  ASSUME NEW h, NEW x, NEW a, NEW b,
         kind = "CIRCLEQ",
         Around(h, x, a, b),
         h \notin moved,
         mem' = CQ!CIRCLEQ_REMOVE(mem, h, x)
  PROVE  Removing(h, x, a, b)
<1>1. Doubly /\ Tailed /\ End(h) = h
  BY DEF Doubly, Tailed, End
<1>2. /\ mem \in Memory /\ h \notin Elements /\ Null \notin Owners /\ Null \in Values /\ b \in Values
      /\ h \in Owners /\ h \in Values /\ a \in Owners /\ a \in Values /\ x \in Owners /\ x \in Values
      /\ b \in Elements \/ b = h
      /\ b \in Owners
      /\ a \in Elements \/ a = h
      /\ x \in Elements /\ x # h
      /\ a # x /\ b # x
      /\ mem.next[a] = x /\ mem.next[x] = b
      /\ mem.prev[x] = a
  BY <1>1, OwnersAssumption DEF Around, Owners, Values
<1>3. mem.next[x] = b /\ mem.prev[x] = a
  BY <1>2
<1>4. PICK m1 \in Memory :
        /\ m1 = SetPrev(mem, b, a) /\ m1.next = mem.next
        /\ \A o \in Owners : m1.prev[o] = IF o = b THEN a ELSE mem.prev[o]
  BY <1>2, SetPrevIs
<1>5. m1.prev[x] = a /\ m1.next[x] = b
  BY <1>2, <1>4
<1>6. PICK m2 \in Memory :
        /\ m2 = SetNext(m1, a, b) /\ m2.prev = m1.prev
        /\ \A o \in Owners : m2.next[o] = IF o = a THEN b ELSE m1.next[o]
  BY <1>2, SetNextIs
<1>7. PICK m3 \in Memory :
        /\ m3 = POSTREMOVE(m2, x)
        /\ \A o \in Owners \ {x} : m3.next[o] = m2.next[o] /\ m3.prev[o] = m2.prev[o]
  BY <1>2, PostRemoveIs
<1>8. mem' = m3
  BY <1>3, <1>4, <1>5, <1>6, <1>7, CircSets DEF CQ!CIRCLEQ_REMOVE, CQ!CIRCLEQ_END
<1>9. \A o \in Owners \ {x} : mem'.next[o] = IF o = a THEN b ELSE mem.next[o]
  BY <1>2, <1>4, <1>6, <1>7, <1>8
<1>10. \A o \in Elements \ {x} : mem'.prev[o] = IF o = b THEN a ELSE mem.prev[o]
  BY <1>2, <1>4, <1>6, <1>7, <1>8 DEF Owners
<1>11. \A g \in Heads : mem'.prev[g] = IF g = h /\ b \notin Elements THEN a ELSE mem.prev[g]
  BY <1>2, <1>4, <1>6, <1>7, <1>8, OwnersAssumption DEF Owners
<1> QED
  BY <1>1, <1>8, <1>9, <1>10, <1>11 DEF Removing

==============================================================================
