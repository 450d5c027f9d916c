--------------------------- MODULE ReleaseLedger ---------------------------
(***************************************************************************)
(* What the publish workflow promises, with the steps, the registry and    *)
(* the runners left out: each execution releases at most one installer, in *)
(* one step and for good, and every part of it carries one signing key     *)
(* that this execution made.                                               *)
(***************************************************************************)
CONSTANTS
  Runs,          \* executions of the workflow
  KeysOfRun(_),  \* the signing keys an execution can make
  NoRelease      \* nothing released by this execution

Whole(k) == [kernel |-> k, modules |-> k, nvidia |-> k]

VARIABLE released  \* the installer each execution has released

Init == released = [r \in Runs |-> NoRelease]

Release(r) ==
  /\ released[r] = NoRelease
  /\ \E k \in KeysOfRun(r) : released' = [released EXCEPT ![r] = Whole(k)]

Next == \E r \in Runs : Release(r)

Spec == Init /\ [][Next]_released

=============================================================================
