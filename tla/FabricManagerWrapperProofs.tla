-------------------- MODULE FabricManagerWrapperProofs --------------------
(***************************************************************************)
(* The wrapper never leaves a child behind: theorem and proof.             *)
(***************************************************************************)
EXTENDS FabricManagerWrapper, TLAPS

LEMMA InitIInv == Init => IInv
<1> SUFFICES ASSUME Init PROVE IInv
  OBVIOUS
<1>1. /\ hasPort \in BOOLEAN
      /\ cancelled \in BOOLEAN
      /\ timer \in BOOLEAN
      /\ socketDir \in BOOLEAN
  BY Zenon DEF Init
<1>2. /\ main = "scan" /\ child = NoChild /\ wg = 0
      /\ signal = "armed" /\ socket = "absent"
  BY Zenon DEF Init
<1> QED
  BY <1>1, <1>2
     DEF IInv, TypeOK, WrapperUp, Outstanding, ExitLeavesNoProcess, Alive,
         NoChild, Children, ChildStates, MainSteps

\* A command's goroutine keeps the books: it is counted until it calls wg.Done.
LEMMA CommandKeepsBooks ==
  ASSUME IInv, WrapperUp, NEW c \in Children, CommandStep(c) \/ ProcessEnds(c)
  PROVE  IInv'
<1> USE DEF IInv, TypeOK, WrapperUp, Outstanding, ExitLeavesNoProcess, Alive,
        Children, ChildStates, MainSteps, ChildMoves
<1>0. CASE CheckContext(c)
  BY <1>0 DEF CheckContext
<1>1. CASE StartProcess(c)
  BY <1>1 DEF StartProcess
<1>2. CASE Interrupt(c)
  BY <1>2 DEF Interrupt
<1>3. CASE Kill(c)
  BY <1>3 DEF Kill
<1>4. CASE WgDone(c)
  BY <1>4 DEF WgDone
<1>5. CASE DoneCb(c)
  BY <1>5 DEF DoneCb
<1>6. CASE ProcessEnds(c)
  BY <1>6 DEF ProcessEnds
<1> QED
  BY <1>0, <1>1, <1>2, <1>3, <1>4, <1>5, <1>6 DEF CommandStep

LEMMA MainKeepsBooks ==
  ASSUME IInv, MainStep
  PROVE  IInv'
<1> USE DEF IInv, TypeOK, WrapperUp, Outstanding, ExitLeavesNoProcess, Alive,
        Children, ChildStates, MainSteps
<1>1. CASE FindNvswitchMgmtPort
  BY <1>1 DEF FindNvswitchMgmtPort
<1>2. CASE StartSubnetManager
  BY <1>2 DEF StartSubnetManager, RunCommand
<1>3. CASE SocketTimer
  BY <1>3 DEF SocketTimer
<1>4. CASE WaitForFile
  BY <1>4 DEF WaitForFile
<1>5. CASE Settle
  BY <1>5 DEF Settle
<1>6. CASE StartFabricManager
  BY <1>6 DEF StartFabricManager, RunCommand
<1>7. CASE WaitGroup
  BY <1>7 DEF WaitGroup
<1> QED
  BY <1>1, <1>2, <1>3, <1>4, <1>5, <1>6, <1>7 DEF MainStep

\* Signals, the subnet manager's socket and the service manager.
LEMMA OutsideKeepsBooks ==
  ASSUME IInv, CreateSocket \/ Signal \/ GracefulShutdown \/ Restart
  PROVE  IInv'
<1> USE DEF IInv, TypeOK, WrapperUp, Outstanding, ExitLeavesNoProcess, Alive,
        Children, ChildStates, MainSteps, NoChild
<1>1. CASE CreateSocket
  BY <1>1 DEF CreateSocket
<1>2. CASE Signal
  BY <1>2 DEF Signal
<1>3. CASE GracefulShutdown
  BY <1>3 DEF GracefulShutdown
<1>4. CASE Restart
  <2>1. /\ hasPort' \in BOOLEAN
        /\ cancelled' \in BOOLEAN
        /\ timer' \in BOOLEAN
    BY <1>4, Zenon DEF Restart
  <2>2. socketDir' = socketDir
    BY <1>4, Zenon DEF Restart
  <2>3. /\ main' = "scan" /\ child' = [c \in {"sm", "fm"} |-> "none"] /\ wg' = 0
        /\ signal' = "armed"
        /\ socket' = IF socket = "absent" THEN "absent" ELSE "stale"
    BY <1>4, Zenon DEF Restart
  <2>4. socket' \in {"absent", "fresh", "stale"}
    BY <2>3
  <2> QED
    BY <2>1, <2>2, <2>3, <2>4
<1> QED
  BY <1>1, <1>2, <1>3, <1>4

LEMMA Invariant == Spec => []IInv
<1>1. ASSUME IInv, [Next]_vars
      PROVE  IInv'
  <2>1. CASE UNCHANGED vars
    BY <1>1, <2>1 DEF vars, IInv, TypeOK, WrapperUp, Outstanding,
                      ExitLeavesNoProcess, Alive
  <2> QED
    BY <1>1, <2>1, CommandKeepsBooks, MainKeepsBooks, OutsideKeepsBooks DEF Next
<1> QED
  BY InitIInv, <1>1, PTL DEF Spec

\* The wait group's counter never goes below zero, which would be a panic, and
\* every other variable stays in its type.
THEOREM TypeCorrect == Spec => []TypeOK
<1>1. IInv => TypeOK
  BY DEF IInv
<1> QED
  BY Invariant, <1>1, PTL

\* main returns only when the wait group is empty, and the wait group counts
\* every process: no NVLSM and no Fabric Manager is left running by a main that
\* returns, across any number of restarts.
THEOREM NoProcessLeft == Spec => []ExitLeavesNoProcess
<1>1. IInv => ExitLeavesNoProcess
  BY DEF IInv
<1> QED
  BY Invariant, <1>1, PTL

-----------------------------------------------------------------------------
(* The context is not revived: what StartRefusedAfterSubnetManager rests on. *)

\* Only Restart takes back a cancellation, and it forgets both commands.
LEMMA EndStaysCancelled ==
  ASSUME TypeOK, EndCancels, [Next]_vars
  PROVE  EndCancels'
<1>1. CASE \E c \in Children : CommandStep(c) \/ ProcessEnds(c)
  <2>1. PICK c \in Children : CommandStep(c) \/ ProcessEnds(c)
    BY <1>1
  <2>2. CASE DoneCb(c)
    BY <2>2, Zenon DEF DoneCb, EndCancels
  <2>3. CASE \/ CheckContext(c) \/ StartProcess(c) \/ Interrupt(c) \/ Kill(c)
             \/ WgDone(c) \/ ProcessEnds(c)
    <3>1. \E to \in ChildStates \ {"done"} : child' = [child EXCEPT ![c] = to]
      BY <2>3 DEF CheckContext, StartProcess, Interrupt, Kill, WgDone, ProcessEnds,
                  ChildMoves, ChildStates
    <3>2. main' = main /\ cancelled' = cancelled
      BY <2>3, Zenon DEF CheckContext, StartProcess, Interrupt, Kill, WgDone, ProcessEnds
    <3>3. \A d \in Children : child'[d] = "done" => child[d] = "done"
      BY <3>1 DEF TypeOK
    <3> QED
      BY <3>2, <3>3, Zenon DEF EndCancels, WrapperUp
  <2> QED
    BY <2>1, <2>2, <2>3 DEF CommandStep
<1>2. CASE MainStep
  <2>1. cancelled' = cancelled /\ main \notin {"exited", "killed"}
    BY <1>2 DEF MainStep, FindNvswitchMgmtPort, StartSubnetManager, SocketTimer,
       WaitForFile, Settle, StartFabricManager, WaitGroup
  <2>2. \A d \in Children : child'[d] = "done" => child[d] = "done"
    BY <1>2 DEF MainStep, FindNvswitchMgmtPort, StartSubnetManager, SocketTimer,
       WaitForFile, Settle, StartFabricManager, WaitGroup, RunCommand, TypeOK
  <2> QED
    BY <2>1, <2>2, Zenon DEF EndCancels, WrapperUp
<1>3. CASE CreateSocket
  BY <1>3, Zenon DEF CreateSocket, EndCancels, WrapperUp
<1>4. CASE Signal
  <2>1. cancelled' = cancelled /\ child' = child /\ WrapperUp
    BY <1>4, Zenon DEF Signal
  <2> QED
    BY <2>1, Zenon DEF EndCancels, WrapperUp
<1>5. CASE GracefulShutdown
  BY <1>5, Zenon DEF GracefulShutdown, EndCancels
<1>6. CASE Restart
  <2>1. child' = NoChild
    BY <1>6, Zenon DEF Restart
  <2>2. \A d \in Children : child'[d] # "done"
    BY <2>1 DEF NoChild
  <2> QED
    BY <2>2, Zenon DEF EndCancels
<1>7. CASE UNCHANGED vars
  BY <1>7, Zenon DEF vars, EndCancels, WrapperUp
<1> QED
  BY <1>1, <1>2, <1>3, <1>4, <1>5, <1>6, <1>7, Zenon DEF Next

\* Once NVLSM has ended and doneCb has run, the goroutine of the Fabric Manager
\* may still be on its way to cmd.Start, but cmd.Start refuses: the context was
\* cancelled before, and only a restart makes a new one.
THEOREM LateStartRefused == Spec => StartRefusedAfterSubnetManager
<1>1. Init => EndCancels
  <2> SUFFICES ASSUME Init PROVE EndCancels
    OBVIOUS
  <2>1. child = NoChild
    BY Zenon DEF Init
  <2> QED
    BY <2>1 DEF NoChild, EndCancels
<1>2. IInv /\ EndCancels /\ [Next]_vars => EndCancels'
  BY EndStaysCancelled DEF IInv
<1>3. IInv /\ EndCancels /\ [Next]_vars
        => [child["sm"] = "done" /\ child["fm"] \in {"none", "launching"}
              => child'["fm"] \notin {"starting", "running"}]_vars
  <2> SUFFICES ASSUME IInv, EndCancels, Next,
                      child["sm"] = "done", child["fm"] \in {"none", "launching"}
               PROVE  child'["fm"] \notin {"starting", "running"}
    OBVIOUS
  <2>1. TypeOK
    BY DEF IInv
  <2>2. CASE WrapperUp /\ \E c \in Children : CommandStep(c) \/ ProcessEnds(c)
    <3>1. PICK c \in Children : CommandStep(c) \/ ProcessEnds(c)
      BY <2>2
    <3>2. cancelled
      BY <2>2, Zenon DEF EndCancels, Children
    <3>3. CASE CheckContext(c)
      <4>1. ChildMoves(c, {"launching"}, "over")
        BY <3>2, <3>3, Zenon DEF CheckContext
      <4> QED
        BY <2>1, <4>1 DEF ChildMoves, TypeOK, Children
    <3>4. CASE StartProcess(c)
      <4>1. PICK to \in {"running", "over"} : ChildMoves(c, {"starting"}, to)
        BY <3>4 DEF StartProcess
      <4>2. c = "sm"
        BY <4>1 DEF ChildMoves, Children
      <4> QED
        BY <2>1, <4>1, <4>2 DEF ChildMoves, TypeOK, Children
    <3>5. CASE Interrupt(c) \/ Kill(c) \/ WgDone(c) \/ DoneCb(c) \/ ProcessEnds(c)
      <4>1. \E from \in SUBSET ChildStates,
               to \in ChildStates \ {"starting", "running"} : ChildMoves(c, from, to)
        BY <3>5 DEF Interrupt, Kill, WgDone, DoneCb, ProcessEnds, ChildStates
      <4> QED
        BY <2>1, <4>1 DEF ChildMoves, TypeOK, Children
    <3> QED
      BY <3>1, <3>3, <3>4, <3>5, Zenon DEF CommandStep
  <2>3. CASE MainStep
    BY <2>1, <2>3 DEF MainStep, FindNvswitchMgmtPort, StartSubnetManager, SocketTimer,
       WaitForFile, Settle, StartFabricManager, WaitGroup, RunCommand, TypeOK, Children
  <2>4. CASE CreateSocket \/ Signal \/ GracefulShutdown
    <3>1. child' = child
      BY <2>4, Zenon DEF CreateSocket, Signal, GracefulShutdown
    <3> QED
      BY <3>1
  <2>5. CASE Restart
    <3>1. child' = NoChild
      BY <2>5, Zenon DEF Restart
    <3> QED
      BY <3>1 DEF NoChild, Children
  <2> QED
    BY <2>2, <2>3, <2>4, <2>5, Zenon DEF Next
<1> QED
  BY Invariant, <1>1, <1>2, <1>3, PTL DEF Spec, StartRefusedAfterSubnetManager

=============================================================================
