----------------------- MODULE FabricManagerWrapper -----------------------
(***************************************************************************)
(* nvidia-fabricmanager-wrapper (main.go): the entry point of the          *)
(* fabricmanager service.  On boards with an NVSwitch management port it   *)
(* starts the subnet manager NVLSM, waits for its socket and then starts   *)
(* the Fabric Manager; without such a port it starts the Fabric Manager    *)
(* alone.  One cancellable context ties everything together: a signal, or  *)
(* the end of either child, cancels it, and the other child is then        *)
(* interrupted and, after WaitDelay, killed.  main returns when the wait   *)
(* group is empty; Talos starts the service again (restart: always).       *)
(*                                                                         *)
(* The socket lies in a directory bind-mounted from the host, so it        *)
(* outlives the wrapper.                                                   *)
(***************************************************************************)
EXTENDS Integers, FiniteSets

Children == {"sm", "fm"}

\* none        runCommand not called
\* launching   the goroutine runs, cmd.Run has not looked at the context
\* starting    cmd.Run has found the context alive and is creating the process
\* running     the process runs
\* interrupted the context was cancelled and SIGINT sent
\* over        cmd.Run has returned (or the process was never started)
\* counted     wg.Done was called, doneCb not yet
\* done        the goroutine has ended
ChildStates ==
  {"none", "launching", "starting", "running", "interrupted", "over",
   "counted", "done"}

\* exited: main has returned.  killed: a signal has ended the wrapper.
MainSteps == {"scan", "start_sm", "wait_socket", "settle", "start_fm",
              "wait_group", "exited", "killed"}

VARIABLES
  main,       \* where main() is
  hasPort,    \* fmSmMgmtPortGUID # ""
  child,      \* the goroutine and process of each command
  wg,         \* counter of cmdWg
  cancelled,  \* runCtx is done
  signal,     \* signalsChan and its reader: "armed", "queued", "stopped"
  timer,      \* the timer of waitForFile has fired
  socketDir,  \* the directory of smSocket exists
  socket      \* smSocket: "absent", "fresh" (of this NVLSM), "stale"

vars ==
  <<main, hasPort, child, wg, cancelled, signal, timer, socketDir, socket>>

WrapperUp == main \notin {"exited", "killed"}

Alive(c) == child[c] \in {"running", "interrupted"}

NoChild == [c \in Children |-> "none"]

Init ==
  /\ main = "scan"
  /\ hasPort = FALSE
  /\ child = NoChild
  /\ wg = 0
  /\ cancelled = FALSE
  /\ signal = "armed"
  /\ timer = FALSE
  /\ socketDir = FALSE
  /\ socket = "absent"

-----------------------------------------------------------------------------
(* runCommand: the goroutine and the process of one command.                 *)

\* wg.Add(1) and go func(): in the calling goroutine.
RunCommand(c) ==
  /\ wg' = wg + 1
  /\ child' = [child EXCEPT ![c] = "launching"]

ChildMoves(c, from, to) ==
  /\ child[c] \in from
  /\ child' = [child EXCEPT ![c] = to]

\* cmd.Start: refuses when the context is done...
CheckContext(c) ==
  /\ ChildMoves(c, {"launching"}, IF cancelled THEN "over" ELSE "starting")
  /\ UNCHANGED <<main, hasPort, wg, cancelled, signal, timer, socketDir, socket>>

\* Mutant: a command that cannot be started leaves the wait group at once, and
\* once more when its goroutine ends.
StartProcessCountsDown(c) ==
  /\ \E to \in {"running", "over"} :
       /\ ChildMoves(c, {"starting"}, to)
       /\ wg' = IF to = "over" THEN wg - 1 ELSE wg
  /\ UNCHANGED <<main, hasPort, cancelled, signal, timer, socketDir, socket>>

\* ... and later creates the process, or fails to, without a second look at the
\* context; only then does anybody watch it.
StartProcess(c) ==
  /\ \E to \in {"running", "over"} : ChildMoves(c, {"starting"}, to)
  /\ UNCHANGED <<main, hasPort, wg, cancelled, signal, timer, socketDir, socket>>

\* cmd.Cancel, called once the context is done.
Interrupt(c) ==
  /\ cancelled
  /\ ChildMoves(c, {"running"}, "interrupted")
  /\ UNCHANGED <<main, hasPort, wg, cancelled, signal, timer, socketDir, socket>>

\* The process ends by itself; NVLSM may remove its socket, or may not.
ProcessEnds(c) ==
  /\ ChildMoves(c, {"running", "interrupted"}, "over")
  /\ \/ UNCHANGED socket
     \/ c = "sm" /\ socket' = "absent"
  /\ UNCHANGED <<main, hasPort, wg, cancelled, signal, timer, socketDir>>

\* Mutant: WaitDelay is left at zero, which means for ever.
KillNever(c) == FALSE /\ UNCHANGED vars

\* WaitDelay after the cancellation: os/exec kills what is left.
Kill(c) ==
  /\ ChildMoves(c, {"interrupted"}, "over")
  /\ UNCHANGED <<main, hasPort, wg, cancelled, signal, timer, socketDir, socket>>

\* Mutant: the wait group is not told.
WgDoneForgotten(c) ==
  /\ ChildMoves(c, {"over"}, "counted")
  /\ UNCHANGED <<main, hasPort, wg, cancelled, signal, timer, socketDir, socket>>

WgDone(c) ==
  /\ ChildMoves(c, {"over"}, "counted")
  /\ wg' = wg - 1
  /\ UNCHANGED <<main, hasPort, cancelled, signal, timer, socketDir, socket>>

\* Mutant: the end of a command concerns nobody else.
DoneCbNothing(c) ==
  /\ ChildMoves(c, {"counted"}, "done")
  /\ UNCHANGED <<main, hasPort, wg, cancelled, signal, timer, socketDir, socket>>

\* doneCb is gracefulShutdown: the end of one command ends the other.
DoneCb(c) ==
  /\ ChildMoves(c, {"counted"}, "done")
  /\ cancelled' = TRUE
  /\ UNCHANGED <<main, hasPort, wg, signal, timer, socketDir, socket>>

CommandStep(c) ==
  \/ CheckContext(c) \/ StartProcess(c) \/ Interrupt(c) \/ Kill(c)
  \/ WgDone(c) \/ DoneCb(c)

\* NVLSM's plugin creates its socket, over an old one if need be.
CreateSocket ==
  /\ Alive("sm") /\ socketDir
  /\ socket' = "fresh"
  /\ UNCHANGED <<main, hasPort, child, wg, cancelled, signal, timer, socketDir>>

-----------------------------------------------------------------------------
(* main.                                                                     *)

FindNvswitchMgmtPort ==
  /\ main = "scan"
  /\ \E found \in BOOLEAN :
       /\ hasPort' = found
       /\ main' = IF found THEN "start_sm" ELSE "start_fm"
  /\ UNCHANGED <<child, wg, cancelled, signal, timer, socketDir, socket>>

\* A failing Mkdir is logged and nothing more.
StartSubnetManager ==
  /\ main = "start_sm"
  /\ main' = "wait_socket"
  /\ \E made \in BOOLEAN : socketDir' = (socketDir \/ made)
  /\ RunCommand("sm")
  /\ UNCHANGED <<hasPort, cancelled, signal, timer, socket>>

SocketTimer ==
  /\ main = "wait_socket"
  /\ timer' = TRUE
  /\ UNCHANGED <<main, hasPort, child, wg, cancelled, signal, socketDir, socket>>

\* Mutant: waitForFile polls the file only.
WaitForFileOnly ==
  /\ main = "wait_socket"
  /\ socket # "absent"
  /\ main' = "settle"
  /\ UNCHANGED <<hasPort, child, wg, cancelled, signal, timer, socketDir, socket>>

\* waitForFile: the context or the timer ends the wait with an error that is
\* only logged; the default branch looks for the file.
WaitForFile ==
  /\ main = "wait_socket"
  /\ cancelled \/ timer \/ socket # "absent"
  /\ main' = "settle"
  /\ UNCHANGED <<hasPort, child, wg, cancelled, signal, timer, socketDir, socket>>

\* time.Sleep(time.Second)
Settle ==
  /\ main = "settle"
  /\ main' = "start_fm"
  /\ UNCHANGED <<hasPort, child, wg, cancelled, signal, timer, socketDir, socket>>

StartFabricManager ==
  /\ main = "start_fm"
  /\ main' = "wait_group"
  /\ RunCommand("fm")
  /\ UNCHANGED <<hasPort, cancelled, signal, timer, socketDir, socket>>

\* Mutant: main waits for the Fabric Manager alone.
WaitFabricManager ==
  /\ main = "wait_group"
  /\ child["fm"] \in {"over", "counted", "done"}
  /\ main' = "exited"
  /\ UNCHANGED <<hasPort, child, wg, cancelled, signal, timer, socketDir, socket>>

\* cmdWg.Wait, then main returns.
WaitGroup ==
  /\ main = "wait_group"
  /\ wg = 0
  /\ main' = "exited"
  /\ UNCHANGED <<hasPort, child, wg, cancelled, signal, timer, socketDir, socket>>

MainStep ==
  \/ FindNvswitchMgmtPort \/ StartSubnetManager \/ SocketTimer \/ WaitForFile
  \/ Settle \/ StartFabricManager \/ WaitGroup

-----------------------------------------------------------------------------
(* Signals, and the service manager.                                         *)

\* SIGINT or SIGTERM.  The channel holds one and drops the rest; after
\* signal.Stop the default action is back: the wrapper dies, whatever runs.
Signal ==
  /\ WrapperUp
  /\ \/ /\ signal \in {"armed", "queued"}
        /\ signal' = "queued"
        /\ UNCHANGED main
     \/ /\ signal = "stopped"
        /\ main' = "killed"
        /\ UNCHANGED signal
  /\ UNCHANGED <<hasPort, child, wg, cancelled, timer, socketDir, socket>>

\* The goroutine that reads signalsChan: signal.Stop, gracefulShutdown.
GracefulShutdown ==
  /\ WrapperUp
  /\ signal = "queued"
  /\ signal' = "stopped"
  /\ cancelled' = TRUE
  /\ UNCHANGED <<main, hasPort, child, wg, timer, socketDir, socket>>

\* restart: always, in a new container on the same /var/run; what a killed
\* wrapper has left running ends with the old container.
Restart ==
  /\ ~WrapperUp
  /\ main' = "scan" /\ hasPort' = FALSE /\ child' = NoChild /\ wg' = 0
  /\ cancelled' = FALSE /\ signal' = "armed" /\ timer' = FALSE
  /\ socket' = IF socket = "absent" THEN "absent" ELSE "stale"
  /\ UNCHANGED socketDir

Next ==
  \/ MainStep
  \/ WrapperUp /\ \E c \in Children : CommandStep(c) \/ ProcessEnds(c)
  \/ CreateSocket
  \/ Signal \/ GracefulShutdown \/ Restart

Spec == Init /\ [][Next]_vars

\* The goroutines run, os/exec interrupts and kills; nothing is assumed of the
\* two programs, of signals or of the service manager.
Fairness ==
  /\ WF_vars(MainStep)
  /\ \A c \in Children : WF_vars(WrapperUp /\ CommandStep(c))
  /\ WF_vars(GracefulShutdown)

FairSpec == Spec /\ Fairness

-----------------------------------------------------------------------------
(* Correctness.                                                              *)

TypeOK ==
  /\ main      \in MainSteps
  /\ hasPort   \in BOOLEAN
  /\ child     \in [Children -> ChildStates]
  /\ wg        \in 0..2
  /\ cancelled \in BOOLEAN
  /\ signal    \in {"armed", "queued", "stopped"}
  /\ timer     \in BOOLEAN
  /\ socketDir \in BOOLEAN
  /\ socket    \in {"absent", "fresh", "stale"}

\* main does not return before both commands have ended: no NVLSM and no Fabric
\* Manager is left running behind.
ExitLeavesNoProcess == main = "exited" => \A c \in Children : ~Alive(c)

\* Once the end of NVLSM has been dealt with, cmd.Start refuses to start the
\* Fabric Manager, at whatever point of its start-up main and the goroutine are,
\* unless it has looked at the context before.
StartRefusedAfterSubnetManager ==
  [][child["sm"] = "done" /\ child["fm"] \in {"none", "launching"}
       => child'["fm"] \notin {"starting", "running"}]_vars

\* The end of one command brings the wrapper down, with the other command, also
\* when that one is started just after the context was cancelled.
OneEndsAll ==
  \A c \in Children : child[c] = "done" ~> ~WrapperUp

\* A signal brings the wrapper down even when a child ignores its SIGINT.
SignalEndsWrapper == signal = "queued" ~> ~WrapperUp

\* Start-up never hangs, whether or not NVLSM ever creates its socket.
StartupCompletes == main = "scan" ~> main \in {"wait_group", "exited", "killed"}

\* What the comment in main promises: when the wait ends without an error,
\* the socket is the one NVLSM's plugin has just created.
WaitsForActualSocket ==
  [][main = "wait_socket" /\ main' = "settle" /\ ~timer /\ ~cancelled
       => socket = "fresh"]_vars

-----------------------------------------------------------------------------
(* The inductive invariant behind ExitLeavesNoProcess.                       *)

\* The goroutine of this command has not called wg.Done.
Outstanding(c) ==
  IF child[c] \in {"launching", "starting", "running", "interrupted", "over"}
  THEN 1 ELSE 0

IInv ==
  /\ TypeOK
  /\ WrapperUp => wg = Outstanding("sm") + Outstanding("fm")
  /\ main \in {"scan", "start_sm"} => child["sm"] = "none"
  /\ main \in MainSteps \ {"wait_group", "exited", "killed"} => child["fm"] = "none"
  /\ ExitLeavesNoProcess

\* What StartRefusedAfterSubnetManager rests on: while the wrapper is up, the end of
\* a command has cancelled the context for good.
EndCancels == WrapperUp /\ (\E c \in Children : child[c] = "done") => cancelled

=============================================================================
