------------------------ MODULE PersistencedWrapper ------------------------
(***************************************************************************)
(* nvidia-persistenced-wrapper (main.go): ends the daemon that a pid file  *)
(* names, starts a new one, and hands one signal to it.  /run is the       *)
(* node's, so the pid file and a daemon that has left its parent outlive   *)
(* the wrapper, which Talos starts again (restart: always).                *)
(*                                                                         *)
(* nvidia-persistenced is external: it may go into the background, creates *)
(* its pid file and then fills it, and may end at any time, with or        *)
(* without removing the file.  Numbers of processes are used again.  The   *)
(* kernel ends a process that was sent SIGKILL some time later.            *)
(***************************************************************************)
EXTENDS Naturals, FiniteSets

CONSTANTS
  Pids,     \* process numbers
  None,     \* no number, no file
  Empty,    \* a pid file that has not been filled
  MaxStops  \* bound: abrupt stops and failing calls

\* Assumed where the module is used.
ConstantsAssumption ==
  /\ None # Empty /\ {None, Empty} \cap Pids = {}
  /\ MaxStops \in Nat

VARIABLES
  pc,     \* the call the wrapper is about to make
  pid,    \* the number read from the pid file
  file,   \* the pid file
  proc,   \* what every number stands for
  child,  \* cmd.Process
  gap,    \* a daemon was without its pid file when it ended, or when the
          \* wrapper was started again
  stops   \* abrupt stops and failing calls so far

vars == <<pc, pid, file, proc, child, gap, stops>>

Steps == {"stat", "read", "kill", "remove", "start", "wait", "reap"}

\* What a number stands for: nobody, nvidia-persistenced before, while and after
\* it writes its pid file, a child that has ended and was not waited for, a
\* process that was sent SIGKILL and has not ended, another program.
ProcessStates ==
  {"free", "starting", "created", "daemon", "zombie", "killed", "other"}

FreePids == {p \in Pids : proc[p] = "free"}
Unrecorded == {p \in Pids : proc[p] \in {"starting", "created"}}
\* Those that were not sent SIGKILL.
Daemons == Unrecorded \union {p \in Pids : proc[p] = "daemon"}

Init ==
  /\ pc = "stat" /\ pid = None /\ file = None
  /\ proc = [p \in Pids |-> "free"]
  /\ child = None
  /\ gap = FALSE /\ stops = 0

-----------------------------------------------------------------------------

\* Mutant: the state directory is removed before the pid is read.
StatAndRemove ==
  /\ pc = "stat"
  /\ pc' = IF file = None THEN "start" ELSE "read"
  /\ file' = None
  /\ UNCHANGED <<pid, proc, child, gap, stops>>

StatPidFile ==
  /\ pc = "stat"
  /\ pc' = IF file = None THEN "start" ELSE "read"
  /\ UNCHANGED <<pid, file, proc, child, gap, stops>>

\* getProcessId; the file may have gone since, or hold no number.
GetProcessId ==
  /\ pc = "read"
  /\ IF file \in Pids THEN pid' = file /\ pc' = "kill" ELSE pc' = "stopped" /\ UNCHANGED pid
  /\ UNCHANGED <<file, proc, child, gap, stops>>

\* Mutant: a process that is dead already is an error.
KillLiveProcess ==
  /\ pc = "kill"
  /\ pc' = IF pid \in FreePids THEN "stopped" ELSE "remove"
  /\ proc' = [proc EXCEPT ![pid] = IF pid \in FreePids THEN "free" ELSE "killed"]
  /\ UNCHANGED <<pid, file, child, gap, stops>>

\* Whatever process has the number now is sent SIGKILL; none is fine.  It is not
\* the wrapper's child, and nothing waits for its end.
KillProcess ==
  /\ pc = "kill"
  /\ pc' = "remove"
  /\ proc' = [proc EXCEPT ![pid] = IF pid \in FreePids THEN "free" ELSE "killed"]
  /\ UNCHANGED <<pid, file, child, gap, stops>>

RemoveState ==
  /\ pc = "remove"
  /\ pc' = "start"
  /\ file' = None
  /\ UNCHANGED <<pid, proc, child, gap, stops>>

Start ==
  /\ pc = "start"
  /\ pc' = "wait"
  /\ \E p \in FreePids : proc' = [proc EXCEPT ![p] = "starting"] /\ child' = p
  /\ UNCHANGED <<pid, file, gap, stops>>

\* Sent to the child, if it has not ended; nothing else ends the wait.
Signal ==
  /\ pc = "wait"
  /\ pc' = "reap"
  /\ UNCHANGED <<pid, file, proc, child, gap, stops>>

\* cmd.Process.Wait.
Reap ==
  /\ pc = "reap"
  /\ proc[child] = "zombie"
  /\ pc' = "stopped"
  /\ proc' = [proc EXCEPT ![child] = "free"]
  /\ child' = None
  /\ UNCHANGED <<pid, file, gap, stops>>

\* log.Fatalf after a call that fails, or an abrupt stop; a child that has
\* ended is reaped by its new parent.
Stop ==
  /\ pc \in Steps
  /\ stops < MaxStops
  /\ stops' = stops + 1
  /\ pc' = "stopped"
  /\ child' = None
  /\ proc' = [p \in Pids |-> IF proc[p] = "zombie" THEN "free" ELSE proc[p]]
  /\ UNCHANGED <<pid, file, gap>>

\* restart: always.
Restart ==
  /\ pc = "stopped"
  /\ pc' = "stat"
  /\ pid' = None
  /\ gap' = (gap \/ Unrecorded # {})
  /\ UNCHANGED <<file, proc, child, stops>>

-----------------------------------------------------------------------------
(* The daemon, and other processes of the node.                              *)

\* p is dead; its number is kept while its parent may wait for it.
Gone(p) == [proc EXCEPT ![p] = IF p = child THEN "zombie" ELSE "free"]

Daemonize ==
  \E q \in FreePids :
    /\ child # None /\ proc[child] = "starting"
    /\ proc' = [Gone(child) EXCEPT ![q] = "starting"]
    /\ UNCHANGED <<pc, pid, file, child, gap, stops>>

CreatePidFile(p) ==
  /\ proc[p] = "starting"
  /\ proc' = [proc EXCEPT ![p] = "created"]
  /\ file' = Empty
  /\ UNCHANGED <<pc, pid, child, gap, stops>>

WritePid(p) ==
  /\ proc[p] = "created"
  /\ proc' = [proc EXCEPT ![p] = "daemon"]
  /\ file' = p
  /\ UNCHANGED <<pc, pid, child, gap, stops>>

DaemonEnds(p) ==
  /\ p \in Daemons
  /\ proc' = Gone(p)
  /\ file' \in {file} \union (IF file = p THEN {None} ELSE {})
  /\ gap' = (gap \/ p \in Unrecorded)
  /\ UNCHANGED <<pc, pid, child, stops>>

KilledEnds(p) ==
  /\ proc[p] = "killed"
  /\ proc' = [proc EXCEPT ![p] = "free"]
  /\ UNCHANGED <<pc, pid, file, child, gap, stops>>

OtherStarts(p) ==
  /\ p \in FreePids
  /\ Cardinality(FreePids) > 2
  /\ proc' = [proc EXCEPT ![p] = "other"]
  /\ UNCHANGED <<pc, pid, file, child, gap, stops>>

OtherEnds(p) ==
  /\ proc[p] = "other"
  /\ proc' = [proc EXCEPT ![p] = "free"]
  /\ UNCHANGED <<pc, pid, file, child, gap, stops>>

Wrapper ==
  \/ StatPidFile \/ GetProcessId \/ KillProcess \/ RemoveState \/ Start \/ Reap
  \/ Restart

Processes ==
  \/ Daemonize
  \/ \E p \in Pids :
       \/ CreatePidFile(p) \/ WritePid(p) \/ DaemonEnds(p) \/ KilledEnds(p)
       \/ OtherStarts(p) \/ OtherEnds(p)

Next == Wrapper \/ Signal \/ Stop \/ Processes

Spec == Init /\ [][Next]_vars

\* A killed process ends.
Kernel == \E p \in Pids : KilledEnds(p)

\* The wrapper is scheduled, Talos starts it again, and the kernel ends what was
\* killed; nothing is assumed of the daemon and of signals.
FairSpec == Spec /\ WF_vars(Wrapper) /\ WF_vars(Kernel)

-----------------------------------------------------------------------------

TypeOK ==
  /\ pc \in Steps \union {"stopped"}
  /\ {pid, child} \subseteq Pids \union {None}
  /\ file \in Pids \union {None, Empty}
  /\ proc \in [Pids -> ProcessStates]
  /\ gap \in BOOLEAN
  /\ stops \in 0 .. MaxStops
  /\ pc \in {"wait", "reap"} <=> child # None

\* However often the wrapper stops and is started again, it never starts a daemon
\* beside one it has not sent SIGKILL to, except after a start that found one
\* without a pid file.  The killed one may still be ending beside the new one.
OneDaemon == ~gap => \A p, q \in Daemons : p = q

\* A stopped wrapper is back to waiting, with a daemon started, at some time,
\* whatever the pid file names, unless a daemon was lost without a filled one.
ComesBack == []~gap => (pc = "stopped" ~> pc = "wait")

=============================================================================
