---------------------------- MODULE GdrdrvDevice ----------------------------
(***************************************************************************)
(* nvidia-gdrdrv-device (main.go): waits until the gdrdrv driver is in     *)
(* /proc/devices and replaces the node /dev/gdrdrv by one with the         *)
(* driver's major number.  The driver may be unloaded and loaded again,    *)
(* with another number, between any two of its system calls; the program   *)
(* may stop after any of them, and Talos starts it again                   *)
(* (restart: untilSuccess).  /dev is the node's and outlives the container.*)
(***************************************************************************)
EXTENDS Naturals

CONSTANTS
  Majors,    \* major numbers the kernel can give
  None,      \* no number, no driver, no node
  MaxLoads,  \* bound: loads of the driver
  MaxStops   \* bound: abrupt stops and failing calls

\* Assumed where the module is used.
ConstantsAssumption ==
  /\ None \notin Majors
  /\ MaxLoads \in Nat
  /\ MaxStops \in Nat

VARIABLES
  pc,      \* the call the program is about to make
  major,   \* what findDeviceMajor has returned
  driver,  \* the number in /proc/devices
  node,    \* the number of /dev/gdrdrv
  open,    \* /dev/gdrdrv may be read and written by everybody
  warned,  \* chmod has failed, in this run
  loads,   \* loads of the driver so far
  seen,    \* loads when findDeviceMajor returned
  stops    \* abrupt stops and failing calls so far

vars == <<pc, major, driver, node, open, warned, loads, seen, stops>>

Steps == {"scan", "sleep", "stat", "remove", "mknod", "chmod", "verify"}

\* A node of an earlier start of the machine's containers may be there.
Init ==
  /\ pc = "scan" /\ major = None
  /\ driver = None
  /\ node \in Majors \union {None}
  /\ open \in BOOLEAN /\ (node = None => ~open)
  /\ warned = FALSE
  /\ loads = 0 /\ seen = 0
  /\ stops = 0

-----------------------------------------------------------------------------

\* findDeviceMajor; every error of it is waited out.
FindDeviceMajor ==
  /\ pc = "scan"
  /\ IF driver = None
       THEN pc' = "sleep" /\ UNCHANGED <<major, seen>>
       ELSE pc' = "stat" /\ major' = driver /\ seen' = loads
  /\ UNCHANGED <<driver, node, open, warned, loads, stops>>

\* Mutant: the program gives up when the driver is not there.
SleepAndLeave ==
  /\ pc = "sleep"
  /\ pc' = "done"
  /\ UNCHANGED <<major, driver, node, open, warned, loads, seen, stops>>

Sleep ==
  /\ pc = "sleep"
  /\ pc' = "scan"
  /\ UNCHANGED <<major, driver, node, open, warned, loads, seen, stops>>

\* Mutant: a node that is there is kept.
KeepNode ==
  /\ pc = "stat"
  /\ pc' = IF node = None THEN "mknod" ELSE "verify"
  /\ UNCHANGED <<major, driver, node, open, warned, loads, seen, stops>>

StatNode ==
  /\ pc = "stat"
  /\ pc' = IF node = None THEN "mknod" ELSE "remove"
  /\ UNCHANGED <<major, driver, node, open, warned, loads, seen, stops>>

RemoveNode ==
  /\ pc = "remove"
  /\ pc' = "mknod"
  /\ node' = None /\ open' = FALSE
  /\ UNCHANGED <<major, driver, warned, loads, seen, stops>>

\* The umask takes write permission away from the mode.
Mknod ==
  /\ pc = "mknod"
  /\ pc' = "chmod"
  /\ node' = major /\ open' = FALSE
  /\ UNCHANGED <<major, driver, warned, loads, seen, stops>>

\* Mutant: a failure of chmod is not told.
ChmodQuiet ==
  /\ pc = "chmod"
  /\ pc' = "verify"
  /\ \/ open' = TRUE /\ UNCHANGED stops
     \/ stops < MaxStops /\ stops' = stops + 1 /\ UNCHANGED open
  /\ UNCHANGED <<major, driver, node, warned, loads, seen>>

\* A failure only makes a warning.
Chmod ==
  /\ pc = "chmod"
  /\ pc' = "verify"
  /\ \/ open' = TRUE /\ UNCHANGED <<warned, stops>>
     \/ stops < MaxStops /\ stops' = stops + 1 /\ warned' = TRUE /\ UNCHANGED open
  /\ UNCHANGED <<major, driver, node, loads, seen>>

\* The last stat; the numbers it returns are only logged.
Verify ==
  /\ pc = "verify"
  /\ pc' = "done"
  /\ UNCHANGED <<major, driver, node, open, warned, loads, seen, stops>>

\* log.Fatalf after a call that fails, or an abrupt stop.
Stop ==
  /\ pc \in Steps
  /\ stops < MaxStops
  /\ stops' = stops + 1
  /\ pc' = "failed"
  /\ UNCHANGED <<major, driver, node, open, warned, loads, seen>>

\* restart: untilSuccess.
Restart ==
  /\ pc = "failed"
  /\ pc' = "scan"
  /\ major' = None /\ warned' = FALSE
  /\ UNCHANGED <<driver, node, open, loads, seen, stops>>

-----------------------------------------------------------------------------
(* The driver.                                                               *)

LoadDriver ==
  /\ driver = None
  /\ loads < MaxLoads
  /\ loads' = loads + 1
  /\ driver' \in Majors
  /\ UNCHANGED <<pc, major, node, open, warned, seen, stops>>

UnloadDriver ==
  /\ driver # None
  /\ driver' = None
  /\ UNCHANGED <<pc, major, node, open, warned, loads, seen, stops>>

Program ==
  \/ FindDeviceMajor \/ Sleep \/ StatNode \/ RemoveNode \/ Mknod \/ Chmod \/ Verify
  \/ Restart

Next == Program \/ Stop \/ LoadDriver \/ UnloadDriver

Spec == Init /\ [][Next]_vars

\* The program is scheduled, and Talos starts it again.
FairSpec == Spec /\ WF_vars(Program)

-----------------------------------------------------------------------------

TypeOK ==
  /\ pc \in Steps \union {"done", "failed"}
  /\ {major, driver, node} \subseteq Majors \union {None}
  /\ open \in BOOLEAN /\ (node = None => ~open)
  /\ warned \in BOOLEAN
  /\ loads \in 0 .. MaxLoads /\ seen \in 0 .. loads
  /\ stops \in 0 .. MaxStops

\* When the program has ended well, the node leads to the driver, whatever node
\* and stopped starts came before, unless the driver has gone or been loaded
\* again since its number was read: nobody looks a second time.
NodeLeadsToDriver ==
  pc = "done" /\ driver # None /\ loads = seen => node = driver

\* When the program has ended well without a warning, everybody may use the
\* node, even if an earlier start was stopped between mknod and chmod.
OpenUnlessWarned == pc = "done" /\ ~warned => open

\* If the driver is there for good at last, so is a node of a successful end.
NodeComes == <>[](driver # None) => <>(pc = "done" /\ node # None)

=============================================================================
