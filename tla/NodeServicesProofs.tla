------------------------- MODULE NodeServicesProofs -------------------------
(***************************************************************************)
(* The services on a node: theorems and proofs, for any identities,        *)
(* networks, driver numbers and process numbers, and any number of loads,  *)
(* stops and starts.  Each service has an inductive invariant; the last    *)
(* part puts the three together.                                           *)
(***************************************************************************)
EXTENDS NodeServices, TLAPS

-----------------------------------------------------------------------------
(* ZeroTier.                                                                 *)

\* What the wrapper knows of the files at each step.
FilesAtStep ==
  /\ pc = "public" => identity \in Z!Identities /\ secret = identity
  /\ pc \in {"planet", "join", "running"} => secret \in Z!Identities
  /\ pc = "join" =>
       /\ todo \subseteq env.networks
       /\ \A n \in env.networks \ todo : network[n] # Absent
       /\ env.planet = "custom" => planet = "custom"

IdentityInv == Z!TypeOK /\ Z!NoOrphanPublic /\ FilesAtStep

\* A write fills the file and goes on, or damages it and ends the start.
LEMMA WrittenOutcome ==
  ASSUME NEW content, NEW next, NEW w \in Z!Written(content, next)
  PROVE  \/ w.file = content /\ w.pc = next /\ w.stops = stops
         \/ w.file = Damaged /\ w.pc = "failed" /\ w.stops \in 0 .. MaxStops
BY DEF Z!Written

LEMMA InitIdentityInv == Z!ConstantsAssumption /\ Z!Init => IdentityInv
BY DEF Z!ConstantsAssumption, Z!Init, IdentityInv, Z!TypeOK, Z!NoOrphanPublic, FilesAtStep

\* An identity is written where there was none.
LEMMA WriteSecretKeeps ==
  ASSUME Z!ConstantsAssumption, IdentityInv, pc = "start", secret = Absent,
         NEW id \in Z!Identities, Z!WriteSecret(id),
         UNCHANGED <<env, todo, public, planet, network>>
  PROVE  IdentityInv'
<1>1. PICK w \in Z!Written(id, "public") :
        secret' = w.file /\ pc' = w.pc /\ stops' = w.stops
  BY DEF Z!WriteSecret
<1>2. \/ secret' = id /\ pc' = "public" /\ stops' = stops
      \/ secret' = Damaged /\ pc' = "failed" /\ stops' \in 0 .. MaxStops
  BY <1>1, WrittenOutcome
<1>3. identity' = id
  BY DEF Z!WriteSecret
<1>4. public \notin Z!Identities
  BY DEF Z!ConstantsAssumption, IdentityInv, Z!NoOrphanPublic, Z!Identities
<1> QED
  BY <1>2, <1>3, <1>4
     DEF IdentityInv, Z!TypeOK, Z!NoOrphanPublic, FilesAtStep, Z!ConstantsAssumption

LEMMA WrapperKeeps ==
  ASSUME Z!ConstantsAssumption, IdentityInv, Z!Wrapper
  PROVE  IdentityInv'
<1>1. CASE Z!ExistingIdentity
  BY <1>1 DEF Z!ExistingIdentity, Z!ConstantsAssumption, IdentityInv, Z!TypeOK,
              Z!NoOrphanPublic, FilesAtStep
<1>2. CASE Z!EnvironmentIdentity
  <2>1. CASE env.identity = Bad /\ pc' = "failed" /\ UNCHANGED <<identity, secret, stops>>
    BY <1>2, <2>1 DEF Z!EnvironmentIdentity, IdentityInv, Z!TypeOK, Z!NoOrphanPublic, FilesAtStep
  <2>2. CASE env.identity \in Configured /\ Z!WriteSecret(env.identity)
    BY <1>2, <2>2, WriteSecretKeeps DEF Z!EnvironmentIdentity, Z!Identities
  <2> QED
    BY <1>2, <2>1, <2>2 DEF Z!EnvironmentIdentity
<1>3. CASE Z!GenerateIdentity
  BY <1>3, WriteSecretKeeps DEF Z!GenerateIdentity, Z!Identities
<1>4. CASE Z!WritePublic
  <2>1. PICK w \in Z!Written(identity, "planet") :
          public' = w.file /\ pc' = w.pc /\ stops' = w.stops
    BY <1>4 DEF Z!WritePublic
  <2>2. \/ public' = identity /\ pc' = "planet" /\ stops' = stops
        \/ public' = Damaged /\ pc' = "failed" /\ stops' \in 0 .. MaxStops
    BY <2>1, WrittenOutcome
  <2> QED
    BY <1>4, <2>2
       DEF Z!WritePublic, Z!ConstantsAssumption, IdentityInv, Z!TypeOK, Z!NoOrphanPublic,
           FilesAtStep
<1>5. CASE Z!Planet
  <2>1. /\ pc = "planet" /\ todo' = env.networks
        /\ UNCHANGED <<env, identity, secret, public, network>>
        /\ \/ env.planet # "custom" /\ pc' = "join" /\ UNCHANGED <<planet, stops>>
           \/ pc' = "failed" /\ UNCHANGED <<planet, stops>>
           \/ planet' = "custom" /\ pc' = "join" /\ stops' = stops
           \/ planet' = Damaged /\ pc' = "failed" /\ stops' \in 0 .. MaxStops
    <3>1. CASE env.planet = "custom"
      <4>1. env.planet # Absent /\ env.planet # Bad
        BY <3>1 DEF Z!ConstantsAssumption
      <4>2. PICK w \in Z!Written("custom", "join") :
              planet' = w.file /\ pc' = w.pc /\ stops' = w.stops
        BY <1>5, <4>1 DEF Z!Planet
      <4> QED
        BY <1>5, <4>2, WrittenOutcome DEF Z!Planet
    <3>2. CASE env.planet # "custom"
      BY <1>5, <3>2 DEF Z!Planet
    <3> QED
      BY <3>1, <3>2
  <2>2. env.networks \in SUBSET Networks
    BY DEF IdentityInv, Z!TypeOK, Z!Environment
  <2> QED
    BY <2>1, <2>2 DEF IdentityInv, Z!TypeOK, Z!NoOrphanPublic, FilesAtStep
<1>6. CASE Z!JoinStep
  <2>1. PICK n \in todo : Z!JoinNetwork(n)
    BY <1>6 DEF Z!JoinStep
  <2>2. network' \in [Networks -> {Absent, "empty", "filled"}]
    BY <2>1 DEF Z!JoinNetwork, IdentityInv, Z!TypeOK
  <2>3. \A k \in Networks : network[k] # Absent => network'[k] # Absent
    BY <2>1 DEF Z!JoinNetwork, IdentityInv, Z!TypeOK
  <2>4. network'[n] # Absent
    BY <2>1 DEF Z!JoinNetwork, IdentityInv, Z!TypeOK, Z!ConstantsAssumption
  <2>5. todo' = todo \ {n} /\ pc = "join"
        /\ UNCHANGED <<pc, env, identity, secret, public, planet, stops>>
    BY <1>6, <2>1 DEF Z!JoinStep, Z!JoinNetwork
  <2>6. env.networks \subseteq Networks
    BY DEF IdentityInv, Z!TypeOK, Z!Environment
  <2> QED
    BY <2>2, <2>3, <2>4, <2>5, <2>6 DEF IdentityInv, Z!TypeOK, Z!NoOrphanPublic, FilesAtStep
<1>7. CASE Z!Exec
  BY <1>7 DEF Z!Exec, IdentityInv, Z!TypeOK, Z!NoOrphanPublic, FilesAtStep
<1> QED
  BY <1>1, <1>2, <1>3, <1>4, <1>5, <1>6, <1>7 DEF Z!Wrapper

LEMMA OthersKeep ==
  ASSUME Z!ConstantsAssumption, IdentityInv, Z!Stop \/ Z!ZerotierOne \/ Z!Restart
  PROVE  IdentityInv'
<1>1. CASE Z!Stop
  BY <1>1 DEF Z!Stop, Z!ConstantsAssumption, IdentityInv, Z!TypeOK, Z!NoOrphanPublic, FilesAtStep
<1>2. CASE Z!ZerotierOne
  <2>1. /\ pc = "running" /\ pc' \in {"running", "failed"}
        /\ public' \in {public, secret}
        /\ network' \in [Networks -> {Absent, "empty", "filled"}]
        /\ UNCHANGED <<env, identity, todo, secret, planet, stops>>
    BY <1>2 DEF Z!ZerotierOne, IdentityInv, Z!TypeOK
  <2> QED
    BY <2>1 DEF IdentityInv, Z!TypeOK, Z!NoOrphanPublic, FilesAtStep
<1>3. CASE Z!Restart
  BY <1>3 DEF Z!Restart, IdentityInv, Z!TypeOK, Z!NoOrphanPublic, FilesAtStep
<1> QED
  BY <1>1, <1>2, <1>3

LEMMA StepIdentityInv == Z!ConstantsAssumption /\ IdentityInv /\ [Z!Next]_(Z!vars) => IdentityInv'
<1> SUFFICES ASSUME Z!ConstantsAssumption, IdentityInv, [Z!Next]_(Z!vars) PROVE IdentityInv'
  OBVIOUS
<1>1. CASE UNCHANGED Z!vars
  BY <1>1 DEF Z!vars, IdentityInv, Z!TypeOK, Z!NoOrphanPublic, FilesAtStep
<1> QED
  BY <1>1, WrapperKeeps, OthersKeep DEF Z!Next

\* Once there is an identity on disk, no step changes it.
LEMMA IdentityStays ==
  ASSUME Z!ConstantsAssumption, IdentityInv, Z!Next, secret \in Z!Identities
  PROVE  secret' = secret
<1>1. secret # Absent
  BY DEF Z!ConstantsAssumption, Z!Identities
<1> QED
  BY <1>1 DEF Z!Next, Z!Wrapper, Z!ExistingIdentity, Z!EnvironmentIdentity, Z!GenerateIdentity,
              Z!WritePublic, Z!Planet, Z!JoinStep, Z!Exec, Z!Stop, Z!ZerotierOne, Z!Restart

\* What zerotier-one keeps about a network is not overwritten.
LEMMA NetworkStays ==
  ASSUME Z!ConstantsAssumption, IdentityInv, Z!Next,
         NEW n \in Networks, network[n] = "filled"
  PROVE  network'[n] = "filled"
<1>1. CASE Z!JoinStep
  BY <1>1 DEF Z!JoinStep, Z!JoinNetwork, IdentityInv, Z!TypeOK, Z!ConstantsAssumption
<1>2. CASE Z!ZerotierOne
  BY <1>2 DEF Z!ZerotierOne, IdentityInv, Z!TypeOK
<1> QED
  BY <1>1, <1>2 DEF Z!Next, Z!Wrapper, Z!ExistingIdentity, Z!EnvironmentIdentity,
              Z!GenerateIdentity, Z!WritePublic, Z!Planet, Z!Exec, Z!Stop, Z!Restart

-----------------------------------------------------------------------------
(* nvidia-gdrdrv-device.                                                     *)

\* The number that was read is the driver's as long as it has not been loaded
\* again; a step after mknod has a node with that number, and one after chmod
\* a warning or an open node.
NodeInv ==
  /\ G!TypeOK
  /\ pc \in {"stat", "remove", "mknod", "chmod", "verify"}
       /\ driver # None /\ loads = seen => major = driver
  /\ pc \in {"chmod", "verify"} => node = major /\ node \in Majors
  /\ pc \in {"stat", "remove", "mknod"} => major \in Majors
  /\ pc = "verify" /\ ~warned => open
  /\ G!NodeLeadsToDriver
  /\ G!OpenUnlessWarned

LEMMA InitNodeInv == G!ConstantsAssumption /\ G!Init => NodeInv
<1> SUFFICES ASSUME G!ConstantsAssumption, G!Init PROVE NodeInv
  OBVIOUS
<1>1. /\ pc = "scan" /\ major = None /\ driver = None
      /\ node \in Majors \union {None}
      /\ loads = 0 /\ seen = 0 /\ stops = 0
  BY Zenon DEF G!Init
<1>2. open \in BOOLEAN /\ (node = None => ~open) /\ warned \in BOOLEAN
  BY Zenon DEF G!Init
<1> QED
  BY <1>1, <1>2
     DEF G!ConstantsAssumption, NodeInv, G!TypeOK, G!Steps, G!NodeLeadsToDriver, G!OpenUnlessWarned

LEMMA StepNodeInv ==
  ASSUME G!ConstantsAssumption, NodeInv, [G!Next]_(G!vars)
  PROVE  NodeInv'
<1> USE DEF G!ConstantsAssumption, NodeInv, G!TypeOK, G!Steps, G!NodeLeadsToDriver,
            G!OpenUnlessWarned
<1>1. CASE G!FindDeviceMajor
  BY <1>1 DEF G!FindDeviceMajor
<1>2. CASE G!Sleep
  BY <1>2 DEF G!Sleep
<1>3. CASE G!StatNode
  BY <1>3 DEF G!StatNode
<1>4. CASE G!RemoveNode
  BY <1>4 DEF G!RemoveNode
<1>5. CASE G!Mknod
  BY <1>5 DEF G!Mknod
<1>6. CASE G!Chmod
  <2>1. /\ pc = "chmod" /\ pc' = "verify"
        /\ UNCHANGED <<major, driver, node, loads, seen>>
        /\ stops' = stops \/ (stops < MaxStops /\ stops' = stops + 1)
    BY <1>6 DEF G!Chmod
  <2>2. /\ open' \in BOOLEAN /\ warned' \in BOOLEAN
        /\ ~warned' => open'
    BY <1>6, Zenon DEF G!Chmod
  <2> QED
    BY <2>1, <2>2
<1>7. CASE G!Verify
  BY <1>7 DEF G!Verify
<1>8. CASE G!Restart
  BY <1>8 DEF G!Restart
<1>9. CASE G!Stop
  BY <1>9 DEF G!Stop
<1>10. CASE G!LoadDriver
  BY <1>10 DEF G!LoadDriver
<1>11. CASE G!UnloadDriver
  BY <1>11 DEF G!UnloadDriver
<1>12. CASE UNCHANGED G!vars
  BY <1>12 DEF G!vars
<1> QED
  BY <1>1, <1>2, <1>3, <1>4, <1>5, <1>6, <1>7, <1>8, <1>9, <1>10, <1>11, <1>12
     DEF G!Next, G!Program

-----------------------------------------------------------------------------
(* nvidia-persistenced.                                                      *)

\* As long as no daemon has been missed: there is one at most, and it is new
\* only while the wrapper has nothing to do with it any more; the pid file
\* names it; the wrapper is about to kill it, or has done so.
Known ==
  /\ \A p, q \in P!Daemons : p = q
  /\ pc \in {"stat", "read", "kill", "remove", "start"} => P!Unrecorded = {}
  /\ \A p \in Pids : proc[p] = "daemon" => file = p
  /\ pc = "kill" => pid \in Pids /\ \A p \in Pids : proc[p] = "daemon" => pid = p
  /\ pc \in {"remove", "start"} => P!Daemons = {}

DaemonInv == P!TypeOK /\ (pc = "kill" => pid \in Pids) /\ (gap \/ Known)

LEMMA InitDaemonInv == P!ConstantsAssumption /\ P!Init => DaemonInv
<1> SUFFICES ASSUME P!ConstantsAssumption, P!Init PROVE DaemonInv
  OBVIOUS
<1>1. gap \in BOOLEAN
  BY Zenon DEF P!Init
<1>2. /\ pc = "stat" /\ pid = None /\ file = None /\ child = None /\ stops = 0
      /\ proc = [p \in Pids |-> "free"]
  BY Zenon DEF P!Init
<1>3. P!TypeOK
  BY <1>1, <1>2 DEF P!ConstantsAssumption, P!TypeOK, P!Steps, P!ProcessStates
<1>4. Known
  BY <1>2 DEF Known, P!Daemons, P!Unrecorded
<1> QED
  BY <1>2, <1>3, <1>4, Zenon DEF DaemonInv

LEMMA StepType ==
  ASSUME P!ConstantsAssumption, P!TypeOK, pc = "kill" => pid \in Pids, [P!Next]_(P!vars)
  PROVE  (P!TypeOK)' /\ (pc' = "kill" => pid' \in Pids)
<1> USE DEF P!ConstantsAssumption, P!TypeOK, P!Steps, P!ProcessStates
<1>1. CASE P!StatPidFile
  BY <1>1 DEF P!StatPidFile
<1>2. CASE P!GetProcessId
  BY <1>2 DEF P!GetProcessId
<1>3. CASE P!KillProcess
  BY <1>3 DEF P!KillProcess, P!FreePids
<1>4. CASE P!RemoveState
  BY <1>4 DEF P!RemoveState
<1>5. CASE P!Start
  BY <1>5 DEF P!Start, P!FreePids
<1>6. CASE P!Signal
  BY <1>6 DEF P!Signal
<1>7. CASE P!Reap
  BY <1>7 DEF P!Reap
<1>8. CASE P!Stop
  BY <1>8 DEF P!Stop
<1>9. CASE P!Restart
  <2>1. gap' \in BOOLEAN
    BY <1>9, Zenon DEF P!Restart
  <2>2. /\ pc = "stopped" /\ pc' = "stat" /\ pid' = None
        /\ UNCHANGED <<file, proc, child, stops>>
    BY <1>9 DEF P!Restart
  <2> QED
    BY <2>1, <2>2
<1>10. CASE P!Daemonize
  BY <1>10 DEF P!Daemonize, P!Gone, P!FreePids
<1>11. ASSUME NEW p \in Pids,
              \/ P!CreatePidFile(p) \/ P!WritePid(p)
              \/ P!KilledEnds(p) \/ P!OtherStarts(p) \/ P!OtherEnds(p)
       PROVE  (P!TypeOK)' /\ (pc' = "kill" => pid' \in Pids)
  BY <1>11 DEF P!CreatePidFile, P!WritePid, P!KilledEnds, P!OtherStarts, P!OtherEnds
<1>12. ASSUME NEW p \in Pids, P!DaemonEnds(p)
       PROVE  (P!TypeOK)' /\ (pc' = "kill" => pid' \in Pids)
  <2>1. gap' \in BOOLEAN
    BY <1>12, Zenon DEF P!DaemonEnds
  <2>2. /\ proc' = P!Gone(p)
        /\ file' = file \/ file' = None
        /\ UNCHANGED <<pc, pid, child, stops>>
    BY <1>12 DEF P!DaemonEnds
  <2> QED
    BY <2>1, <2>2 DEF P!Gone
<1>13. CASE UNCHANGED P!vars
  BY <1>13 DEF P!vars
<1> QED
  BY <1>1, <1>2, <1>3, <1>4, <1>5, <1>6, <1>7, <1>8, <1>9, <1>10, <1>11, <1>12, <1>13
     DEF P!Next, P!Wrapper, P!Processes

LEMMA StepKnown ==
  ASSUME P!ConstantsAssumption, P!TypeOK, Known, [P!Next]_(P!vars), ~gap'
  PROVE  Known'
<1> USE DEF P!ConstantsAssumption, P!TypeOK, Known, P!Daemons, P!Unrecorded
<1>1. CASE P!StatPidFile
  BY <1>1 DEF P!StatPidFile
<1>2. CASE P!GetProcessId
  BY <1>2 DEF P!GetProcessId
<1>3. CASE P!KillProcess
  BY <1>3 DEF P!KillProcess, P!FreePids
<1>4. CASE P!RemoveState
  BY <1>4 DEF P!RemoveState
<1>5. CASE P!Start
  BY <1>5 DEF P!Start, P!FreePids
<1>6. CASE P!Signal
  BY <1>6 DEF P!Signal
<1>7. CASE P!Reap
  BY <1>7 DEF P!Reap
<1>8. CASE P!Stop
  BY <1>8 DEF P!Stop
<1>9. CASE P!Restart
  <2>1. P!Unrecorded = {}
    BY <1>9, Zenon DEF P!Restart
  <2>2. pc' = "stat" /\ UNCHANGED <<file, proc>>
    BY <1>9 DEF P!Restart
  <2> QED
    BY <2>1, <2>2
<1>10. CASE P!Daemonize
  BY <1>10 DEF P!Daemonize, P!Gone, P!FreePids
<1>11. ASSUME NEW p \in Pids, P!CreatePidFile(p)
       PROVE  Known'
  BY <1>11 DEF P!CreatePidFile
<1>12. ASSUME NEW p \in Pids, P!WritePid(p)
       PROVE  Known'
  BY <1>12 DEF P!WritePid
<1>13. ASSUME NEW p \in Pids, P!KilledEnds(p) \/ P!OtherStarts(p) \/ P!OtherEnds(p)
       PROVE  Known'
  BY <1>13 DEF P!KilledEnds, P!OtherStarts, P!OtherEnds, P!FreePids
<1>14. ASSUME NEW p \in Pids, P!DaemonEnds(p)
       PROVE  Known'
  <2>1. /\ p \in P!Daemons
        /\ proc' = P!Gone(p)
        /\ UNCHANGED <<pc, pid, child>>
    BY <1>14 DEF P!DaemonEnds
  <2>2. \A q \in Pids : proc'[q] \in {"starting", "created", "daemon"} =>
          q # p /\ proc'[q] = proc[q]
    BY <2>1 DEF P!Gone
  <2> QED
    BY <2>1, <2>2
<1>15. CASE UNCHANGED P!vars
  BY <1>15 DEF P!vars
<1> QED
  BY <1>1, <1>2, <1>3, <1>4, <1>5, <1>6, <1>7, <1>8, <1>9, <1>10, <1>11, <1>12, <1>13,
     <1>14, <1>15
     DEF P!Next, P!Wrapper, P!Processes

\* A gap is for good.
LEMMA GapStays == [P!Next]_(P!vars) /\ gap => gap'
BY Zenon DEF P!Next, P!Wrapper, P!Processes, P!vars, P!StatPidFile, P!GetProcessId,
   P!KillProcess, P!RemoveState, P!Start, P!Signal, P!Reap, P!Stop, P!Restart, P!Daemonize,
   P!CreatePidFile, P!WritePid, P!DaemonEnds, P!KilledEnds, P!OtherStarts, P!OtherEnds

LEMMA StepDaemonInv == P!ConstantsAssumption /\ DaemonInv /\ [P!Next]_(P!vars) => DaemonInv'
<1> SUFFICES ASSUME P!ConstantsAssumption, DaemonInv, [P!Next]_(P!vars) PROVE DaemonInv'
  OBVIOUS
<1>1. (P!TypeOK)' /\ (pc' = "kill" => pid' \in Pids)
  BY StepType, Zenon DEF DaemonInv
<1>2. gap' \/ Known'
  BY StepKnown, GapStays, Zenon DEF DaemonInv
<1> QED
  BY <1>1, <1>2, Zenon DEF DaemonInv

-----------------------------------------------------------------------------
(* The three together: the service that is followed keeps its invariant, and *)
(* the part of the node that belongs to the others is untouched.             *)

IInv ==
  \/ service = "zerotier" /\ IdentityInv /\ NoGdrdrv /\ NoPersistenced
  \/ service = "gdrdrv" /\ NodeInv /\ NoZerotier /\ NoPersistenced
  \/ service = "persistenced" /\ DaemonInv /\ NoZerotier /\ NoGdrdrv

LEMMA InitIInv == Init => IInv
BY ConstantsAssumption, InitIdentityInv, InitNodeInv, InitDaemonInv, Zenon
   DEF Init, IInv, ConstantsAssumption

\* What is untouched stays untouched.
LEMMA Untouched ==
  /\ NoZerotier /\ UNCHANGED zerotier => NoZerotier'
  /\ NoGdrdrv /\ UNCHANGED gdrdrv => NoGdrdrv'
  /\ NoPersistenced /\ UNCHANGED persistenced => NoPersistenced'
<1>1. NoZerotier /\ UNCHANGED zerotier => NoZerotier'
  BY DEF NoZerotier, zerotier
<1>2. NoGdrdrv /\ UNCHANGED gdrdrv => NoGdrdrv'
  BY Zenon DEF NoGdrdrv, gdrdrv
<1>3. NoPersistenced /\ UNCHANGED persistenced => NoPersistenced'
  BY Zenon DEF NoPersistenced, persistenced
<1> QED
  BY <1>1, <1>2, <1>3

LEMMA StepIInv == IInv /\ [Next]_vars => IInv'
<1> SUFFICES ASSUME IInv, [Next]_vars PROVE IInv'
  OBVIOUS
<1> USE ConstantsAssumption
<1>1. CASE OnZerotier(Z!Next)
  BY <1>1, StepIdentityInv, Untouched, Zenon DEF OnZerotier, IInv, ConstantsAssumption
<1>2. CASE OnGdrdrv(G!Next)
  BY <1>2, StepNodeInv, Untouched, Zenon DEF OnGdrdrv, IInv, ConstantsAssumption
<1>3. CASE OnPersistenced(P!Next)
  BY <1>3, StepDaemonInv, Untouched, Zenon DEF OnPersistenced, IInv, ConstantsAssumption
<1>4. CASE UNCHANGED vars
  <2>1. UNCHANGED <<service, zerotier, gdrdrv, persistenced>>
    BY <1>4 DEF vars
  <2>2. UNCHANGED Z!vars /\ UNCHANGED G!vars /\ UNCHANGED P!vars
    BY <1>4 DEF vars, zerotier, gdrdrv, persistenced, Z!vars, G!vars, P!vars
  <2> QED
    BY <2>1, <2>2, StepIdentityInv, StepNodeInv, StepDaemonInv, Untouched, Zenon
       DEF IInv, ConstantsAssumption
<1> QED
  BY <1>1, <1>2, <1>3, <1>4 DEF Next

LEMMA Invariance == Spec => []IInv
BY InitIInv, StepIInv, PTL DEF Spec

\* Type correctness of every service.
THEOREM TypeCorrect == Spec => []TypeOK
<1>1. IInv => TypeOK
  BY Zenon DEF IInv, TypeOK, IdentityInv, NodeInv, DaemonInv
<1> QED
  BY <1>1, Invariance, PTL

\* The public identity on disk is never another one's than the secret's.
THEOREM PublicHasSecret == Spec => []NoOrphanPublic
<1>1. IInv => NoOrphanPublic
  <2>1. NoZerotier => NoOrphanPublic
    BY ConstantsAssumption
       DEF NoZerotier, NoOrphanPublic, Z!NoOrphanPublic, ConstantsAssumption,
           Z!ConstantsAssumption
  <2> QED
    BY <2>1, Zenon DEF IInv, IdentityInv, NoOrphanPublic
<1> QED
  BY <1>1, Invariance, PTL

\* zerotier-one is started with an identity, the networks and the planet.
THEOREM Prepared == Spec => []StartsPrepared
<1>1. IInv => StartsPrepared
  <2>1. IdentityInv => Z!StartsPrepared
    BY DEF IdentityInv, FilesAtStep, Z!StartsPrepared
  <2> QED
    BY <2>1, Zenon DEF IInv, StartsPrepared
<1> QED
  BY <1>1, Invariance, PTL

\* Once there is an identity on disk, it is there for good.
THEOREM IdentityKept == Spec => IdentityForGood
<1>1. IInv /\ [Next]_vars => [(secret \in Z!Identities) => (secret' = secret)]_(Z!vars)
  <2> SUFFICES ASSUME IInv, [Next]_vars, secret \in Z!Identities
               PROVE  secret' = secret
    OBVIOUS
  <2>1. CASE OnZerotier(Z!Next)
    <3>1. IdentityInv
      BY <2>1, Zenon DEF OnZerotier, IInv
    <3> QED
      BY <2>1, <3>1, IdentityStays, ConstantsAssumption DEF OnZerotier, ConstantsAssumption
  <2>2. CASE UNCHANGED zerotier
    BY <2>2 DEF zerotier
  <2> QED
    BY <2>1, <2>2 DEF Next, OnGdrdrv, OnPersistenced, vars
<1> QED
  BY <1>1, Invariance, PTL DEF Spec, IdentityForGood, Z!IdentityForGood

\* What zerotier-one keeps about a network survives every start.
THEOREM NetworkStateKept == Spec => KeepsNetworkState
<1>1. IInv /\ [Next]_vars =>
        [\A n \in Networks : network[n] = "filled" => network'[n] = "filled"]_(Z!vars)
  <2> SUFFICES ASSUME IInv, [Next]_vars, NEW n \in Networks, network[n] = "filled"
               PROVE  network'[n] = "filled"
    OBVIOUS
  <2>1. CASE OnZerotier(Z!Next)
    <3>1. IdentityInv
      BY <2>1, Zenon DEF OnZerotier, IInv
    <3> QED
      BY <2>1, <3>1, NetworkStays, ConstantsAssumption DEF OnZerotier, ConstantsAssumption
  <2>2. CASE UNCHANGED zerotier
    BY <2>2 DEF zerotier
  <2> QED
    BY <2>1, <2>2 DEF Next, OnGdrdrv, OnPersistenced, vars
<1> QED
  BY <1>1, Invariance, PTL DEF Spec, KeepsNetworkState, Z!KeepsNetworkState

\* After success the node leads to the driver, unless that has been unloaded or
\* loaded again since its number was read.
THEOREM NodeIsDrivers == Spec => []NodeLeadsToDriver
<1>1. IInv => NodeLeadsToDriver
  <2>1. NoGdrdrv => NodeLeadsToDriver
    BY Zenon DEF NoGdrdrv, NodeLeadsToDriver, G!NodeLeadsToDriver
  <2> QED
    BY <2>1, Zenon DEF IInv, NodeInv, NodeLeadsToDriver
<1> QED
  BY <1>1, Invariance, PTL

\* After success without a warning everybody may use the node.
THEOREM NodeIsOpen == Spec => []OpenUnlessWarned
<1>1. IInv => OpenUnlessWarned
  <2>1. IdentityInv => pc # "done"
    BY DEF IdentityInv, Z!TypeOK
  <2>2. DaemonInv => pc # "done"
    BY DEF DaemonInv, P!TypeOK, P!Steps
  <2> QED
    BY <2>1, <2>2, Zenon DEF IInv, NodeInv, OpenUnlessWarned, G!OpenUnlessWarned
<1> QED
  BY <1>1, Invariance, PTL

\* While every daemon has had its pid file when the wrapper was started again,
\* no daemon is started beside one that was not sent SIGKILL, whatever ends,
\* is killed and has its number used again.
THEOREM OneAtATime == Spec => []OneDaemon
<1>1. IInv => OneDaemon
  <2>1. NoPersistenced => OneDaemon
    BY DEF NoPersistenced, OneDaemon, P!OneDaemon, P!Daemons, P!Unrecorded
  <2>2. DaemonInv => OneDaemon
    BY Zenon DEF DaemonInv, Known, OneDaemon, P!OneDaemon
  <2> QED
    BY <2>1, <2>2, Zenon DEF IInv
<1> QED
  BY <1>1, Invariance, PTL

=============================================================================
