---------------------------- MODULE NodeServices ----------------------------
(***************************************************************************)
(* The extension services that keep something on the node between their    *)
(* starts.  They share no file, and Talos restarts each by its own policy, *)
(* so a behaviour follows one of them while the others leave the node      *)
(* alone.                                                                  *)
(***************************************************************************)
EXTENDS Naturals, FiniteSets

CONSTANTS
  Generated, Configured, Networks, Absent, Damaged, Bad,  \* zerotier
  Majors, MaxLoads,                                       \* nvidia-gdrdrv-device
  Pids, Empty,                                            \* nvidia-persistenced
  None, MaxStops

VARIABLES
  service,  \* the service that is followed
  pc,       \* where its program is
  stops,    \* its abrupt stops and failing calls so far
  env, identity, todo, secret, public, planet, network,
  major, driver, node, open, warned, loads, seen,
  pid, file, proc, child, gap

zerotier == <<env, identity, todo, secret, public, planet, network>>
gdrdrv == <<major, driver, node, open, warned, loads, seen>>
persistenced == <<pid, file, proc, child, gap>>
vars == <<service, pc, stops, zerotier, gdrdrv, persistenced>>

Z == INSTANCE ZerotierIdentity
G == INSTANCE GdrdrvDevice
P == INSTANCE PersistencedWrapper

ASSUME ConstantsAssumption ==
  Z!ConstantsAssumption /\ G!ConstantsAssumption /\ P!ConstantsAssumption

\* The part of the node that nobody touches.
NoZerotier ==
  /\ env = [identity |-> Absent, planet |-> Absent, networks |-> {}]
  /\ identity = Absent /\ todo = {}
  /\ secret = Absent /\ public = Absent /\ planet = Absent
  /\ network = [n \in Networks |-> Absent]

NoGdrdrv ==
  /\ major = None /\ driver = None /\ node = None
  /\ open = FALSE /\ warned = FALSE /\ loads = 0 /\ seen = 0

NoPersistenced ==
  /\ pid = None /\ file = None /\ child = None /\ gap = FALSE
  /\ proc = [p \in Pids |-> "free"]

Init ==
  \/ service = "zerotier" /\ Z!Init /\ NoGdrdrv /\ NoPersistenced
  \/ service = "gdrdrv" /\ G!Init /\ NoZerotier /\ NoPersistenced
  \/ service = "persistenced" /\ P!Init /\ NoZerotier /\ NoGdrdrv

OnZerotier(action) ==
  service = "zerotier" /\ action /\ UNCHANGED <<service, gdrdrv, persistenced>>
OnGdrdrv(action) ==
  service = "gdrdrv" /\ action /\ UNCHANGED <<service, zerotier, persistenced>>
OnPersistenced(action) ==
  service = "persistenced" /\ action /\ UNCHANGED <<service, zerotier, gdrdrv>>

Next == OnZerotier(Z!Next) \/ OnGdrdrv(G!Next) \/ OnPersistenced(P!Next)

Spec == Init /\ [][Next]_vars

\* The fairness of each service.
FairSpec ==
  /\ Spec
  /\ WF_vars(OnZerotier(Z!Wrapper)) /\ WF_vars(OnZerotier(Z!Restart))
  /\ WF_vars(OnGdrdrv(G!Program))
  /\ WF_vars(OnPersistenced(P!Wrapper)) /\ WF_vars(OnPersistenced(P!Kernel))

-----------------------------------------------------------------------------

\* Every service keeps its own variables within their types.
TypeOK ==
  \/ service = "zerotier" /\ Z!TypeOK
  \/ service = "gdrdrv" /\ G!TypeOK
  \/ service = "persistenced" /\ P!TypeOK

\* ZeroTier: the public identity on disk belongs to the secret on disk.
NoOrphanPublic == Z!NoOrphanPublic

\* ZeroTier: zerotier-one starts only when everything is prepared.
StartsPrepared == service = "zerotier" => Z!StartsPrepared

\* ZeroTier: an identity on disk is never replaced.
IdentityForGood == Z!IdentityForGood

\* ZeroTier: what zerotier-one keeps about a network is not overwritten.
KeepsNetworkState == Z!KeepsNetworkState

\* ZeroTier: every start leads to zerotier-one, or to a reason against it.
EveryStartRuns == service = "zerotier" => Z!EveryStartRuns

\* gdrdrv: after success the node leads to the driver that was found.
NodeLeadsToDriver == G!NodeLeadsToDriver

\* gdrdrv: after success without a warning everybody may use the node.
OpenUnlessWarned == G!OpenUnlessWarned

\* gdrdrv: a driver that stays gets its node.
NodeComes == G!NodeComes

\* persistenced: two daemons that were not sent SIGKILL never run together,
\* unless one was without its pid file at a start.
OneDaemon == P!OneDaemon

\* persistenced: a stopped wrapper comes back to a started daemon, unless a
\* daemon was lost without its pid file.
ComesBack == P!ComesBack

=============================================================================
