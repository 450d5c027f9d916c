------------------------- MODULE ZerotierIdentity -------------------------
(***************************************************************************)
(* zerotier-wrapper (main.go): prepares the state directory of ZeroTier    *)
(* (identity, planet, one file per network to join), which outlives the    *)
(* service, and then becomes zerotier-one.  The wrapper may stop after any *)
(* of its system calls; Talos starts it again (restart: always), with the  *)
(* configuration the operator has given it meanwhile.                      *)
(***************************************************************************)
EXTENDS Naturals

CONSTANTS
  Generated,   \* identities that zerotier-one -i generate can return
  Configured,  \* valid identities an operator can configure
  Networks,    \* networks to join
  Absent,      \* a missing file; an unset variable
  Damaged,     \* a file truncated by os.WriteFile and not filled
  Bad,         \* a configured identity or planet that is not valid
  MaxStops     \* bound: abrupt stops and failing calls

Identities == Generated \union Configured

\* Assumed where the module is used.
ConstantsAssumption ==
  /\ Absent # Damaged /\ Absent # Bad /\ Bad # "custom"
  /\ Absent \notin {"custom", "empty", "filled"}
  /\ {Absent, Damaged, Bad} \cap Identities = {}
  /\ MaxStops \in Nat

\* ZEROTIER_IDENTITY_SECRET, ZEROTIER_PLANET and ZEROTIER_NETWORK.
Environment ==
  [identity : Configured \union {Absent, Bad},
   planet   : {Absent, "custom", Bad},
   networks : SUBSET Networks]

VARIABLES
  pc,        \* where the wrapper is; "running" once it is zerotier-one
  env,       \* its environment
  identity,  \* the identity writeIdentity is writing
  todo,      \* the networks joinNetwork has still to be called for
  secret,    \* identity.secret
  public,    \* identity.public, named by the identity it was cut from
  planet,    \* planet: "custom", Absent or Damaged
  network,   \* networks.d/<id>.conf: Absent, "empty" or "filled"
  stops      \* abrupt stops and failing calls so far

vars == <<pc, env, identity, todo, secret, public, planet, network, stops>>

Init ==
  /\ pc = "start"
  /\ env \in Environment
  /\ identity = Absent /\ todo = {}
  /\ secret = Absent /\ public = Absent /\ planet = Absent
  /\ network = [n \in Networks |-> Absent]
  /\ stops = 0

-----------------------------------------------------------------------------
(* ensureIdentity.                                                           *)

\* os.WriteFile truncates, then writes: it fills the file, or it fails (or the
\* wrapper is stopped) with the file truncated.  The file, the next step and
\* the count of stops that a write of this content can end in:
Written(content, next) ==
  {[file |-> content, pc |-> next, stops |-> stops]} \union
  {[file |-> Damaged, pc |-> "failed", stops |-> s] :
     s \in {stops + 1} \cap 0..MaxStops}

\* writeIdentity, identity.secret.
WriteSecret(id) ==
  /\ identity' = id
  /\ \E w \in Written(id, "public") :
       secret' = w.file /\ pc' = w.pc /\ stops' = w.stops

\* Mutant: the public identity is required too.
ExistingIdentityPair ==
  /\ pc = "start"
  /\ secret # Absent
  /\ pc' = IF secret = Damaged \/ public # secret THEN "failed" ELSE "planet"
  /\ UNCHANGED <<env, identity, todo, secret, public, planet, network, stops>>

\* identity.secret exists: it is validated, and used whatever is configured.
ExistingIdentity ==
  /\ pc = "start"
  /\ secret # Absent
  /\ pc' = IF secret = Damaged THEN "failed" ELSE "planet"
  /\ UNCHANGED <<env, identity, todo, secret, public, planet, network, stops>>

\* Mutant: a configured identity replaces the one on disk.
EnvironmentIdentityFirst ==
  /\ pc = "start"
  /\ env.identity \in Configured
  /\ WriteSecret(env.identity)
  /\ UNCHANGED <<env, todo, public, planet, network>>

\* Mutant: a configured identity is written as it comes.
EnvironmentIdentityUnvalidated ==
  /\ pc = "start"
  /\ secret = Absent
  /\ env.identity # Absent
  /\ WriteSecret(env.identity)
  /\ UNCHANGED <<env, todo, public, planet, network>>

EnvironmentIdentity ==
  /\ pc = "start"
  /\ secret = Absent
  /\ \/ /\ env.identity = Bad
        /\ pc' = "failed"
        /\ UNCHANGED <<identity, secret, stops>>
     \/ /\ env.identity \in Configured
        /\ WriteSecret(env.identity)
  /\ UNCHANGED <<env, todo, public, planet, network>>

GenerateIdentity ==
  /\ pc = "start"
  /\ secret = Absent
  /\ env.identity = Absent
  /\ \E id \in Generated : WriteSecret(id)
  /\ UNCHANGED <<env, todo, public, planet, network>>

\* writeIdentity, identity.public.
WritePublic ==
  /\ pc = "public"
  /\ \E w \in Written(identity, "planet") :
       public' = w.file /\ pc' = w.pc /\ stops' = w.stops
  /\ UNCHANGED <<env, identity, todo, secret, planet, network>>

-----------------------------------------------------------------------------
(* The planet and the networks.                                              *)

\* Mutant: a planet file that is there is not written again.
PlanetOnce ==
  /\ pc = "planet"
  /\ todo' = env.networks
  /\ \/ /\ env.planet = Absent \/ planet # Absent
        /\ pc' = "join"
        /\ UNCHANGED <<planet, stops>>
     \/ /\ env.planet = "custom" /\ planet = Absent
        /\ \E w \in Written("custom", "join") :
             planet' = w.file /\ pc' = w.pc /\ stops' = w.stops
  /\ UNCHANGED <<env, identity, secret, public, network>>

\* Without a planet in the environment the file stays as it is.
Planet ==
  /\ pc = "planet"
  /\ todo' = env.networks
  /\ \/ /\ env.planet = Absent
        /\ pc' = "join"
        /\ UNCHANGED <<planet, stops>>
     \/ /\ env.planet = Bad
        /\ pc' = "failed"
        /\ UNCHANGED <<planet, stops>>
     \/ /\ env.planet = "custom"
        /\ \E w \in Written("custom", "join") :
             planet' = w.file /\ pc' = w.pc /\ stops' = w.stops
  /\ UNCHANGED <<env, identity, secret, public, network>>

\* Mutant: the file is opened with O_TRUNC instead of O_EXCL.
JoinNetworkTruncates(n) ==
  /\ todo' = todo \ {n}
  /\ network' = [network EXCEPT ![n] = "empty"]

\* O_CREATE | O_EXCL: an existing file is left alone, and is no error.
JoinNetwork(n) ==
  /\ todo' = todo \ {n}
  /\ network' = [network EXCEPT ![n] = IF @ = Absent THEN "empty" ELSE @]

JoinStep ==
  /\ pc = "join"
  /\ \E n \in todo : JoinNetwork(n)
  /\ UNCHANGED <<pc, env, identity, secret, public, planet, stops>>

\* unix.Exec: from here on the process is zerotier-one.
Exec ==
  /\ pc = "join"
  /\ todo = {}
  /\ pc' = "running"
  /\ UNCHANGED
       <<env, identity, todo, secret, public, planet, network, stops>>

Wrapper ==
  \/ ExistingIdentity \/ EnvironmentIdentity \/ GenerateIdentity
  \/ WritePublic \/ Planet \/ JoinStep \/ Exec

-----------------------------------------------------------------------------
(* Around the wrapper.                                                       *)

\* The wrapper is stopped between two calls, or one fails without effect.
Stop ==
  /\ pc \in {"start", "public", "planet", "join"}
  /\ stops < MaxStops
  /\ stops' = stops + 1
  /\ pc' = "failed"
  /\ UNCHANGED <<env, identity, todo, secret, public, planet, network>>

\* zerotier-one completes the public identity, keeps the settings of a network
\* in its file, and ends for any reason.
ZerotierOne ==
  /\ pc = "running"
  /\ \/ public' = secret /\ UNCHANGED <<pc, network>>
     \/ /\ \E n \in Networks :
             /\ network[n] # Absent
             /\ network' = [network EXCEPT ![n] = "filled"]
        /\ UNCHANGED <<pc, public>>
     \/ pc' = "failed" /\ UNCHANGED <<public, network>>
  /\ UNCHANGED <<env, identity, todo, secret, planet, stops>>

\* restart: always, with the configuration of the moment.
Restart ==
  /\ pc = "failed"
  /\ pc' = "start"
  /\ env' \in Environment
  /\ identity' = Absent /\ todo' = {}
  /\ UNCHANGED <<secret, public, planet, network, stops>>

Next == Wrapper \/ Stop \/ ZerotierOne \/ Restart

Spec == Init /\ [][Next]_vars

\* The wrapper takes its steps, and Talos starts it again.
FairSpec == Spec /\ WF_vars(Wrapper) /\ WF_vars(Restart)

-----------------------------------------------------------------------------
(* Correctness.                                                              *)

TypeOK ==
  /\ pc       \in {"start", "public", "planet", "join", "running", "failed"}
  /\ env      \in Environment
  /\ identity \in Identities \union {Absent}
  /\ todo     \in SUBSET Networks
  /\ secret   \in Identities \union {Absent, Damaged}
  /\ public   \in Identities \union {Absent, Damaged}
  /\ planet   \in {Absent, Damaged, "custom"}
  /\ network  \in [Networks -> {Absent, "empty", "filled"}]
  /\ stops    \in 0..MaxStops

\* A node keeps its identity: once one is on disk, no stop, restart or change
\* of the configuration makes ensureIdentity replace it.
IdentityForGood == [][(secret \in Identities) => (secret' = secret)]_vars

\* The public identity on disk is the one of the secret on disk, wherever
\* writeIdentity was stopped and whatever the next start found.
NoOrphanPublic == public \in Identities => secret = public

\* zerotier-one starts only with a whole identity, every configured network
\* joined and the configured planet in place, however many starts it took.
StartsPrepared ==
  pc = "join" /\ todo = {} =>
    /\ secret \in Identities
    /\ \A n \in env.networks : network[n] # Absent
    /\ env.planet = "custom" => planet = "custom"

\* What zerotier-one keeps in the file of a network survives every restart.
KeepsNetworkState ==
  [][\A n \in Networks : network[n] = "filled" => network'[n] = "filled"]_vars

\* No execution can get past what this start found.
Refused ==
  \/ secret = Damaged
  \/ secret = Absent /\ env.identity = Bad
  \/ env.planet = Bad

\* Only a damaged secret or an invalid configuration keeps a node off its
\* networks: every start leads to zerotier-one or to one of these.
EveryStartRuns == pc = "start" ~> (pc = "running" \/ Refused)

=============================================================================
