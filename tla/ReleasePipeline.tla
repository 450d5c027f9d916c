-------------------------- MODULE ReleasePipeline --------------------------
(***************************************************************************)
(* The publish workflow (.github/workflows/publish-p2p-installer.yaml) and *)
(* the scripts its steps call, as concurrent executions ("runs") that each *)
(* keep a docker store on their own runner and all write mutable tags of   *)
(* one registry.                                                           *)
(*                                                                         *)
(* A run compiles a kernel, rebuilds installer-base around it, compiles    *)
(* the NVIDIA modules against the same kernel tree, wraps them as a system *)
(* extension and assembles the final installer.  Several of these steps    *)
(* read back by TAG what an earlier step pushed.  What has to come out is  *)
(* an installer whose kernel, root file system modules and NVIDIA modules  *)
(* carry one signing key: Talos loads no module otherwise.                 *)
(*                                                                         *)
(* Abstractions.  An image is the signing keys of its parts; a digest is   *)
(* the image it names (content addressing).  Keys are named by the run and *)
(* the kernel compilation that made them.                                  *)
(***************************************************************************)
EXTENDS Naturals

CONSTANTS
  Runs,      \* executions of the workflow (a re-run is another execution)
  Tags,      \* release tags
  Groups,    \* concurrency groups, one per git ref
  TagOf,     \* the RELEASE_TAG a run derives
  GroupOf,   \* the concurrency group of a run
  Silent,    \* bound: the lookups of a run that the registry may not answer
  NoKey,     \* no signing key: the value is empty, or the part is absent
  NoImage    \* no image under this name

Slots == {"shared", "kernel", "pkg"}
Key   == Runs \X Slots

\* The five images a run publishes under its tag.
Kinds == {"kernel", "base", "pkg", "sysext", "installer"}
Prerequisites == Kinds \ {"installer"}

ASSUME ConstantsAssumption ==
  /\ TagOf   \in [Runs -> Tags]
  /\ GroupOf \in [Runs -> Groups]
  /\ Silent  \in [Runs -> SUBSET Prerequisites]
  /\ NoKey \notin Key

\* An image is known by the key its kernel trusts, the key of the modules in
\* its root file system and the key of its NVIDIA modules.
Image == [kernel  : Key \union {NoKey},
          modules : Key \union {NoKey},
          nvidia  : Key \union {NoKey}]

ASSUME NoImageAssumption == NoImage \notin Image

\* A docker store, a registry tag and a list of digests all map kinds to images.
Store      == [Kinds -> Image \union {NoImage}]
EmptyStore == [k \in Kinds |-> NoImage]

\* The steps of a run that holds its concurrency group, then the resting places.
ActiveSteps ==
  {"derive", "generate_key", "build_kernel", "push_kernel", "build_base",
   "push_base", "build_pkg", "push_pkg", "verify_key", "build_sysext",
   "push_sysext", "resolve_kernel", "resolve_base", "resolve_pkg",
   "resolve_sysext", "build_installer", "push_installer",
   "resolve_installer", "verify_installer", "summary"}
EndSteps == {"published", "failed", "cancelled"}
Steps    == ActiveSteps \union EndSteps \union {"idle", "pending"}

VARIABLES
  pc,        \* the workflow step each run is about to execute
  key,       \* MODULE_SIG_KEY_PEM_B64 in each run's environment
  local,     \* the images in the docker store of each run's runner
  registry,  \* the image each tag of each repository names
  digest     \* the *_DIGEST values in each run's environment

vars == <<pc, key, local, registry, digest>>

Active(r) == pc[r] \in ActiveSteps

Init ==
  /\ pc       = [r \in Runs |-> "idle"]
  /\ key      = [r \in Runs |-> NoKey]
  /\ local    = [r \in Runs |-> EmptyStore]
  /\ registry = [t \in Tags |-> EmptyStore]
  /\ digest   = [r \in Runs |-> EmptyStore]

-----------------------------------------------------------------------------
(* Scheduling: one run per ref holds the group, one more may wait, and a     *)
(* newer one takes the place of the one that waits.                          *)

\* Mutant: a waiting run counts as holding the group.
GroupTaken(r) ==
  \E s \in Runs : GroupOf[s] = GroupOf[r] /\ (Active(s) \/ pc[s] = "pending")

GroupBusy(r) == \E s \in Runs : GroupOf[s] = GroupOf[r] /\ Active(s)

Trigger(r) ==
  /\ pc[r] = "idle"
  /\ pc' = [s \in Runs |->
              IF s = r THEN "pending"
              ELSE IF GroupOf[s] = GroupOf[r] /\ pc[s] = "pending"
                   THEN "cancelled" ELSE pc[s]]
  /\ UNCHANGED <<key, local, registry, digest>>

\* Mutant: no concurrency group.
StartUngrouped(r) ==
  /\ pc[r] = "pending"
  /\ pc' = [pc EXCEPT ![r] = "derive"]
  /\ UNCHANGED <<key, local, registry, digest>>

Start(r) ==
  /\ pc[r] = "pending"
  /\ ~GroupBusy(r)
  /\ pc' = [pc EXCEPT ![r] = "derive"]
  /\ UNCHANGED <<key, local, registry, digest>>

\* A step exits non-zero, times out or is cancelled: the job stops there, its
\* environment and its runner are gone, and nothing already pushed is taken back.
FailStep(r) ==
  /\ Active(r)
  /\ pc'     = [pc EXCEPT ![r] = "failed"]
  /\ key'    = [key EXCEPT ![r] = NoKey]
  /\ local'  = [local EXCEPT ![r] = EmptyStore]
  /\ digest' = [digest EXCEPT ![r] = EmptyStore]
  /\ UNCHANGED registry

-----------------------------------------------------------------------------
(* Pieces the steps are made of.                                             *)

Goto(r, from, to) ==
  /\ pc[r] = from
  /\ pc' = [pc EXCEPT ![r] = to]

Remote(r, k) == registry[TagOf[r]][k]

\* docker build --load / --tag: the image lands in the runner's store.
Load(r, k, image) == local' = [local EXCEPT ![r][k] = image]

\* docker push: the registry takes the manifest.  The answer may get lost; then
\* docker sends it again, or the step fails although the tag has moved.
Push(r, k, from, to) ==
  /\ \E next \in {from, to} : Goto(r, from, next)
  /\ registry' = [registry EXCEPT ![TagOf[r]][k] = local[r][k]]
  /\ UNCHANGED <<key, local, digest>>

\* docker buildx imagetools inspect: the digest becomes one of these answers.
Lookup(r, k, from, to, answers) ==
  /\ Goto(r, from, to)
  /\ \E answer \in answers : digest' = [digest EXCEPT ![r][k] = answer]
  /\ UNCHANGED <<key, local, registry>>

\* Asked through image_digest, inside $(...) where bash does not stop at a failing
\* command: when the registry does not answer, the digest is empty and the step
\* goes on.
Resolve(r, k, from, to) ==
  Lookup(r, k, from, to,
         {Remote(r, k)} \union (IF k \in Silent[r] THEN {NoImage} ELSE {}))

\* The key the kernel-build stage signs with: the one handed in, or the one
\* kbuild makes up during this compilation when the argument is empty.
CompileKey(r, slot) == IF key[r] = NoKey THEN <<r, slot>> ELSE key[r]

KernelImage(k)    == [kernel |-> k, modules |-> k, nvidia |-> NoKey]
ModulesOnly(k)    == [kernel |-> NoKey, modules |-> NoKey, nvidia |-> k]
InstallerImage(k, m, n) == [kernel |-> k, modules |-> m, nvidia |-> n]

-----------------------------------------------------------------------------
(* The steps, in the order of the workflow.                                  *)

\* Mutant: a step id that no later step knows.
DeriveMisnamed(r) ==
  /\ Goto(r, "derive", "generate-shared-key")
  /\ UNCHANGED <<key, local, registry, digest>>

\* Checkout, derive-publish-refs and the three validators: nothing of the
\* release state moves; a bad matrix is FailStep.
Derive(r) ==
  /\ Goto(r, "derive", "generate_key")
  /\ UNCHANGED <<key, local, registry, digest>>

\* The generator runs inside $(...) of an echo: when it fails the step still
\* succeeds, and the variable is empty.
GenerateKey(r) ==
  /\ Goto(r, "generate_key", "build_kernel")
  /\ \E generated \in {<<r, "shared">>, NoKey} :
       key' = [key EXCEPT ![r] = generated]
  /\ UNCHANGED <<local, registry, digest>>

BuildKernel(r) ==
  /\ Goto(r, "build_kernel", "push_kernel")
  /\ Load(r, "kernel", KernelImage(CompileKey(r, "kernel")))
  /\ UNCHANGED <<key, registry, digest>>

PushKernel(r) == Push(r, "kernel", "push_kernel", "build_base")

\* build-samekey-installer-base.py pulls the kernel image by tag, which also
\* moves the local tag, and puts its vmlinuz and its modules tree in the
\* installer-base it builds.
BuildBase(r) ==
  /\ Goto(r, "build_base", "push_base")
  /\ Remote(r, "kernel") # NoImage
  /\ local' = [local EXCEPT
        ![r]["kernel"] = Remote(r, "kernel"),
        ![r]["base"]   = [kernel  |-> Remote(r, "kernel").kernel,
                          modules |-> Remote(r, "kernel").modules,
                          nvidia  |-> NoKey]]
  /\ UNCHANGED <<key, registry, digest>>

PushBase(r) == Push(r, "base", "push_base", "build_pkg")

\* A second bldr invocation: its kernel-build stage comes from the builder's
\* cache or is compiled once more.
BuildPkg(r) ==
  /\ Goto(r, "build_pkg", "push_pkg")
  /\ \E slot \in {"kernel", "pkg"} :
       Load(r, "pkg", ModulesOnly(CompileKey(r, slot)))
  /\ UNCHANGED <<key, registry, digest>>

PushPkg(r) == Push(r, "pkg", "push_pkg", "verify_key")

\* verify-same-signing-key.sh on the local images: ahci.ko against nvidia.ko.
SameSigningKey(r) == local[r]["kernel"].modules = local[r]["pkg"].nvidia

\* Mutant: the comparison is dropped.
VerifyKeySkipped(r) ==
  /\ Goto(r, "verify_key", "build_sysext")
  /\ UNCHANGED <<key, local, registry, digest>>

VerifyKey(r) ==
  /\ Goto(r, "verify_key",
          IF SameSigningKey(r) THEN "build_sysext" ELSE "failed")
  /\ UNCHANGED <<key, local, registry, digest>>

\* Mutant: PKGS is not passed on, and bldr takes whatever its default tag names.
BuildSysextDefaultTag(r) ==
  /\ Goto(r, "build_sysext", "push_sysext")
  /\ \E t \in Tags :
       /\ registry[t]["pkg"] # NoImage
       /\ Load(r, "sysext", ModulesOnly(registry[t]["pkg"].nvidia))
  /\ UNCHANGED <<key, registry, digest>>

\* bldr resolves the pkg image by tag from the registry.
BuildSysext(r) ==
  /\ Goto(r, "build_sysext", "push_sysext")
  /\ Remote(r, "pkg") # NoImage
  /\ Load(r, "sysext", ModulesOnly(Remote(r, "pkg").nvidia))
  /\ UNCHANGED <<key, registry, digest>>

\* Mutant: the upload is skipped when the tag exists already.
PushSysextOnce(r) ==
  /\ Goto(r, "push_sysext", "resolve_kernel")
  /\ registry' = IF Remote(r, "sysext") # NoImage THEN registry
                 ELSE [registry EXCEPT ![TagOf[r]]["sysext"] = local[r]["sysext"]]
  /\ UNCHANGED <<key, local, digest>>

PushSysext(r) == Push(r, "sysext", "push_sysext", "resolve_kernel")

\* The four lookups of one step, one after the other.
ResolveKernel(r) == Resolve(r, "kernel", "resolve_kernel", "resolve_base")
ResolveBase(r)   == Resolve(r, "base", "resolve_base", "resolve_pkg")
ResolvePkg(r)    == Resolve(r, "pkg", "resolve_pkg", "resolve_sysext")
ResolveSysext(r) == Resolve(r, "sysext", "resolve_sysext", "build_installer")

\* build-installer.sh: the imager pulls installer-base by TAG and the custom
\* extension by digest, which must not be empty; the script then replaces the
\* kernel by the vmlinuz of the LOCAL installer-base tag, which docker load of
\* the imager's output may have moved to that output.
BuildInstaller(r) ==
  /\ Goto(r, "build_installer", "push_installer")
  /\ NoImage \notin {Remote(r, "base"), digest[r]["sysext"], local[r]["base"]}
  /\ LET loaded == InstallerImage(Remote(r, "base").kernel,
                                  Remote(r, "base").modules,
                                  digest[r]["sysext"].nvidia)
     IN \E base \in {local[r]["base"], loaded} :
          local' = [local EXCEPT
             ![r]["base"]      = base,
             ![r]["installer"] =
                InstallerImage(base.kernel, loaded.modules, loaded.nvidia)]
  /\ UNCHANGED <<key, registry, digest>>

PushInstaller(r) ==
  Push(r, "installer", "push_installer", "resolve_installer")

\* Assigned directly and tested: an empty digest fails the step.
ResolveInstaller(r) ==
  Lookup(r, "installer", "resolve_installer", "verify_installer",
         {Remote(r, "installer")} \ {NoImage})

\* The pulled installer is searched for extension names only; keys are not
\* looked at again.
VerifyInstaller(r) ==
  /\ Goto(r, "verify_installer", "summary")
  /\ digest[r]["installer"].nvidia # NoKey
  /\ UNCHANGED <<key, local, registry, digest>>

\* The last step.  Its text does not reach the summary: the here-document is
\* not quoted, so what stands between backticks is run as commands, which fail
\* without consequence.
PublishSummary(r) ==
  /\ Goto(r, "summary", "published")
  /\ local' = [local EXCEPT ![r] = EmptyStore]
  /\ UNCHANGED <<key, registry, digest>>

WorkflowStep(r) ==
  \/ Derive(r)         \/ GenerateKey(r)
  \/ BuildKernel(r)    \/ PushKernel(r)
  \/ BuildBase(r)      \/ PushBase(r)
  \/ BuildPkg(r)       \/ PushPkg(r)
  \/ VerifyKey(r)
  \/ BuildSysext(r)    \/ PushSysext(r)
  \/ ResolveKernel(r)  \/ ResolveBase(r)
  \/ ResolvePkg(r)     \/ ResolveSysext(r)
  \/ BuildInstaller(r) \/ PushInstaller(r)
  \/ ResolveInstaller(r) \/ VerifyInstaller(r)
  \/ PublishSummary(r)

Next ==
  \E r \in Runs : Trigger(r) \/ Start(r) \/ WorkflowStep(r) \/ FailStep(r)

Spec == Init /\ [][Next]_vars

\* Every step ends, one way or the other: the job has a timeout.  GitHub starts
\* the run that waits once its group is free.
Fairness ==
  \A r \in Runs : /\ WF_vars(Start(r))
                  /\ WF_vars(WorkflowStep(r) \/ FailStep(r))

FairSpec == Spec /\ Fairness

-----------------------------------------------------------------------------
(* Correctness.                                                              *)

TypeOK ==
  /\ pc       \in [Runs -> Steps]
  /\ key      \in [Runs -> Key \union {NoKey}]
  /\ local    \in [Runs -> Store]
  /\ registry \in [Tags -> Store]
  /\ digest   \in [Runs -> Store]

\* Talos loads every module of such an installer.
Bootable(i) ==
  /\ i.kernel # NoKey
  /\ i.modules = i.kernel
  /\ i.nvidia  = i.kernel

\* Key lineage (docs/talos-nvidia-p2p-findings.md, "Kernel Module Signing
\* Lineage"): whatever a run did before or did not finish, an installer that
\* can be pulled by a release tag, or by the digest a run resolved, has a
\* kernel, a root file system and NVIDIA modules of one key.
KeyLineage ==
  /\ \A t \in Tags : registry[t]["installer"] # NoImage
                       => Bootable(registry[t]["installer"])
  /\ \A r \in Runs : digest[r]["installer"] # NoImage
                       => Bootable(digest[r]["installer"])

\* Keys made by run r.
KeysOf(r)   == {r} \X Slots
PartsOf(i)  == {i.kernel, i.modules, i.nvidia} \ {NoKey}

\* No stale payload: although every downstream step reads by a mutable tag that
\* an earlier execution may have written, all images a run that succeeds has
\* resolved are of one key, made by that run.  A lookup may have come back empty
\* without stopping it, but not the one of the extension or of the installer.
DigestsAreOwn ==
  \A r \in Runs : pc[r] = "published" =>
    /\ NoImage \notin {digest[r]["sysext"], digest[r]["installer"]}
    /\ \E own \in KeysOf(r) : \A k \in Kinds :
         digest[r][k] # NoImage => PartsOf(digest[r][k]) = {own}

\* When a run is about to succeed, its tag still names the images it resolved
\* and, empty lookup or not, five images of the key of its installer: nobody
\* has moved one between the push and the end.
TagsMatchDigests ==
  \A r \in Runs : pc[r] = "summary" =>
    \A k \in Kinds :
      /\ digest[r][k] \in {Remote(r, k), NoImage}
      /\ Remote(r, k) # NoImage
      /\ PartsOf(Remote(r, k)) = PartsOf(digest[r]["installer"])

\* An installer tag moves last: by the time it names a new installer, the four
\* prerequisite images under the same tag are the ones that installer is made
\* of, so a reader of the tag never pairs a new installer with old parts.
InstallerPushedLast ==
  [][\A t \in Tags :
       registry'[t]["installer"] # registry[t]["installer"] =>
         \A k \in Prerequisites :
           PartsOf(registry[t][k]) = PartsOf(registry'[t]["installer"])]_vars

\* A run that was triggered ends: published, failed or displaced.
EveryRunEnds == <>[](\A r \in Runs : pc[r] \in EndSteps \union {"idle"})

\* The workflow implements the ledger of releases: an execution releases when
\* its job succeeds, what it releases is the installer it has verified.
Released ==
  [r \in Runs |-> IF pc[r] = "published" THEN digest[r]["installer"]
                                         ELSE NoImage]
Ledger == INSTANCE ReleaseLedger
            WITH released <- Released, KeysOfRun <- KeysOf, NoRelease <- NoImage
LedgerSpec == Ledger!Spec

\* What the findings document asks of the workflow: the published images carry
\* the one explicit key generated for the build run.
PublishedWithExplicitKey ==
  \A r \in Runs : pc[r] = "published" =>
    PartsOf(digest[r]["installer"]) = {<<r, "shared">>}

-----------------------------------------------------------------------------
(* Why the lineage holds: the inductive invariant.                           *)

\* The condition under which it does: a tag is published by one ref only, so
\* that the concurrency group orders all its writers.
TagsFollowRefs ==
  \A r, s \in Runs : TagOf[r] = TagOf[s] => GroupOf[r] = GroupOf[s]

GroupExclusive ==
  \A r, s \in Runs : Active(r) /\ Active(s) /\ GroupOf[r] = GroupOf[s] => r = s

\* What has been done by a run that is at one of these steps.
InstallerPushed == {"resolve_installer", "verify_installer", "summary"}
InstallerBuilt  == {"push_installer"}  \union InstallerPushed
SysextResolved  == {"build_installer"} \union InstallerBuilt
PkgResolved     == {"resolve_sysext"}  \union SysextResolved
BaseResolved    == {"resolve_pkg"}     \union PkgResolved
KernelResolved  == {"resolve_base"}    \union BaseResolved
SysextPushed    == {"resolve_kernel"}  \union KernelResolved
SysextBuilt     == {"push_sysext"}     \union SysextPushed
KeyVerified     == {"build_sysext"}    \union SysextBuilt
PkgPushed       == {"verify_key"}      \union KeyVerified
PkgBuilt        == {"push_pkg"}        \union PkgPushed
BasePushed      == {"build_pkg"}       \union PkgBuilt
BaseBuilt       == {"push_base"}       \union BasePushed
KernelPushed    == {"build_base"}      \union BaseBuilt
KernelBuilt     == {"push_kernel"}     \union KernelPushed

\* The key of the kernel a run compiles.
KernelKey(r) == CompileKey(r, "kernel")

OwnKey(r) == key[r] \in {NoKey, <<r, "shared">>}

\* The runner's store holds what the run built...
LocalProgress(r) ==
  LET k == KernelKey(r)
  IN  /\ pc[r] \in KernelBuilt => local[r]["kernel"] = KernelImage(k)
      /\ pc[r] \in BaseBuilt \ InstallerBuilt
                                => local[r]["base"] = KernelImage(k)
      /\ pc[r] \in PkgBuilt =>
           local[r]["pkg"] \in {ModulesOnly(k), ModulesOnly(CompileKey(r, "pkg"))}
      /\ pc[r] \in KeyVerified => local[r]["pkg"] = ModulesOnly(k)
      /\ pc[r] \in SysextBuilt => local[r]["sysext"] = ModulesOnly(k)
      /\ pc[r] \in InstallerBuilt
                                => local[r]["installer"] = InstallerImage(k, k, k)

\* ... its tag names what it pushed, as long as it holds the group...
RemoteProgress(r) ==
  LET k == KernelKey(r)
  IN  /\ pc[r] \in KernelPushed => Remote(r, "kernel") = KernelImage(k)
      /\ pc[r] \in BasePushed   => Remote(r, "base") = KernelImage(k)
      /\ pc[r] \in PkgPushed    => Remote(r, "pkg") = local[r]["pkg"]
      /\ pc[r] \in SysextPushed => Remote(r, "sysext") = ModulesOnly(k)
      /\ pc[r] \in InstallerPushed
                                => Remote(r, "installer") = InstallerImage(k, k, k)

\* ... and the digests it resolved are those images, for good, or empty.
DigestProgress(r) ==
  LET k    == KernelKey(r)
      Done == {"published"}
  IN  /\ pc[r] \in KernelResolved \union Done
                                => digest[r]["kernel"] \in {KernelImage(k), NoImage}
      /\ pc[r] \in BaseResolved \union Done
                                => digest[r]["base"] \in {KernelImage(k), NoImage}
      /\ pc[r] \in PkgResolved \union Done
                                => digest[r]["pkg"] \in {ModulesOnly(k), NoImage}
      /\ pc[r] = "build_installer"
                                => digest[r]["sysext"] \in {ModulesOnly(k), NoImage}
      /\ pc[r] \in InstallerBuilt \union Done
                                => digest[r]["sysext"] = ModulesOnly(k)
      /\ pc[r] \in {"verify_installer", "summary", "published"} =>
           digest[r]["installer"] = InstallerImage(k, k, k)

IInv ==
  /\ TypeOK
  /\ GroupExclusive
  /\ KeyLineage
  /\ \A r \in Runs : /\ OwnKey(r)
                     /\ LocalProgress(r)
                     /\ RemoteProgress(r)
                     /\ DigestProgress(r)

=============================================================================
