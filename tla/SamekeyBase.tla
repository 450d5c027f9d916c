---------------------------- MODULE SamekeyBase ----------------------------
(***************************************************************************)
(* hack/p2p/build-samekey-installer-base.py: executions one after another, *)
(* each of which takes a stock installer apart, puts a locally compiled    *)
(* kernel and its module tree in place of the stock ones, and builds and   *)
(* pushes an installer-base image.                                         *)
(*                                                                         *)
(* The hard part is the work directory.  With WORK_DIR set it is the same  *)
(* one every time, and what an execution that stopped half-way left there  *)
(* is found by the next one, which may be about another kernel.            *)
(*                                                                         *)
(* Abstractions.  A module tree is the set of kernels whose compilation    *)
(* its files come from; an image is its kernel, the module tree in its     *)
(* root file system and the release that tree is filed under.              *)
(***************************************************************************)
EXTENDS Naturals

CONSTANTS
  Kernels,      \* SAMEKEY_KERNEL_IMAGEs
  Releases,     \* kernel releases: the names under usr/lib/modules
  ReleaseOf,    \* the release of a kernel
  Stock,        \* where the files of the stock installer come from
  MaxAttempts,  \* of a pull or a push
  MaxRuns,      \* bound on the executions considered
  Absent        \* no such file, or no image under a tag

ASSUME ConstantsAssumption ==
  /\ ReleaseOf \in [Kernels -> Releases]
  /\ Stock \notin Kernels
  /\ MaxAttempts \in Nat \ {0}
  /\ MaxRuns \in Nat
  /\ Absent \notin Kernels

Origins == Kernels \union {Stock}
Tree    == SUBSET Origins

\* An input: the kernel image, and the release in the stock UKI's .uname.
Input == [kernel : Kernels, release : Releases]

\* samekey-kernel-layer: boot/vmlinuz, and for each release the tree and the
\* kernel whose ahci.ko it has.
Layer == [vmlinuz : Kernels \union {Absent},
          tree    : [Releases -> Tree],
          ahci    : [Releases -> Kernels \union {Absent}]]

EmptyLayer == [vmlinuz |-> Absent,
               tree    |-> [r \in Releases |-> {}],
               ahci    |-> [r \in Releases |-> Absent]]

Image == [linux : Kernels, modules : Tree, release : Releases]

ASSUME AbsentAssumption == Absent \notin Image

MaybeImage == Image \union {Absent}

ActiveSteps == {"pull", "assets", "layer", "check", "unsquash", "swap",
                "rebuild", "verify", "build", "push", "inspect"}
Steps == ActiveSteps \union {"idle"}

VARIABLES
  keepDir,  \* WORK_DIR is set, to the same directory every time
  pc,       \* what the execution is about to do; "idle" between two
  runs,     \* executions started
  input,    \* its environment
  attempt,  \* failed attempts of the current pull or push
  layer,    \* in the work directory: samekey-kernel-layer
  rootfs,   \* in the work directory: the modules under rootfs/, {} if there is none
  uki,      \* in the work directory: the rebuilt UKI
  output,   \* OUTPUT_IMAGE in the local docker
  registry  \* OUTPUT_IMAGE in the registry

workDir == <<layer, rootfs, uki>>
tags    == <<output, registry>>
vars    == <<keepDir, pc, runs, input, attempt, workDir, tags>>

Active == pc \in ActiveSteps

Init ==
  /\ keepDir \in BOOLEAN
  /\ pc = "idle" /\ runs = 0
  /\ input \in Input
  /\ attempt = 0
  /\ layer = EmptyLayer /\ rootfs = {} /\ uki = Absent
  /\ output = Absent /\ registry = Absent

Goto(from, to) == pc = from /\ pc' = to

\* managed_work_dir: the directory of last time, or a new one.
Start ==
  /\ Goto("idle", "pull")
  /\ runs < MaxRuns
  /\ runs' = runs + 1
  /\ input' \in Input
  /\ attempt' = 0
  /\ IF keepDir THEN UNCHANGED workDir
     ELSE layer' = EmptyLayer /\ rootfs' = {} /\ uki' = Absent
  /\ UNCHANGED <<keepDir, tags>>

\* An exception, or an interrupt: what was done stays done.
Fail ==
  /\ Active
  /\ pc' = "idle"
  /\ UNCHANGED <<keepDir, runs, input, attempt, workDir, tags>>

-----------------------------------------------------------------------------
(* Fetching.                                                                 *)

\* Mutant: the loop starts over after the last attempt.
PullFailsForever ==
  /\ attempt' = (attempt + 1) % MaxAttempts
  /\ Goto("pull", "pull")
  /\ UNCHANGED <<keepDir, runs, input, workDir, tags>>

\* Mutant: the failed attempts are compared before they are counted.
PullFailsOnceMore ==
  /\ attempt' = attempt + 1
  /\ Goto("pull", IF attempt = MaxAttempts THEN "idle" ELSE "pull")
  /\ UNCHANGED <<keepDir, runs, input, workDir, tags>>

\* pull_image, of any of the images: retried, then raised.
PullFails ==
  /\ attempt' = attempt + 1
  /\ Goto("pull", IF attempt' = MaxAttempts THEN "idle" ELSE "pull")
  /\ UNCHANGED <<keepDir, runs, input, workDir, tags>>

Pulled ==
  /\ Goto("pull", "assets")
  /\ attempt' = 0
  /\ UNCHANGED <<keepDir, runs, input, workDir, tags>>

\* The stock installer from the imager or SOURCE_INSTALLER_IMAGE, the saved
\* images, the tool chain and the sections of the stock UKI: all overwritten.
Assets ==
  /\ Goto("assets", "layer")
  /\ UNCHANGED <<keepDir, runs, input, attempt, workDir, tags>>

\* extract_single_layer_image unpacks over what is there: files of the new
\* kernel replace files of the same name, files it does not have stay.
ExtractLayer ==
  LET k == input.kernel
      r == ReleaseOf[k]
  IN  /\ Goto("layer", "check")
      /\ \E left \in {{}, layer.tree[r]} :
           layer' = [vmlinuz |-> k,
                     tree    |-> [layer.tree EXCEPT ![r] = {k} \union left],
                     ahci    |-> [layer.ahci EXCEPT ![r] = k]]
      /\ UNCHANGED <<keepDir, runs, input, attempt, rootfs, uki, tags>>

\* The unpacking stops in the middle: some files are new, some are not.
ExtractionInterrupted ==
  LET k == input.kernel
      r == ReleaseOf[k]
  IN  /\ Goto("layer", "idle")
      /\ \E v \in {layer.vmlinuz, k}, a \in {layer.ahci[r], k} :
           layer' = [vmlinuz |-> v,
                     tree    |-> [layer.tree EXCEPT ![r] = {k} \union layer.tree[r]],
                     ahci    |-> [layer.ahci EXCEPT ![r] = a]]
      /\ UNCHANGED <<keepDir, runs, input, attempt, rootfs, uki, tags>>

\* Is there a vmlinuz, and a module tree for the release of the stock UKI?
CheckLayer ==
  /\ Goto("check",
          IF layer.vmlinuz # Absent /\ layer.tree[input.release] # {}
          THEN "unsquash" ELSE "idle")
  /\ UNCHANGED <<keepDir, runs, input, attempt, workDir, tags>>

-----------------------------------------------------------------------------
(* Rebuilding.                                                               *)

\* unsquashfs without -f makes no directory that exists.
Unsquash ==
  /\ Goto("unsquash", IF rootfs = {} THEN "swap" ELSE "idle")
  /\ rootfs' = IF rootfs = {} THEN {Stock} ELSE rootfs
  /\ UNCHANGED <<keepDir, runs, input, attempt, layer, uki, tags>>

\* unsquashfs stops in the middle; the directory is there.
UnsquashInterrupted ==
  /\ Goto("unsquash", "idle")
  /\ rootfs' = rootfs \union {Stock}
  /\ UNCHANGED <<keepDir, runs, input, attempt, layer, uki, tags>>

\* Mutant: copytree(dirs_exist_ok) over the stock tree.
SwapTreeMerges ==
  /\ Goto("swap", "rebuild")
  /\ rootfs' = rootfs \union layer.tree[input.release]
  /\ UNCHANGED <<keepDir, runs, input, attempt, layer, uki, tags>>

\* The stock tree of that release is removed and the compiled one copied.
SwapTree ==
  /\ Goto("swap", "rebuild")
  /\ rootfs' = layer.tree[input.release]
  /\ UNCHANGED <<keepDir, runs, input, attempt, layer, uki, tags>>

\* mksquashfs, the new initrd around it, and the UKI with the new kernel.
Rebuild ==
  /\ Goto("rebuild", "verify")
  /\ uki' = [linux   |-> layer.vmlinuz,
             modules |-> rootfs,
             release |-> input.release]
  /\ UNCHANGED <<keepDir, runs, input, attempt, layer, rootfs, tags>>

\* The UKI's kernel is the vmlinuz of the layer, and the ahci.ko in its root
\* file system has the key of the one in the layer: the tree's own.
SameAsLayer ==
  /\ uki.linux = layer.vmlinuz
  /\ layer.ahci[input.release] \in uki.modules

Verify ==
  /\ Goto("verify", IF SameAsLayer THEN "build" ELSE "idle")
  /\ UNCHANGED <<keepDir, runs, input, attempt, workDir, tags>>

-----------------------------------------------------------------------------
(* Publishing.                                                               *)

\* Mutant: the build context still has the UKI of the image before.
BuildImageStale ==
  /\ Goto("build", "push")
  /\ output' = IF output = Absent THEN uki ELSE [uki EXCEPT !.linux = output.linux]
  /\ attempt' = 0
  /\ UNCHANGED <<keepDir, runs, input, workDir, registry>>

\* docker build --no-cache; PUSH_OUTPUT=false ends here.
BuildImage ==
  /\ \E next \in {"push", "idle"} : Goto("build", next)
  /\ output' = uki
  /\ attempt' = 0
  /\ UNCHANGED <<keepDir, runs, input, workDir, registry>>

\* push_image; the tag may have moved although the push reports a failure.
PushFails ==
  /\ attempt' = attempt + 1
  /\ Goto("push", IF attempt' = MaxAttempts THEN "idle" ELSE "push")
  /\ registry' \in {registry, output}
  /\ UNCHANGED <<keepDir, runs, input, workDir, output>>

Pushed ==
  /\ Goto("push", "inspect")
  /\ registry' = output
  /\ attempt' = 0
  /\ UNCHANGED <<keepDir, runs, input, workDir, output>>

\* The digest is printed, or only the tag when none is found.
Inspect ==
  /\ Goto("inspect", "idle")
  /\ UNCHANGED <<keepDir, runs, input, attempt, workDir, tags>>

Command ==
  \/ PullFails \/ Pulled \/ Assets \/ ExtractLayer \/ CheckLayer
  \/ Unsquash \/ SwapTree \/ Rebuild \/ Verify
  \/ BuildImage \/ PushFails \/ Pushed \/ Inspect

Next == Start \/ Command \/ Fail \/ ExtractionInterrupted \/ UnsquashInterrupted

Spec == Init /\ [][Next]_vars

\* Every command the script runs returns.
FairSpec == Spec /\ WF_vars(Command \/ Fail)

-----------------------------------------------------------------------------
(* Correctness.                                                              *)

TypeOK ==
  /\ keepDir \in BOOLEAN
  /\ pc \in Steps
  /\ runs \in 0 .. MaxRuns
  /\ input \in Input
  /\ attempt \in 0 .. MaxAttempts
  /\ layer \in Layer
  /\ rootfs \in Tree
  /\ uki \in MaybeImage
  /\ output \in MaybeImage
  /\ registry \in MaybeImage

\* The kernel finds its modules under its own release, and trusts them all.
TrustsItsModules(i) ==
  i # Absent => i.modules = {i.linux} /\ i.release = ReleaseOf[i.linux]

\* The installer-base that can be pulled embeds a kernel that trusts every
\* module in its root file system (hack/p2p/README.md on this script).
SameKeyBase == TrustsItsModules(output) /\ TrustsItsModules(registry)

\* Without WORK_DIR it does, whatever went wrong in executions before.
FreshDirKeepsKey == ~keepDir => SameKeyBase

\* Whatever is left in the work directory, the kernel that goes under the tag
\* is the one this execution was asked for.
KernelIsRequested == [][output' # output => output'.linux = input.kernel]_vars

\* Retries end.
EveryRunEnds == Active ~> ~Active

-----------------------------------------------------------------------------
(* Why they hold.                                                            *)

LayerUnpacked == ActiveSteps \ {"pull", "assets", "layer"}
LayerChecked  == LayerUnpacked \ {"check"}
TreeSwapped   == {"rebuild", "verify", "build", "push", "inspect"}
UkiRebuilt    == TreeSwapped \ {"rebuild"}

\* In a directory of its own, an execution finds only what it put there.
OwnFiles ==
  /\ pc \in {"pull", "assets", "layer"} => \A r \in Releases : layer.tree[r] = {}
  /\ pc \in LayerUnpacked =>
       \A r \in Releases :
         layer.tree[r] = IF r = ReleaseOf[input.kernel] THEN {input.kernel} ELSE {}
  /\ pc \in LayerChecked  => input.release = ReleaseOf[input.kernel]
  /\ pc \in TreeSwapped   => rootfs = {input.kernel}
  /\ pc \in UkiRebuilt    => TrustsItsModules(uki)
  /\ SameKeyBase

\* In any directory, what is read is there, and is for the requested kernel.
KernelInv ==
  /\ TypeOK
  /\ pc \in LayerUnpacked => layer.vmlinuz = input.kernel
  /\ pc \in UkiRebuilt => uki # Absent /\ uki.linux = input.kernel
  /\ pc \in {"pull", "push"} => attempt < MaxAttempts
  /\ pc \in {"push", "inspect"} => output # Absent

IInv == KernelInv /\ (~keepDir => OwnFiles)

=============================================================================
