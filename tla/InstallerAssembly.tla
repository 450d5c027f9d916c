------------------------- MODULE InstallerAssembly -------------------------
(***************************************************************************)
(* hack/p2p/build-installer.sh: several executions of the script on one    *)
(* docker daemon, which push to one installer repository.                  *)
(*                                                                         *)
(* The script composes the list of system extensions, lets the Talos       *)
(* imager put them on top of an installer-base image, takes the result     *)
(* apart, rebuilds the unified kernel image (UKI) around the base's kernel *)
(* and root file system, builds the final image FROM the imager's output,  *)
(* pushes it, and reads it back by digest to check it.  Every execution    *)
(* has its own temporary directory, but the docker tags are shared.        *)
(*                                                                         *)
(* Abstractions.  A kernel payload is its signing lineage; an image is the *)
(* lineages of its parts and the extensions in its UKI; image ids and      *)
(* digests are the images they name (content addressing).                  *)
(***************************************************************************)
EXTENDS Naturals, Sequences

CONSTANTS
  Builds,       \* executions of the script
  Refs,         \* references of system extension images
  Custom,       \* the P2P modules' extension (matrix or CUSTOM_SYSEXT_IMAGE)
  Toolkit,      \* the stock toolkit's extension, from the matrix
  NameOf,       \* the name in a reference's manifest.yaml
  Official,     \* references that show that they are the official open driver
  Extras,       \* EXTRA_SYSTEM_EXTENSION_IMAGES of a build
  TalosVersions,\* target_talos_version, the tag of the relabelled image
  TalosOf,
  Tags,         \* installer references: INSTALLER_IMAGE_TAG, or the Talos version
  TagOf,
  Lineages,     \* kernels with their module trees
  Stock,        \* the lineage inside the imager
  BaseOf,       \* the lineage of a build's BASE_INSTALLER_IMAGE
  KernelOf,     \* the lineage of its SAMEKEY_KERNEL_IMAGE, or NoLineage
  NoLineage,
  Replaced,     \* the bases whose vmlinuz the imager replaces by its own
  Deferred,     \* the builds with PUSH_INSTALLER=false
  MaxAttempts,  \* of a push
  NoImage

Names == {"p2p", "open", "toolkit", "glibc", "other"}

ASSUME ConstantsAssumption ==
  /\ {Custom, Toolkit} \subseteq Refs
  /\ NameOf \in [Refs -> Names]
  /\ NameOf[Custom] = "p2p" /\ NameOf[Toolkit] = "toolkit"
  /\ Official \subseteq Refs
  /\ Extras    \in [Builds -> Seq(Refs)]
  /\ TalosOf   \in [Builds -> TalosVersions]
  /\ TagOf     \in [Builds -> Tags]
  /\ Stock \in Lineages
  /\ BaseOf    \in [Builds -> Lineages]
  /\ KernelOf  \in [Builds -> Lineages \union {NoLineage}]
  /\ NoLineage \notin Lineages
  /\ Replaced \subseteq Lineages
  /\ MaxAttempts \in Nat \ {0}

-----------------------------------------------------------------------------
(* The list of extensions.                                                   *)

\* Extras that repeat one of the two fixed references are dropped; the others
\* keep their places.
Kept(b) == {i \in DOMAIN Extras[b] : Extras[b][i] \notin {Custom, Toolkit}}

LastPlace(b) == Len(Extras[b]) + 1

ListOver(b, places) ==
  [i \in places |-> CASE i = 0 -> Custom
                      [] i = LastPlace(b) -> Toolkit
                      [] OTHER -> Extras[b][i]]

\* Mutant: the toolkit is not added when an extra brings one of any version.
OrderDedupByName(b) ==
  ListOver(b, IF \E i \in Kept(b) : NameOf[Extras[b][i]] = "toolkit"
              THEN {0} \union Kept(b)
              ELSE {0} \union Kept(b) \union {LastPlace(b)})

\* Talos overlays the list in order: the toolkit has the last word.
Order(b) == ListOver(b, {0} \union Kept(b) \union {LastPlace(b)})

DuplicateDriverSource(b) == \E i \in Kept(b) : Extras[b][i] \in Official

-----------------------------------------------------------------------------
(* Images and state.                                                         *)

\* What is under /usr/install: the plain vmlinuz and initramfs.xz, and the
\* UKI's .linux section, root file system and extensions.
NoExtensions == [i \in {} |-> Custom]

Image == [vmlinuz : Lineages, initramfs : Lineages,
          linux : Lineages, rootfs : Lineages,
          exts : {Order(b) : b \in Builds} \union {NoExtensions}]

ASSUME NoImageAssumption == NoImage \notin Image

MaybeImage == Image \union {NoImage}

BaseImage(l) == [vmlinuz |-> l, initramfs |-> l,
                 linux |-> l, rootfs |-> l, exts |-> NoExtensions]

ActiveSteps ==
  {"compose", "load", "resolve", "create", "copy", "kernel_create",
   "kernel_copy", "overlay", "relabel", "build", "push", "inspect", "pull",
   "verify"}
EndSteps == {"verified", "deferred", "refused", "failed"}

VARIABLES
  pc,            \* the command each build is about to run
  loaded,        \* loaded_image_id
  kernel,        \* the lineage of verify_dir/vmlinuz
  attempt,       \* the failed attempts of the push
  containers,    \* created and not removed: <<build, the variable with its id>>
  baseTag,       \* local: what the reference of a base names
  relabelTag,    \* local: local-installer-relabel:<Talos version>
  installerTag,  \* local: the installer reference
  registry,      \* remote: the installer reference
  digest         \* installer_digest

local == <<loaded, kernel, attempt, digest>>
tags  == <<baseTag, relabelTag, installerTag>>
vars  == <<pc, local, containers, tags, registry>>

Active(b) == pc[b] \in ActiveSteps

Init ==
  /\ pc           = [b \in Builds |-> "compose"]
  /\ loaded       = [b \in Builds |-> NoImage]
  /\ kernel       = [b \in Builds |-> NoLineage]
  /\ attempt      = [b \in Builds |-> 0]
  /\ containers   = {}
  /\ baseTag      = [l \in Lineages |-> NoImage]
  /\ relabelTag   = [v \in TalosVersions |-> NoImage]
  /\ installerTag = [t \in Tags |-> NoImage]
  /\ registry     = [t \in Tags |-> NoImage]
  /\ digest       = [b \in Builds |-> NoImage]

Goto(b, from, to) ==
  /\ pc[b] = from
  /\ pc' = [pc EXCEPT ![b] = to]

\* The temporary directory and the variables of the shell are gone.
Forget(b) ==
  /\ loaded'  = [loaded  EXCEPT ![b] = NoImage]
  /\ kernel'  = [kernel  EXCEPT ![b] = NoLineage]
  /\ attempt' = [attempt EXCEPT ![b] = 0]

\* Mutant: the trap knows one container only.
CleanupOne(b) ==
  /\ containers' = containers \ {<<b, "container_id">>}
  /\ Forget(b)

\* The EXIT trap: it removes the containers that the two variables name.
Cleanup(b) ==
  /\ containers' = containers \ ({b} \X {"container_id", "base_container_id"})
  /\ Forget(b)

-----------------------------------------------------------------------------
(* From the arguments to a verified list of extensions.                      *)

Compose(b) ==
  /\ Goto(b, "compose", IF DuplicateDriverSource(b) THEN "refused" ELSE "load")
  /\ UNCHANGED <<local, containers, tags, registry>>

\* External: the extensions go into a UKI of the imager's own kernel; the base
\* keeps its initramfs.xz, and its vmlinuz unless that is replaced.
ImagerOutput(b) ==
  [vmlinuz   |-> IF BaseOf[b] \in Replaced THEN Stock ELSE BaseOf[b],
   initramfs |-> BaseOf[b],
   linux     |-> Stock,
   rootfs    |-> Stock,
   exts      |-> Order(b)]

\* docker load of an archive without a tag answers with the image's id.
LoadUntagged(b) ==
  /\ Goto(b, "load", "create")
  /\ loaded' = [loaded EXCEPT ![b] = ImagerOutput(b)]
  /\ UNCHANGED <<kernel, attempt, digest, containers, tags, registry>>

\* An archive that carries the base's reference moves that tag.  The answer is
\* the reference, or nothing the script understands: then it assumes the base's.
LoadTagged(b) ==
  /\ Goto(b, "load", "resolve")
  /\ baseTag' = [baseTag EXCEPT ![BaseOf[b]] = ImagerOutput(b)]
  /\ UNCHANGED <<local, containers, relabelTag, installerTag, registry>>

\* docker image inspect: the id behind the tag, at this moment.
ResolveId(b) ==
  /\ Goto(b, "resolve", "create")
  /\ baseTag[BaseOf[b]] # NoImage
  /\ loaded' = [loaded EXCEPT ![b] = baseTag[BaseOf[b]]]
  /\ UNCHANGED <<kernel, attempt, digest, containers, tags, registry>>

CreateContainer(b) ==
  /\ Goto(b, "create", "copy")
  /\ containers' = containers \union {<<b, "container_id">>}
  /\ UNCHANGED <<local, tags, registry>>

CopyAssets(b) ==
  /\ Goto(b, "copy", "kernel_create")
  /\ containers' = containers \ {<<b, "container_id">>}
  /\ UNCHANGED <<local, tags, registry>>

\* docker create from the kernel image, or from the reference of the base:
\* pulled if docker has no image of that name, else whatever it names.
CreateKernelContainer(b) ==
  LET local_ == baseTag[BaseOf[b]]
      base   == IF local_ = NoImage THEN BaseImage(BaseOf[b]) ELSE local_
  IN  /\ Goto(b, "kernel_create", "kernel_copy")
      /\ containers' = containers \union {<<b, "base_container_id">>}
      /\ IF KernelOf[b] # NoLineage
         THEN /\ kernel' = [kernel EXCEPT ![b] = KernelOf[b]]
              /\ UNCHANGED baseTag
         ELSE /\ kernel' = [kernel EXCEPT ![b] = base.vmlinuz]
              /\ baseTag' = [baseTag EXCEPT ![BaseOf[b]] = base]
      /\ UNCHANGED <<loaded, attempt, digest, relabelTag, installerTag, registry>>

CopyKernel(b) ==
  /\ Goto(b, "kernel_copy", "overlay")
  /\ containers' = containers \ {<<b, "base_container_id">>}
  /\ UNCHANGED <<local, tags, registry>>

\* Python's list.index: the first layer with this name.
First(exts, i, name) ==
  /\ NameOf[exts[i]] = name
  /\ \A j \in DOMAIN exts : j < i => NameOf[exts[j]] # name

OverlayVerified(exts) ==
  \E t, g \in DOMAIN exts :
    First(exts, t, "toolkit") /\ First(exts, g, "glibc") /\ t > g

VerifyOverlay(b) ==
  /\ \/ /\ Goto(b, "overlay", "relabel") /\ OverlayVerified(loaded[b].exts)
        /\ UNCHANGED <<loaded, kernel, attempt, containers>>
     \/ /\ Goto(b, "overlay", "refused") /\ ~OverlayVerified(loaded[b].exts)
        /\ Cleanup(b)
  /\ UNCHANGED <<digest, tags, registry>>

-----------------------------------------------------------------------------
(* The final image.                                                          *)

\* Mutant: the tag of the intermediate image does not name the version.
RelabelUnversioned(b) ==
  /\ Goto(b, "relabel", "build")
  /\ relabelTag' = [v \in TalosVersions |-> loaded[b]]
  /\ UNCHANGED <<local, containers, baseTag, installerTag, registry>>

\* docker tag: one name for all builds of a Talos version.
Relabel(b) ==
  /\ Goto(b, "relabel", "build")
  /\ relabelTag' = [relabelTag EXCEPT ![TalosOf[b]] = loaded[b]]
  /\ UNCHANGED <<local, containers, baseTag, installerTag, registry>>

\* FROM the relabelled tag, with the vmlinuz and the rebuilt UKI copied over it.
Rebuilt(b, from) ==
  [vmlinuz   |-> kernel[b],
   initramfs |-> from.initramfs,
   linux     |-> kernel[b],
   rootfs    |-> loaded[b].initramfs,
   exts      |-> loaded[b].exts]

BuildImage(b) ==
  /\ \/ b \in Deferred /\ Goto(b, "build", "deferred") /\ Cleanup(b)
     \/ /\ b \notin Deferred /\ Goto(b, "build", "push")
        /\ UNCHANGED <<loaded, kernel, attempt, containers>>
  /\ LET from == relabelTag[TalosOf[b]]
     IN  /\ from # NoImage
         /\ installerTag' = [installerTag EXCEPT ![TagOf[b]] = Rebuilt(b, from)]
  /\ UNCHANGED <<digest, baseTag, relabelTag, registry>>

-----------------------------------------------------------------------------
(* The push, and the check of what was pushed.                               *)

Upload(b) ==
  registry' = [registry EXCEPT ![TagOf[b]] = installerTag[TagOf[b]]]

PushAccepted(b) ==
  /\ Goto(b, "push", "inspect")
  /\ Upload(b)
  /\ UNCHANGED <<local, containers, tags>>

\* Mutant: the loop starts over after the last attempt.
PushFailsForever(b) ==
  /\ attempt' = [attempt EXCEPT ![b] = (@ + 1) % MaxAttempts]
  /\ Goto(b, "push", "push")
  /\ Upload(b) \/ UNCHANGED registry
  /\ UNCHANGED <<loaded, kernel, digest, containers, tags>>

\* Mutant: the last attempt is counted after the comparison.
PushFailsOnceMore(b) ==
  /\ attempt' = [attempt EXCEPT ![b] = attempt[b] + 1]
  /\ Goto(b, "push", IF attempt[b] = MaxAttempts THEN "failed" ELSE "push")
  /\ Upload(b) \/ UNCHANGED registry
  /\ UNCHANGED <<loaded, kernel, digest, containers, tags>>

\* docker push exits non-zero; the tag may have moved all the same.
PushFails(b) ==
  /\ \/ /\ attempt[b] + 1 < MaxAttempts
        /\ attempt' = [attempt EXCEPT ![b] = attempt[b] + 1]
        /\ Goto(b, "push", "push")
        /\ UNCHANGED <<loaded, kernel, containers>>
     \/ /\ attempt[b] + 1 = MaxAttempts
        /\ Goto(b, "push", "failed") /\ Cleanup(b)
  /\ Upload(b) \/ UNCHANGED registry
  /\ UNCHANGED <<digest, tags>>

InspectDigest(b) ==
  /\ Goto(b, "inspect", "pull")
  /\ registry[TagOf[b]] # NoImage
  /\ digest' = [digest EXCEPT ![b] = registry[TagOf[b]]]
  /\ UNCHANGED <<loaded, kernel, attempt, containers, tags, registry>>

PullByDigest(b) ==
  /\ Goto(b, "pull", "verify")
  /\ containers' = containers \union {<<b, "container_id">>}
  /\ UNCHANGED <<local, tags, registry>>

NamesIn(image) == {NameOf[image.exts[i]] : i \in DOMAIN image.exts}

\* Mutant: the official driver is not looked for.
CleanWithoutExclusion(image) == {"p2p", "toolkit"} \subseteq NamesIn(image)

Clean(image) ==
  {"p2p", "toolkit"} \subseteq NamesIn(image) /\ "open" \notin NamesIn(image)

VerifyInstaller(b) ==
  /\ Goto(b, "verify", IF Clean(digest[b]) THEN "verified" ELSE "failed")
  /\ Cleanup(b)
  /\ UNCHANGED <<digest, tags, registry>>

-----------------------------------------------------------------------------

\* A command fails (set -e), or the script is interrupted.
Fail(b) ==
  /\ Active(b)
  /\ pc' = [pc EXCEPT ![b] = "failed"]
  /\ Cleanup(b)
  /\ digest' = [digest EXCEPT ![b] = NoImage]
  /\ UNCHANGED <<tags, registry>>

Command(b) ==
  \/ Compose(b)
  \/ LoadUntagged(b)          \/ LoadTagged(b)  \/ ResolveId(b)
  \/ CreateContainer(b)       \/ CopyAssets(b)
  \/ CreateKernelContainer(b) \/ CopyKernel(b)
  \/ VerifyOverlay(b)
  \/ Relabel(b)               \/ BuildImage(b)
  \/ PushAccepted(b)          \/ PushFails(b)
  \/ InspectDigest(b)         \/ PullByDigest(b) \/ VerifyInstaller(b)

Next == \E b \in Builds : Command(b) \/ Fail(b)

Spec == Init /\ [][Next]_vars

\* Every command of the script returns.
Fairness == \A b \in Builds : WF_vars(Command(b) \/ Fail(b))

FairSpec == Spec /\ Fairness

-----------------------------------------------------------------------------
(* Correctness.                                                              *)

TypeOK ==
  /\ pc           \in [Builds -> ActiveSteps \union EndSteps]
  /\ loaded       \in [Builds -> MaybeImage]
  /\ kernel       \in [Builds -> Lineages \union {NoLineage}]
  /\ attempt      \in [Builds -> 0 .. MaxAttempts]
  /\ containers   \subseteq Builds \X {"container_id", "base_container_id"}
  /\ baseTag      \in [Lineages -> MaybeImage]
  /\ relabelTag   \in [TalosVersions -> MaybeImage]
  /\ installerTag \in [Tags -> MaybeImage]
  /\ registry     \in [Tags -> MaybeImage]
  /\ digest       \in [Builds -> MaybeImage]

\* On a node, the last extension of the list that brings an ld.so.cache wins.
CacheProviders == {"toolkit", "glibc"}
CacheOwner(exts, name) ==
  \E i \in DOMAIN exts :
    /\ NameOf[exts[i]] = name
    /\ \A j \in DOMAIN exts : j > i => NameOf[exts[j]] \notin CacheProviders

\* Whatever extras are asked for, twice or in several versions, in every image
\* that can be pulled the toolkit's cache shadows the plain glibc one.
ToolkitCacheWins ==
  \A t \in Tags :
    registry[t] # NoImage => CacheOwner(registry[t].exts, "toolkit")

\* The list of references is checked before the push and the image after it:
\* when a build reports success, what its installer reference names has the
\* custom driver and no other, under whatever references the extras came.
VerifiedIsClean ==
  \A b \in Builds :
    pc[b] = "verified" =>
      /\ registry[TagOf[b]] = digest[b]
      /\ NamesIn(digest[b]) \cap {"p2p", "open"} = {"p2p"}

\* A kernel that is handed in, or the one behind the base's reference, which may
\* be the imager's when docker load has moved that tag.
KernelsFor(b) ==
  IF KernelOf[b] # NoLineage THEN {KernelOf[b]}
  ELSE {BaseOf[b]} \union (IF BaseOf[b] \in Replaced THEN {Stock} ELSE {})

\* What b may make: one of its kernels, both as vmlinuz and in the UKI; around
\* the root file system of its base and the extensions of a build on that base;
\* over the image of a build of its Talos version.
MadeBy(b) ==
  {image \in Image :
    /\ image.linux = image.vmlinuz /\ image.linux \in KernelsFor(b)
    /\ image.rootfs = BaseOf[b]
    /\ \E a \in Builds : BaseOf[a] = BaseOf[b] /\ image.exts = Order(a)
    /\ \E a \in Builds : TalosOf[a] = TalosOf[b] /\ image.initramfs = BaseOf[a]}

Published(t) ==
  {image \in Image : \E b \in Builds : TagOf[b] = t /\ image \in MadeBy(b)}

\* Although every intermediate image is handed on by a tag that other builds and
\* docker load move, and a push may be repeated: what a reference names and what
\* a build reports was made by a build for that reference; of other builds it
\* has the extensions if they share a base, and the initramfs.xz under the UKI
\* if they share a Talos version, and nothing else.
PublishedProvenance ==
  /\ \A t \in Tags : {installerTag[t], registry[t]} \subseteq Published(t) \union {NoImage}
  /\ \A b \in Builds : digest[b] \in Published(TagOf[b]) \union {NoImage}

\* However a build ends, it leaves no container behind.
NoContainerLeft ==
  \A b \in Builds : pc[b] \in EndSteps => \A c \in containers : c[1] # b

\* Every build ends, although its pushes may all fail.
EveryBuildEnds == <>(\A b \in Builds : pc[b] \in EndSteps)

\* No image with two sources of the driver is ever put under the reference.
OneDriverSource ==
  \A t \in Tags :
    registry[t] # NoImage => ~({"p2p", "open"} \subseteq NamesIn(registry[t]))

-----------------------------------------------------------------------------
(* Why they hold.                                                            *)

Unloaded == {"compose", "load", "resolve"}
KernelKnown == ActiveSteps \ (Unloaded \union {"create", "copy", "kernel_create"})

\* Images the imager has made on a base.
Outputs(l) == {ImagerOutput(a) : a \in {a \in Builds : BaseOf[a] = l}}

\* Why PublishedProvenance holds: what every tag on the way can name.
ProvenanceInv ==
  /\ \A b \in Builds : loaded[b] \in Outputs(BaseOf[b]) \union {NoImage}
  /\ \A l \in Lineages : baseTag[l] \in Outputs(l) \union {NoImage, BaseImage(l)}
  /\ \A b \in Builds : pc[b] \in KernelKnown => kernel[b] \in KernelsFor(b)
  /\ \A v \in TalosVersions :
       relabelTag[v] # NoImage =>
         \E a \in Builds : TalosOf[a] = v /\ relabelTag[v].initramfs = BaseOf[a]
  /\ PublishedProvenance

\* Why the toolkit's cache wins: every image on its way into the registry has
\* the extensions of some build's list, and such a list ends with the toolkit.
Composed(image) == image # NoImage => image.exts # NoExtensions

CacheInv ==
  /\ TypeOK
  /\ \A b \in Builds :
       /\ Composed(loaded[b])
       /\ Active(b) /\ pc[b] \notin Unloaded => loaded[b] # NoImage
       /\ pc[b] \in KernelKnown => kernel[b] # NoLineage
       /\ Active(b) => attempt[b] < MaxAttempts
       /\ pc[b] = "resolve" =>
            baseTag[BaseOf[b]] # NoImage /\ Composed(baseTag[BaseOf[b]])
  /\ \A t \in Tags : Composed(installerTag[t]) /\ Composed(registry[t])

\* The containers a build may have are those of the command it is at.
ContainersMatchSteps ==
  \A c \in containers :
    \/ c[2] = "container_id" /\ pc[c[1]] \in {"copy", "verify"}
    \/ c[2] = "base_container_id" /\ pc[c[1]] = "kernel_copy"

\* Why VerifiedIsClean holds: from the inspection on, what the reference names
\* is what the build reads back.
OneBuildPerTag ==
  \A a, b \in Builds : a # b => TagOf[a] # TagOf[b]

ReadBackInv ==
  \A b \in Builds :
    /\ pc[b] \in {"pull", "verify", "verified"} => digest[b] = registry[TagOf[b]]
    /\ pc[b] = "verified" => Clean(digest[b])

=============================================================================
