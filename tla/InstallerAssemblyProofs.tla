---------------------- MODULE InstallerAssemblyProofs ----------------------
(* Theorems about InstallerAssembly, for every set of builds and extras.     *)
EXTENDS InstallerAssembly, TLAPS

-----------------------------------------------------------------------------
(* Extension lists.                                                          *)

\* The last place of a composed list holds the toolkit, and no place is beyond.
LEMMA LastIsToolkit ==
  ASSUME NEW b \in Builds
  PROVE  /\ LastPlace(b) \in DOMAIN Order(b)
         /\ NameOf[Order(b)[LastPlace(b)]] = "toolkit"
         /\ \A j \in DOMAIN Order(b) : ~(j > LastPlace(b))
<1>1. Len(Extras[b]) \in Nat /\ DOMAIN Extras[b] = 1 .. Len(Extras[b])
  BY ConstantsAssumption
<1>2. DOMAIN Order(b) = {0} \union Kept(b) \union {LastPlace(b)}
  BY DEF Order, ListOver
<1>3. Order(b)[LastPlace(b)] = Toolkit
  BY <1>1, <1>2 DEF Order, ListOver, LastPlace
<1>4. \A j \in DOMAIN Order(b) : j \in 0 .. LastPlace(b)
  BY <1>1, <1>2 DEF Kept, LastPlace
<1> QED
  BY <1>1, <1>2, <1>3, <1>4, ConstantsAssumption DEF LastPlace

LEMMA OrderNotEmpty ==
  ASSUME NEW b \in Builds
  PROVE  Order(b) # NoExtensions
<1>1. 0 \in DOMAIN Order(b)
  BY DEF Order, ListOver
<1>2. DOMAIN NoExtensions = {}
  BY DEF NoExtensions
<1> QED
  BY <1>1, <1>2

\* The toolkit owns the cache in every composed list.
LEMMA OrderWins ==
  ASSUME NEW b \in Builds
  PROVE  CacheOwner(Order(b), "toolkit")
BY LastIsToolkit DEF CacheOwner

LEMMA OutputIsImage ==
  ASSUME NEW b \in Builds
  PROVE  ImagerOutput(b) \in Image /\ Composed(ImagerOutput(b)) /\ ImagerOutput(b) # NoImage
<1>1. ImagerOutput(b) \in Image /\ ImagerOutput(b).exts = Order(b)
  BY ConstantsAssumption DEF ImagerOutput, Image
<1> QED
  BY <1>1, OrderNotEmpty, NoImageAssumption DEF Composed

LEMMA BaseIsImage ==
  ASSUME NEW l \in Lineages
  PROVE  BaseImage(l) \in Image /\ BaseImage(l) # NoImage /\ BaseImage(l).vmlinuz = l
BY NoImageAssumption DEF BaseImage, Image

-----------------------------------------------------------------------------
(* Type correctness and the composed lists, for any sharing of tags.         *)

LEMMA CacheInit == Init => CacheInv
<1> SUFFICES ASSUME Init PROVE CacheInv
  OBVIOUS
<1>1. TypeOK
  BY ConstantsAssumption DEF Init, TypeOK, MaybeImage, ActiveSteps
<1>2. ASSUME NEW b \in Builds PROVE pc[b] = "compose" /\ loaded[b] = NoImage /\ attempt[b] = 0
  BY DEF Init
<1>3. ASSUME NEW t \in Tags
      PROVE  installerTag[t] = NoImage /\ registry[t] = NoImage
  BY DEF Init
<1>4. 0 < MaxAttempts
  BY ConstantsAssumption
<1> QED
  BY <1>1, <1>2, <1>3, <1>4
     DEF CacheInv, Composed, Unloaded, KernelKnown, Active, ActiveSteps

\* The end of a script keeps what CacheInv says of the others.
LEMMA CleanupComposed ==
  ASSUME CacheInv, NEW b \in Builds, NEW to \in EndSteps,
         pc' = [pc EXCEPT ![b] = to], Cleanup(b), baseTag' = baseTag,
         relabelTag' \in [TalosVersions -> MaybeImage],
         installerTag' \in [Tags -> MaybeImage],
         registry' \in [Tags -> MaybeImage],
         digest' \in [Builds -> MaybeImage],
         \A t \in Tags : Composed(installerTag'[t]) /\ Composed(registry'[t])
  PROVE  CacheInv'
<1> USE ConstantsAssumption DEF CacheInv, TypeOK, Cleanup, Forget
<1>1. loaded' \in [Builds -> MaybeImage]
  BY DEF MaybeImage
<1>2. kernel' \in [Builds -> Lineages \union {NoLineage}]
  OBVIOUS
<1>3. attempt' \in [Builds -> 0 .. MaxAttempts]
  OBVIOUS
<1>4. pc' \in [Builds -> ActiveSteps \union EndSteps]
  OBVIOUS
<1>5. TypeOK'
  BY <1>1, <1>2, <1>3, <1>4
<1>6. \A a \in Builds \ {b} : /\ pc'[a] = pc[a] /\ loaded'[a] = loaded[a]
                             /\ kernel'[a] = kernel[a] /\ attempt'[a] = attempt[a]
  OBVIOUS
<1>7. pc'[b] \in EndSteps /\ loaded'[b] = NoImage
  OBVIOUS
<1>8. \A a \in Builds : Composed(loaded'[a])
  BY <1>6, <1>7 DEF Composed
<1>9. ~Active(b)' /\ pc'[b] \notin KernelKnown /\ pc'[b] # "resolve"
  BY <1>7 DEF Active, ActiveSteps, EndSteps, KernelKnown
<1> QED
  BY <1>5, <1>6, <1>8, <1>9 DEF Active, Composed

LEMMA CacheStep == CacheInv /\ [Next]_vars => CacheInv'
<1> SUFFICES ASSUME CacheInv, [Next]_vars PROVE CacheInv'
  OBVIOUS
<1> USE DEF CacheInv, TypeOK, Goto, local, tags, ActiveSteps, EndSteps, Active,
            Unloaded, KernelKnown
<1> USE ConstantsAssumption
<1>1. CASE UNCHANGED vars
  BY <1>1 DEF vars, Composed
<1>2. ASSUME NEW b \in Builds, Compose(b) PROVE CacheInv'
  BY <1>2 DEF Compose, Composed
<1>3. ASSUME NEW b \in Builds, LoadUntagged(b) PROVE CacheInv'
  BY <1>3, OutputIsImage DEF LoadUntagged, Composed, MaybeImage
<1>4. ASSUME NEW b \in Builds, LoadTagged(b) PROVE CacheInv'
  BY <1>4, OutputIsImage DEF LoadTagged, Composed, MaybeImage
<1>5. ASSUME NEW b \in Builds, ResolveId(b) PROVE CacheInv'
  BY <1>5 DEF ResolveId, Composed
<1>6. ASSUME NEW b \in Builds, CreateContainer(b) PROVE CacheInv'
  BY <1>6 DEF CreateContainer, Composed
<1>7. ASSUME NEW b \in Builds, CopyAssets(b) PROVE CacheInv'
  BY <1>7 DEF CopyAssets, Composed
<1>8. ASSUME NEW b \in Builds, CreateKernelContainer(b) PROVE CacheInv'
  <2> DEFINE base == IF baseTag[BaseOf[b]] = NoImage
                     THEN BaseImage(BaseOf[b]) ELSE baseTag[BaseOf[b]]
  <2>1. base \in Image /\ base # NoImage
    BY BaseIsImage, NoImageAssumption DEF MaybeImage
  <2>2. base.vmlinuz \in Lineages
    BY <2>1 DEF Image
  <2>a. base.vmlinuz \in Lineages \union {NoLineage}
    BY <2>2
  <2>b. /\ kernel' \in [Builds -> Lineages \union {NoLineage}]
        /\ kernel' = [kernel EXCEPT ![b] = KernelOf[b]]
           \/ kernel' = [kernel EXCEPT ![b] = base.vmlinuz]
    BY <1>8, <2>a DEF CreateKernelContainer
  <2>c. baseTag' \in [Lineages -> MaybeImage]
    BY <1>8, <2>1 DEF CreateKernelContainer, MaybeImage
  <2>3. TypeOK'
    BY <1>8, <2>b, <2>c DEF CreateKernelContainer
  <2>4. \A c \in Builds :
          pc[c] = "resolve" => baseTag'[BaseOf[c]] = baseTag[BaseOf[c]]
    BY <1>8 DEF CreateKernelContainer
  <2>5. kernel'[b] # NoLineage
    BY <1>8, <2>2 DEF CreateKernelContainer
  <2> HIDE DEF base
  <2> QED
    BY <1>8, <2>3, <2>4, <2>5 DEF CreateKernelContainer, Composed
<1>9. ASSUME NEW b \in Builds, CopyKernel(b) PROVE CacheInv'
  BY <1>9 DEF CopyKernel, Composed
<1>10. ASSUME NEW b \in Builds, VerifyOverlay(b) PROVE CacheInv'
  <2>1. CASE Goto(b, "overlay", "relabel") /\ UNCHANGED <<loaded, kernel, attempt, containers>>
    BY <1>10, <2>1 DEF VerifyOverlay, Composed
  <2>2. CASE Goto(b, "overlay", "refused") /\ Cleanup(b)
    <3>1. UNCHANGED <<digest, tags, registry>>
      BY <1>10 DEF VerifyOverlay
    <3> QED
      BY <2>2, <3>1, CleanupComposed
  <2> QED
    BY <1>10, <2>1, <2>2 DEF VerifyOverlay
<1>11. ASSUME NEW b \in Builds, Relabel(b) PROVE CacheInv'
  BY <1>11 DEF Relabel, Composed
<1>12. ASSUME NEW b \in Builds, BuildImage(b) PROVE CacheInv'
  <2> DEFINE from  == relabelTag[TalosOf[b]]
             image == Rebuilt(b, from)
  <2>1. from \in Image /\ loaded[b] \in Image /\ kernel[b] \in Lineages
    BY <1>12 DEF BuildImage, MaybeImage
  <2>2. image \in Image /\ image.exts = loaded[b].exts
    BY <2>1 DEF Image, Rebuilt
  <2>3. Composed(image)
    BY <1>12, <2>1, <2>2, NoImageAssumption DEF BuildImage, Composed
  <2>4. installerTag' = [installerTag EXCEPT ![TagOf[b]] = image]
    BY <1>12 DEF BuildImage
  <2> HIDE DEF image
  <2>5. CASE Goto(b, "build", "push") /\ UNCHANGED <<loaded, kernel, attempt, containers>>
    BY <1>12, <2>2, <2>3, <2>4, <2>5 DEF BuildImage, Composed, MaybeImage
  <2>6. CASE Goto(b, "build", "deferred") /\ Cleanup(b)
    <3>1. /\ installerTag' \in [Tags -> MaybeImage]
          /\ \A t \in Tags : Composed(installerTag'[t])
      BY <2>2, <2>3, <2>4 DEF MaybeImage, Composed
    <3> QED
      BY <1>12, <2>6, <3>1, CleanupComposed DEF BuildImage
  <2> QED
    BY <1>12, <2>5, <2>6 DEF BuildImage
<1>13. ASSUME NEW b \in Builds, PushAccepted(b) PROVE CacheInv'
  BY <1>13 DEF PushAccepted, Upload, Composed
<1>14. ASSUME NEW b \in Builds, PushFails(b) PROVE CacheInv'
  <2>1. \/ registry' = registry
        \/ registry' = [registry EXCEPT ![TagOf[b]] = installerTag[TagOf[b]]]
    BY <1>14 DEF PushFails, Upload
  <2>2. pc[b] = "push" /\ UNCHANGED <<digest, tags>>
    BY <1>14 DEF PushFails
  <2>3. CASE /\ attempt[b] + 1 < MaxAttempts
             /\ attempt' = [attempt EXCEPT ![b] = attempt[b] + 1]
             /\ pc' = [pc EXCEPT ![b] = "push"]
             /\ UNCHANGED <<loaded, kernel, containers>>
    <3>1. attempt[b] + 1 \in 0 .. MaxAttempts
      BY <2>3
    <3>2. TypeOK'
      BY <2>1, <2>2, <2>3, <3>1
    <3> QED
      BY <2>1, <2>2, <2>3, <3>2 DEF Composed
  <2>4. CASE pc' = [pc EXCEPT ![b] = "failed"] /\ Cleanup(b)
    <3>1. /\ registry' \in [Tags -> MaybeImage]
          /\ \A t \in Tags : Composed(registry'[t])
      <4>1. \A t \in Tags : registry'[t] \in {registry[t], installerTag[t]}
        BY ONLY <2>1, CacheInv DEF CacheInv, TypeOK
      <4>2. registry' \in [Tags -> MaybeImage]
        BY ONLY <2>1, CacheInv, ConstantsAssumption DEF CacheInv, TypeOK
      <4> QED
        BY ONLY <4>1, <4>2, CacheInv DEF CacheInv, Composed
    <3>2. /\ relabelTag' \in [TalosVersions -> MaybeImage]
          /\ installerTag' \in [Tags -> MaybeImage]
          /\ digest' \in [Builds -> MaybeImage]
          /\ baseTag' = baseTag
          /\ \A t \in Tags : Composed(installerTag'[t])
      BY <2>2 DEF Composed
    <3>3. "failed" \in EndSteps
      OBVIOUS
    <3> QED
      BY ONLY CacheInv, <1>14, <2>4, <3>1, <3>2, <3>3, CleanupComposed
  <2> QED
    BY <1>14, <2>3, <2>4 DEF PushFails
<1>15. ASSUME NEW b \in Builds, InspectDigest(b) PROVE CacheInv'
  BY <1>15 DEF InspectDigest, Composed
<1>16. ASSUME NEW b \in Builds, PullByDigest(b) PROVE CacheInv'
  BY <1>16 DEF PullByDigest, Composed
<1>17. ASSUME NEW b \in Builds, VerifyInstaller(b) PROVE CacheInv'
  BY <1>17, CleanupComposed DEF VerifyInstaller
<1>18. ASSUME NEW b \in Builds, Fail(b) PROVE CacheInv'
  BY <1>18, CleanupComposed DEF Fail, MaybeImage
<1> QED
  BY <1>1, <1>2, <1>3, <1>4, <1>5, <1>6, <1>7, <1>8, <1>9, <1>10, <1>11, <1>12,
     <1>13, <1>14, <1>15, <1>16, <1>17, <1>18 DEF Next, Command

LEMMA CacheInvariant == Spec => []CacheInv
BY CacheInit, CacheStep, PTL DEF Spec

\* Every state of the script is well-typed; in particular an image is built only
\* from parts that exist, and a push is attempted at most MaxAttempts times.
THEOREM TypeCorrect == Spec => []TypeOK
<1>1. CacheInv => TypeOK
  BY DEF CacheInv
<1> QED
  BY <1>1, CacheInvariant, PTL

\* The toolkit's ld.so.cache wins in every image that was ever pushed, for any
\* extras and however builds share the daemon's tags.
THEOREM CacheIsToolkits == Spec => []ToolkitCacheWins
<1>1. ASSUME CacheInv, NEW t \in Tags, registry[t] # NoImage
      PROVE  CacheOwner(registry[t].exts, "toolkit")
  <2>1. registry[t] \in Image
    BY <1>1 DEF CacheInv, TypeOK, MaybeImage
  <2>2. PICK b \in Builds : registry[t].exts = Order(b)
    BY <1>1, <2>1 DEF CacheInv, Composed, Image
  <2> QED
    BY <2>2, OrderWins
<1>2. CacheInv => ToolkitCacheWins
  BY <1>1 DEF ToolkitCacheWins
<1> QED
  BY <1>2, CacheInvariant, PTL

-----------------------------------------------------------------------------
(* Containers.                                                               *)

\* Whichever command fails, the trap leaves no container of the build behind.
THEOREM ContainersRemoved == Spec => []NoContainerLeft
<1> USE DEF ContainersMatchSteps
<1>1. Init => ContainersMatchSteps
  BY DEF Init
<1>2. ASSUME CacheInv, ContainersMatchSteps, [Next]_vars PROVE ContainersMatchSteps'
  <2> USE <1>2 DEF CacheInv, TypeOK, Goto, local, tags
  <2>1. CASE UNCHANGED vars
    BY <2>1 DEF vars
  <2>2. ASSUME NEW b \in Builds, CreateContainer(b) PROVE ContainersMatchSteps'
    BY <2>2 DEF CreateContainer
  <2>3. ASSUME NEW b \in Builds, CopyAssets(b) PROVE ContainersMatchSteps'
    BY <2>3 DEF CopyAssets
  <2>4. ASSUME NEW b \in Builds, CreateKernelContainer(b) PROVE ContainersMatchSteps'
    BY <2>4 DEF CreateKernelContainer
  <2>5. ASSUME NEW b \in Builds, CopyKernel(b) PROVE ContainersMatchSteps'
    BY <2>5 DEF CopyKernel
  <2>6. ASSUME NEW b \in Builds, PullByDigest(b) PROVE ContainersMatchSteps'
    BY <2>6 DEF PullByDigest
  <2>7. ASSUME NEW b \in Builds, VerifyInstaller(b) PROVE ContainersMatchSteps'
    BY <2>7 DEF VerifyInstaller, Cleanup
  <2>8. ASSUME NEW b \in Builds, Fail(b) PROVE ContainersMatchSteps'
    BY <2>8 DEF Fail, Cleanup
  <2>9. ASSUME NEW b \in Builds,
               \/ Compose(b) \/ LoadUntagged(b) \/ LoadTagged(b) \/ ResolveId(b)
               \/ VerifyOverlay(b) \/ Relabel(b) \/ BuildImage(b)
               \/ PushAccepted(b) \/ PushFails(b) \/ InspectDigest(b)
        PROVE  ContainersMatchSteps'
    <3>1. containers' \subseteq containers
      BY <2>9 DEF Compose, LoadUntagged, LoadTagged, ResolveId, VerifyOverlay,
                  Relabel, BuildImage, PushAccepted, PushFails, InspectDigest, Cleanup
    <3>2. /\ pc[b] \notin {"copy", "verify", "kernel_copy"}
          /\ \A c \in Builds \ {b} : pc'[c] = pc[c]
      BY <2>9 DEF Compose, LoadUntagged, LoadTagged, ResolveId, VerifyOverlay,
                  Relabel, BuildImage, PushAccepted, PushFails, InspectDigest
    <3> QED
      BY <3>1, <3>2
  <2> QED
    BY <2>1, <2>2, <2>3, <2>4, <2>5, <2>6, <2>7, <2>8, <2>9 DEF Next, Command
<1>3. CacheInv /\ ContainersMatchSteps => NoContainerLeft
  BY DEF NoContainerLeft, EndSteps
<1> QED
  BY <1>1, <1>2, <1>3, CacheInvariant, PTL DEF Spec

-----------------------------------------------------------------------------
(* Where the parts of an image come from, for any sharing of tags.           *)

LEMMA OutputKnown ==
  ASSUME NEW b \in Builds
  PROVE  ImagerOutput(b) \in Outputs(BaseOf[b])
BY DEF Outputs

\* What is known of an output of the imager on a base.
LEMMA OutputParts ==
  ASSUME NEW l \in Lineages, NEW image \in Outputs(l)
  PROVE  /\ image.initramfs = l
         /\ image.vmlinuz = IF l \in Replaced THEN Stock ELSE l
         /\ \E a \in Builds : BaseOf[a] = l /\ image.exts = Order(a)
         /\ image # NoImage /\ image # BaseImage(l)
<1>1. PICK a \in Builds : BaseOf[a] = l /\ image = ImagerOutput(a)
  BY DEF Outputs
<1>2. image.exts = Order(a)
  BY <1>1 DEF ImagerOutput
<1>3. image # BaseImage(l)
  BY <1>2, OrderNotEmpty DEF BaseImage
<1> QED
  BY <1>1, <1>2, <1>3, OutputIsImage DEF ImagerOutput

\* What b builds over an image of its Talos version is one it may make.
LEMMA RebuiltIsOwn ==
  ASSUME NEW b \in Builds, loaded[b] \in Outputs(BaseOf[b]), kernel[b] \in KernelsFor(b),
         NEW from \in Image,
         \E a \in Builds : TalosOf[a] = TalosOf[b] /\ from.initramfs = BaseOf[a],
         Rebuilt(b, from) \in Image
  PROVE  Rebuilt(b, from) \in Published(TagOf[b])
<1>1. BaseOf[b] \in Lineages
  BY ConstantsAssumption
<1>2. /\ loaded[b].initramfs = BaseOf[b]
      /\ \E a \in Builds : BaseOf[a] = BaseOf[b] /\ loaded[b].exts = Order(a)
  BY <1>1, OutputParts
<1>3. Rebuilt(b, from) \in MadeBy(b)
  BY <1>2 DEF Rebuilt, MadeBy
<1> QED
  BY <1>3 DEF Published

LEMMA ProvenanceInit == Init => ProvenanceInv
BY ConstantsAssumption
   DEF Init, ProvenanceInv, PublishedProvenance, KernelKnown, Unloaded, ActiveSteps

\* The end of a script takes from what is known, and adds nothing.
LEMMA CleanupKnown ==
  ASSUME ProvenanceInv, TypeOK, NEW b \in Builds, NEW to \in EndSteps,
         pc' = [pc EXCEPT ![b] = to], Cleanup(b), UNCHANGED <<baseTag, relabelTag>>,
         PublishedProvenance'
  PROVE  ProvenanceInv'
<1>1. \A a \in Builds : loaded'[a] \in {loaded[a], NoImage}
  BY DEF Cleanup, Forget, TypeOK
<1>2. \A a \in Builds : pc'[a] \in KernelKnown => pc'[a] = pc[a] /\ kernel'[a] = kernel[a]
  BY DEF Cleanup, Forget, TypeOK, EndSteps, KernelKnown, ActiveSteps
<1> QED
  BY <1>1, <1>2 DEF ProvenanceInv, KernelsFor

LEMMA ProvenanceStep ==
  ASSUME CacheInv, CacheInv', ProvenanceInv, [Next]_vars
  PROVE  ProvenanceInv'
<1> USE DEF CacheInv, TypeOK, Goto, local, tags, ActiveSteps, Active, Unloaded, KernelKnown
<1> USE ConstantsAssumption
<1>1. CASE UNCHANGED vars
  BY <1>1 DEF vars, ProvenanceInv, PublishedProvenance
<1>2. ASSUME NEW b \in Builds,
             \/ Compose(b) \/ CreateContainer(b) \/ CopyAssets(b) \/ CopyKernel(b)
             \/ PullByDigest(b)
      PROVE  ProvenanceInv'
  <2>1. UNCHANGED <<loaded, kernel, digest, tags, registry>>
    BY <1>2 DEF Compose, CreateContainer, CopyAssets, CopyKernel, PullByDigest
  <2>2. \A a \in Builds : pc'[a] \in KernelKnown => pc[a] \in KernelKnown
    BY <1>2 DEF Compose, CreateContainer, CopyAssets, CopyKernel, PullByDigest
  <2> QED
    BY <2>1, <2>2 DEF ProvenanceInv, PublishedProvenance
<1>3. ASSUME NEW b \in Builds, LoadUntagged(b) PROVE ProvenanceInv'
  BY <1>3, OutputKnown DEF LoadUntagged, ProvenanceInv, PublishedProvenance
<1>4. ASSUME NEW b \in Builds, LoadTagged(b) PROVE ProvenanceInv'
  BY <1>4, OutputKnown DEF LoadTagged, ProvenanceInv, PublishedProvenance
<1>5. ASSUME NEW b \in Builds, ResolveId(b) PROVE ProvenanceInv'
  <2>1. baseTag[BaseOf[b]] \in Outputs(BaseOf[b])
    <3>1. Composed(baseTag[BaseOf[b]]) /\ baseTag[BaseOf[b]] # NoImage
      BY <1>5 DEF ResolveId
    <3>2. BaseImage(BaseOf[b]).exts = NoExtensions
      BY DEF BaseImage
    <3>3. baseTag[BaseOf[b]] # BaseImage(BaseOf[b])
      BY <3>1, <3>2 DEF Composed
    <3> QED
      BY <3>1, <3>3 DEF ProvenanceInv
  <2> QED
    BY <1>5, <2>1 DEF ResolveId, ProvenanceInv, PublishedProvenance
<1>6. ASSUME NEW b \in Builds, CreateKernelContainer(b) PROVE ProvenanceInv'
  <2> DEFINE base == IF baseTag[BaseOf[b]] = NoImage
                     THEN BaseImage(BaseOf[b]) ELSE baseTag[BaseOf[b]]
  <2>1. base \in Outputs(BaseOf[b]) \union {BaseImage(BaseOf[b])}
    BY DEF ProvenanceInv
  <2>2. KernelOf[b] = NoLineage => base.vmlinuz \in KernelsFor(b)
    BY <2>1, OutputParts DEF BaseImage, KernelsFor
  <2>3. \E k \in KernelsFor(b) : kernel' = [kernel EXCEPT ![b] = k]
    BY <1>6, <2>2 DEF CreateKernelContainer, KernelsFor
  <2>4. baseTag' = baseTag \/ baseTag' = [baseTag EXCEPT ![BaseOf[b]] = base]
    BY <1>6 DEF CreateKernelContainer
  <2>5. /\ pc' = [pc EXCEPT ![b] = "kernel_copy"]
        /\ UNCHANGED <<loaded, digest, relabelTag, installerTag, registry>>
    BY <1>6 DEF CreateKernelContainer
  <2> HIDE DEF base
  <2>6. \A a \in Builds : pc'[a] \in KernelKnown => kernel'[a] \in KernelsFor(a)
    BY <2>3, <2>5 DEF ProvenanceInv
  <2>7. \A l \in Lineages : baseTag'[l] \in Outputs(l) \union {NoImage, BaseImage(l)}
    <3>1. ASSUME NEW l \in Lineages PROVE baseTag'[l] \in {baseTag[l]} \union
                                            (IF l = BaseOf[b] THEN {base} ELSE {})
      BY <2>4
    <3> QED
      BY ONLY <2>1, <3>1, ProvenanceInv DEF ProvenanceInv
  <2> QED
    BY <2>5, <2>6, <2>7 DEF ProvenanceInv, PublishedProvenance
<1>7. ASSUME NEW b \in Builds, VerifyOverlay(b) PROVE ProvenanceInv'
  <2>1. UNCHANGED <<digest, tags, registry>>
    BY <1>7 DEF VerifyOverlay
  <2>2. PublishedProvenance'
    BY <2>1 DEF ProvenanceInv, PublishedProvenance
  <2>3. CASE Goto(b, "overlay", "relabel") /\ UNCHANGED <<loaded, kernel, attempt, containers>>
    BY <2>1, <2>2, <2>3 DEF ProvenanceInv
  <2>4. CASE Goto(b, "overlay", "refused") /\ Cleanup(b)
    BY <2>1, <2>2, <2>4, CleanupKnown DEF EndSteps
  <2> QED
    BY <1>7, <2>3, <2>4 DEF VerifyOverlay
<1>8. ASSUME NEW b \in Builds, Relabel(b) PROVE ProvenanceInv'
  <2>1. loaded[b] \in Outputs(BaseOf[b])
    BY <1>8 DEF Relabel, ProvenanceInv
  <2>2. loaded[b].initramfs = BaseOf[b]
    BY <2>1, OutputParts
  <2> QED
    BY <1>8, <2>2 DEF Relabel, ProvenanceInv, PublishedProvenance
<1>9. ASSUME NEW b \in Builds, BuildImage(b) PROVE ProvenanceInv'
  <2>1. /\ pc[b] = "build" /\ relabelTag[TalosOf[b]] # NoImage
        /\ installerTag' = [installerTag EXCEPT ![TagOf[b]] = Rebuilt(b, relabelTag[TalosOf[b]])]
        /\ UNCHANGED <<digest, baseTag, relabelTag, registry>>
    BY <1>9 DEF BuildImage
  <2>2. /\ loaded[b] \in Outputs(BaseOf[b]) /\ kernel[b] \in KernelsFor(b)
        /\ \E a \in Builds :
             TalosOf[a] = TalosOf[b] /\ relabelTag[TalosOf[b]].initramfs = BaseOf[a]
    BY <2>1 DEF ProvenanceInv
  <2>3. /\ relabelTag[TalosOf[b]] \in Image /\ loaded[b] \in Image
        /\ kernel[b] \in Lineages
    BY <2>1 DEF MaybeImage
  <2>4. Rebuilt(b, relabelTag[TalosOf[b]]) \in Image
    BY <2>3 DEF Image, Rebuilt
  <2>5. Rebuilt(b, relabelTag[TalosOf[b]]) \in Published(TagOf[b])
    BY <2>2, <2>3, <2>4, RebuiltIsOwn
  <2>6. PublishedProvenance'
    BY <2>1, <2>5 DEF ProvenanceInv, PublishedProvenance
  <2>7. CASE Goto(b, "build", "push") /\ UNCHANGED <<loaded, kernel, attempt, containers>>
    BY <2>1, <2>6, <2>7 DEF ProvenanceInv
  <2>8. CASE Goto(b, "build", "deferred") /\ Cleanup(b)
    BY <2>1, <2>6, <2>8, CleanupKnown DEF EndSteps
  <2> QED
    BY <1>9, <2>7, <2>8 DEF BuildImage
<1>10. ASSUME NEW b \in Builds, PushAccepted(b) \/ PushFails(b) PROVE ProvenanceInv'
  <2>1. \/ registry' = registry
        \/ registry' = [registry EXCEPT ![TagOf[b]] = installerTag[TagOf[b]]]
    BY <1>10 DEF PushAccepted, PushFails, Upload
  <2>2. pc[b] = "push" /\ UNCHANGED <<digest, tags>>
    BY <1>10 DEF PushAccepted, PushFails
  <2>3. PublishedProvenance'
    BY <2>1, <2>2 DEF ProvenanceInv, PublishedProvenance
  <2>4. CASE UNCHANGED <<loaded, kernel>>
             /\ \E to \in {"push", "inspect"} : pc' = [pc EXCEPT ![b] = to]
    <3>1. \A a \in Builds : pc'[a] \in KernelKnown => pc[a] \in KernelKnown
      BY <2>2, <2>4
    <3> QED
      BY <2>2, <2>3, <2>4, <3>1 DEF ProvenanceInv
  <2>5. CASE pc' = [pc EXCEPT ![b] = "failed"] /\ Cleanup(b)
    BY <2>2, <2>3, <2>5, CleanupKnown DEF EndSteps
  <2> QED
    BY <1>10, <2>4, <2>5 DEF PushAccepted, PushFails
<1>11. ASSUME NEW b \in Builds, InspectDigest(b) PROVE ProvenanceInv'
  BY <1>11 DEF InspectDigest, ProvenanceInv, PublishedProvenance
<1>12. ASSUME NEW b \in Builds, VerifyInstaller(b) \/ Fail(b) PROVE ProvenanceInv'
  <2>1. /\ \E to \in EndSteps : pc' = [pc EXCEPT ![b] = to]
        /\ digest' = digest \/ digest' = [digest EXCEPT ![b] = NoImage]
        /\ Cleanup(b) /\ UNCHANGED <<tags, registry>>
    BY <1>12 DEF VerifyInstaller, Fail, EndSteps
  <2>2. PublishedProvenance'
    BY <2>1 DEF ProvenanceInv, PublishedProvenance
  <2> QED
    BY <2>1, <2>2, CleanupKnown
<1> QED
  BY <1>1, <1>2, <1>3, <1>4, <1>5, <1>6, <1>7, <1>8, <1>9, <1>10, <1>11, <1>12
     DEF Next, Command

\* However builds share a Talos version, a base, or a reference, and whichever
\* vmlinuz the imager replaces: every image that a reference names was made by a
\* build for that reference, with its own kernel and root file system, and what
\* it may have of other builds goes no further than PublishedProvenance says.
THEOREM Provenance == Spec => []PublishedProvenance
<1>1. CacheInv /\ CacheInv' /\ ProvenanceInv /\ [Next]_vars => ProvenanceInv'
  BY ProvenanceStep
<1>2. ProvenanceInv => PublishedProvenance
  BY DEF ProvenanceInv
<1> QED
  BY ProvenanceInit, <1>1, <1>2, CacheInvariant, PTL DEF Spec

-----------------------------------------------------------------------------
(* What is verified is what the reference names.                             *)

\* A step takes its build from one command to another; the reference changes
\* at the push, and the digest at the inspection, of its own build only.
LEMMA ReadBackStep ==
  ASSUME OneBuildPerTag, TypeOK, ReadBackInv, [Next]_vars
  PROVE  ReadBackInv'
<1> USE DEF TypeOK, Goto, local, tags, ReadBackInv
<1> USE ConstantsAssumption
<1>1. CASE UNCHANGED vars
  BY <1>1 DEF vars, Clean, NamesIn
<1>2. ASSUME NEW b \in Builds, PushAccepted(b) \/ PushFails(b)
      PROVE  ReadBackInv'
  <2>1. /\ pc[b] = "push" /\ digest' = digest
        /\ \E to \in {"inspect", "failed", "push"} : pc' = [pc EXCEPT ![b] = to]
    BY <1>2 DEF PushAccepted, PushFails
  <2>2. \/ registry' = registry
        \/ registry' = [registry EXCEPT ![TagOf[b]] = installerTag[TagOf[b]]]
    BY <1>2 DEF PushAccepted, PushFails, Upload
  <2>3. \A c \in Builds \ {b} : registry'[TagOf[c]] = registry[TagOf[c]]
    BY <2>2 DEF OneBuildPerTag
  <2> QED
    BY <2>1, <2>3 DEF Clean, NamesIn
<1>3. ASSUME NEW b \in Builds, InspectDigest(b) PROVE ReadBackInv'
  <2>1. /\ pc[b] = "inspect" /\ pc' = [pc EXCEPT ![b] = "pull"]
        /\ digest' = [digest EXCEPT ![b] = registry[TagOf[b]]]
        /\ registry' = registry
    BY <1>3 DEF InspectDigest
  <2> QED
    BY <2>1 DEF Clean, NamesIn
<1>4. ASSUME NEW b \in Builds, PullByDigest(b) PROVE ReadBackInv'
  <2>1. /\ pc[b] = "pull"
        /\ pc' = [pc EXCEPT ![b] = "verify"]
        /\ digest' = digest /\ registry' = registry
    BY <1>4 DEF PullByDigest
  <2> QED
    BY <2>1 DEF Clean, NamesIn
<1>5. ASSUME NEW b \in Builds, VerifyInstaller(b) PROVE ReadBackInv'
  <2>1. /\ pc[b] = "verify"
        /\ pc' = [pc EXCEPT ![b] = IF Clean(digest[b]) THEN "verified" ELSE "failed"]
        /\ digest' = digest /\ registry' = registry
    BY <1>5 DEF VerifyInstaller
  <2> QED
    BY <2>1 DEF Clean, NamesIn
<1>6. ASSUME NEW b \in Builds,
             \/ Compose(b) \/ LoadUntagged(b) \/ LoadTagged(b) \/ ResolveId(b)
             \/ CreateContainer(b) \/ CopyAssets(b) \/ CreateKernelContainer(b)
             \/ CopyKernel(b) \/ VerifyOverlay(b) \/ Relabel(b) \/ BuildImage(b)
      PROVE  ReadBackInv'
  <2>1. registry' = registry /\ digest' = digest
    BY <1>6 DEF Compose, LoadUntagged, LoadTagged, ResolveId, CreateContainer,
       CopyAssets, CreateKernelContainer, CopyKernel, VerifyOverlay, Relabel,
       BuildImage
  <2>2. \A c \in Builds : pc'[c] \in {"pull", "verify", "verified"} => pc'[c] = pc[c]
    BY <1>6 DEF Compose, LoadUntagged, LoadTagged, ResolveId, CreateContainer,
       CopyAssets, CreateKernelContainer, CopyKernel, VerifyOverlay, Relabel,
       BuildImage
  <2> QED
    BY <2>1, <2>2 DEF Clean, NamesIn
<1>7. ASSUME NEW b \in Builds, Fail(b) PROVE ReadBackInv'
  <2>1. /\ pc' = [pc EXCEPT ![b] = "failed"]
        /\ digest' = [digest EXCEPT ![b] = NoImage] /\ registry' = registry
    BY <1>7 DEF Fail
  <2> QED
    BY <2>1 DEF Clean, NamesIn
<1> QED
  BY <1>1, <1>2, <1>3, <1>4, <1>5, <1>6, <1>7 DEF Next, Command

\* If no other build pushes under its reference, a build that reports success has
\* checked the very image its installer reference names, and that image has the
\* custom driver and no other, under whatever references the extras came.
THEOREM VerifiedImageIsClean == OneBuildPerTag => (Spec => []VerifiedIsClean)
<1> SUFFICES ASSUME OneBuildPerTag PROVE Spec => []VerifiedIsClean
  OBVIOUS
<1>1. Init => ReadBackInv
  BY DEF Init, ReadBackInv
<1>2. TypeOK /\ ReadBackInv /\ [Next]_vars => ReadBackInv'
  BY ReadBackStep
<1>3. ReadBackInv => VerifiedIsClean
  BY DEF ReadBackInv, VerifiedIsClean, Clean
<1> QED
  BY <1>1, <1>2, <1>3, TypeCorrect, PTL DEF Spec

=============================================================================
