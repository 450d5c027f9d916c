----------------------- MODULE ReleasePipelineProofs -----------------------
(***************************************************************************)
(* Theorems about ReleasePipeline, for any set of executions, tags and     *)
(* refs.                                                                   *)
(***************************************************************************)
EXTENDS ReleasePipeline, TLAPS

\* The images a step handles are images.
LEMMA StoreLookup ==
  ASSUME NEW s \in Store, NEW k \in Kinds
  PROVE  s[k] \in Image \union {NoImage}
BY DEF Store

LEMMA StoreUpdate ==
  ASSUME NEW s \in Store, NEW k \in Kinds, NEW i \in Image \union {NoImage}
  PROVE  [s EXCEPT ![k] = i] \in Store
BY DEF Store

LEMMA EmptyStoreType == EmptyStore \in Store
BY DEF Store, EmptyStore

LEMMA ImageOfKeys ==
  ASSUME NEW a \in Key \union {NoKey}, NEW b \in Key \union {NoKey},
         NEW c \in Key \union {NoKey}
  PROVE  [kernel |-> a, modules |-> b, nvidia |-> c] \in Image
BY DEF Image

LEMMA CompileKeyType ==
  ASSUME TypeOK, NEW r \in Runs, NEW slot \in Slots
  PROVE  CompileKey(r, slot) \in Key
BY DEF TypeOK, CompileKey, Key

\* docker build and docker push keep stores and registry well typed.
LEMMA LoadType ==
  ASSUME TypeOK, NEW r \in Runs, NEW k \in Kinds,
         NEW i \in Image \union {NoImage}, Load(r, k, i)
  PROVE  local' \in [Runs -> Store]
<1>1. [local[r] EXCEPT ![k] = i] \in Store
  BY StoreUpdate DEF TypeOK
<1> QED
  BY <1>1 DEF Load, TypeOK

LEMMA PushType ==
  ASSUME TypeOK, NEW r \in Runs, NEW k \in Kinds,
         NEW from \in Steps, NEW to \in Steps, Push(r, k, from, to)
  PROVE  TypeOK'
<1>1. local[r][k] \in Image \union {NoImage}
  BY StoreLookup DEF TypeOK
<1>2. TagOf[r] \in Tags
  BY ConstantsAssumption
<1>3. [registry[TagOf[r]] EXCEPT ![k] = local[r][k]] \in Store
  BY <1>1, <1>2, StoreUpdate DEF TypeOK
<1>4. registry' \in [Tags -> Store]
  BY <1>2, <1>3 DEF Push, TypeOK
<1>5. pc' \in [Runs -> Steps]
  BY DEF Push, Goto, TypeOK, Steps, EndSteps
<1> QED
  BY <1>4, <1>5 DEF Push, TypeOK

LEMMA LookupType ==
  ASSUME TypeOK, NEW r \in Runs, NEW k \in Kinds,
         NEW from \in Steps, NEW to \in Steps,
         NEW answers \in SUBSET {Remote(r, k), NoImage},
         Lookup(r, k, from, to, answers)
  PROVE  TypeOK'
<1>1. PICK answer \in answers : digest' = [digest EXCEPT ![r][k] = answer]
  BY DEF Lookup
<1>2. answer \in Image \union {NoImage}
  BY ConstantsAssumption, StoreLookup DEF TypeOK, Remote
<1>3. [digest[r] EXCEPT ![k] = answer] \in Store
  BY <1>2, StoreUpdate DEF TypeOK
<1>4. digest' \in [Runs -> Store]
  BY <1>1, <1>3 DEF TypeOK
<1> QED
  BY <1>4 DEF Lookup, Goto, TypeOK

LEMMA ResolveType ==
  ASSUME TypeOK, NEW r \in Runs, NEW k \in Kinds,
         NEW from \in Steps, NEW to \in Steps, Resolve(r, k, from, to)
  PROVE  TypeOK'
BY LookupType DEF Resolve

\* Each step of a run keeps the types.
LEMMA StepType ==
  ASSUME TypeOK, NEW r \in Runs, WorkflowStep(r)
  PROVE  TypeOK'
<1>1. CASE Derive(r)
  BY <1>1 DEF Derive, Goto, TypeOK, Steps, ActiveSteps
<1>2. CASE GenerateKey(r)
  <2>1. <<r, "shared">> \in Key
    BY DEF Key, Slots
  <2> QED
    BY <1>2, <2>1 DEF GenerateKey, Goto, TypeOK, Steps, ActiveSteps
<1>3. CASE BuildKernel(r)
  <2>1. KernelImage(CompileKey(r, "kernel")) \in Image
    BY CompileKeyType, ImageOfKeys DEF KernelImage, Slots
  <2>2. local' \in [Runs -> Store]
    BY <1>3, <2>1, LoadType DEF BuildKernel, Kinds
  <2> QED
    BY <1>3, <2>2 DEF BuildKernel, Goto, TypeOK, Steps, ActiveSteps
<1>4. CASE PushKernel(r)
  BY <1>4, PushType DEF PushKernel, Kinds, Steps, ActiveSteps
<1>5. CASE BuildBase(r)
  <2> DEFINE K == Remote(r, "kernel")
             B == [kernel |-> K.kernel, modules |-> K.modules, nvidia |-> NoKey]
  <2>1. K \in Image
    BY <1>5, ConstantsAssumption, StoreLookup
       DEF TypeOK, Remote, BuildBase, Kinds
  <2>2. B \in Image
    BY <2>1, ImageOfKeys DEF Image
  <2>3. [[local[r] EXCEPT !["kernel"] = K] EXCEPT !["base"] = B] \in Store
    BY <2>1, <2>2 DEF TypeOK, Store, Kinds
  <2>4. local' \in [Runs -> Store]
    BY <1>5, <2>3 DEF BuildBase, TypeOK
  <2> QED
    BY <1>5, <2>4 DEF BuildBase, Goto, TypeOK, Steps, ActiveSteps
<1>6. CASE PushBase(r)
  BY <1>6, PushType DEF PushBase, Kinds, Steps, ActiveSteps
<1>7. CASE BuildPkg(r)
  <2>1. PICK slot \in {"kernel", "pkg"} :
           Load(r, "pkg", ModulesOnly(CompileKey(r, slot)))
    BY <1>7 DEF BuildPkg
  <2>2. ModulesOnly(CompileKey(r, slot)) \in Image
    BY CompileKeyType, ImageOfKeys DEF ModulesOnly, Slots
  <2>3. local' \in [Runs -> Store]
    BY <2>1, <2>2, LoadType DEF Kinds
  <2> QED
    BY <1>7, <2>3 DEF BuildPkg, Goto, TypeOK, Steps, ActiveSteps
<1>8. CASE PushPkg(r)
  BY <1>8, PushType DEF PushPkg, Kinds, Steps, ActiveSteps
<1>9. CASE VerifyKey(r)
  BY <1>9 DEF VerifyKey, Goto, TypeOK, Steps, ActiveSteps, EndSteps
<1>10. CASE BuildSysext(r)
  <2>1. Remote(r, "pkg") \in Image
    BY <1>10, ConstantsAssumption, StoreLookup
       DEF TypeOK, Remote, BuildSysext, Kinds
  <2>2. ModulesOnly(Remote(r, "pkg").nvidia) \in Image
    BY <2>1, ImageOfKeys DEF ModulesOnly, Image
  <2>3. local' \in [Runs -> Store]
    BY <1>10, <2>2, LoadType DEF BuildSysext, Kinds
  <2> QED
    BY <1>10, <2>3 DEF BuildSysext, Goto, TypeOK, Steps, ActiveSteps
<1>11. CASE PushSysext(r)
  BY <1>11, PushType DEF PushSysext, Kinds, Steps, ActiveSteps
<1>12. CASE ResolveKernel(r)
  BY <1>12, ResolveType DEF ResolveKernel, Kinds, Steps, ActiveSteps
<1>13. CASE ResolveBase(r)
  BY <1>13, ResolveType DEF ResolveBase, Kinds, Steps, ActiveSteps
<1>14. CASE ResolvePkg(r)
  BY <1>14, ResolveType DEF ResolvePkg, Kinds, Steps, ActiveSteps
<1>15. CASE ResolveSysext(r)
  BY <1>15, ResolveType DEF ResolveSysext, Kinds, Steps, ActiveSteps
<1>16. CASE BuildInstaller(r)
  <2> DEFINE R == Remote(r, "base")
             S == digest[r]["sysext"]
             L == InstallerImage(R.kernel, R.modules, S.nvidia)
  <2>1. PICK base \in {local[r]["base"], L} :
          local' = [local EXCEPT
             ![r]["base"]      = base,
             ![r]["installer"] =
                InstallerImage(base.kernel, L.modules, L.nvidia)]
    BY <1>16 DEF BuildInstaller
  <2>2. /\ R \in Image
        /\ S \in Image
        /\ local[r]["base"] \in Image
    BY <1>16, ConstantsAssumption, StoreLookup
       DEF TypeOK, Remote, BuildInstaller, Kinds
  <2>3. L \in Image /\ base \in Image
    BY <2>2, ImageOfKeys DEF InstallerImage, Image
  <2> HIDE DEF L
  <2>4. InstallerImage(base.kernel, L.modules, L.nvidia) \in Image
    BY <2>3, ImageOfKeys DEF InstallerImage, Image
  <2>5. [[local[r] EXCEPT !["base"] = base] EXCEPT !["installer"] =
            InstallerImage(base.kernel, L.modules, L.nvidia)] \in Store
    BY <2>3, <2>4 DEF TypeOK, Store, Kinds
  <2>6. local' \in [Runs -> Store]
    BY <2>1, <2>5 DEF TypeOK
  <2> QED
    BY <1>16, <2>6 DEF BuildInstaller, Goto, TypeOK, Steps, ActiveSteps
<1>17. CASE PushInstaller(r)
  BY <1>17, PushType DEF PushInstaller, Kinds, Steps, ActiveSteps
<1>18. CASE ResolveInstaller(r)
  BY <1>18, LookupType DEF ResolveInstaller, Kinds, Steps, ActiveSteps
<1>19. CASE VerifyInstaller(r)
  BY <1>19 DEF VerifyInstaller, Goto, TypeOK, Steps, ActiveSteps
<1>20. CASE PublishSummary(r)
  BY <1>20, EmptyStoreType DEF PublishSummary, Goto, TypeOK, Steps, EndSteps
<1> QED
  BY <1>1, <1>2, <1>3, <1>4, <1>5, <1>6, <1>7, <1>8, <1>9, <1>10, <1>11,
     <1>12, <1>13, <1>14, <1>15, <1>16, <1>17, <1>18, <1>19, <1>20
     DEF WorkflowStep

LEMMA TypeStep ==
  ASSUME TypeOK, [Next]_vars
  PROVE  TypeOK'
<1>1. CASE UNCHANGED vars
  BY <1>1 DEF vars, TypeOK
<1>2. ASSUME NEW r \in Runs, Trigger(r)
      PROVE  TypeOK'
  BY <1>2 DEF Trigger, TypeOK, Steps, EndSteps
<1>3. ASSUME NEW r \in Runs, Start(r)
      PROVE  TypeOK'
  BY <1>3 DEF Start, TypeOK, Steps, ActiveSteps
<1>4. ASSUME NEW r \in Runs, FailStep(r)
      PROVE  TypeOK'
  BY <1>4, EmptyStoreType DEF FailStep, TypeOK, Steps, EndSteps
<1> QED
  BY <1>1, <1>2, <1>3, <1>4, StepType DEF Next

\* Type correctness, for every number of executions, tags and refs.
THEOREM TypeCorrect == Spec => []TypeOK
<1>1. Init => TypeOK
  BY DEF Init, TypeOK, Steps, Store, EmptyStore
<1> QED
  BY <1>1, TypeStep, PTL DEF Spec

-----------------------------------------------------------------------------
(* Key lineage.  What a step does to the runner's store, to the registry and *)
(* to the digests, and that it disturbs no other run.                        *)

USE DEF Goto

LEMMA LoadEffect ==
  ASSUME TypeOK, NEW r \in Runs, NEW k \in Kinds, NEW i, Load(r, k, i)
  PROVE  /\ local'[r][k] = i
         /\ \A j \in Kinds \ {k} : local'[r][j] = local[r][j]
         /\ \A s \in Runs \ {r} : local'[s] = local[s]
BY DEF Load, TypeOK, Store

LEMMA PushEffect ==
  ASSUME TypeOK, NEW r \in Runs, NEW k \in Kinds, NEW from, NEW to,
         Push(r, k, from, to)
  PROVE  /\ pc[r] = from
         /\ pc'[r] \in {from, to}
         /\ \A s \in Runs \ {r} : pc'[s] = pc[s]
         /\ registry'[TagOf[r]][k] = local[r][k]
         /\ \A j \in Kinds \ {k} : registry'[TagOf[r]][j] = registry[TagOf[r]][j]
         /\ \A t \in Tags \ {TagOf[r]} : registry'[t] = registry[t]
         /\ key' = key /\ local' = local /\ digest' = digest
<1>1. TagOf[r] \in Tags
  BY ConstantsAssumption
<1>2. PICK next \in {from, to} : Goto(r, from, next)
  BY DEF Push
<1>3. registry' = [registry EXCEPT ![TagOf[r]][k] = local[r][k]]
  BY DEF Push
<1>4. /\ registry'[TagOf[r]][k] = local[r][k]
      /\ \A j \in Kinds \ {k} : registry'[TagOf[r]][j] = registry[TagOf[r]][j]
      /\ \A t \in Tags \ {TagOf[r]} : registry'[t] = registry[t]
  BY <1>1, <1>3 DEF TypeOK, Store
<1> QED
  BY <1>2, <1>4 DEF Push, TypeOK

LEMMA LookupEffect ==
  ASSUME TypeOK, NEW r \in Runs, NEW k \in Kinds, NEW from, NEW to,
         NEW answers, Lookup(r, k, from, to, answers)
  PROVE  /\ pc[r] = from
         /\ pc'[r] = to
         /\ \A s \in Runs \ {r} : pc'[s] = pc[s]
         /\ digest'[r][k] \in answers
         /\ \A j \in Kinds \ {k} : digest'[r][j] = digest[r][j]
         /\ \A s \in Runs \ {r} : digest'[s] = digest[s]
         /\ key' = key /\ local' = local /\ registry' = registry
<1>1. PICK answer \in answers : digest' = [digest EXCEPT ![r][k] = answer]
  BY DEF Lookup
<1> QED
  BY <1>1 DEF Lookup, TypeOK, Store

LEMMA ResolveEffect ==
  ASSUME TypeOK, NEW r \in Runs, NEW k \in Kinds, NEW from, NEW to,
         Resolve(r, k, from, to)
  PROVE  /\ pc[r] = from
         /\ pc'[r] = to
         /\ \A s \in Runs \ {r} : pc'[s] = pc[s]
         /\ digest'[r][k] \in {Remote(r, k), NoImage}
         /\ \A j \in Kinds \ {k} : digest'[r][j] = digest[r][j]
         /\ \A s \in Runs \ {r} : digest'[s] = digest[s]
         /\ key' = key /\ local' = local /\ registry' = registry
<1> DEFINE answers == {Remote(r, k)} \union (IF k \in Silent[r] THEN {NoImage} ELSE {})
<1>1. Lookup(r, k, from, to, answers)
  BY DEF Resolve
<1>2. \A a \in answers : a \in {Remote(r, k), NoImage}
  OBVIOUS
<1> HIDE DEF answers
<1> QED
  BY <1>1, <1>2, LookupEffect

LEMMA ResolveInstallerEffect ==
  ASSUME TypeOK, NEW r \in Runs, ResolveInstaller(r)
  PROVE  /\ pc[r] = "resolve_installer"
         /\ pc'[r] = "verify_installer"
         /\ \A s \in Runs \ {r} : pc'[s] = pc[s]
         /\ digest'[r]["installer"] = Remote(r, "installer")
         /\ \A j \in Kinds \ {"installer"} : digest'[r][j] = digest[r][j]
         /\ \A s \in Runs \ {r} : digest'[s] = digest[s]
         /\ key' = key /\ local' = local /\ registry' = registry
<1> DEFINE answers == {Remote(r, "installer")} \ {NoImage}
<1>1. Lookup(r, "installer", "resolve_installer", "verify_installer", answers)
  BY DEF ResolveInstaller
<1>2. \A a \in answers : a = Remote(r, "installer")
  OBVIOUS
<1> HIDE DEF answers
<1> QED
  BY <1>1, <1>2, LookupEffect DEF Kinds

\* A run whose own values are left alone, and whose tag is left alone while it
\* holds the group, keeps what it has established.
LEMMA Undisturbed ==
  ASSUME NEW s \in Runs,
         OwnKey(s), LocalProgress(s), RemoteProgress(s), DigestProgress(s),
         pc'[s] = pc[s], key'[s] = key[s], local'[s] = local[s],
         digest'[s] = digest[s],
         Active(s) => registry'[TagOf[s]] = registry[TagOf[s]]
  PROVE  OwnKey(s)' /\ LocalProgress(s)' /\ RemoteProgress(s)' /\ DigestProgress(s)'
<1>1. OwnKey(s)'
  BY DEF OwnKey
<1>2. KernelKey(s)' = KernelKey(s) /\ CompileKey(s, "pkg")' = CompileKey(s, "pkg")
  BY DEF KernelKey, CompileKey
<1>3. LocalProgress(s)'
  BY <1>2 DEF LocalProgress
<1>4. DigestProgress(s)'
  BY <1>2 DEF DigestProgress
<1>5. KernelPushed \subseteq ActiveSteps
  BY DEF KernelPushed, BaseBuilt, BasePushed, PkgBuilt, PkgPushed, KeyVerified,
         SysextBuilt, SysextPushed, KernelResolved, BaseResolved, PkgResolved,
         SysextResolved, InstallerBuilt, InstallerPushed, ActiveSteps
<1>6. /\ BasePushed \subseteq KernelPushed
      /\ PkgPushed \subseteq KernelPushed
      /\ SysextPushed \subseteq KernelPushed
      /\ InstallerPushed \subseteq KernelPushed
  BY DEF KernelPushed, BaseBuilt, BasePushed, PkgBuilt, PkgPushed, KeyVerified,
         SysextBuilt, SysextPushed, KernelResolved, BaseResolved, PkgResolved,
         SysextResolved, InstallerBuilt, InstallerPushed
<1>7. ASSUME Active(s)
      PROVE  RemoteProgress(s)'
  BY <1>2, <1>7 DEF RemoteProgress, Remote
<1>8. ASSUME ~Active(s)
      PROVE  RemoteProgress(s)'
  BY <1>5, <1>6, <1>8 DEF RemoteProgress, Active
<1> QED
  BY <1>1, <1>3, <1>4, <1>7, <1>8

\* Steps of r leave the other runs undisturbed.
Frame(r) ==
  /\ \A s \in Runs \ {r} : /\ pc'[s] = pc[s]
                           /\ key'[s] = key[s]
                           /\ local'[s] = local[s]
                           /\ digest'[s] = digest[s]
  /\ \A t \in Tags \ {TagOf[r]} : registry'[t] = registry[t]

LEMMA StepFrame ==
  ASSUME TypeOK, NEW r \in Runs, WorkflowStep(r)
  PROVE  Frame(r)
<1>1. CASE \/ PushKernel(r) \/ PushBase(r) \/ PushPkg(r) \/ PushSysext(r)
           \/ PushInstaller(r)
  BY <1>1, PushEffect DEF PushKernel, PushBase, PushPkg, PushSysext,
                          PushInstaller, Kinds, Frame
<1>2. CASE \/ ResolveKernel(r) \/ ResolveBase(r) \/ ResolvePkg(r)
           \/ ResolveSysext(r) \/ ResolveInstaller(r)
  BY <1>2, ResolveEffect, ResolveInstallerEffect
     DEF ResolveKernel, ResolveBase, ResolvePkg, ResolveSysext, Kinds, Frame
<1>3. CASE Derive(r) \/ GenerateKey(r) \/ VerifyKey(r) \/ VerifyInstaller(r)
           \/ PublishSummary(r)
  BY <1>3 DEF Derive, GenerateKey, VerifyKey, VerifyInstaller, PublishSummary,
              TypeOK, Frame
<1>4. CASE BuildKernel(r) \/ BuildPkg(r) \/ BuildSysext(r)
  BY <1>4 DEF BuildKernel, BuildPkg, BuildSysext, Load, TypeOK, Frame
<1>5. CASE BuildBase(r)
  BY <1>5 DEF BuildBase, TypeOK, Frame
<1>6. CASE BuildInstaller(r)
  BY <1>6 DEF BuildInstaller, TypeOK, Frame
<1> QED
  BY <1>1, <1>2, <1>3, <1>4, <1>5, <1>6 DEF WorkflowStep

\* A run's own step carries its progress one stage further.
Established(r) ==
  OwnKey(r) /\ LocalProgress(r) /\ RemoteProgress(r) /\ DigestProgress(r)

LEMMA OwnProgress ==
  ASSUME IInv, NEW r \in Runs, WorkflowStep(r)
  PROVE  Established(r)'
<1> USE DEF InstallerPushed, InstallerBuilt, SysextResolved, PkgResolved,
        BaseResolved, KernelResolved, SysextPushed, SysextBuilt, KeyVerified,
        PkgPushed, PkgBuilt, BasePushed, BaseBuilt, KernelPushed, KernelBuilt,
        Established, LocalProgress, RemoteProgress, DigestProgress, OwnKey
<1>0. TypeOK /\ Established(r)
  BY DEF IInv
<1>1. CASE Derive(r)
  BY <1>0, <1>1 DEF Derive, TypeOK
<1>2. CASE GenerateKey(r)
  BY <1>0, <1>2 DEF GenerateKey, TypeOK
<1>3. CASE BuildKernel(r)
  BY <1>0, <1>3, LoadEffect
     DEF BuildKernel, TypeOK, Kinds, KernelKey, CompileKey
<1>4. CASE PushKernel(r)
  BY <1>0, <1>4, PushEffect DEF PushKernel, Kinds, KernelKey, CompileKey, Remote
<1>5. CASE BuildBase(r)
  <2>1. Remote(r, "kernel") = KernelImage(KernelKey(r))
    BY <1>0, <1>5 DEF BuildBase
  <2>2. /\ local'[r]["kernel"] = Remote(r, "kernel")
        /\ local'[r]["base"] = KernelImage(KernelKey(r))
        /\ \A j \in Kinds \ {"kernel", "base"} : local'[r][j] = local[r][j]
    BY <1>0, <1>5, <2>1 DEF BuildBase, TypeOK, Store, Kinds, KernelImage
  <2> QED
    BY <1>0, <1>5, <2>1, <2>2
       DEF BuildBase, TypeOK, Kinds, KernelKey, CompileKey, Remote
<1>6. CASE PushBase(r)
  BY <1>0, <1>6, PushEffect DEF PushBase, Kinds, KernelKey, CompileKey, Remote
<1>7. CASE BuildPkg(r)
  <2>1. PICK slot \in {"kernel", "pkg"} :
           Load(r, "pkg", ModulesOnly(CompileKey(r, slot)))
    BY <1>7 DEF BuildPkg
  <2>2. /\ local'[r]["pkg"] = ModulesOnly(CompileKey(r, slot))
        /\ \A j \in Kinds \ {"pkg"} : local'[r][j] = local[r][j]
    BY <1>0, <2>1, LoadEffect DEF Kinds
  <2> QED
    BY <1>0, <1>7, <2>2
       DEF BuildPkg, TypeOK, Kinds, KernelKey, CompileKey, Remote
<1>8. CASE PushPkg(r)
  BY <1>0, <1>8, PushEffect DEF PushPkg, Kinds, KernelKey, CompileKey, Remote
<1>9. CASE VerifyKey(r)
  <2>1. CASE SameSigningKey(r)
    <3>1. local[r]["pkg"].nvidia = KernelKey(r)
      BY <1>0, <1>9, <2>1 DEF VerifyKey, SameSigningKey, KernelImage
    <3>2. local[r]["pkg"] = ModulesOnly(KernelKey(r))
      BY <1>0, <1>9, <3>1 DEF VerifyKey, ModulesOnly
    <3> QED
      BY <1>0, <1>9, <2>1, <3>2
         DEF VerifyKey, TypeOK, KernelKey, CompileKey, Remote
  <2>2. CASE ~SameSigningKey(r)
    BY <1>0, <1>9, <2>2 DEF VerifyKey, TypeOK, KernelKey, CompileKey, Remote
  <2> QED
    BY <2>1, <2>2
<1>10. CASE BuildSysext(r)
  <2>1. Remote(r, "pkg").nvidia = KernelKey(r)
    BY <1>0, <1>10 DEF BuildSysext, ModulesOnly
  <2> QED
    BY <1>0, <1>10, <2>1, LoadEffect
       DEF BuildSysext, TypeOK, Kinds, KernelKey, CompileKey, Remote
<1>11. CASE PushSysext(r)
  BY <1>0, <1>11, PushEffect DEF PushSysext, Kinds, KernelKey, CompileKey, Remote
<1>12. CASE ResolveKernel(r)
  BY <1>0, <1>12, ResolveEffect
     DEF ResolveKernel, Kinds, KernelKey, CompileKey, Remote
<1>13. CASE ResolveBase(r)
  BY <1>0, <1>13, ResolveEffect
     DEF ResolveBase, Kinds, KernelKey, CompileKey, Remote
<1>14. CASE ResolvePkg(r)
  <2>1. Remote(r, "pkg") = ModulesOnly(KernelKey(r))
    BY <1>0, <1>14, ResolveEffect DEF ResolvePkg, Kinds
  <2> QED
    BY <1>0, <1>14, <2>1, ResolveEffect
       DEF ResolvePkg, Kinds, KernelKey, CompileKey, Remote
<1>15. CASE ResolveSysext(r)
  BY <1>0, <1>15, ResolveEffect
     DEF ResolveSysext, Kinds, KernelKey, CompileKey, Remote
<1>16. CASE BuildInstaller(r)
  <2> DEFINE k == KernelKey(r)
             L == InstallerImage(Remote(r, "base").kernel,
                                 Remote(r, "base").modules,
                                 digest[r]["sysext"].nvidia)
  <2>1. PICK base \in {local[r]["base"], L} :
          local' = [local EXCEPT
             ![r]["base"]      = base,
             ![r]["installer"] =
                InstallerImage(base.kernel, L.modules, L.nvidia)]
    BY <1>16 DEF BuildInstaller
  <2>2. pc[r] = "build_installer"
    BY <1>16 DEF BuildInstaller
  <2>3. /\ Remote(r, "base") = KernelImage(k)
        /\ local[r]["base"] = KernelImage(k)
        /\ digest[r]["sysext"] = ModulesOnly(k)
    BY <1>0, <1>16, <2>2 DEF BuildInstaller
  <2>4. L = InstallerImage(k, k, k)
    BY <2>3 DEF KernelImage, ModulesOnly, InstallerImage
  <2>5. base.kernel = k
    BY <2>3, <2>4 DEF KernelImage, InstallerImage
  <2>6. L.modules = k /\ L.nvidia = k
    BY <2>4 DEF InstallerImage
  <2> HIDE DEF L
  <2>7. /\ local'[r]["installer"] = InstallerImage(k, k, k)
        /\ \A j \in Kinds \ {"base", "installer"} : local'[r][j] = local[r][j]
    BY <1>0, <2>1, <2>5, <2>6 DEF TypeOK, Store, Kinds
  <2> QED
    BY <1>0, <1>16, <2>7
       DEF BuildInstaller, TypeOK, Kinds, KernelKey, CompileKey, Remote
<1>17. CASE PushInstaller(r)
  BY <1>0, <1>17, PushEffect
     DEF PushInstaller, Kinds, KernelKey, CompileKey, Remote
<1>18. CASE ResolveInstaller(r)
  BY <1>0, <1>18, ResolveInstallerEffect DEF Kinds, KernelKey, CompileKey, Remote
<1>19. CASE VerifyInstaller(r)
  BY <1>0, <1>19 DEF VerifyInstaller, TypeOK, KernelKey, CompileKey, Remote
<1>20. CASE PublishSummary(r)
  BY <1>0, <1>20 DEF PublishSummary, TypeOK, KernelKey, CompileKey, Remote
<1> QED
  BY <1>1, <1>2, <1>3, <1>4, <1>5, <1>6, <1>7, <1>8, <1>9, <1>10, <1>11,
     <1>12, <1>13, <1>14, <1>15, <1>16, <1>17, <1>18, <1>19, <1>20
     DEF WorkflowStep

\* A key a run signs with is a key.
LEMMA KernelKeyIsKey ==
  ASSUME TypeOK, NEW r \in Runs
  PROVE  KernelKey(r) \in Key /\ KernelKey(r) # NoKey
BY CompileKeyType, ConstantsAssumption DEF KernelKey, Slots

LEMMA WholeIsBootable ==
  ASSUME NEW k, k # NoKey
  PROVE  Bootable(InstallerImage(k, k, k))
BY DEF Bootable, InstallerImage

\* A run leaves no step but through an active one, and does not enter its group.
LEMMA StepStaysInGroup ==
  ASSUME TypeOK, NEW r \in Runs, WorkflowStep(r)
  PROVE  Active(r)
<1>1. CASE \/ PushKernel(r) \/ PushBase(r) \/ PushPkg(r) \/ PushSysext(r)
           \/ PushInstaller(r)
  BY <1>1 DEF PushKernel, PushBase, PushPkg, PushSysext,
              PushInstaller, Push, Active, ActiveSteps
<1>2. CASE \/ ResolveKernel(r) \/ ResolveBase(r) \/ ResolvePkg(r)
           \/ ResolveSysext(r) \/ ResolveInstaller(r)
  BY <1>2 DEF ResolveKernel, ResolveBase, ResolvePkg, ResolveSysext, Resolve,
              ResolveInstaller, Lookup, Active, ActiveSteps
<1>3. CASE Derive(r) \/ GenerateKey(r) \/ VerifyKey(r) \/ VerifyInstaller(r)
           \/ PublishSummary(r)
  BY <1>3 DEF Derive, GenerateKey, VerifyKey, VerifyInstaller, PublishSummary,
              Active, ActiveSteps
<1>4. CASE BuildKernel(r) \/ BuildPkg(r) \/ BuildSysext(r) \/ BuildBase(r)
           \/ BuildInstaller(r)
  BY <1>4 DEF BuildKernel, BuildPkg, BuildSysext, BuildBase, BuildInstaller,
              Active, ActiveSteps
<1> QED
  BY <1>1, <1>2, <1>3, <1>4 DEF WorkflowStep

\* Only the push of the installer moves an installer tag, and what it pushes is
\* whole; only its resolution writes the installer digest.
LEMMA StepLineage ==
  ASSUME IInv, NEW r \in Runs, WorkflowStep(r)
  PROVE  KeyLineage'
<1>0. TypeOK /\ KeyLineage /\ LocalProgress(r)
  BY DEF IInv
<1>1. CASE PushInstaller(r)
  <2>1. local[r]["installer"] =
          InstallerImage(KernelKey(r), KernelKey(r), KernelKey(r))
    BY <1>0, <1>1 DEF PushInstaller, Push, LocalProgress, InstallerBuilt
  <2>2. Bootable(local[r]["installer"])
    BY <1>0, <2>1, KernelKeyIsKey, WholeIsBootable
  <2> QED
    BY <1>0, <1>1, <2>2, PushEffect DEF PushInstaller, Kinds, KeyLineage
<1>2. CASE PushKernel(r) \/ PushBase(r) \/ PushPkg(r) \/ PushSysext(r)
  BY <1>0, <1>2, PushEffect
     DEF PushKernel, PushBase, PushPkg, PushSysext, Kinds, KeyLineage
<1>3. CASE ResolveInstaller(r)
  <2>1. Remote(r, "installer") # NoImage => Bootable(Remote(r, "installer"))
    BY <1>0, ConstantsAssumption DEF KeyLineage, Remote
  <2> QED
    BY <1>0, <1>3, <2>1, ResolveInstallerEffect DEF KeyLineage
<1>4. CASE ResolveKernel(r) \/ ResolveBase(r) \/ ResolvePkg(r) \/ ResolveSysext(r)
  BY <1>0, <1>4, ResolveEffect
     DEF ResolveKernel, ResolveBase, ResolvePkg, ResolveSysext, Kinds, KeyLineage
<1>5. CASE Derive(r) \/ GenerateKey(r) \/ VerifyKey(r) \/ VerifyInstaller(r)
           \/ PublishSummary(r)
  BY <1>0, <1>5 DEF Derive, GenerateKey, VerifyKey, VerifyInstaller,
                    PublishSummary, KeyLineage
<1>6. CASE BuildKernel(r) \/ BuildPkg(r) \/ BuildSysext(r) \/ BuildBase(r)
           \/ BuildInstaller(r)
  BY <1>0, <1>6 DEF BuildKernel, BuildPkg, BuildSysext, BuildBase,
                    BuildInstaller, KeyLineage
<1> QED
  BY <1>1, <1>2, <1>3, <1>4, <1>5, <1>6 DEF WorkflowStep

\* A step of one run establishes its own next stage and disturbs nobody: its tag
\* is written by one ref, and of that ref it alone is active.
LEMMA StepProgress ==
  ASSUME TagsFollowRefs, IInv, NEW r \in Runs, WorkflowStep(r)
  PROVE  \A s \in Runs : Established(s)'
<1>0. /\ TypeOK
      /\ GroupExclusive
      /\ \A s \in Runs : Established(s)
  BY DEF IInv, Established
<1>1. Active(r) /\ Frame(r)
  BY <1>0, StepStaysInGroup, StepFrame
<1>2. Established(r)'
  BY OwnProgress
<1>3. ASSUME NEW s \in Runs \ {r}
      PROVE  Established(s)'
  <2>1. Active(s) => TagOf[s] # TagOf[r]
    BY <1>0, <1>1, <1>3 DEF GroupExclusive, TagsFollowRefs
  <2>2. TagOf[s] \in Tags
    BY ConstantsAssumption
  <2>3. Active(s) => registry'[TagOf[s]] = registry[TagOf[s]]
    BY <1>1, <2>1, <2>2 DEF Frame
  <2>4. /\ pc'[s] = pc[s] /\ key'[s] = key[s]
        /\ local'[s] = local[s] /\ digest'[s] = digest[s]
    BY <1>1 DEF Frame
  <2>5. OwnKey(s) /\ LocalProgress(s) /\ RemoteProgress(s) /\ DigestProgress(s)
    BY <1>0 DEF Established
  <2> QED
    BY <2>3, <2>4, <2>5, Undisturbed DEF Established
<1> QED
  BY <1>2, <1>3

\* Scheduling moves a run to a stage that asks for nothing, and a failure to one
\* that has nothing.
LEMMA SchedulingProgress ==
  ASSUME IInv, NEW r \in Runs, Trigger(r) \/ Start(r) \/ FailStep(r)
  PROVE  KeyLineage' /\ \A s \in Runs : Established(s)'
<1>0. TypeOK /\ KeyLineage /\ \A s \in Runs : Established(s)
  BY DEF IInv, Established
<1>1. /\ registry' = registry
      /\ \A s \in Runs : \/ /\ key'[s] = key[s] /\ local'[s] = local[s]
                             /\ digest'[s] = digest[s]
                          \/ /\ key'[s] = NoKey /\ digest'[s] = EmptyStore
                             /\ pc'[s] = "failed"
  BY <1>0 DEF Trigger, Start, FailStep, TypeOK
<1>2. KeyLineage'
  BY <1>0, <1>1 DEF KeyLineage, EmptyStore, Kinds
<1>3. ASSUME NEW s \in Runs
      PROVE  Established(s)'
  <2>1. \/ pc'[s] = pc[s] /\ (pc[s] = "failed" => key'[s] = key[s])
        \/ pc'[s] \in {"pending", "cancelled", "derive", "failed"}
    BY <1>0 DEF Trigger, Start, FailStep, TypeOK
  <2>2. CASE pc'[s] \in {"pending", "cancelled", "derive", "failed"}
    BY <1>0, <1>1, <2>2
       DEF Established, OwnKey, LocalProgress, RemoteProgress, DigestProgress,
           InstallerPushed, InstallerBuilt, SysextResolved, PkgResolved,
           BaseResolved, KernelResolved, SysextPushed, SysextBuilt, KeyVerified,
           PkgPushed, PkgBuilt, BasePushed, BaseBuilt, KernelPushed, KernelBuilt
  <2>3. CASE pc'[s] = pc[s] /\ pc'[s] # "failed"
    BY <1>0, <1>1, <2>3, Undisturbed DEF Established
  <2> QED
    BY <2>1, <2>2, <2>3
<1> QED
  BY <1>2, <1>3

\* At most one run of a group is active: only Start makes one active, and only
\* when the group has none.
LEMMA GroupStep ==
  ASSUME TypeOK, GroupExclusive, [Next]_vars
  PROVE  GroupExclusive'
<1>1. ASSUME NEW r \in Runs, WorkflowStep(r)
      PROVE  GroupExclusive'
  <2>1. Active(r) /\ Frame(r)
    BY <1>1, StepStaysInGroup, StepFrame
  <2> QED
    BY <2>1 DEF Frame, GroupExclusive, Active
<1>2. ASSUME NEW r \in Runs, Start(r)
      PROVE  GroupExclusive'
  BY <1>2 DEF Start, GroupBusy, GroupExclusive, Active, TypeOK
<1>3. ASSUME NEW r \in Runs, Trigger(r)
      PROVE  GroupExclusive'
  BY <1>3 DEF Trigger, GroupExclusive, Active, ActiveSteps, TypeOK
<1>4. ASSUME NEW r \in Runs, FailStep(r)
      PROVE  GroupExclusive'
  BY <1>4 DEF FailStep, GroupExclusive, Active, ActiveSteps, TypeOK
<1>5. CASE UNCHANGED vars
  BY <1>5 DEF vars, GroupExclusive, Active
<1> QED
  BY <1>1, <1>2, <1>3, <1>4, <1>5 DEF Next

\* The invariant is inductive when a tag belongs to one ref.
LEMMA IInvStep ==
  ASSUME TagsFollowRefs, IInv, [Next]_vars
  PROVE  IInv'
<1>1. TypeOK'
  BY TypeStep DEF IInv
<1>2. GroupExclusive'
  BY GroupStep DEF IInv
<1>3. ASSUME NEW r \in Runs, WorkflowStep(r)
      PROVE  IInv'
  BY <1>1, <1>2, <1>3, StepProgress, StepLineage DEF IInv, Established
<1>4. ASSUME NEW r \in Runs, Trigger(r) \/ Start(r) \/ FailStep(r)
      PROVE  IInv'
  BY <1>1, <1>2, <1>4, SchedulingProgress DEF IInv, Established
<1>5. CASE UNCHANGED vars
  <2>1. KeyLineage'
    BY <1>5 DEF vars, IInv, KeyLineage
  <2>2. \A s \in Runs : Established(s)'
    BY <1>5, Undisturbed DEF vars, IInv, Established
  <2> QED
    BY <1>1, <1>2, <2>1, <2>2 DEF IInv, Established
<1> QED
  BY <1>3, <1>4, <1>5 DEF Next

LEMMA IInvInit == Init => IInv
<1> SUFFICES ASSUME Init PROVE IInv
  OBVIOUS
<1>1. TypeOK
  BY DEF Init, TypeOK, Steps, Store, EmptyStore
<1>2. GroupExclusive
  BY DEF Init, GroupExclusive, Active, ActiveSteps
<1>3. KeyLineage
  BY DEF Init, KeyLineage, EmptyStore, Kinds
<1>4. ASSUME NEW r \in Runs
      PROVE  OwnKey(r) /\ LocalProgress(r) /\ RemoteProgress(r) /\ DigestProgress(r)
  BY DEF Init, OwnKey, LocalProgress, RemoteProgress, DigestProgress,
         InstallerPushed, InstallerBuilt, SysextResolved, PkgResolved,
         BaseResolved, KernelResolved, SysextPushed, SysextBuilt, KeyVerified,
         PkgPushed, PkgBuilt, BasePushed, BaseBuilt, KernelPushed, KernelBuilt
<1> QED
  BY <1>1, <1>2, <1>3, <1>4 DEF IInv

\* The progress of every run through the workflow, as one invariant.
THEOREM Progress == TagsFollowRefs => (Spec => []IInv)
<1> SUFFICES ASSUME TagsFollowRefs PROVE Spec => []IInv
  OBVIOUS
<1> QED
  BY IInvInit, IInvStep, PTL DEF Spec

\* Key lineage: whatever fails and however often the workflow is run, every
\* installer under a release tag or resolved by a run is whole, provided no two refs
\* publish under one tag.
THEOREM Lineage == TagsFollowRefs => (Spec => []KeyLineage)
<1>1. IInv => KeyLineage
  BY DEF IInv
<1> QED
  BY <1>1, Progress, PTL

-----------------------------------------------------------------------------
(* What a run has resolved when it succeeds, and the ledger of releases.     *)

LEMMA KernelKeyIsOwn ==
  ASSUME TypeOK, NEW r \in Runs, OwnKey(r)
  PROVE  KernelKey(r) \in KeysOf(r)
BY DEF KernelKey, CompileKey, OwnKey, KeysOf, Slots

LEMMA ImagesAreImages ==
  ASSUME NEW k \in Key
  PROVE  /\ KernelImage(k) # NoImage
         /\ ModulesOnly(k) # NoImage
         /\ InstallerImage(k, k, k) # NoImage
BY NoImageAssumption, ImageOfKeys DEF KernelImage, ModulesOnly, InstallerImage

LEMMA PublishedDigests ==
  ASSUME IInv, NEW r \in Runs, pc[r] \in {"summary", "published"}
  PROVE  /\ digest[r]["kernel"]    \in {KernelImage(KernelKey(r)), NoImage}
         /\ digest[r]["base"]      \in {KernelImage(KernelKey(r)), NoImage}
         /\ digest[r]["pkg"]       \in {ModulesOnly(KernelKey(r)), NoImage}
         /\ digest[r]["sysext"]    = ModulesOnly(KernelKey(r))
         /\ digest[r]["installer"] =
              InstallerImage(KernelKey(r), KernelKey(r), KernelKey(r))
BY DEF IInv, DigestProgress, InstallerPushed, InstallerBuilt, SysextResolved,
       PkgResolved, BaseResolved, KernelResolved

LEMMA PartsOfOneKey ==
  ASSUME NEW k \in Key
  PROVE  /\ PartsOf(KernelImage(k)) = {k}
         /\ PartsOf(ModulesOnly(k)) = {k}
         /\ PartsOf(InstallerImage(k, k, k)) = {k}
BY ConstantsAssumption DEF PartsOf, KernelImage, ModulesOnly, InstallerImage

\* No stale payload: the images a run that succeeds has resolved are of one key,
\* made by that run, and the extension's and the installer's are among them.
THEOREM OwnDigests == TagsFollowRefs => (Spec => []DigestsAreOwn)
<1>1. IInv => DigestsAreOwn
  <2> SUFFICES ASSUME IInv, NEW r \in Runs, pc[r] = "published"
               PROVE  /\ NoImage \notin {digest[r]["sysext"], digest[r]["installer"]}
                      /\ \E own \in KeysOf(r) : \A k \in Kinds :
                           digest[r][k] # NoImage => PartsOf(digest[r][k]) = {own}
    BY DEF DigestsAreOwn
  <2> DEFINE K == KernelKey(r)
  <2>1. K \in KeysOf(r) /\ K \in Key
    BY KernelKeyIsOwn, KernelKeyIsKey DEF IInv
  <2>2. \A k \in Kinds : digest[r][k] \in
           {KernelImage(K), ModulesOnly(K), InstallerImage(K, K, K), NoImage}
    BY PublishedDigests DEF Kinds
  <2>3. digest[r]["sysext"] = ModulesOnly(K)
        /\ digest[r]["installer"] = InstallerImage(K, K, K)
    BY PublishedDigests
  <2> HIDE DEF K
  <2>4. \A k \in Kinds : digest[r][k] # NoImage => PartsOf(digest[r][k]) = {K}
    BY <2>1, <2>2, PartsOfOneKey
  <2>5. NoImage \notin {digest[r]["sysext"], digest[r]["installer"]}
    BY <2>1, <2>3, ImagesAreImages
  <2> QED
    BY <2>1, <2>4, <2>5
<1> QED
  BY <1>1, Progress, PTL

\* When a run is about to succeed, its tag names the images it resolved and,
\* where a lookup came back empty, images of the key of its installer.
THEOREM TagsNameDigests == TagsFollowRefs => (Spec => []TagsMatchDigests)
<1>1. IInv => TagsMatchDigests
  <2> SUFFICES ASSUME IInv, NEW r \in Runs, pc[r] = "summary", NEW k \in Kinds
               PROVE  /\ digest[r][k] \in {Remote(r, k), NoImage}
                      /\ Remote(r, k) # NoImage
                      /\ PartsOf(Remote(r, k)) = PartsOf(digest[r]["installer"])
    BY DEF TagsMatchDigests
  <2> DEFINE K == KernelKey(r)
  <2>1. K \in Key
    BY KernelKeyIsKey DEF IInv
  <2>2. /\ local[r]["pkg"] = ModulesOnly(K)
        /\ Remote(r, "kernel") = KernelImage(K)
        /\ Remote(r, "base")   = KernelImage(K)
        /\ Remote(r, "pkg")    = local[r]["pkg"]
        /\ Remote(r, "sysext") = ModulesOnly(K)
        /\ Remote(r, "installer") = InstallerImage(K, K, K)
    BY DEF IInv, LocalProgress, RemoteProgress,
           InstallerPushed, InstallerBuilt, SysextResolved, PkgResolved,
           BaseResolved, KernelResolved, SysextPushed, SysextBuilt, KeyVerified,
           PkgPushed, PkgBuilt, BasePushed, BaseBuilt, KernelPushed
  <2>3. digest[r][k] \in {Remote(r, k), NoImage}
    BY <2>2, PublishedDigests DEF Kinds
  <2>4. digest[r]["installer"] = InstallerImage(K, K, K)
    BY PublishedDigests
  <2>5. Remote(r, k) \in {KernelImage(K), ModulesOnly(K), InstallerImage(K, K, K)}
    BY <2>2 DEF Kinds
  <2> HIDE DEF K
  <2>6. PartsOf(Remote(r, k)) = {K} /\ PartsOf(digest[r]["installer"]) = {K}
    BY <2>1, <2>4, <2>5, PartsOfOneKey
  <2>7. Remote(r, k) # NoImage
    BY <2>1, <2>5, ImagesAreImages
  <2> QED
    BY <2>3, <2>6, <2>7
<1> QED
  BY <1>1, Progress, PTL

\* A step other than the last one releases nothing.
LEMMA NoRelease ==
  ASSUME TypeOK, NEW r \in Runs,
         Trigger(r) \/ Start(r) \/ FailStep(r) \/ (WorkflowStep(r) /\ ~PublishSummary(r))
  PROVE  Released' = Released
<1>1. pc[r] # "published" /\ pc'[r] # "published"
  <2>1. CASE WorkflowStep(r) /\ ~PublishSummary(r)
    <3>1. pc[r] # "published"
      BY <2>1, StepStaysInGroup DEF Active, ActiveSteps
    <3>2. pc'[r] # "published"
      BY <2>1 DEF WorkflowStep, TypeOK, Derive, GenerateKey, BuildKernel,
         PushKernel, BuildBase, PushBase, BuildPkg, PushPkg, VerifyKey,
         BuildSysext, PushSysext, ResolveKernel, ResolveBase, ResolvePkg,
         ResolveSysext, BuildInstaller, PushInstaller, ResolveInstaller,
         VerifyInstaller, Push, Resolve, Lookup
    <3> QED
      BY <3>1, <3>2
  <2>2. CASE Trigger(r) \/ Start(r) \/ FailStep(r)
    BY <2>2 DEF Trigger, Start, FailStep, Active, ActiveSteps, TypeOK
  <2> QED
    BY <2>1, <2>2
<1>2. ASSUME NEW s \in Runs \ {r}
      PROVE  /\ (pc'[s] = "published") <=> (pc[s] = "published")
             /\ digest'[s] = digest[s]
  <2>1. CASE WorkflowStep(r)
    BY <2>1, StepFrame DEF Frame
  <2>2. CASE Trigger(r) \/ Start(r) \/ FailStep(r)
    BY <2>2 DEF Trigger, Start, FailStep, TypeOK
  <2> QED
    BY <2>1, <2>2
<1> QED
  BY <1>1, <1>2 DEF Released

\* The workflow implements the ledger: it releases whole installers, signed
\* with a key of the run that publishes them, once and for good.
THEOREM ImplementsLedger == TagsFollowRefs => (Spec => LedgerSpec)
<1>1. Init => Ledger!Init
  BY DEF Init, Ledger!Init, Released
<1>2. ASSUME IInv, [Next]_vars
      PROVE  [Ledger!Next]_Released
  <2>1. ASSUME NEW r \in Runs, PublishSummary(r)
        PROVE  Ledger!Release(r)
    <3> DEFINE K == KernelKey(r)
    <3>1. K \in KeysOf(r) /\ Released[r] = NoImage
      BY <1>2, <2>1, KernelKeyIsOwn DEF IInv, PublishSummary, Released
    <3>2. digest[r]["installer"] = Ledger!Whole(K)
      BY <1>2, <2>1, PublishedDigests
         DEF PublishSummary, InstallerImage, Ledger!Whole
    <3> HIDE DEF K
    <3>3. Released' = [Released EXCEPT ![r] = Ledger!Whole(K)]
      BY <1>2, <2>1, <3>2 DEF IInv, TypeOK, PublishSummary, Released
    <3> QED
      BY <3>1, <3>3 DEF Ledger!Release
  <2>2. CASE UNCHANGED vars
    BY <2>2 DEF vars, Released
  <2> QED
    BY <1>2, <2>1, <2>2, NoRelease DEF Next, Ledger!Next, IInv
<1> QED
  BY <1>1, <1>2, Progress, PTL DEF Spec, LedgerSpec, Ledger!Spec

-----------------------------------------------------------------------------
(* The installer moves last.                                                 *)

InstallerTagMoves(t) ==
  registry'[t]["installer"] # registry[t]["installer"]

\* Only the push of an installer moves an installer tag, and only its own.
LEMMA WhoMovesInstaller ==
  ASSUME TypeOK, [Next]_vars, NEW t \in Tags, InstallerTagMoves(t)
  PROVE  \E r \in Runs : PushInstaller(r) /\ t = TagOf[r]
<1>1. ASSUME NEW r \in Runs, WorkflowStep(r)
      PROVE  PushInstaller(r) /\ t = TagOf[r]
  <2>1. CASE PushInstaller(r)
    BY <1>1, <2>1, StepFrame DEF Frame, InstallerTagMoves
  <2>2. CASE PushKernel(r) \/ PushBase(r) \/ PushPkg(r) \/ PushSysext(r)
    BY <2>2, PushEffect
       DEF PushKernel, PushBase, PushPkg, PushSysext, Kinds, InstallerTagMoves
  <2>3. CASE ~(\/ PushInstaller(r) \/ PushKernel(r) \/ PushBase(r)
               \/ PushPkg(r) \/ PushSysext(r))
    <3>1. registry' = registry
      BY <1>1, <2>3 DEF WorkflowStep, Derive, GenerateKey, BuildKernel,
         BuildBase, BuildPkg, VerifyKey, BuildSysext, ResolveKernel,
         ResolveBase, ResolvePkg, ResolveSysext, BuildInstaller,
         ResolveInstaller, VerifyInstaller, PublishSummary, Resolve, Lookup
    <3> QED
      BY <3>1 DEF InstallerTagMoves
  <2> QED
    BY <2>1, <2>2, <2>3
<1>2. ASSUME NEW r \in Runs, Trigger(r) \/ Start(r) \/ FailStep(r)
      PROVE  FALSE
  BY <1>2 DEF Trigger, Start, FailStep, InstallerTagMoves
<1>3. CASE UNCHANGED vars
  BY <1>3 DEF vars, InstallerTagMoves
<1> QED
  BY <1>1, <1>2, <1>3 DEF Next

\* When an installer tag moves, the prerequisite images under that tag are the
\* ones the new installer is made of.
THEOREM InstallersComeLast == TagsFollowRefs => (Spec => InstallerPushedLast)
<1>1. ASSUME IInv, [Next]_vars, NEW t \in Tags, InstallerTagMoves(t),
             NEW k \in Prerequisites
      PROVE  PartsOf(registry[t][k]) = PartsOf(registry'[t]["installer"])
  <2>0. TypeOK
    BY <1>1 DEF IInv
  <2>1. PICK r \in Runs : PushInstaller(r) /\ t = TagOf[r]
    BY <1>1, <2>0, WhoMovesInstaller
  <2> DEFINE K == KernelKey(r)
  <2>2. K \in Key
    BY <2>0, KernelKeyIsKey
  <2>3. pc[r] = "push_installer" /\ registry'[t]["installer"] = local[r]["installer"]
    BY <2>0, <2>1, PushEffect DEF PushInstaller, Kinds
  <2>4. /\ Remote(r, "kernel") = KernelImage(K)
        /\ Remote(r, "base")   = KernelImage(K)
        /\ Remote(r, "pkg")    = ModulesOnly(K)
        /\ Remote(r, "sysext") = ModulesOnly(K)
        /\ local[r]["installer"] = InstallerImage(K, K, K)
    BY <1>1, <2>3
       DEF IInv, LocalProgress, RemoteProgress, InstallerBuilt, SysextResolved,
           PkgResolved, BaseResolved, KernelResolved, SysextPushed, SysextBuilt,
           KeyVerified, PkgPushed, PkgBuilt, BasePushed, BaseBuilt, KernelPushed
  <2> HIDE DEF K
  <2> QED
    BY <2>1, <2>2, <2>3, <2>4, PartsOfOneKey DEF Remote, Prerequisites, Kinds
<1>2. ASSUME IInv, [Next]_vars
      PROVE  [\A t \in Tags : InstallerTagMoves(t) =>
                \A k \in Prerequisites :
                  PartsOf(registry[t][k]) = PartsOf(registry'[t]["installer"])]_vars
  BY <1>1, <1>2
<1> QED
  BY <1>2, Progress, PTL DEF Spec, InstallerPushedLast, InstallerTagMoves

=============================================================================
