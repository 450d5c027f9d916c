------------------------- MODULE SamekeyBaseProofs -------------------------
(* Theorems about SamekeyBase, for any kernels, releases and bounds.         *)
EXTENDS SamekeyBase, TLAPS

LEMMA NewDirectory ==
  ASSUME NEW r \in Releases
  PROVE  EmptyLayer \in Layer /\ EmptyLayer.tree[r] = {}
BY DEF EmptyLayer, Layer, Tree

LEMMA InitIInv == Init => IInv
<1> SUFFICES ASSUME Init PROVE IInv
  OBVIOUS
<1>1. TypeOK
  BY NewDirectory, ConstantsAssumption
     DEF Init, TypeOK, Steps, MaybeImage, Tree, EmptyLayer, Layer
<1> QED
  BY <1>1 DEF Init, IInv, KernelInv, OwnFiles, SameKeyBase, TrustsItsModules,
              LayerUnpacked, LayerChecked, TreeSwapped, UkiRebuilt, ActiveSteps

LEMMA Constants ==
  ASSUME TypeOK
  PROVE  /\ input.kernel \in Kernels /\ input.release \in Releases
         /\ ReleaseOf[input.kernel] \in Releases
         /\ Absent \notin Kernels /\ MaxAttempts \in Nat \ {0} /\ MaxRuns \in Nat
         /\ Absent \notin Image
BY ConstantsAssumption, AbsentAssumption DEF TypeOK, Input

\* The kernel's way from the input to the image, in any directory.
LEMMA StepKernelInv ==
  ASSUME KernelInv, [Next]_vars
  PROVE  KernelInv'
<1> USE Constants DEF KernelInv, Goto, workDir, tags, LayerUnpacked, LayerChecked,
                      TreeSwapped, UkiRebuilt, ActiveSteps, Steps
<1>1. CASE UNCHANGED vars
  BY <1>1 DEF vars, TypeOK
<1>2. CASE Start
  <2>1. layer' \in Layer /\ rootfs' \in Tree /\ uki' \in MaybeImage
    BY <1>2, NewDirectory DEF Start, TypeOK, Tree, MaybeImage
  <2> QED
    BY <1>2, <2>1 DEF Start, TypeOK
<1>3. CASE Fail
  BY <1>3 DEF Fail, TypeOK
<1>4. CASE PullFails
  BY <1>4 DEF PullFails, TypeOK
<1>5. CASE Pulled
  BY <1>5 DEF Pulled, TypeOK
<1>6. CASE Assets
  BY <1>6 DEF Assets, TypeOK
<1>7. CASE ExtractLayer
  <2>1. PICK left \in {{}, layer.tree[ReleaseOf[input.kernel]]} :
          layer' = [vmlinuz |-> input.kernel,
                    tree |-> [layer.tree EXCEPT ![ReleaseOf[input.kernel]] =
                                {input.kernel} \union left],
                    ahci |-> [layer.ahci EXCEPT ![ReleaseOf[input.kernel]] = input.kernel]]
    BY <1>7 DEF ExtractLayer
  <2>2. layer' \in Layer
    BY <2>1 DEF TypeOK, Layer, Tree, Origins
  <2> QED
    BY <1>7, <2>1, <2>2 DEF ExtractLayer, TypeOK
<1>8. CASE ExtractionInterrupted
  <2>1. PICK v \in {layer.vmlinuz, input.kernel},
             a \in {layer.ahci[ReleaseOf[input.kernel]], input.kernel} :
          layer' = [vmlinuz |-> v,
                    tree |-> [layer.tree EXCEPT ![ReleaseOf[input.kernel]] =
                                {input.kernel} \union layer.tree[ReleaseOf[input.kernel]]],
                    ahci |-> [layer.ahci EXCEPT ![ReleaseOf[input.kernel]] = a]]
    BY <1>8 DEF ExtractionInterrupted
  <2>2. layer' \in Layer
    BY <2>1 DEF TypeOK, Layer, Tree, Origins
  <2> QED
    BY <1>8, <2>2 DEF ExtractionInterrupted, TypeOK
<1>9. CASE CheckLayer
  BY <1>9 DEF CheckLayer, TypeOK
<1>10. CASE Unsquash
  BY <1>10 DEF Unsquash, TypeOK, Tree, Origins
<1>11. CASE UnsquashInterrupted
  BY <1>11 DEF UnsquashInterrupted, TypeOK, Tree, Origins
<1>12. CASE SwapTree
  <2>1. layer.tree[input.release] \in Tree
    BY DEF TypeOK, Layer
  <2> QED
    BY <1>12, <2>1 DEF SwapTree, TypeOK
<1>13. CASE Rebuild
  <2>1. uki' \in Image /\ uki'.linux = input.kernel
    BY <1>13 DEF Rebuild, TypeOK, Image
  <2> QED
    BY <1>13, <2>1 DEF Rebuild, TypeOK, MaybeImage
<1>14. CASE Verify
  BY <1>14 DEF Verify, TypeOK
<1>15. CASE BuildImage
  BY <1>15 DEF BuildImage, TypeOK
<1>16. CASE PushFails
  BY <1>16 DEF PushFails, TypeOK
<1>17. CASE Pushed
  BY <1>17 DEF Pushed, TypeOK
<1>18. CASE Inspect
  BY <1>18 DEF Inspect, TypeOK
<1> QED
  BY <1>1, <1>2, <1>3, <1>4, <1>5, <1>6, <1>7, <1>8, <1>9, <1>10, <1>11, <1>12,
     <1>13, <1>14, <1>15, <1>16, <1>17, <1>18 DEF Next, Command

\* The modules' way from the layer to the image, in a directory of its own.
LEMMA StepOwnFiles ==
  ASSUME ~keepDir, KernelInv, OwnFiles, [Next]_vars
  PROVE  OwnFiles'
<1> USE Constants DEF KernelInv, OwnFiles, Goto, workDir, tags, LayerUnpacked,
                      LayerChecked, TreeSwapped, UkiRebuilt, ActiveSteps, Steps
<1>1. CASE UNCHANGED vars
  BY <1>1 DEF vars, SameKeyBase
<1>2. CASE Start
  BY <1>2, NewDirectory DEF Start, SameKeyBase
<1>3. CASE Fail
  BY <1>3 DEF Fail, SameKeyBase
<1>4. CASE PullFails
  BY <1>4 DEF PullFails, SameKeyBase
<1>5. CASE Pulled
  BY <1>5 DEF Pulled, SameKeyBase
<1>6. CASE Assets
  BY <1>6 DEF Assets, SameKeyBase
<1>7. CASE ExtractLayer
  <2>1. \A left \in {{}, layer.tree[ReleaseOf[input.kernel]]} :
          {input.kernel} \union left = {input.kernel}
    BY <1>7 DEF ExtractLayer
  <2>2. layer' = [vmlinuz |-> input.kernel,
                  tree |-> [layer.tree EXCEPT ![ReleaseOf[input.kernel]] = {input.kernel}],
                  ahci |-> [layer.ahci EXCEPT ![ReleaseOf[input.kernel]] = input.kernel]]
    BY <1>7, <2>1 DEF ExtractLayer
  <2>3. layer.tree \in [Releases -> Tree]
    BY DEF TypeOK, Layer
  <2> QED
    BY <1>7, <2>2, <2>3 DEF ExtractLayer, SameKeyBase
<1>8. CASE ExtractionInterrupted
  BY <1>8 DEF ExtractionInterrupted, SameKeyBase
<1>9. CASE CheckLayer
  BY <1>9 DEF CheckLayer, SameKeyBase
<1>10. CASE Unsquash
  BY <1>10 DEF Unsquash, SameKeyBase
<1>11. CASE UnsquashInterrupted
  BY <1>11 DEF UnsquashInterrupted, SameKeyBase
<1>12. CASE SwapTree
  <2>1. layer.tree[input.release] = {input.kernel}
    BY <1>12 DEF SwapTree
  <2> QED
    BY <1>12, <2>1 DEF SwapTree, SameKeyBase
<1>13. CASE Rebuild
  <2>1. uki' = [linux   |-> input.kernel,
                modules |-> {input.kernel},
                release |-> ReleaseOf[input.kernel]]
    BY <1>13 DEF Rebuild
  <2>2. TrustsItsModules(uki')
    BY <2>1 DEF TrustsItsModules
  <2> QED
    BY <1>13, <2>2 DEF Rebuild, SameKeyBase
<1>14. CASE Verify
  BY <1>14 DEF Verify, SameKeyBase
<1>15. CASE BuildImage
  BY <1>15 DEF BuildImage, SameKeyBase
<1>16. CASE PushFails
  BY <1>16 DEF PushFails, SameKeyBase
<1>17. CASE Pushed
  BY <1>17 DEF Pushed, SameKeyBase
<1>18. CASE Inspect
  BY <1>18 DEF Inspect, SameKeyBase
<1> QED
  BY <1>1, <1>2, <1>3, <1>4, <1>5, <1>6, <1>7, <1>8, <1>9, <1>10, <1>11, <1>12,
     <1>13, <1>14, <1>15, <1>16, <1>17, <1>18 DEF Next, Command

LEMMA SameDirectory == [Next]_vars => keepDir' = keepDir
BY DEF Next, Command, Start, Fail, ExtractionInterrupted, UnsquashInterrupted,
   PullFails, Pulled, Assets, ExtractLayer, CheckLayer, Unsquash, SwapTree, Rebuild,
   Verify, BuildImage, PushFails, Pushed, Inspect, vars

LEMMA Invariant == Spec => []IInv
<1>1. IInv /\ [Next]_vars => IInv'
  BY StepKernelInv, StepOwnFiles, SameDirectory DEF IInv
<1> QED
  BY InitIInv, <1>1, PTL DEF Spec

\* Every state is well typed: no file or image is read that is not there.
THEOREM TypeCorrect == Spec => []TypeOK
<1>1. IInv => TypeOK
  BY DEF IInv, KernelInv
<1> QED
  BY Invariant, <1>1, PTL

\* With a new directory for every execution, no sequence of executions and
\* failures puts an installer-base under the tag whose kernel refuses one of
\* its own modules.
THEOREM FreshDirectoryKeepsKey == Spec => []FreshDirKeepsKey
<1>1. IInv => FreshDirKeepsKey
  BY DEF IInv, OwnFiles, FreshDirKeepsKey
<1> QED
  BY Invariant, <1>1, PTL

\* In either kind of directory, what goes under the tag has the kernel this
\* execution was asked for.
THEOREM RequestedKernel == Spec => KernelIsRequested
<1>1. IInv /\ [Next]_vars => [output' # output => output'.linux = input.kernel]_vars
  <2> SUFFICES ASSUME IInv, Next, output' # output
               PROVE  output'.linux = input.kernel
    BY DEF vars, tags
  <2>1. CASE BuildImage
    BY <2>1 DEF BuildImage, Goto, IInv, KernelInv, UkiRebuilt, TreeSwapped
  <2>2. CASE ~BuildImage
    BY <2>2 DEF Next, Command, Start, Fail, ExtractionInterrupted,
       UnsquashInterrupted, PullFails, Pulled, Assets, ExtractLayer, CheckLayer,
       Unsquash, SwapTree, Rebuild, Verify, PushFails, Pushed, Inspect, tags
  <2> QED
    BY <2>1, <2>2
<1> QED
  BY Invariant, <1>1, PTL DEF Spec, KernelIsRequested

=============================================================================
