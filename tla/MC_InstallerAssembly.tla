------------------------ MODULE MC_InstallerAssembly ------------------------
(* Instances of InstallerAssembly for TLC.                                   *)
EXTENDS InstallerAssembly

CONSTANTS
  b1, b2, b3, b4,    \* builds
  Glibc, NewGlibc,   \* two versions of the glibc extension
  OldToolkit,        \* another version of the toolkit
  OpenDriver,        \* the official driver under its own name
  MirroredDriver,    \* the official driver under a name of somebody's mirror
  l1, l2             \* same-key kernel lineages

MCRefs == {Custom, Toolkit, Glibc, NewGlibc, OldToolkit, OpenDriver, MirroredDriver}
MCNameOf ==
  [ref \in MCRefs |->
     CASE ref = Custom                        -> "p2p"
       [] ref \in {Toolkit, OldToolkit}       -> "toolkit"
       [] ref \in {Glibc, NewGlibc}           -> "glibc"
       [] ref \in {OpenDriver, MirroredDriver} -> "open"]

\* Repeated and outdated extras; a driver in disguise; another toolkit first, which
\* fails the check of the overlay; the driver.
MCExtras ==
  [b \in Builds |->
     CASE b = b1 -> <<Glibc, Toolkit, OldToolkit, NewGlibc>>
       [] b = b2 -> <<Glibc, MirroredDriver, Custom>>
       [] b = b3 -> <<OldToolkit, Glibc>>
       [] b = b4 -> <<Glibc, OpenDriver>>]
MCMirror    == [b \in Builds |-> <<Glibc, MirroredDriver>>]

\* b1 and b2 share a Talos version, b1 and b3 a base; nobody shares a reference.
MCTalosOf   == [b \in Builds |-> IF b = b3 THEN 2 ELSE 1]
MCTagOf     ==
  [b \in Builds |-> CASE b = b1 -> 1 [] b = b2 -> 2 [] b = b3 -> 3 [] b = b4 -> 4]
MCBaseOf    == [b \in Builds |-> IF b \in {b1, b3} THEN l1 ELSE l2]
MCLineages  == {Stock, l1, l2}

MCNoKernel  == [b \in Builds |-> NoLineage]
MCKernelOf  == [b \in Builds |-> IF b = b2 THEN l2 ELSE NoLineage]
=============================================================================
