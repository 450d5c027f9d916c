SPECIFICATION Spec
CONSTANTS
  b1 = b1
  b2 = b2
  b3 = b3
  b4 = b4
  Custom = Custom
  Toolkit = Toolkit
  Glibc = Glibc
  NewGlibc = NewGlibc
  OldToolkit = OldToolkit
  OpenDriver = OpenDriver
  MirroredDriver = MirroredDriver
  l1 = l1
  l2 = l2
  Stock = Stock
  NoLineage = NoLineage
  NoImage = NoImage
  Refs <- MCRefs
  NameOf <- MCNameOf
  Official = {OpenDriver}
  TalosVersions = {1, 2}
  Tags = {1, 2, 3, 4}
  Lineages <- MCLineages
  TalosOf <- MCTalosOf
  TagOf <- MCTagOf
  BaseOf <- MCBaseOf
  Builds = {b1}
  Extras <- MCMirror
  KernelOf <- MCNoKernel
  Replaced = {l1}
  Deferred = {}
  MaxAttempts = 2
INVARIANT OneDriverSource
CHECK_DEADLOCK FALSE
