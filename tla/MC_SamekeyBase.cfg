SPECIFICATION FairSpec
CONSTANTS
  k1 = k1
  k2 = k2
  k3 = k3
  Stock = Stock
  Absent = Absent
  Kernels = {k1, k2, k3}
  Releases = {"r1", "r2"}
  ReleaseOf <- MCReleaseOf
  MaxAttempts = 2
  MaxRuns = 3
INVARIANTS TypeOK FreshDirKeepsKey
PROPERTIES KernelIsRequested EveryRunEnds
CHECK_DEADLOCK FALSE
