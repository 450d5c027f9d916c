CONSTANTS
  g1 = g1
  c1 = c1
  c2 = c2
  n1 = n1
  n2 = n2
  m1 = m1
  m2 = m2
  p1 = p1
  p2 = p2
  p3 = p3
  Absent = Absent
  Damaged = Damaged
  Bad = Bad
  Generated = {g1}
  Configured = {c1, c2}
  Networks = {n1, n2}
  Majors = {m1, m2}
  Pids = {p1, p2, p3}
  Empty = Empty
  None = None
  MaxLoads = 3
  MaxStops = 2

SPECIFICATION FairSpec
CHECK_DEADLOCK FALSE
INVARIANTS TypeOK NoOrphanPublic StartsPrepared NodeLeadsToDriver OpenUnlessWarned OneDaemon
PROPERTIES IdentityForGood KeepsNetworkState EveryStartRuns NodeComes ComesBack
