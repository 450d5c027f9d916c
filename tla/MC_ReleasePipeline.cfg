CONSTANTS
  r1 = r1
  r2 = r2
  r3 = r3
  tagA = tagA
  tagB = tagB
  main = main
  branch = branch
  NoKey = NoKey
  NoImage = NoImage
  Runs = {r1, r2, r3}
  Tags = {tagA, tagB}
  Groups = {main, branch}
  TagOf <- TagPerRef
  Silent <- MCSilent
  GroupOf <- MCGroupOf

SPECIFICATION FairSpec
\* All executions may have ended.
CHECK_DEADLOCK FALSE

INVARIANTS
  TypeOK
  KeyLineage
  DigestsAreOwn
  TagsMatchDigests
PROPERTIES
  InstallerPushedLast
  LedgerSpec
  EveryRunEnds
