CONSTANTS
  r1 = r1
  r2 = r2
  r3 = r3
  tagA = tagA
  tagB = tagB
  main = main
  branch = branch
  NoKey = NoKey
  NoImage = NoImage
  Runs = {r1, r3}
  Tags = {tagA}
  Groups = {main, branch}
  TagOf <- SharedTag
  Silent <- MCSilent
  GroupOf <- MCGroupOf

SPECIFICATION Spec
CHECK_DEADLOCK FALSE

INVARIANT KeyLineage
