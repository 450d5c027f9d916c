CONSTANTS
  r1 = r1
  r2 = r2
  r3 = r3
  tagA = tagA
  tagB = tagB
  main = main
  branch = branch
  NoKey = NoKey
  NoImage = NoImage
  Runs = {r1}
  Tags = {tagA}
  Groups = {main}
  TagOf <- SharedTag
  Silent <- MCSilent
  GroupOf <- OneRef

SPECIFICATION Spec
CHECK_DEADLOCK FALSE

INVARIANT PublishedWithExplicitKey
