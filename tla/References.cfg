SPECIFICATION FairSpec
CONSTANTS
  org = org
  sub = sub
  prop = prop
  g1 = g1
  g2 = g2
  g3 = g3
  g4 = g4
  g5 = g5
  Resources = {org, sub, prop}
  Manifests <- AllManifests
  Guids = {g1, g2, g3, g4, g5}
  Budgets <- Scenarios
INVARIANTS TypeOK ResolvedIsGuid ParentFirst CyclesWait EachItsOwn
PROPERTIES HierarchyRefined ChainSettles ChainDeleted
CHECK_DEADLOCK FALSE
