SPECIFICATION FairSpec
CONSTANTS
  org = org
  sub = sub
  prop = prop
  g1 = g1
  g2 = g2
  g3 = g3
  g4 = g4
  g5 = g5
  Resources = {org, sub, prop}
  Manifests <- OnlyChain
  Guids = {g1, g2, g3, g4, g5}
  Budgets <- VanishOnly
PROPERTIES ReferencesFollow
CHECK_DEADLOCK FALSE
