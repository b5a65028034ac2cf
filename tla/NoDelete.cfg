SPECIFICATION FairSpec
CONSTANTS
  i1 = i1
  i2 = i2
  i3 = i3
  i4 = i4
  i5 = i5
  i6 = i6
  w1 = w1
  w2 = w2
  v1 = v1
  v2 = v2
  Kinds <- MDMApplicationOnly
  Workers = {w1}
  Ids = {i1}
  Values = {v1}
  Imported = {"no external name"}
  Budgets <- RemoveBudgets
PROPERTIES DeletionCompletes
CHECK_DEADLOCK FALSE
