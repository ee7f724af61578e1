CONSTANTS
  ann = ann bob = bob cid = cid dan = dan
  c1 = c1 c2 = c2
  NULL = NULL
  Keys <- MCKeys
  Data <- MCData
  capacity = 2
  hash <- MCHash
SPECIFICATION Spec
INVARIANTS KeysFound ClearEmpties
PROPERTIES ImplementsNames
\* nothing follows ht_destroy
CHECK_DEADLOCK FALSE
