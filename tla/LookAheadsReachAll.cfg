CONSTANTS
  Inputs <- LongWay
  Types = {"LALR"}
  MaxWord = 4
  MaxOps = 3
SPECIFICATION Spec
CHECK_DEADLOCK FALSE
INVARIANT LookAheadsReachAll
