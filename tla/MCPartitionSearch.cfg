CONSTANTS
  Kinds <- MCKinds
  Orders <- QtLast
  NumParts <- MCNumParts
  Costs = {1, 4}
  SplitCost = 1
  MaxDepth = 2
  Rounds = {1}
  ColorTransform = TRUE
  Runs <- AnyRun
SPECIFICATION Spec
INVARIANTS StoredIsCoded ReplayFollows
CHECK_DEADLOCK FALSE
