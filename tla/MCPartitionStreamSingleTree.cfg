CONSTANTS
  NumCtus = 2
  NumCells = 2
  CellValues = {0, 1}
  Motions = {0, 7}
  Plans <- SingleTreePlans
SPECIFICATION Spec
INVARIANTS LoadedIsStored
CHECK_DEADLOCK FALSE
