CONSTANTS
  NumCtus = 2
  NumCells = 2
  CellValues = {0, 1}
  Motions = {0, 7}
  Plans <- AgreeingPlans
SPECIFICATION Spec
INVARIANTS LoadedIsStored TornTail
CHECK_DEADLOCK FALSE
