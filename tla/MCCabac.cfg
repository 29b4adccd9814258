CONSTANTS
  c1 = c1
  c2 = c2
  Ctx = {c1, c2}
  InitProb <- MCInitProb
  Window <- MCWindow
  Strings <- MCStrings
  Remainders <- MCRemainders
  MaxSymbols = 4
SPECIFICATION Spec
INVARIANTS CarryFits InsideStream EstimateExact
PROPERTY ReadsBack
CHECK_DEADLOCK FALSE
