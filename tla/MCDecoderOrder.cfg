SPECIFICATION DecoderSpec
CONSTANTS
  Jobs <- Foreign
INVARIANTS FinishedWhole FinishedOnce LookAheadFresh NeverRefused OutputInOrder NoneLost KeepsReferences
CHECK_DEADLOCK FALSE
