SPECIFICATION Spec
CONSTANTS
  Layouts <- SomeLayouts
  Qps <- SomeQps
  SliceQp = 32
  MaxQp = 63
  QpBdOffset = 12
  MaxCoded = 2
INVARIANTS ContextsAgree PredictorsAgree QpReceived SubstreamsRead
CHECK_DEADLOCK FALSE
