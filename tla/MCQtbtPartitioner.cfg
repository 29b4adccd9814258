CONSTANTS
  CtuSize = 128
  Configs <- SomeConfigs
SPECIFICATION Spec
INVARIANTS MttFits CodedOnce NeverStuck FlagsDecode
PROPERTIES ExitRestores
CHECK_DEADLOCK FALSE
