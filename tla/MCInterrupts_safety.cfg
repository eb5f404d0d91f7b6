SPECIFICATION InterruptsSpec
CONSTANTS
  PROCESS_COUNT_MAX = 3
  SoftwareVectors = {32, 48, 49, 64}
  Exceptions = {6, 14}
INVARIANTS
  InterruptsTypeOK
  OneFrame
  SelectorsFit
  ServedOnRequest
PROPERTIES
  OwnProcessor
  EveryProcessRuns
