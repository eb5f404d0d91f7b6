SPECIFICATION Spec
CONSTANTS
  StartTimes <- MCStartTimes
  MaxUpdates = 2
  LEAD = 3
  BinaryMode = FALSE
INVARIANTS
  TypeOK
  ReadsOneInstant
  ShowsLocalTime
PROPERTY ReadsAgain
