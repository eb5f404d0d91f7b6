SPECIFICATION Spec
CONSTANTS
  COLS = 3
  ROWS = 3
  VideoRows = 4
  KEYBOARD_BUFFER_SIZE = 6
  Letters = {"a"}
  Signs = {}
  Prompt <- MCPrompt
  Outputs <- MCOutputs
  ClockWidth = 1
  MaxHasty = 1
INVARIANTS
  TypeOK
  EchoMatchesLine
  EachKeyOnce
