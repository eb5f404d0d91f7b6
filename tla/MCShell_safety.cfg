SPECIFICATION ShellSpec
CONSTANTS
  CLUSTER_MAP_SIZE = 8
  TableSize = 4
  Names = {"a", "ab"}
  Paths <- MCPaths
  FileSizes = {40}
  BufferSizes = {40}
  Versions = {1}
  MaxDepth = 2
  Inserted <- MCInserted
  Longer <- MCLonger
INVARIANTS
  ShellTypeOK
  CursorConsistent
  WhereIAm
  SteadyIsSound
  AnswersTrue
  FindsNearest
  MoveNeverLoses
PROPERTY AsTold
CHECK_DEADLOCK FALSE
