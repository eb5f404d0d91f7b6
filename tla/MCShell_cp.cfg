SPECIFICATION ShellSpec
CONSTANTS
  CLUSTER_MAP_SIZE = 8
  TableSize = 4
  Names = {"a", "ab", "b"}
  Paths <- MCPaths
  FileSizes = {40}
  BufferSizes = {40}
  Versions = {1}
  MaxDepth = 2
  Inserted <- MCInsertedLonger
  Longer <- MCLonger
INVARIANT CpCopiesNamed
CHECK_DEADLOCK FALSE
