SPECIFICATION StoreSpec
CONSTANTS
  CLUSTER_MAP_SIZE = 7
  TableSize = 3
  Names = {"a", "b", "c"}
  Paths <- MCPaths
  FileSizes <- MCFileSizes
  BufferSizes <- MCBufferSizes
  Versions = {1, 2}
INVARIANTS
  TypeOK
  ChainsSound
  FATMirrored
  OthersUntouched
  FolderCreationAtomic
PROPERTY StoreRefined
