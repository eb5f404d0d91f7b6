SPECIFICATION Spec
CONSTANTS
  PAGE_FRAME_MAX_COUNT = 10
  PAGING_DIRECTORY_TABLE_MAX_COUNT = 4
  PROCESS_COUNT_MAX = 3
  UINT32 = 11
  BufferSizes <- MCBufferSizes
  MaxStep = 1
INVARIANTS
  TypeOK
  FramesExclusive
  FramesAccounted
  LiveDirectories
  DirectoryPoolSuffices
  RunningOwnsCPU
  ContextIntegrity
