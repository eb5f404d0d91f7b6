SPECIFICATION UserFairSpec
CONSTANTS
  PAGE_FRAME_MAX_COUNT = 14
  PAGING_DIRECTORY_TABLE_MAX_COUNT = 6
  PROCESS_COUNT_MAX = 3
  UINT32 = 16
  BufferSizes <- MCBufferSizes
  MaxStep = 1
INVARIANTS
  NoUnkillableClock
  OwnAddressSpace
PROPERTIES
  NoLiveOverwrite
  ShellResponds
  ReadyRuns
