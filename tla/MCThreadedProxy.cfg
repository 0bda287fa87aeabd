SPECIFICATION MCSpec
CONSTANTS
  c1 = c1  c2 = c2  Main = main
  Batcher = batcher  Heart = heart  Free = free
  Writers <- MCWriters
  MaxPerSec = 2
  TicksPerSec = 1
  BufferSize = 4
  Modes <- MCModes
  WorkerNum = 3
  Preloads = 1
  MaxWrites = 2
  MaxStarts = 2
  LimiterRate = 3
  LimiterTicks = 4
  MaxTime = 12
INVARIANTS LineMatchesLog RateBound
PROPERTIES FailStop LoggedIsSent Served 
CHECK_DEADLOCK FALSE
