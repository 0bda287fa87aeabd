SPECIFICATION FairSpec
CONSTANTS
  w1 = w1  w2 = w2  loop = loop  beat = beat
  Writers = {w1, w2}
  Setups <- MCSetups
  Limited = TRUE
  MaxPerSec = 2
  TicksPerSec = 2
  Batcher = loop
  Heart = beat
  MaxWrites = 7
INVARIANT InOrder
PROPERTIES DropsOnlyWhenFull EventuallySent
CHECK_DEADLOCK FALSE
