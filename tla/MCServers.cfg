SPECIFICATION MCSpec
CONSTANTS
  Setups <- SmallSetups
  Params = {1}
  MaxCount = 1
  Switches = {"t1"}
  Servicers = {"s1", "s2"}
  Controllers = {"c1", "c2"}
  MaxDigests = 2
  ServicerOf <- MCServicerOf
  NumMappings = 2
  Sources <- MCSources
  Preloads <- MCPreloads
  MaxWrites = 2
  MaxStarts = 3
INVARIANTS  Mirrors OnceInOrder SoundStart
PROPERTIES Isolated Delivered
CHECK_DEADLOCK FALSE
