SPECIFICATION MCSpec
CONSTANTS
  u1 = u1  u2 = u2  t1 = t1  t2 = t2  t3 = t3  a1 = a1  a2 = a2  a3 = a3
  Users = {u1, u2}
  Tables = {t1, t2, t3}
  Keyed = {t1, t2}
  NumNodes = 2
  Colours = {0, 1, 2}
  MaxChanges = 3
  Modes = {"meter", "counter"}
  Addresses = {a1, a2, a3}
  Sources = {1, 2}
  Ports = {1, 2}
  Calls = {1, 2}
  MaxCalls = 4
  MaxRestarts = 1
  MaxFailures = 2
  Clients = {"c", "a"}
  Async = {"a"}
  MaxPending = 1
  ByteBits = 2
  P4Tables <- MCTables
  Actions <- MCActions
  Specs <- MCSpecs
  ElectionId <- MCElectionId
  Sends <- MCSends
  Resets <- MCResets
  Cells <- MCCells
  Once <- MCOnce
  Values = {1}
INVARIANTS Placed  
PROPERTIES Followed Faithful
CHECK_DEADLOCK FALSE
