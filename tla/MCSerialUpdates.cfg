SPECIFICATION SerialSpec
CONSTANTS
  t1 = t1  t2 = t2  t3 = t3  e1 = e1  e2 = e2  v = v  w = w  tabA = tabA  tabB = tabB
  addr = addr  a = a  b = b  c1 = c1  none = none  noEntry = noEntry
  Targets = {t1, t2, t3}
  Configured = {t1, t2, t3}
  Movable = {t3}
  Entries = {e1, e2}
  Values = {v, w}
  NoEntry = noEntry
  Tables = {tabA, tabB}
  TableOf <- MCTableOf
  Params = {addr}
  MatchValues = {a, b}
  Match <- MCMatch
  Names <- MCNames
  InitFilter <- MCInitFilter
  RedisMode = "READWRITE"
  ResetDataplane = TRUE
  Controllers = {c1}
  NoTarget = none
  MaxLog = 4
  MaxUpdates = 2
  RpcIds = {1}
INVARIANTS HoldsView ReplayAccepted
