SPECIFICATION InsertSpec
CONSTANTS
  t1 = t1  t2 = t2  e1 = e1  e2 = e2  e3 = e3  v = v  tab = tab
  addr = addr  a = a  b = b  c1 = c1  c2 = c2  none = none  noEntry = noEntry
  Targets = {t1, t2}
  Configured = {t1}
  Entries = {e1, e2, e3}
  Values = {v}
  NoEntry = noEntry
  Tables = {tab}
  TableOf <- MCTableOf
  Params = {addr}
  MatchValues = {a, b}
  Match <- MCMatch3
  Names <- MCNames
  InitFilter <- MCInitFilter
  RedisMode = "READWRITE"
  ResetDataplane = TRUE
  Controllers = {c1, c2}
  NoTarget = none
  MaxLog = 3
  MaxUpdates = 2
  RpcIds = {1, 2}
SYMMETRY Symmetry
INVARIANTS NoLoss NoIntruder NothingRejected Converged
