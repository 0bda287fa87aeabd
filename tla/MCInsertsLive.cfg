SPECIFICATION InsertFairSpec
CONSTANTS
  t1 = t1  t2 = t2  e1 = e1  e2 = e2  e3 = e3  v = v  tab = tab
  addr = addr  a = a  b = b  c1 = c1  c2 = c2  none = none  noEntry = noEntry
  Targets = {t1, t2}
  Configured = {t1}
  Entries = {e1, e2}
  Values = {v}
  NoEntry = noEntry
  Tables = {tab}
  TableOf <- MCTableOf2
  Params = {addr}
  MatchValues = {a, b}
  Match <- MCMatch2
  Names <- MCNames
  InitFilter <- MCInitFilter
  RedisMode = "READWRITE"
  ResetDataplane = TRUE
  Controllers = {c1}
  NoTarget = none
  MaxLog = 2
  MaxUpdates = 2
  RpcIds = {1, 2, 3}
PROPERTIES Settles ImplementsFairDevice
