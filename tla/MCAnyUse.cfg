SPECIFICATION FairSpec
CONSTANTS
  t1 = t1  t2 = t2  e1 = e1  e2 = e2  v = v  tab = tab
  addr = addr  a = a  c1 = c1  none = none  noEntry = noEntry
  Targets = {t1, t2}
  Configured = {t1, t2}
  Entries = {e1}
  Values = {v}
  NoEntry = noEntry
  Tables = {tab}
  TableOf <- TableOfOne
  Params = {addr}
  MatchValues = {a}
  Match <- MatchOfOne
  Names <- MCNames
  InitFilter <- MCInitFilter
  RedisMode = "READWRITE"
  ResetDataplane = FALSE
  Controllers = {c1}
  NoTarget = none
  MaxLog = 1
  MaxUpdates = 1
  RpcIds = {1, 2}
INVARIANTS TypeOK AnswersPending
PROPERTY CallsReturn
