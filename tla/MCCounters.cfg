SPECIFICATION Spec
CONSTANTS
  t1 = t1  t2 = t2  r1 = r1  none = none
  Targets = {t1, t2}
  Only = t1
  Usages = {"single", "manager"}
  Readers = {r1}
  NoTarget = none
  MaxPackets = 2
INVARIANTS Conserved ReadRegular RestoreKeeps
