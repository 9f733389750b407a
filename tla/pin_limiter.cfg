\* Two connections, three keys, room for two: renewals, sweeps and full maps.
CONSTANTS
  Task = {t1, t2}
  Key = {k1, k2, k3}
  Limit = 2
  Window = 2
  MaxKeys = 2
  MaxTime = 5
SPECIFICATION Spec
SYMMETRY Interchangeable
INVARIANTS
  Capacity
  HeldKeyRate
  OvertakenRate
PROPERTIES
  LiveWindowKept
  KeepsQuota
