\* A sweep by a later clock lets an earlier one reopen a key's window too soon.
CONSTANTS
  Task = {t1, t2}
  Key = {k1, k2, k3}
  Limit = 1
  Window = 2
  MaxKeys = 2
  MaxTime = 5
SPECIFICATION Spec
SYMMETRY Interchangeable
INVARIANT
  EveryKeyRate
