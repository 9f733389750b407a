\* A limiter on attempts: two connections, two buckets, three windows.
CONSTANTS
  Task = {t1, t2}
  Bucket = {b1, b2}
  Limit = 1
  WindowDuration = 2
  Mode = "Before"
  CacheMayFail = TRUE
  MaxTime = 4
  MaxArrivals = 5
SPECIFICATION AuditSpec
SYMMETRY Interchangeable
INVARIANTS
  AttemptCeiling
  CountsMatchLedger
  SpanCeiling
PROPERTY
  KeepsQuota
