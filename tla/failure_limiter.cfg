\* A limiter on failures beside its record: two connections, one bucket, three windows.
CONSTANTS
  Task = {t1, t2}
  Bucket = {b1}
  Limit = 2
  WindowDuration = 2
  Mode = "After"
  CacheMayFail = TRUE
  MaxTime = 4
  MaxArrivals = 6
SPECIFICATION AuditFairSpec
INVARIANTS
  TypeOK
  FailureOvershoot
  CountsMatchLedger
PROPERTIES
  DenialIsEarned
  EveryRequestDecided
  EveryAnswerHandled
