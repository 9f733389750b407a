\* A failure charged after the limiter's window ended is dropped at the next roll.
CONSTANTS
  Task = {t1, t2}
  Bucket = {b1}
  Limit = 1
  WindowDuration = 2
  Mode = "After"
  CacheMayFail = FALSE
  MaxTime = 4
  MaxArrivals = 4
SPECIFICATION AuditSpec
INVARIANT
  NoFailureForgotten
