\* Two documents, two requests at once, every trouble a source can be in.
CONSTANTS
  Value = {v1, v2}
  Task = {t1, t2}
  Timeout = 2
  Null = Null
SPECIFICATION FairSpec
INVARIANTS
  TypeOK
  JudgedOnFresh
  CacheSettles
PROPERTIES
  Recovers
  SilenceNoticed
