\* Three nodes, one connection that matches one request after another.
CONSTANTS
  NodeCount = 3
  Reader = {r1}
SPECIFICATION FairSpec
INVARIANTS
  SweepFresh
  VerdictsSettle
PROPERTIES
  LaggardsLeave
  ReturnsInSync
  EveryRequestMatched
