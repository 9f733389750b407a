\* A node that never answers stops the checker, and a lagging node stays in.
CONSTANTS
  NodeCount = 2
  Reader = {r1}
SPECIFICATION FairSpec
PROPERTY
  LaggardsAlwaysLeave
