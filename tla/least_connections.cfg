\* Two requests under way at once; verdicts and hang-ups have no part in it.
CONSTANTS
  n1 = n1
  n2 = n2
  n3 = n3
  h1 = h1
  h2 = h2
  a = a
  b = b
  Task = {t1, t2}
  Node = {n1, n2, n3}
  Pool <- MCPool
  Pinnable <- MCPinnable
  NameOf <- MCNameOf
  HostOf <- MCHostOf
  Weight <- MCWeight
  RoutingMode = "least_connections"
  Modes <- MCModes
  None = None
  MayHangUp = FALSE
  MaxRequests = 2
  MaxFlips = 0
SPECIFICATION Spec
PROPERTY
  LeastConnections
