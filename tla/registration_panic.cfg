\* Two requests miss the counters of one host and both register them.
CONSTANTS
  n1 = n1
  n2 = n2
  n3 = n3
  h1 = h1
  h2 = h2
  a = a
  b = b
  Task = {t1, t2}
  Node = {n1, n2, n3}
  Pool <- MCPool
  Pinnable <- MCPinnable
  NameOf <- MCNameOf
  HostOf <- MCHostOf
  Weight <- MCWeight
  RoutingMode = "round_robin"
  Modes <- MCModes
  None = None
  MayHangUp = FALSE
  MaxRequests = 2
  MaxFlips = 0
SPECIFICATION Spec
SYMMETRY Interchangeable
INVARIANT
  RegistrationSucceeds
