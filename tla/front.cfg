\* One configuration and one request: both are over then, so the run may stop.
CONSTANTS
  Absent = Absent
  PinnableNames = {"a", "b"}
  MetricNames = {"base", "more", "third", "ip", "pinned"}
  Configs <- MCConfigs
  Decode <- FromBytes
  Requests <- MCRequests
  PushEndpoints = {"send_transaction"}
  GetEndpoints = {"get_info", "get_table_rows"}
  TableEndpoints = {"get_table_rows"}
SPECIFICATION Spec
CHECK_DEADLOCK FALSE
INVARIANTS
  TypeOK
  NodeSetsSound
  VerdictIsRight
  LoadedAsConfigured
  PackedIsRead
  WeighedIsCarried
  PolicyKept
  BucketsFollow
  RoutedToItsPool
