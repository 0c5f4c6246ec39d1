SPECIFICATION FairSpec
CONSTANTS
  o1 = o1
  o2 = o2
  Operators = {o1, o2}
  Duties <- MCDuties
  Threads = {t1}
  Runs = {r1}
  PinStatuses <- MCPinStatuses
  Metrics <- MCMetrics
  MinSuccessRate = 7
  MaxCostDelta = 2
  Malformed = {}
  MaxVersions <- MCMaxVersions
  MaxSnapshots = 2
  MaxRevision = 3
  MaxFaults = 1
INVARIANTS StoreInvariant ReferencesSurvive CoherentWhenQuiet
PROPERTIES ImplementsHistory ReplicaCatchesUp
CHECK_DEADLOCK FALSE
