CONSTANTS
  PlanningRequests <- MCPlanningRequests
  ExecutionRequests <- MCExecutionRequests
  SinkRequests <- MCSinkRequests
  RecursionLimit = 20
  None = None
SPECIFICATION FairSpec
INVARIANTS
  TypeOK
  OutcomeMatchesRequest
  ProtectedSuccessPath
  RetriesAreBounded
PROPERTIES
  StoredRowIsTerminal
  RunReachesRepository
CHECK_DEADLOCK FALSE
