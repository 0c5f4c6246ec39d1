CONSTANTS
  PlanningRequests <- FewPlanningRequests
  ExecutionRequests <- FewExecutionRequests
  SinkRequests <- MCSinkRequests
  RecursionLimit = 19
  None = None
SPECIFICATION FairSpec
PROPERTY KilledRunIsResumed
CHECK_DEADLOCK FALSE
