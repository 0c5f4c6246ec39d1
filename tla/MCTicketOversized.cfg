CONSTANTS
  PlanningRequests <- FewPlanningRequests
  ExecutionRequests <- FewExecutionRequests
  SinkRequests <- MCSinkRequests
  RecursionLimit = 19
  None = None
SPECIFICATION Spec
INVARIANT OversizedDiffIsNotReviewed
CHECK_DEADLOCK FALSE
