CONSTANTS
  Jobs <- TwoJobs
  Tenants = {"a"}
  tenant_id <- MCTenantId
  weight <- MCWeight
  enqueued_at <- MCEnqueuedAt
  per_tenant_concurrency = 1
  starvation_threshold_seconds = 8
  Callers = {1, 2}
  Replicas = {1, 2}
  ReplicaOf <- OwnReplica
  Workers = {1, 2}
  Assigns <- OwnWorker
  Drains <- OutsiderDrains
  Times = {0, 10}
  MaxFaults = 1
  MaxOutside = 2
  None = None
SPECIFICATION FairSpec
INVARIANTS
  SlotInvariant
  LimitHolds
  JobRunsOnce
  NoJobIsLost
PROPERTY QueueIsServed
CHECK_DEADLOCK FALSE
