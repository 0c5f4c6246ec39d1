CONSTANTS
  Jobs <- ThreeJobs
  Tenants = {"a", "b"}
  tenant_id <- MCTenantId
  weight <- MCWeight
  enqueued_at <- MCEnqueuedAt
  per_tenant_concurrency = 1
  starvation_threshold_seconds = 8
  Callers = {1, 2}
  Replicas = {1, 2}
  ReplicaOf <- OwnReplica
  Workers = {1, 2}
  Assigns <- OwnWorker
  Drains <- NoDrains
  Times = {0, 10}
  MaxFaults = 0
  MaxOutside = 0
  None = None
SPECIFICATION Spec
INVARIANT LimitAlwaysHolds
