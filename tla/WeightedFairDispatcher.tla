----------------------- MODULE WeightedFairDispatcher -----------------------
(***************************************************************************)
(* WeightedFairDispatcher (platform/queue.py): which queued job a worker   *)
(* should take, given the in-flight count of every tenant and the time.    *)
(* Python's min returns the first least job of a list whose order is       *)
(* ARQ's, so the operators give the set of least jobs.                     *)
(***************************************************************************)
EXTENDS Integers

CONSTANTS
  Jobs, Tenants,
  tenant_id,      \* QueuedJob fields, as functions on Jobs
  weight, enqueued_at,
  per_tenant_concurrency,
  starvation_threshold_seconds

ASSUME DispatcherAssumption ==
  /\ tenant_id \in [Jobs -> Tenants]
  /\ weight \in [Jobs -> Int] /\ enqueued_at \in [Jobs -> Int]
  /\ per_tenant_concurrency \in Nat
  /\ starvation_threshold_seconds \in Nat

Weight(j) == IF weight[j] > 1 THEN weight[j] ELSE 1

eligible(jobs, in_flight) ==
  {j \in jobs : in_flight[tenant_id[j]] < per_tenant_concurrency}

starved(jobs, now) ==
  {j \in jobs : now - enqueued_at[j] >= starvation_threshold_seconds}

Oldest(jobs) ==
  {j \in jobs : \A k \in jobs : enqueued_at[j] <= enqueued_at[k]}

\* in_flight / max(weight, 1), compared without dividing.
Load(j, k, in_flight) == in_flight[tenant_id[j]] * Weight(k)

LeastLoaded(jobs, in_flight) ==
  {j \in jobs : \A k \in jobs : Load(j, k, in_flight) <= Load(k, j, in_flight)}

select_next_job(jobs, in_flight, now) ==
  LET candidates == eligible(jobs, in_flight)
      urgent     == starved(candidates, now)
  IN IF urgent # {} THEN Oldest(urgent)
     ELSE Oldest(LeastLoaded(candidates, in_flight))
=============================================================================
