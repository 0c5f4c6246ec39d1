------------------------------- MODULE Metering -------------------------------
(***************************************************************************)
(* PostgresMeteringLedger (persistence/governance.py): usage facts, their  *)
(* hourly rollups and reconciliation reports, behind billing/api.py and    *)
(* the rollup job of worker.py, and what compliance/admin.py deletes from  *)
(* the same tables (ComplianceAdmin says when).                            *)
(*                                                                         *)
(* A build reads and then writes, in two transactions.                     *)
(* Row level security is in force for the application's role; a role that  *)
(* bypasses it is the other case of `bypassesRls`.  The totals of a rollup *)
(* are sums over the usage it names, and left out.                         *)
(***************************************************************************)
EXTENDS Integers, FiniteSets

CONSTANTS
  Usages,       \* usage records that may be reported
  Periods,      \* <<period_start, period_end>> of the callers
  Hour,         \* length of a bucket
  Builders,     \* concurrent builds of rollups
  Cutoffs,      \* instants up to which retention runs delete
  MaxReports    \* bound on the reconciliation reports kept

ASSUME MeteringAssumption ==
  /\ Usages \subseteq [id : Nat, tenant : STRING, team : STRING, provider : STRING,
                       time : Nat]
  /\ Periods \subseteq Nat \X Nat /\ Hour \in Nat \ {0} /\ MaxReports \in Nat
  /\ Cutoffs \subseteq Nat

VARIABLES
  bypassesRls,   \* the database role is not subject to the policies
  facts,         \* metering_facts
  rollups,       \* metering_hourly_rollups: rollup_id -> row
  reports,       \* the number of reconciliation_reports
  job,           \* per builder: the build in progress
  overtaken,     \* history: builders whose read is older than another's write
                 \* or than a deletion
  deleted        \* history: facts that compliance has deleted

meteringVars == <<bypassesRls, facts, rollups, reports, job, overtaken, deleted>>

TenantsOf(fs) == {f.tenant : f \in fs}
NoRow == [tenant |-> "none"]
NoJob == [step |-> "idle"]

\* The bucket and the rollup_id; the id does not name the tenant.
Bucket(f) == f.time \div Hour
RollupId(f) == <<Bucket(f), f.team, f.provider>>
RollupIds == {RollupId(f) : f \in Usages}

MeteringInit ==
  /\ bypassesRls \in BOOLEAN
  /\ facts = {} /\ reports = 0
  /\ rollups = [id \in RollupIds |-> NoRow]
  /\ job = [b \in Builders |-> NoJob]
  /\ overtaken = {} /\ deleted = {}

\* record_usage; the primary key refuses a record that is already there.
RecordUsage(f) ==
  /\ f \notin facts
  /\ facts' = facts \cup {f}
  /\ UNCHANGED <<bypassesRls, rollups, reports, job, overtaken, deleted>>

-----------------------------------------------------------------------------
(* Rollups *)

\* Mutant: incremental, the facts no rollup counts yet.
NewFactsForPeriod(tenant, period) ==
  {f \in facts : /\ f.tenant = tenant /\ f.time >= period[1] /\ f.time <= period[2]
                 /\ \A id \in RollupIds : rollups[id] # NoRow => f \notin rollups[id].usage}

\* _facts_for_period: both ends belong to the period.
FactsForPeriod(tenant, period) ==
  {f \in facts : f.tenant = tenant /\ f.time >= period[1] /\ f.time <= period[2]}

\* build_hourly_rollups: the facts are read in a transaction of their own.
BuildReads(b, tenant, period) ==
  /\ job[b] = NoJob
  /\ FactsForPeriod(tenant, period) # {}
  /\ job' = [job EXCEPT ![b] = [step |-> "build", tenant |-> tenant, period |-> period,
                                read |-> FactsForPeriod(tenant, period)]]
  /\ UNCHANGED <<bypassesRls, facts, rollups, reports, overtaken, deleted>>

Group(fs, id) == {f \in fs : RollupId(f) = id}
Touched(b) == {id \in RollupIds : Group(job[b].read, id) # {}}

\* The transaction is scoped to the team of the first fact; facts are ordered
\* by completed_at only.
ScopeTeams(fs) == {f.team : f \in {g \in fs : \A h \in fs : g.time <= h.time}}

\* tenant_visible, as USING and WITH CHECK of the rollups' policy: the row
\* there and the row to be written belong to the scope.
RowAllowed(b, id, team) ==
  \/ bypassesRls
  \/ /\ id[2] = team
     /\ rollups[id] = NoRow \/ rollups[id].tenant = job[b].tenant

\* on_conflict_do_update replaces the counts, the totals and usage_ids of the
\* row, not its tenant.
Upsert(b, id) ==
  [tenant |-> IF rollups[id] # NoRow THEN rollups[id].tenant ELSE job[b].tenant,
   usage |-> Group(job[b].read, id)]

Building == {b \in Builders : job[b].step = "build"}

\* All rollups of the call in one transaction; a row that the policy refuses
\* rolls all of them back.
BuildWrites(b) ==
  /\ job[b].step = "build"
  /\ \E team \in ScopeTeams(job[b].read) :
       rollups' = IF \A id \in Touched(b) : RowAllowed(b, id, team)
                  THEN [id \in RollupIds |-> IF id \in Touched(b) THEN Upsert(b, id) ELSE rollups[id]]
                  ELSE rollups
  /\ job' = [job EXCEPT ![b] = NoJob]
  /\ overtaken' = (overtaken \ {b}) \cup (Building \ {b})
  /\ UNCHANGED <<bypassesRls, facts, reports, deleted>>

-----------------------------------------------------------------------------
(* Reconciliation *)

\* run_reconciliation: reads the facts of a provider and inserts a report with
\* their ids and sums, which are left out.
RunReconciliation ==
  /\ reports < MaxReports
  /\ reports' = reports + 1
  /\ UNCHANGED <<bypassesRls, facts, rollups, job, overtaken, deleted>>

-----------------------------------------------------------------------------
(* Deletions of compliance/admin.py.  Its sessions name no tenant: a role   *)
(* under row level security finds nothing to delete.                        *)

Delete(fs) ==
  /\ facts' = facts \ fs
  /\ deleted' = deleted \cup (fs \cap facts)
  /\ overtaken' = overtaken \cup Building
  /\ UNCHANGED <<bypassesRls, reports, job>>

\* _run_metering_retention in mode enforce: facts of all tenants; the rollups
\* stay.
RetentionDeletes(cutoff) ==
  /\ bypassesRls
  /\ Delete({f \in Usages : f.time < cutoff})
  /\ UNCHANGED rollups

\* _execute_cascade_delete: rollups and facts of a tenant, in one transaction.
ErasureDeletes(t) ==
  /\ bypassesRls
  /\ rollups' = [id \in RollupIds |-> IF rollups[id].tenant = t THEN NoRow ELSE rollups[id]]
  /\ Delete({f \in Usages : f.tenant = t})

-----------------------------------------------------------------------------
RollupNext ==
  \/ \E f \in Usages : RecordUsage(f)
  \/ \E b \in Builders :
       BuildWrites(b) \/ \E t \in TenantsOf(Usages), p \in Periods : BuildReads(b, t, p)
  \/ \E n \in Cutoffs : RetentionDeletes(n)
  \/ \E t \in TenantsOf(Usages) : ErasureDeletes(t)

MeteringNext == RollupNext \/ RunReconciliation

MeteringSpec == MeteringInit /\ [][MeteringNext]_meteringVars

-----------------------------------------------------------------------------
(* Properties *)

Named(id) == IF rollups[id] = NoRow THEN {} ELSE rollups[id].usage
Finishes(b) == b \in Building /\ job'[b] = NoJob
InPeriod(f, period) == f.time >= period[1] /\ f.time <= period[2]

\* A rollup follows the facts.  It takes up usage that is not on record only
\* when the build had read it before it was deleted.  It loses usage only to a
\* build overtaken by another one or whose period cuts the hour, and under a
\* role that bypasses row level security also to a deletion and to a build or
\* an erasure of another tenant whose rollup has the same id.
RollupsFollowFacts ==
  [][\A id \in RollupIds :
       /\ \A f \in Named(id)' \ Named(id) : f \in facts \/ \E b \in overtaken : Finishes(b)
       /\ \A f \in Named(id) \ Named(id)' :
            \/ \E b \in Building : /\ Finishes(b)
                                   /\ \/ b \in overtaken
                                      \/ ~ InPeriod(f, job[b].period)
                                      \/ bypassesRls /\ job[b].tenant # f.tenant
            \/ bypassesRls /\ (f \in deleted' \/ rollups[id].tenant # f.tenant)]_meteringVars
=============================================================================
