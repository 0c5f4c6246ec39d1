--------------------------- MODULE ComplianceAdmin ---------------------------
(***************************************************************************)
(* The routes of compliance/admin.py (retention policies and runs, erasure *)
(* of a tenant with two approvals, data processing agreements) and the     *)
(* gate of compliance/dpa_gate.py.                                         *)
(*                                                                         *)
(* None of the routes sets the tenant of the session, so row level         *)
(* security hides every row of the tables under a policy from a role that  *)
(* does not bypass it.  The cascade commits in a transaction of its own    *)
(* before the event is marked completed.  What the deletions do to the     *)
(* metering tables is also part of Metering.                               *)
(***************************************************************************)
EXTENDS Integers, FiniteSets

CONSTANTS
  DataRows,            \* rows other components may write: [tenant, table, time]
  Policies,            \* retention policies: [tenant, table, days]
  ErasureEvents,       \* tenant_delete_events ids -> the tenant
  Officers,            \* people and requests acting on them
  Sweepers,            \* concurrent retention runs
  Gates,               \* processes with the middleware
  DpaTenants, DpaVersions, Grace,
  MaxDay               \* bound on the clock

\* The tables of the cascade (budget stands for four of them, metering for two)
\* and the ones a policy protects; audit_events is in neither list.
TenantTables == {"budget", "metering", "dlq", "runs"}
RlsTables    == {"budget", "metering", "dlq", "runs"}
Swept        == {"metering", "dlq", "audit"}

ASSUME ComplianceAssumption ==
  /\ DataRows \subseteq [tenant : STRING, table : TenantTables \cup Swept, time : Nat]
  /\ Policies \subseteq [tenant : STRING, table : STRING, days : Nat]
  /\ {Grace, MaxDay} \subseteq Nat
  /\ "nobody" \notin Officers /\ "none" \notin DpaTenants

VARIABLES
  day,
  rlsBypassed,   \* whether the role of the routes bypasses row level security
  rows,          \* rows of the tables
  pinned,        \* runs a run_snapshot_bindings row refers to
  policies,      \* retention_policies
  sweep,         \* sweeper -> the retention run in progress
  sweepLog,      \* retention_runs: the statuses on record
  event,         \* tenant_delete_events: status and approvers
  officer,       \* officer -> the request in progress
  consents,      \* history: <<event, officer>> of the approve calls
  dpa,           \* dpa_versions: version -> published_at
  acks,          \* dpa_acknowledgements: <<tenant, version>>
  gate,          \* process -> the check of the delivery in progress, or the last
  seen           \* history: process -> what happened while it checked

complianceVars == <<day, rlsBypassed, rows, pinned, policies, sweep, sweepLog,
                    event, officer, consents, dpa, acks, gate, seen>>
dataVars    == <<rlsBypassed, rows, pinned>>
sweepVars   == <<policies, sweep, sweepLog>>
erasureVars == <<event, officer, consents>>
dpaVars     == <<dpa, acks, gate, seen>>

NoSweep == [step |-> "idle"]
NoRequest == [step |-> "idle"]
NoCheck == [step |-> "idle"]
Unseen == [open |-> FALSE, blocked |-> FALSE, changed |-> FALSE]
NoEvent == [status |-> "none", first |-> "nobody", second |-> "nobody"]

ComplianceInit ==
  /\ day = 0 /\ rlsBypassed \in BOOLEAN /\ rows = {} /\ pinned = {}
  /\ policies = {} /\ sweep = [s \in Sweepers |-> NoSweep] /\ sweepLog = {}
  /\ event = [e \in DOMAIN ErasureEvents |-> NoEvent]
  /\ officer = [o \in Officers |-> NoRequest] /\ consents = {}
  /\ dpa = [v \in {} |-> 0] /\ acks = {}
  /\ gate = [g \in Gates |-> NoCheck] /\ seen = [g \in Gates |-> Unseen]

\* The row that ORDER BY published_at DESC LIMIT 1 returns
LatestDpa == CHOOSE v \in DOMAIN dpa : \A u \in DOMAIN dpa : dpa[u] <= dpa[v]

\* processing_blocked of get_dpa_status
StatusBlocked(t) ==
  DOMAIN dpa # {} /\ <<t, LatestDpa>> \notin acks /\ day > dpa[LatestDpa] + Grace

Checking == {g \in Gates : gate[g].step \in {"ack", "clock"}}

\* History: whether the tenant of a check was blocked or not at some moment of
\* it, and whether what the check reads has changed since it began.
Watch ==
  seen' = [g \in Gates |->
    IF g \notin Checking THEN seen[g]
    ELSE LET t == gate[g].tenant
         IN  [open |-> seen[g].open \/ ~ StatusBlocked(t)',
              blocked |-> seen[g].blocked \/ StatusBlocked(t)',
              changed |-> \/ seen[g].changed \/ dpa' # dpa
                          \/ <<t, gate[g].version>> \in acks' \ acks]]

NextDay ==
  /\ day < MaxDay
  /\ day' = day + 1
  /\ UNCHANGED <<dataVars, sweepVars, erasureVars, dpa, acks, gate>>
  /\ Watch

\* The other components store a row; a cascade already done will not see it.
InsertRow(r) ==
  /\ r \notin rows /\ r.time = day
  /\ rows' = rows \cup {r}
  /\ officer' = [o \in Officers |->
       IF officer[o].step = "cascaded" THEN [officer[o] EXCEPT !.fresh = @ \cup {r}] ELSE officer[o]]
  /\ UNCHANGED <<day, rlsBypassed, pinned, sweepVars, event, consents, dpaVars>>

\* pin_run_snapshot of the control plane, and cleanup_retired_snapshots, which
\* deletes the bindings of ended runs.
PinRun(r) ==
  /\ r \in rows /\ r.table = "runs"
  /\ pinned' = pinned \cup {r}
  /\ UNCHANGED <<day, rlsBypassed, rows, sweepVars, erasureVars, dpaVars>>

UnpinRun(r) ==
  /\ r \in pinned
  /\ pinned' = pinned \ {r}
  /\ UNCHANGED <<day, rlsBypassed, rows, sweepVars, erasureVars, dpaVars>>

Visible(r) == rlsBypassed \/ r.table \notin RlsTables

-----------------------------------------------------------------------------
(* Retention *)

\* uq_retention_surface_tenant
CreatePolicy(p) ==
  /\ \A q \in policies : <<q.tenant, q.table>> # <<p.tenant, p.table>>
  /\ policies' = policies \cup {p}
  /\ UNCHANGED <<day, dataVars, sweep, sweepLog, erasureVars, dpaVars>>

\* execute_retention_run reads the clock and the policy; without one it ends.
SweepStarts(s, p, mode) ==
  /\ sweep[s] = NoSweep /\ p \in policies
  /\ sweep' = [sweep EXCEPT ![s] =
       [step |-> "delete", tenant |-> p.tenant, table |-> p.table, cutoff |-> day - p.days,
        mode |-> mode]]
  /\ UNCHANGED <<day, dataVars, policies, sweepLog, erasureVars, dpaVars>>

\* Rows of every tenant: the statement does not name the tenant.
Before(w) == {r \in rows : r.table = w.table /\ r.time < w.cutoff}

\* The trigger of migration 0002 raises on the first audit row to be deleted.
AppendOnly(w) == w.table = "audit" /\ w.mode = "enforce" /\ Before(w) # {}

\* The statement, in its own transaction; other surfaces and dry runs change nothing.
SweepDeletes(s) ==
  /\ sweep[s].step = "delete" /\ ~ AppendOnly(sweep[s])
  /\ rows' = IF sweep[s].mode = "enforce" /\ sweep[s].table \in Swept
             THEN rows \ {r \in Before(sweep[s]) : Visible(r)} ELSE rows
  /\ sweep' = [sweep EXCEPT ![s].step = "record"]
  /\ UNCHANGED <<day, rlsBypassed, pinned, policies, sweepLog, erasureVars, dpaVars>>

\* The record of the run.  When the statement or the first insert fails it says
\* failed with no rows affected, also when the rows are gone.
SweepRecords(s, status) ==
  /\ sweep[s].step = "record" \/ (sweep[s].step = "delete" /\ status = "failed")
  /\ sweepLog' = sweepLog \cup {status}
  /\ sweep' = [sweep EXCEPT ![s] = NoSweep]
  /\ UNCHANGED <<day, dataVars, policies, erasureVars, dpaVars>>

-----------------------------------------------------------------------------
(* Erasure of a tenant *)

RequestErasure(e) ==
  /\ event[e] = NoEvent
  /\ event' = [event EXCEPT ![e].status = "pending"]
  /\ UNCHANGED <<day, dataVars, sweepVars, officer, consents, dpaVars>>

\* The refusals of approve_tenant_delete
MayConsent(row, o) == row.status \notin {"none", "completed"} /\ row.first # o

\* approve_tenant_delete decides on the row it reads.
ConsentReads(o, e) ==
  /\ officer[o] = NoRequest /\ MayConsent(event[e], o)
  /\ officer' = [officer EXCEPT ![o] =
       [step |-> "approve", event |-> e,
        row |-> IF event[e].first = "nobody"
                THEN [status |-> "pending_second_approval", first |-> o, second |-> "nobody"]
                ELSE [status |-> "approved", first |-> event[e].first, second |-> o]]]
  /\ consents' = consents \cup {<<e, o>>}
  /\ UNCHANGED <<day, dataVars, sweepVars, event, dpaVars>>

\* The update sets the whole row by id.
ConsentWrites(o) ==
  /\ officer[o].step = "approve"
  /\ event' = [event EXCEPT ![officer[o].event] = officer[o].row]
  /\ officer' = [officer EXCEPT ![o] = NoRequest]
  /\ UNCHANGED <<day, dataVars, sweepVars, consents, dpaVars>>

\* Mutant: one approval is enough.
AnyApproval(row) == row.status \in {"approved", "pending_second_approval"}

MayExecute(row) == row.status = "approved"

ExecuteReads(o, e) ==
  /\ officer[o] = NoRequest /\ MayExecute(event[e])
  /\ officer' = [officer EXCEPT ![o] = [step |-> "execute", event |-> e, fresh |-> {}]]
  /\ UNCHANGED <<day, dataVars, sweepVars, event, consents, dpaVars>>

\* The rows the eight statements find
CascadeRows(t) ==
  {r \in rows : r.tenant = t /\ r.table \in {"budget", "metering", "dlq", "runs"} /\ Visible(r)}

\* Foreign key run_snapshot_bindings.run_id
DeleteAllowed(t) == CascadeRows(t) \cap pinned = {}

\* _execute_cascade_delete commits all its statements or none; an exception
\* ends the request.
Cascade(o) ==
  /\ officer[o].step = "execute"
  /\ LET t == ErasureEvents[officer[o].event]
     IN  IF DeleteAllowed(t)
         THEN /\ rows' = rows \ CascadeRows(t)
              /\ officer' = [officer EXCEPT ![o].step = "cascaded"]
         ELSE UNCHANGED rows /\ officer' = [officer EXCEPT ![o] = NoRequest]
  /\ UNCHANGED <<day, rlsBypassed, pinned, sweepVars, event, consents, dpaVars>>

ExecuteCompletes(o) ==
  /\ officer[o].step = "cascaded"
  /\ event' = [event EXCEPT ![officer[o].event].status = "completed"]
  /\ officer' = [officer EXCEPT ![o] = NoRequest]
  /\ UNCHANGED <<day, dataVars, sweepVars, consents, dpaVars>>

\* The process or the database connection dies: the open transaction is undone.
RequestDies(o) ==
  /\ officer[o] # NoRequest
  /\ officer' = [officer EXCEPT ![o] = NoRequest]
  /\ UNCHANGED <<day, dataVars, sweepVars, event, consents, dpaVars>>

-----------------------------------------------------------------------------
(* Data processing agreements *)

\* published_at is the time of the call, to the microsecond: no two are equal.
PublishDpa(v) ==
  /\ v \notin DOMAIN dpa /\ \A u \in DOMAIN dpa : dpa[u] < day
  /\ dpa' = [u \in DOMAIN dpa \cup {v} |-> IF u = v THEN day ELSE dpa[u]]
  /\ UNCHANGED <<day, dataVars, sweepVars, erasureVars, acks, gate>>
  /\ Watch

AcknowledgeDpa(t, v) ==
  /\ v \in DOMAIN dpa /\ <<t, v>> \notin acks
  /\ acks' = acks \cup {<<t, v>>}
  /\ UNCHANGED <<day, dataVars, sweepVars, erasureVars, dpa, gate>>
  /\ Watch

\* A delivery whose body does not parse or has no tenant_id
NoTenant == "none"

\* DpaGateMiddleware.dispatch for a webhook delivery.  Without a tenant or a
\* version it passes; the two statements of _is_dpa_acknowledged see the rows
\* committed before each of them, the clock comes last.
GateReads(g, t) ==
  /\ g \notin Checking
  /\ gate' = [gate EXCEPT ![g] =
       IF t = NoTenant \/ DOMAIN dpa = {} THEN [step |-> "passed", tenant |-> t]
       ELSE [step |-> "ack", tenant |-> t, version |-> LatestDpa]]
  /\ seen' = [seen EXCEPT ![g] =
       [open |-> ~ StatusBlocked(t), blocked |-> StatusBlocked(t), changed |-> FALSE]]
  /\ UNCHANGED <<day, dataVars, sweepVars, erasureVars, dpa, acks>>

\* Mutant: the statement does not name the version.
AnyVersionAcked(t, v) == \E u \in DOMAIN dpa : <<t, u>> \in acks

Acked(t, v) == <<t, v>> \in acks

GateReadsAck(g) ==
  /\ gate[g].step = "ack"
  /\ gate' = [gate EXCEPT ![g].step =
       IF Acked(gate[g].tenant, gate[g].version) THEN "passed" ELSE "clock"]
  /\ UNCHANGED <<day, dataVars, sweepVars, erasureVars, dpa, acks, seen>>

\* The request goes on or is answered 403.
GateDecides(g) ==
  /\ gate[g].step = "clock"
  /\ gate' = [gate EXCEPT ![g].step =
       IF day <= dpa[gate[g].version] + Grace THEN "passed" ELSE "refused"]
  /\ UNCHANGED <<day, dataVars, sweepVars, erasureVars, dpa, acks, seen>>

-----------------------------------------------------------------------------
DataNext ==
  \/ \E r \in DataRows : InsertRow(r) \/ PinRun(r) \/ UnpinRun(r)
  \/ \E p \in Policies : CreatePolicy(p)
  \/ \E s \in Sweepers :
       \/ SweepDeletes(s) \/ \E status \in {"success", "failed"} : SweepRecords(s, status)
       \/ \E p \in Policies, mode \in {"dry_run", "enforce"} : SweepStarts(s, p, mode)

ErasureNext ==
  \/ \E e \in DOMAIN ErasureEvents : RequestErasure(e)
  \/ \E o \in Officers :
       \/ ConsentWrites(o) \/ Cascade(o) \/ ExecuteCompletes(o) \/ RequestDies(o)
       \/ \E e \in DOMAIN ErasureEvents : ConsentReads(o, e) \/ ExecuteReads(o, e)

DpaNext ==
  \/ \E v \in DpaVersions : PublishDpa(v) \/ \E t \in DpaTenants : AcknowledgeDpa(t, v)
  \/ \E g \in Gates : \/ GateReadsAck(g) \/ GateDecides(g)
                      \/ \E t \in DpaTenants \cup {NoTenant} : GateReads(g, t)

ComplianceNext == NextDay \/ DataNext \/ ErasureNext \/ DpaNext

ComplianceSpec == ComplianceInit /\ [][ComplianceNext]_complianceVars

-----------------------------------------------------------------------------
(* Properties *)

\* Dual control: nobody erases a tenant before two different people approved the
\* event, whatever the interleaving of approvals that read the same row.
ErasureNeedsTwo ==
  \A o \in Officers : officer[o].step \in {"execute", "cascaded"} =>
    \E p, q \in Officers : p # q /\ {<<officer[o].event, p>>, <<officer[o].event, q>>} \subseteq consents

\* When the event is about to be marked completed, a role that sees every row has
\* left the tenant nothing but what was written after the cascade.
ErasedMeansGone ==
  \A o \in Officers : officer[o].step = "cascaded" /\ rlsBypassed =>
    {r \in rows : r.tenant = ErasureEvents[officer[o].event] /\ r.table \in TenantTables}
      \subseteq officer[o].fresh

\* No erasure or retention run takes away a run that a snapshot binding names.
PinnedRunsStay == pinned \subseteq rows

\* However the requests of the officers and the control plane interleave or die:
\* two people stand behind an erasure; what its statements can see of the tenant
\* in their tables is gone before it counts as completed; and it stops at runs
\* that the control plane still refers to.
ErasureInvariant == ErasureNeedsTwo /\ ErasedMeansGone /\ PinnedRunsStay

\* Publications, acknowledgements and the end of a grace period may fall between
\* the reads of the gate.  A delivery with a tenant passes only if at some moment
\* of the check the status route would have said that the tenant is not blocked;
\* and it is refused only if at some moment it would have said blocked, or a
\* publication or the acknowledgement of the version came during the check.
GateIsSound ==
  \A g \in Gates :
    /\ gate[g].step = "passed" /\ gate[g].tenant # NoTenant => seen[g].open
    /\ gate[g].step = "refused" => seen[g].blocked \/ seen[g].changed
=============================================================================
