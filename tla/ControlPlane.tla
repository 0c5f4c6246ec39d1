---------------------------- MODULE ControlPlane ----------------------------
(***************************************************************************)
(* PostgresControlPlaneStore and SnapshotDrivenHandlerRegistry             *)
(* (persistence/control_plane.py) over the tables of migration 0002:       *)
(* operators create versions, activate, roll back and clean up; runs pin   *)
(* snapshots; threads of one replica resolve handlers through its cache,   *)
(* which activations invalidate over a Redis channel.                      *)
(*                                                                         *)
(* Transactions are READ COMMITTED: a step is one statement, or the last   *)
(* statements of a transaction with its commit when a row lock or a        *)
(* constraint orders them against every other transaction.  Rows written   *)
(* by an open transaction are kept in its operator's `tx`.  Payloads,      *)
(* actors and rationales are left out.  Replicas share no state with each  *)
(* other, so one of them is modelled.                                      *)
(***************************************************************************)
EXTENDS Integers, FiniteSets, Sequences

CONSTANTS
  Operators,      \* administrators, each one call at a time
  Duties,         \* operator -> the calls it makes
  Threads,        \* threads of the replica that call resolve
  Runs,
  PinStatuses,    \* statuses callers give a binding
  Metrics,        \* shadow comparisons operators submit
  MinSuccessRate, MaxCostDelta,   \* ActivationThresholds
  Malformed,      \* graph versions whose payload is no GraphConfigVersion
  MaxVersions,    \* bound on the versions of each kind
  MaxSnapshots,   \* bound on activation attempts
  MaxRevision,    \* bound on the revision a rollback starts from
  MaxFaults       \* bound on lost publications, lost listeners, dead operators

ASSUME ControlPlaneAssumption ==
  /\ Duties \in [Operators -> SUBSET {"create", "activate", "rollback", "cleanup"}]
  /\ PinStatuses \subseteq {"active", "paused", "shadow", "dlq", "completed", "failed"}
  /\ MaxVersions \in [{"graph", "agent"} -> Nat] /\ MaxSnapshots \in Nat
  /\ MaxRevision \in Nat /\ MaxFaults \in Nat
  /\ MinSuccessRate \in Int /\ MaxCostDelta \in Int
  /\ Metrics \subseteq [baseline_success_rate : Int, candidate_success_rate : Int,
                        baseline_cost_usd : Int, candidate_cost_usd : Int,
                        safety_regressions : BOOLEAN]

None == 0                     \* NULL; snapshot ids are 1 .. MaxSnapshots
SnapshotIds == 1 .. MaxSnapshots
Kinds == {"graph", "agent"}
RunStates == {"active", "paused", "shadow", "dlq", "completed", "failed"}
NON_TERMINAL_RUN_STATES == {"active", "paused", "shadow", "dlq"}

VARIABLES
  versions,    \* version_number of the rows, per kind, in order of insertion
  snapshots,   \* stored snapshots: id -> row
  issued,      \* snapshot ids handed out; ids grow with created_at
  active,      \* control_plane_state.active_snapshot_id
  revision,    \* control_plane_state.revision
  audit,       \* audit_events; revision and based_on (the caller's
               \* expectation) are history
  bindings,    \* run_snapshot_bindings: run -> row
  tx,          \* what each operator is doing
  cache,       \* the replica's cached snapshot and the age of the entry
  thread,      \* where each resolving thread stands
  listening,   \* "no" before the first resolve, "yes", "dead"
  inbox,       \* messages on their way to the listener
  faults

tables   == <<versions, snapshots, active, revision, audit, bindings>>
registry == <<cache, thread, listening, inbox>>
vars     == <<tables, issued, tx, registry, faults>>

Idle == [step |-> "idle"]
NoBinding == [snapshot |-> None, status |-> "none"]
EmptyCache == [snapshot |-> None, fresh |-> FALSE, raced |-> FALSE]
Waiting == [step |-> "idle", snapshot |-> None, disturbed |-> FALSE]

SnapshotRow == [graph : Nat, supersedes : SnapshotIds \cup {None}]
AuditRow == [action : {"create_graph", "create_agent"}, target : Nat]
       \cup [action : {"activate", "rollback"}, target : SnapshotIds,
             revision : Nat, based_on : SnapshotIds \cup {None}]

\* Migration 0002 creates the tables and inserts the NULL pointer.
Init ==
  /\ versions = [k \in Kinds |-> << >>]
  /\ snapshots = << >> /\ issued = 0
  /\ active = None /\ revision = 0 /\ audit = {}
  /\ bindings = [r \in Runs |-> NoBinding]
  /\ tx = [o \in Operators |-> Idle]
  /\ cache = EmptyCache /\ thread = [t \in Threads |-> Waiting]
  /\ listening = "no" /\ inbox = << >>
  /\ faults = 0

Stored == DOMAIN snapshots

-----------------------------------------------------------------------------
(* Versions *)

Numbers(k) == {versions[k][i] : i \in DOMAIN versions[k]}

\* COALESCE(MAX(version_number), 0) + 1
NextVersionNumber(k) ==
  CHOOSE n \in 1 .. Len(versions[k]) + 1 :
    /\ \A m \in Numbers(k) : m < n
    /\ n = 1 \/ n - 1 \in Numbers(k)

\* _create_version reads the next number ...
CreateVersion(o, k) ==
  /\ tx[o] = Idle /\ "create" \in Duties[o] /\ Len(versions[k]) < MaxVersions[k]
  /\ tx' = [tx EXCEPT ![o] = [step |-> "version", kind |-> k,
                              number |-> NextVersionNumber(k)]]
  /\ UNCHANGED <<tables, issued, registry, faults>>

\* The unique constraint on version_number
Unused(k, n) == n \notin Numbers(k)

\* ... and inserts the row with its audit event; the unique constraint on
\* version_number rejects the second of two transactions that read the same
\* maximum.
InsertVersion(o) ==
  /\ tx[o].step = "version"
  /\ tx' = [tx EXCEPT ![o] = Idle]
  /\ \/ /\ ~ Unused(tx[o].kind, tx[o].number)
        /\ UNCHANGED <<versions, audit>>
     \/ /\ Unused(tx[o].kind, tx[o].number)
        /\ versions' = [versions EXCEPT ![tx[o].kind] = Append(@, tx[o].number)]
        /\ audit' = audit \cup
             {[action |-> IF tx[o].kind = "graph" THEN "create_graph" ELSE "create_agent",
               target |-> tx[o].number]}
  /\ UNCHANGED <<snapshots, issued, active, revision, bindings, registry, faults>>

-----------------------------------------------------------------------------
(* Activation and rollback *)

\* ShadowModeEvaluator.compare
BlockingReasons(m) ==
  (IF m.candidate_success_rate < MinSuccessRate
     THEN {"candidate_success_rate_below_threshold"} ELSE {})
  \cup (IF m.candidate_cost_usd - m.baseline_cost_usd > MaxCostDelta
          THEN {"candidate_cost_exceeds_threshold"} ELSE {})
  \cup (IF m.safety_regressions
          THEN {"candidate_introduced_safety_regressions"} ELSE {})

Switches == {e \in audit : e.action \in {"activate", "rollback"}}

\* What active_snapshot() has returned so far: an operator's expectation and
\* the snapshot a new run is given were read at some earlier moment.
Observed == {e.target : e \in Switches}

\* activate: a blocked report needs an override; the transaction begins and
\* finds the versions it names.
Activate(o, g, m, override, expected) ==
  /\ tx[o] = Idle /\ "activate" \in Duties[o] /\ issued < MaxSnapshots
  /\ BlockingReasons(m) # {} => override
  /\ g \in Numbers("graph") /\ expected \in Observed \cup {None}
  /\ issued' = issued + 1
  /\ tx' = [tx EXCEPT ![o] = [step |-> "previous", id |-> issued + 1, graph |-> g,
                              expected |-> expected]]
  /\ UNCHANGED <<tables, registry, faults>>

\* _load_active_snapshot_id inside the transaction
ReadPrevious(o) ==
  /\ tx[o].step = "previous"
  /\ tx' = [tx EXCEPT ![o] = [step |-> "insert", id |-> @.id, graph |-> @.graph,
                              expected |-> @.expected, previous |-> active]]
  /\ UNCHANGED <<tables, issued, registry, faults>>

\* _insert_snapshot: the foreign key on supersedes_snapshot_id rejects a
\* predecessor that a cleanup has deleted, and locks one that is there.
InsertSnapshot(o) ==
  /\ tx[o].step = "insert"
  /\ tx' = [tx EXCEPT ![o] = IF @.previous \in Stored \cup {None}
                               THEN [@ EXCEPT !.step = "commit"] ELSE Idle]
  /\ UNCHANGED <<tables, issued, registry, faults>>

\* Mutant: an UPDATE without the comparison.
BlindUpdate(expected, new) ==
  /\ active' = new /\ revision' = revision + 1

\* Mutant: the UPDATE forgets `revision = revision + 1`.
Uncounted(expected, new) ==
  /\ active = expected
  /\ active' = new /\ UNCHANGED revision

\* _cas_active_snapshot: UPDATE ... WHERE active_snapshot_id IS NOT DISTINCT
\* FROM the expected id; the row lock is held until the commit.
CasActiveSnapshot(expected, new) ==
  /\ active = expected
  /\ active' = new /\ revision' = revision + 1

\* The last statements of activate, with the commit; a lost race raises
\* ControlPlaneConflictError and leaves nothing.
CommitActivation(o) ==
  /\ tx[o].step = "commit"
  /\ \/ /\ CasActiveSnapshot(tx[o].expected, tx[o].id)
        /\ snapshots' = [s \in Stored \cup {tx[o].id} |->
             IF s = tx[o].id
             THEN [graph |-> tx[o].graph, supersedes |-> tx[o].previous]
             ELSE snapshots[s]]
        /\ audit' = audit \cup {[action |-> "activate", target |-> tx[o].id,
                                 revision |-> revision + 1,
                                 based_on |-> tx[o].expected]}
        /\ tx' = [tx EXCEPT ![o] = [step |-> "load", id |-> @.id]]
     \/ /\ active # tx[o].expected
        /\ tx' = [tx EXCEPT ![o] = Idle]
        /\ UNCHANGED <<snapshots, active, revision, audit>>
  /\ UNCHANGED <<versions, issued, bindings,
                 registry, faults>>

\* rollback: one transaction; a conflict changes nothing.
Rollback(o, s, expected) ==
  /\ tx[o] = Idle /\ "rollback" \in Duties[o] /\ s \in Stored /\ revision < MaxRevision
  /\ expected \in Observed \cup {None} /\ CasActiveSnapshot(expected, s)
  /\ audit' = audit \cup {[action |-> "rollback", target |-> s,
                           revision |-> revision + 1, based_on |-> expected]}
  /\ tx' = [tx EXCEPT ![o] = [step |-> "load", id |-> s]]
  /\ UNCHANGED <<versions, snapshots, issued, bindings, registry, faults>>

\* _load_snapshot after the commit: a KeyError ends the call unpublished.
LoadCommitted(o) ==
  /\ tx[o].step = "load"
  /\ tx' = [tx EXCEPT ![o] = IF @.id \in Stored THEN [@ EXCEPT !.step = "publish"]
                                               ELSE Idle]
  /\ UNCHANGED <<tables, issued, registry, faults>>

\* _publish_activation: delivered to a live listener, if there is one.
PublishActivation(o) ==
  /\ tx[o].step = "publish"
  /\ inbox' = IF listening = "yes" THEN Append(inbox, tx[o].id) ELSE inbox
  /\ tx' = [tx EXCEPT ![o] = Idle]
  /\ UNCHANGED <<tables, issued, cache, thread, listening, faults>>

\* Redis rejects the publication, or the operator's process dies after the
\* commit: either way no message is sent.
LosePublication(o) ==
  /\ tx[o].step \in {"load", "publish"} /\ faults < MaxFaults
  /\ faults' = faults + 1
  /\ tx' = [tx EXCEPT ![o] = Idle]
  /\ UNCHANGED <<tables, issued, registry>>

-----------------------------------------------------------------------------
(* Runs *)

\* pin_run_snapshot, an upsert: a new run, and a run that has a binding
\* already, in flight or ended, gets the snapshot its caller read before and
\* the status.  The foreign key rejects a snapshot that a cleanup has deleted
\* since.
PinRunSnapshot(r, s, status) ==
  /\ s \in Observed \cap Stored
  /\ bindings' = [bindings EXCEPT ![r] = [snapshot |-> s, status |-> status]]
  /\ UNCHANGED <<versions, snapshots, active, revision, audit, issued, tx,
                 registry, faults>>

Bound(r) == bindings[r] # NoBinding

WithStatus(r, status) == [bindings[r] EXCEPT !.status = status]

\* update_run_status: rowcount 0 raises KeyError.
UpdateRunStatus(r, status) ==
  /\ Bound(r) /\ bindings[r].status # status
  /\ bindings' = [bindings EXCEPT ![r] = WithStatus(r, status)]
  /\ UNCHANGED <<versions, snapshots, active, revision, audit,
                 issued, tx, registry, faults>>

PinnedBy(r, s) == bindings[r].snapshot = s
InFlight(r) == bindings[r].status \in NON_TERMINAL_RUN_STATES

-----------------------------------------------------------------------------
(* cleanup_retired_snapshots *)

CleanupBegin(o) ==
  /\ tx[o] = Idle /\ "cleanup" \in Duties[o] /\ Stored # {}
  /\ tx' = [tx EXCEPT ![o] = [step |-> "retired", active |-> active]]
  /\ UNCHANGED <<tables, issued, registry, faults>>

\* The rows and the references of non-terminal runs
CleanupSelect(o) ==
  /\ tx[o].step = "retired"
  /\ tx' = [tx EXCEPT ![o] =
       [step |-> "delete",
        retired |-> {s \in Stored \ {@.active} :
                       ~ \E r \in Runs : PinnedBy(r, s) /\ InFlight(r)}]]
  /\ UNCHANGED <<tables, issued, registry, faults>>

\* Mutant: run_snapshot_bindings without its foreign key.
NoBindingKey(s) == FALSE

HeldByRun(s) == \E r \in Runs : PinnedBy(r, s) /\ InFlight(r)

\* The foreign keys onto snapshots of migration 0002: the pointer, the
\* bindings that were not deleted with the snapshot, and the snapshots that
\* supersede it.  Deletes go by created_at, so a later snapshot is still there.
ReferencedBy(s, retired) ==
  \/ active = s
  \/ HeldByRun(s)
  \/ \E t \in Stored : snapshots[t].supersedes = s /\ ~ (t \in retired /\ t < s)

\* An open activation that inserted a row pointing at s holds a key-share lock.
Locked(s) == \E p \in Operators : tx[p].step = "commit" /\ tx[p].previous = s

\* The deletes and the commit; one foreign key violation undoes them all.
DeleteRetired(o) ==
  /\ tx[o].step = "delete"
  /\ \A s \in tx[o].retired : ~ Locked(s)
  /\ tx' = [tx EXCEPT ![o] = Idle]
  /\ \/ /\ \E s \in tx[o].retired \cap Stored : ReferencedBy(s, tx[o].retired)
        /\ UNCHANGED <<snapshots, bindings>>
     \/ /\ \A s \in tx[o].retired \cap Stored : ~ ReferencedBy(s, tx[o].retired)
        /\ snapshots' = [s \in Stored \ tx[o].retired |-> snapshots[s]]
        /\ bindings' = [r \in Runs |->
             IF bindings[r].snapshot \in tx[o].retired /\ ~ InFlight(r)
             THEN NoBinding ELSE bindings[r]]
  /\ UNCHANGED <<versions, active, revision, audit, issued, registry, faults>>

-----------------------------------------------------------------------------
(* SnapshotDrivenHandlerRegistry *)

\* Mutant: entries never expire.
NeverExpires == cache.snapshot = None

CacheStale == cache.snapshot = None \/ ~ cache.fresh

\* resolve: the first call subscribes (once, even if Redis refuses); a fresh
\* entry answers, otherwise the thread goes on to load.
Resolve(t) ==
  /\ thread[t].step = "idle"
  /\ listening = "no" \/ CacheStale
  /\ \/ /\ listening' = IF listening = "no" THEN "yes" ELSE listening
        /\ UNCHANGED faults
     \/ /\ listening = "no" /\ faults < MaxFaults
        /\ listening' = "dead" /\ faults' = faults + 1
  /\ thread' = IF CacheStale THEN [thread EXCEPT ![t].step = "load"] ELSE thread
  /\ UNCHANGED <<tables, issued, tx, cache, inbox>>

\* _load_active_handlers, outside the lock: no active snapshot and a payload
\* that does not validate raise.
LoadActiveHandlers(t) ==
  /\ thread[t].step = "load"
  /\ thread' = [thread EXCEPT ![t] =
       IF active = None \/ snapshots[active].graph \in Malformed THEN Waiting
       ELSE [step |-> "store", snapshot |-> active, disturbed |-> FALSE]]
  /\ UNCHANGED <<tables, issued, tx, cache, listening, inbox, faults>>

\* The second half of resolve, under the lock.
StoreHandlers(t) ==
  /\ thread[t].step = "store"
  /\ cache' = [snapshot |-> thread[t].snapshot, fresh |-> TRUE,
               raced |-> thread[t].disturbed]
  /\ thread' = [thread EXCEPT ![t] = Waiting]
  /\ UNCHANGED <<tables, issued, tx, listening, inbox, faults>>

\* Mutant: the comparison the wrong way round.
KeepsOther(s) == s # cache.snapshot

KeepsEntry(s) == s = cache.snapshot

\* invalidate, called by the listener.  `disturbed` and `raced` are history:
\* the invalidation came while a thread held an older result.
Invalidate ==
  /\ inbox # << >>
  /\ inbox' = Tail(inbox)
  /\ cache' = IF KeepsEntry(Head(inbox)) THEN cache ELSE EmptyCache
  /\ thread' = [t \in Threads |-> IF thread[t].step = "store"
                                  THEN [thread[t] EXCEPT !.disturbed = TRUE]
                                  ELSE thread[t]]
  /\ UNCHANGED <<tables, issued, tx, listening, faults>>

\* The listener's connection fails: the thread ends and nothing restarts it.
ListenerDies ==
  /\ listening = "yes" /\ faults < MaxFaults
  /\ listening' = "dead" /\ inbox' = << >> /\ faults' = faults + 1
  /\ UNCHANGED <<tables, issued, tx, cache, thread>>

\* The entry reaches cache_ttl_seconds.
CacheExpires ==
  /\ cache.fresh
  /\ cache' = [cache EXCEPT !.fresh = FALSE]
  /\ UNCHANGED <<tables, issued, tx, thread, listening, inbox, faults>>

-----------------------------------------------------------------------------
StoreStep(o) ==
  \/ InsertVersion(o) \/ ReadPrevious(o) \/ InsertSnapshot(o) \/ CommitActivation(o)
  \/ LoadCommitted(o) \/ PublishActivation(o) \/ CleanupSelect(o) \/ DeleteRetired(o)

StoreCall(o) ==
  \/ \E k \in Kinds : CreateVersion(o, k)
  \/ \E g \in 1 .. MaxVersions["graph"], m \in Metrics, override \in BOOLEAN,
        expected \in SnapshotIds \cup {None} : Activate(o, g, m, override, expected)
  \/ \E s \in SnapshotIds, expected \in SnapshotIds \cup {None} :
       Rollback(o, s, expected)
  \/ CleanupBegin(o)
  \/ LosePublication(o)

RunStep ==
  \E r \in Runs, status \in PinStatuses :
    \/ \E s \in SnapshotIds : PinRunSnapshot(r, s, status)
    \/ UpdateRunStatus(r, status)

ResolveStep(t) == Resolve(t) \/ LoadActiveHandlers(t) \/ StoreHandlers(t)

Next ==
  \/ \E o \in Operators : StoreStep(o) \/ StoreCall(o)
  \/ RunStep
  \/ \E t \in Threads : ResolveStep(t)
  \/ Invalidate \/ ListenerDies \/ CacheExpires

Spec == Init /\ [][Next]_vars

\* A thread goes on with its call and calls again; the listener handles what
\* it receives; time passes; an operator finishes the call it is in.
Fairness ==
  /\ \A o \in Operators : WF_vars(StoreStep(o))
  /\ \A t \in Threads : WF_vars(ResolveStep(t))
  /\ WF_vars(Invalidate) /\ WF_vars(CacheExpires)

FairSpec == Spec /\ Fairness

-----------------------------------------------------------------------------
(* Properties *)

TxType ==
  [step : {"idle"}]
  \cup [step : {"version"}, kind : Kinds, number : Nat]
  \cup [step : {"previous"}, id : SnapshotIds, graph : Nat,
        expected : SnapshotIds \cup {None}]
  \cup [step : {"insert", "commit"}, id : SnapshotIds, graph : Nat,
        expected : SnapshotIds \cup {None}, previous : SnapshotIds \cup {None}]
  \cup [step : {"load", "publish"}, id : SnapshotIds]
  \cup [step : {"retired"}, active : SnapshotIds \cup {None}]
  \cup [step : {"delete"}, retired : SUBSET SnapshotIds]

\* Every table, open transaction and cache entry has its shape.
TypeOK ==
  /\ versions \in [Kinds -> Seq(Nat)]
  /\ Stored \subseteq SnapshotIds /\ issued \in 0 .. MaxSnapshots
  /\ \A s \in Stored : snapshots[s] \in SnapshotRow
  /\ active \in SnapshotIds \cup {None} /\ revision \in Nat
  /\ audit \subseteq AuditRow
  /\ bindings \in [Runs -> [snapshot : SnapshotIds, status : RunStates] \cup {NoBinding}]
  /\ tx \in [Operators -> TxType]
  /\ cache \in [snapshot : SnapshotIds \cup {None}, fresh : BOOLEAN, raced : BOOLEAN]
  /\ thread \in [Threads -> [step : {"idle", "load", "store"},
                             snapshot : SnapshotIds \cup {None}, disturbed : BOOLEAN]]
  /\ listening \in {"no", "yes", "dead"} /\ inbox \in Seq(SnapshotIds)
  /\ faults \in 0 .. MaxFaults

\* Version numbers are given out without a gap and never twice, although two
\* transactions of _create_version may read the same maximum.
VersionsAreNumbered ==
  \A k \in Kinds : \A i \in DOMAIN versions[k] : versions[k][i] = i

\* Whatever activations and rollbacks race, the audit log reflects exactly the
\* winners of the compare-and-set: one event per revision, the last one names
\* the active snapshot, each change was based on the change before it, and each
\* stored snapshot was activated by one event.
AuditIsExact ==
  /\ \A n \in 1 .. revision : Cardinality({e \in Switches : e.revision = n}) = 1
  /\ \A e \in Switches : e.revision \in 1 .. revision
  /\ \A e \in Switches : e.revision = revision => e.target = active
  /\ \A e, f \in Switches : f.revision = e.revision + 1 => f.based_on = e.target
  /\ \A s \in Stored : Cardinality({e \in audit : e.action = "activate" /\ e.target = s}) = 1

\* The tables, the open transactions and the record of what happened agree in
\* every state of competing creations, activations, rollbacks and cleanups.
StoreInvariant == TypeOK /\ VersionsAreNumbered /\ AuditIsExact

\* A cleanup that works on stale reads never removes the active snapshot, a
\* snapshot that a non-terminal run is pinned to, or the predecessor another
\* snapshot names.
ReferencesSurvive ==
  /\ active \in Stored \cup {None}
  /\ \A r \in Runs : InFlight(r) => bindings[r].snapshot \in Stored
  /\ \A s \in Stored : snapshots[s].supersedes \in Stored \cup {None}

Serves == IF CacheStale THEN None ELSE cache.snapshot

Quiet == inbox = << >> /\ \A o \in Operators : tx[o].step \notin {"load", "publish"}

\* Once every publication was received, the replica answers from the active
\* snapshot or reloads -- unless a message was lost, or a thread stored what it
\* had loaded before the invalidation came.
CoherentWhenQuiet ==
  Quiet /\ faults = 0 /\ ~ cache.raced => Serves \in {None, active}

\* Whatever is lost or overwritten, the time-to-live bounds it: when operators
\* stop changing the pointer, the replica ends up serving it.
ReplicaCatchesUp == <>[](Serves \in {None, active})

-----------------------------------------------------------------------------
(* The promise of the store: a pointer with its history, and pins out of it. *)

Pinned == [r \in Runs |-> IF InFlight(r) THEN bindings[r].snapshot ELSE None]
Trail == {<<e.revision, e.target>> : e \in Switches}

History == INSTANCE ConfigHistory
             WITH Ids <- SnapshotIds, current <- active, count <- revision,
                  trail <- Trail, pinned <- Pinned

\* The store implements ConfigHistory: each commit moves the pointer by one
\* audited step and touches no run, and a non-terminal run is pinned, and
\* pinned again, only to a snapshot that was active once.
ImplementsHistory == History!Spec
=============================================================================
