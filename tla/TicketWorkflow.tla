--------------------------- MODULE TicketWorkflow ---------------------------
(***************************************************************************)
(* One ticket run of the LangGraph workflow (runtime/workflow.py), from    *)
(* the POST /api/v1/runtime/simulate request to the row the run repository *)
(* keeps (persistence/runs.py).                                            *)
(*                                                                         *)
(* One action is one superstep of the compiled graph: the node function    *)
(* with the conditional edge LangGraph evaluates on the state the node     *)
(* returned.  The fields of TicketRunState are variables of their own;     *)
(* artifacts, hashes, summaries and the readiness error texts carry no     *)
(* control and are left out.  A sink URL is represented by the reason it   *)
(* is registered under.                                                    *)
(***************************************************************************)
EXTENDS Integers, Sequences

CONSTANTS
  PlanningRequests,   \* the planning requests a client may post
  ExecutionRequests,  \* the execution requests a client may post
  SinkRequests,       \* the escalation_sinks a client may post, as key sets
  RecursionLimit,     \* external: supersteps langgraph allows one invoke
  None                \* Python's None

Nodes == {"intake", "load_constitution", "create_feature_spec", "clarify",
          "create_plan", "create_task_list", "readiness_gate", "coder",
          "tester", "reviewer", "pre_pr_sync", "pr_creator", "escalate"}

Statuses == {"planning", "active", "paused", "completed"}

\* Reasons the graph itself can raise, and the ones other subsystems own.
Reasons == {"unresolved_ambiguity", "test_retry_budget_exhausted",
            "review_budget_exhausted", "missing_or_failing_required_tests",
            "diff_too_large", "merge_conflict_detected",
            "invalid_route_attempt", "missing_escalation_sink",
            "budget_exhausted", "all_providers_unavailable",
            "provider_failover_exhausted",
            "orphaned_budget_reservation_detected",
            "billing_reconciliation_drift", "branch_protection_missing"}

required_phase_one_escalation_reasons ==
  {"unresolved_ambiguity", "test_retry_budget_exhausted",
   "review_budget_exhausted", "missing_or_failing_required_tests",
   "diff_too_large", "merge_conflict_detected", "invalid_route_attempt",
   "missing_escalation_sink"}

default_escalation_sinks == Reasons

\* implementation_tasks and design_checks are the lengths of those lists.
PlanningRequest ==
  [ambiguous: BOOLEAN, clarification_resolution_attempt: Int \cup {None},
   implementation_tasks: Nat, public_surface_change: BOOLEAN,
   design_checks: Nat, max_clarification_iterations: Int,
   max_test_retries: Int, max_review_retries: Int,
   force_missing_task_list: BOOLEAN, force_not_ready: BOOLEAN]

ExecutionRequest ==
  [test_failures_before_pass: Int, quality_failures_before_pass: Int,
   missing_required_tests: BOOLEAN, skip_required_tests: BOOLEAN,
   diff_too_large: BOOLEAN, merge_conflict: BOOLEAN]

ASSUME WorkflowAssumption ==
  /\ PlanningRequests \subseteq PlanningRequest
  /\ ExecutionRequests \subseteq ExecutionRequest
  /\ SinkRequests \subseteq SUBSET Reasons
  /\ RecursionLimit \in Nat
  /\ None \notin Int \cup Nodes \cup Reasons

VARIABLES
  planning,      \* the PlanningRequest of this run
  execution,     \* its ExecutionRequest
  sinks,         \* reasons with a sink: posted, then the ones in force
  shadow_mode,   \* BranchProtectionVerifier.shadow_mode of the process
  phase,         \* where execute() stands
  next_node,     \* the node LangGraph runs next, or "END"
  \* TicketRunState
  status, node_history, paused_at_node, escalation_reason, escalation_sink,
  clarification_attempts, clarification_complete,
  task_list, spec_ready_for_implementation, required_test_targets,
  test_retry_count, tests_passed,
  review_retry_count, quality_checks_passed, review_approved,
  pre_pr_sync_passed, branch_protection_passed, pr_created,
  stored         \* the row of the runs table, None before the first save

input     == <<planning, execution, shadow_mode>>
route     == <<status, paused_at_node, escalation_reason, escalation_sink>>
clarity   == <<clarification_attempts, clarification_complete>>
readiness == <<task_list, spec_ready_for_implementation,
               required_test_targets>>
testing   == <<test_retry_count, tests_passed>>
review    == <<review_retry_count, quality_checks_passed, review_approved>>
sync      == <<pre_pr_sync_passed, branch_protection_passed>>
vars == <<input, sinks, phase, next_node, node_history, route, clarity,
          readiness, testing, review, sync, pr_created, stored>>

Phases == {"requested", "rejected", "running", "saved", "recursion_error",
           "save_failed", "killed"}

Init ==
  /\ planning \in PlanningRequests
  /\ execution \in ExecutionRequests
  /\ sinks \in SinkRequests
  /\ shadow_mode \in BOOLEAN
  /\ phase = "requested"
  /\ next_node = "load_constitution"
  /\ status = "planning"
  /\ node_history = <<"intake">>
  /\ paused_at_node = None /\ escalation_reason = None
  /\ escalation_sink = None
  /\ clarification_attempts = 0 /\ clarification_complete = FALSE
  /\ task_list = None /\ spec_ready_for_implementation = FALSE
  /\ required_test_targets = 0
  /\ test_retry_count = 0 /\ tests_passed = FALSE
  /\ review_retry_count = 0 /\ quality_checks_passed = FALSE
  /\ review_approved = FALSE
  /\ pre_pr_sync_passed = FALSE /\ branch_protection_passed = FALSE
  /\ pr_created = FALSE
  /\ stored = None

-----------------------------------------------------------------------------
(* execute(): validation, then graph.invoke, then repository.save.         *)

\* `escalation_sinks or default`: an empty mapping selects the defaults too.
EffectiveSinks(posted) ==
  IF posted = {} THEN default_escalation_sinks ELSE posted

validate_escalation_sinks(registered) ==
  required_phase_one_escalation_reasons \subseteq registered

Execute ==
  /\ phase = "requested"
  /\ sinks' = EffectiveSinks(sinks)
  /\ phase' = IF validate_escalation_sinks(EffectiveSinks(sinks))
              THEN "running" ELSE "rejected"
  /\ UNCHANGED <<input, next_node, node_history, route, clarity, readiness,
                 testing, review, sync, pr_created, stored>>

\* LangGraph runs node n: transition_to is the first statement of each node.
Enter(n) ==
  /\ phase = "running"
  /\ next_node = n
  /\ Len(node_history) <= RecursionLimit
  /\ node_history' = Append(node_history, n)
  /\ UNCHANGED <<input, sinks, phase, stored>>

LoadConstitution ==
  /\ Enter("load_constitution")
  /\ next_node' = "create_feature_spec"
  /\ UNCHANGED <<route, clarity, readiness, testing, review, sync, pr_created>>

CreateFeatureSpec ==
  /\ Enter("create_feature_spec")
  /\ next_node' = "clarify"
  /\ UNCHANGED <<route, clarity, readiness, testing, review, sync, pr_created>>

Pause(node, reason) ==
  /\ escalation_reason' = reason
  /\ paused_at_node' = node
  /\ UNCHANGED <<status, escalation_sink>>

\* Mutant: the clarify loop forgets to look at the escalation reason.
ClarifyIgnoresEscalation ==
  IF clarification_complete' THEN "create_plan" ELSE "clarify"

route_after_clarification ==
  IF escalation_reason' # None THEN "escalate"
  ELSE IF clarification_complete' THEN "create_plan" ELSE "clarify"

ClarificationResolved(attempts) ==
  /\ planning.clarification_resolution_attempt # None
  /\ attempts >= planning.clarification_resolution_attempt

Clarify ==
  /\ Enter("clarify")
  /\ \/ /\ ~planning.ambiguous
        /\ clarification_complete' = TRUE
        /\ UNCHANGED <<clarification_attempts, route>>
     \/ /\ planning.ambiguous
        /\ clarification_attempts' = clarification_attempts + 1
        /\ clarification_complete' =
             (clarification_complete
                \/ ClarificationResolved(clarification_attempts + 1))
        /\ IF /\ ~ClarificationResolved(clarification_attempts + 1)
              /\ clarification_attempts + 1
                   >= planning.max_clarification_iterations
           THEN Pause("clarify", "unresolved_ambiguity")
           ELSE UNCHANGED route
  /\ next_node' = route_after_clarification
  /\ UNCHANGED <<readiness, testing, review, sync, pr_created>>

CreatePlan ==
  /\ Enter("create_plan")
  /\ next_node' = "create_task_list"
  /\ UNCHANGED <<route, clarity, readiness, testing, review, sync, pr_created>>

\* RuleBasedPlannerArtifactService.create_task_list: every implementation
\* task gets a paired unit test, a public surface one end-to-end target.
TaskList(p) ==
  [implementation |-> 1..p.implementation_tasks,
   paired_with |-> 1..p.implementation_tasks,
   e2e_targets |-> IF p.public_surface_change THEN 1 ELSE 0,
   quality_checks |-> p.design_checks,
   public_surface_change |-> p.public_surface_change]

\* A task list is not None.
ASSUME TaskListAssumption == \A p \in PlanningRequests : TaskList(p) # None

validate_for_repo_write(t) ==
  /\ t.implementation \subseteq t.paired_with
  /\ t.public_surface_change => t.e2e_targets > 0
  /\ t.quality_checks > 0
  /\ t.implementation # {}

CreateTaskList ==
  /\ Enter("create_task_list")
  /\ next_node' = "readiness_gate"
  /\ IF planning.force_missing_task_list
     THEN /\ task_list' = None
          /\ spec_ready_for_implementation' = FALSE
          /\ UNCHANGED required_test_targets
     ELSE /\ task_list' = TaskList(planning)
          /\ spec_ready_for_implementation' =
               ( /\ validate_for_repo_write(TaskList(planning))
                 /\ ~planning.force_not_ready )
          /\ required_test_targets' =
               planning.implementation_tasks + TaskList(planning).e2e_targets
  /\ UNCHANGED <<route, clarity, testing, review, sync, pr_created>>

ReadinessGate ==
  /\ Enter("readiness_gate")
  /\ \/ /\ task_list = None \/ ~spec_ready_for_implementation
        /\ Pause("readiness_gate", "invalid_route_attempt")
        /\ next_node' = "escalate"
     \/ /\ task_list # None /\ spec_ready_for_implementation
        /\ status' = "active"
        /\ UNCHANGED <<paused_at_node, escalation_reason, escalation_sink>>
        /\ next_node' = IF escalation_reason # None THEN "escalate"
                                                    ELSE "coder"
  /\ UNCHANGED <<clarity, readiness, testing, review, sync, pr_created>>

Coder ==
  /\ Enter("coder")
  /\ status' = "active"
  /\ next_node' = "tester"
  /\ UNCHANGED <<paused_at_node, escalation_reason, escalation_sink, clarity,
                 readiness, testing, review, sync, pr_created>>

\* Mutant: a request that skips its required tests is not a failure.
SkippedTestsPass ==
  \/ execution.missing_required_tests
  \/ test_retry_count < execution.test_failures_before_pass
  \/ required_test_targets = 0

TestsFail ==
  \/ execution.missing_required_tests \/ execution.skip_required_tests
  \/ test_retry_count < execution.test_failures_before_pass
  \/ required_test_targets = 0

route_after_tester ==
  IF escalation_reason' # None THEN "escalate"
  ELSE IF tests_passed' THEN "reviewer" ELSE "coder"

Tester ==
  /\ Enter("tester")
  /\ \/ /\ TestsFail /\ test_retry_count >= planning.max_test_retries
        /\ Pause("tester", "missing_or_failing_required_tests")
        /\ UNCHANGED testing
     \/ /\ TestsFail /\ test_retry_count < planning.max_test_retries
        /\ test_retry_count' = test_retry_count + 1
        /\ tests_passed' = FALSE
        /\ UNCHANGED route
     \/ /\ ~TestsFail
        /\ tests_passed' = TRUE
        /\ UNCHANGED <<test_retry_count, route>>
  /\ next_node' = route_after_tester
  /\ UNCHANGED <<clarity, readiness, review, sync, pr_created>>

QualityFails == review_retry_count < execution.quality_failures_before_pass

\* Mutant: rejected code goes back to the tester, not to the coder.
RejectedCodeIsRetested ==
  IF escalation_reason' # None THEN "escalate"
  ELSE IF review_approved' THEN "pre_pr_sync" ELSE "tester"

\* Mutant: a rejected review replans, at a node the graph does not declare.
RejectedReviewReplans ==
  IF escalation_reason' # None THEN "escalate"
  ELSE IF review_approved' THEN "pre_pr_sync" ELSE "planner"

route_after_reviewer ==
  IF escalation_reason' # None THEN "escalate"
  ELSE IF review_approved' THEN "pre_pr_sync" ELSE "coder"

Reviewer ==
  /\ Enter("reviewer")
  /\ \/ /\ ~tests_passed \/ (/\ QualityFails
                             /\ review_retry_count
                                  >= planning.max_review_retries)
        /\ Pause("reviewer", IF tests_passed THEN "review_budget_exhausted"
                                             ELSE "invalid_route_attempt")
        /\ UNCHANGED review
     \/ /\ tests_passed /\ QualityFails
        /\ review_retry_count < planning.max_review_retries
        /\ review_retry_count' = review_retry_count + 1
        /\ review_approved' = FALSE /\ quality_checks_passed' = FALSE
        /\ UNCHANGED route
     \/ /\ tests_passed /\ ~QualityFails
        /\ review_approved' = TRUE /\ quality_checks_passed' = TRUE
        /\ UNCHANGED <<review_retry_count, route>>
  /\ next_node' = route_after_reviewer
  /\ UNCHANGED <<clarity, readiness, testing, sync, pr_created>>

\* verify(): passed unless GitHub reports a protection missing or the call
\* fails; the verdict is whatever the GitHub API answers at this moment.
PrePrSync ==
  /\ Enter("pre_pr_sync")
  /\ \/ /\ execution.diff_too_large
        /\ Pause("pre_pr_sync", "diff_too_large")
        /\ UNCHANGED sync
     \/ /\ ~execution.diff_too_large /\ execution.merge_conflict
        /\ Pause("pre_pr_sync", "merge_conflict_detected")
        /\ UNCHANGED sync
     \/ /\ ~execution.diff_too_large /\ ~execution.merge_conflict
        /\ \E passed \in BOOLEAN :
             IF ~passed /\ ~shadow_mode
             THEN /\ Pause("pre_pr_sync", "branch_protection_missing")
                  /\ UNCHANGED sync
             ELSE /\ branch_protection_passed' = (passed \/ shadow_mode)
                  /\ pre_pr_sync_passed' = TRUE
                  /\ UNCHANGED route
  /\ next_node' = IF escalation_reason' # None THEN "escalate"
                                               ELSE "pr_creator"
  /\ UNCHANGED <<clarity, readiness, testing, review, pr_created>>

PrCreatorGuard == /\ tests_passed /\ review_approved
                  /\ pre_pr_sync_passed /\ branch_protection_passed

PrCreator ==
  /\ Enter("pr_creator")
  /\ IF PrCreatorGuard
     THEN /\ pr_created' = TRUE
          /\ status' = "completed"
          /\ UNCHANGED <<paused_at_node, escalation_reason, escalation_sink>>
     ELSE /\ Pause("pr_creator", "invalid_route_attempt")
          /\ UNCHANGED pr_created
  /\ next_node' = IF pr_created' THEN "END" ELSE "escalate"
  /\ UNCHANGED <<clarity, readiness, testing, review, sync>>

\* The reason Escalate looks a sink up for.
RaisedReason == IF escalation_reason = None THEN "missing_escalation_sink"
                                            ELSE escalation_reason

Escalate ==
  /\ Enter("escalate")
  /\ status' = "paused"
  /\ paused_at_node' = IF escalation_reason = None /\ paused_at_node = None
                       THEN "escalate" ELSE paused_at_node
  /\ IF RaisedReason \in sinks
     THEN /\ escalation_reason' = RaisedReason
          /\ escalation_sink' = RaisedReason
     ELSE /\ escalation_reason' = "missing_escalation_sink"
          /\ escalation_sink' = None
  /\ next_node' = "END"
  /\ UNCHANGED <<clarity, readiness, testing, review, sync, pr_created>>

\* invoke() raises once the limit is used up and a node is still scheduled;
\* execute() does not catch it and nothing is saved.
GraphRecursionError ==
  /\ phase = "running" /\ next_node # "END"
  /\ Len(node_history) > RecursionLimit
  /\ phase' = "recursion_error"
  /\ UNCHANGED <<input, sinks, next_node, node_history, route, clarity,
                 readiness, testing, review, sync, pr_created, stored>>

Row == [status |-> status, current_node |-> node_history[Len(node_history)],
        paused_at_node |-> paused_at_node,
        escalation_reason |-> escalation_reason,
        escalation_sink |-> escalation_sink, pr_created |-> pr_created]

\* repository.save: one upsert transaction, which may fail.
Save ==
  /\ phase = "running" /\ next_node = "END"
  /\ \/ phase' = "saved" /\ stored' = Row
     \/ phase' = "save_failed" /\ UNCHANGED stored
  /\ UNCHANGED <<input, sinks, next_node, node_history, route, clarity,
                 readiness, testing, review, sync, pr_created>>

\* The worker process dies.  LangGraph may have checkpointed the supersteps
\* so far, but no code path invokes the graph for this thread again.
Killed ==
  /\ phase = "running"
  /\ phase' = "killed"
  /\ UNCHANGED <<input, sinks, next_node, node_history, route, clarity,
                 readiness, testing, review, sync, pr_created, stored>>

-----------------------------------------------------------------------------
(* resume(): clear_pause on the stored row; the graph is not invoked.      *)

\* Mutant: resume reopens a row whatever its status.
clear_pause_always(row) ==
  [row EXCEPT !.paused_at_node = None, !.escalation_reason = None,
              !.escalation_sink = None, !.status = "active"]

clear_pause(row) ==
  [row EXCEPT !.paused_at_node = None, !.escalation_reason = None,
              !.escalation_sink = None,
              !.status = IF row.status = "paused" THEN "active" ELSE @]

Resume ==
  /\ stored # None
  /\ stored' = clear_pause(stored)
  /\ UNCHANGED <<input, sinks, phase, next_node, node_history, route,
                 clarity, readiness, testing, review, sync, pr_created>>

-----------------------------------------------------------------------------
GraphStep ==
  \/ LoadConstitution \/ CreateFeatureSpec \/ Clarify \/ CreatePlan
  \/ CreateTaskList \/ ReadinessGate \/ Coder \/ Tester \/ Reviewer
  \/ PrePrSync \/ PrCreator \/ Escalate

Progress == Execute \/ GraphStep \/ GraphRecursionError \/ Save

Next == Progress \/ Killed \/ Resume

Spec == Init /\ [][Next]_vars

\* A live process keeps executing the call it is in.
FairSpec == Spec /\ WF_vars(Progress)

-----------------------------------------------------------------------------
(* Properties.                                                             *)

RowType ==
  [status: Statuses, current_node: Nodes, paused_at_node: Nodes \cup {None},
   escalation_reason: Reasons \cup {None},
   escalation_sink: Reasons \cup {None}, pr_created: BOOLEAN]

\* Type invariant: every field of TicketRunState stays in its declared type,
\* a task list is the planner's, and the next node is one the graph declares.
TypeOK ==
  /\ planning \in PlanningRequests /\ execution \in ExecutionRequests
  /\ sinks \subseteq Reasons /\ shadow_mode \in BOOLEAN
  /\ phase \in Phases
  /\ next_node \in (Nodes \ {"intake"}) \cup {"END"}
  /\ status \in Statuses
  /\ node_history \in Seq(Nodes) /\ Len(node_history) >= 1
  /\ paused_at_node \in Nodes \cup {None}
  /\ escalation_reason \in Reasons \cup {None}
  /\ escalation_sink \in Reasons \cup {None}
  /\ clarification_attempts \in Nat /\ clarification_complete \in BOOLEAN
  /\ task_list \in {None, TaskList(planning)}
  /\ spec_ready_for_implementation \in BOOLEAN
  /\ required_test_targets \in Nat
  /\ test_retry_count \in Nat /\ tests_passed \in BOOLEAN
  /\ review_retry_count \in Nat /\ quality_checks_passed \in BOOLEAN
  /\ review_approved \in BOOLEAN
  /\ pre_pr_sync_passed \in BOOLEAN /\ branch_protection_passed \in BOOLEAN
  /\ pr_created \in BOOLEAN
  /\ stored \in RowType \cup {None}

AtLeast(low, n) == IF n > low THEN n ELSE low

\* What a request can pass, said without the graph, its loops or counters.
ClarityWithinReach(p) ==
  \/ ~p.ambiguous
  \/ /\ p.clarification_resolution_attempt # None
     /\ p.clarification_resolution_attempt
          <= AtLeast(1, p.max_clarification_iterations)

SpecWritable(p) ==
  /\ ~p.force_missing_task_list /\ ~p.force_not_ready
  /\ p.implementation_tasks > 0 /\ p.design_checks > 0

TestsWithinReach(p, e) ==
  /\ ~e.missing_required_tests /\ ~e.skip_required_tests
  /\ e.test_failures_before_pass <= AtLeast(0, p.max_test_retries)

ReviewWithinReach(p, e) ==
  e.quality_failures_before_pass <= AtLeast(0, p.max_review_retries)

\* The first gate, in the documented order, that the request cannot pass.
Obstacle(p, e) ==
  CASE ~ClarityWithinReach(p) -> <<"clarify", "unresolved_ambiguity">>
    [] ClarityWithinReach(p) /\ ~SpecWritable(p) ->
         <<"readiness_gate", "invalid_route_attempt">>
    [] ClarityWithinReach(p) /\ SpecWritable(p) /\ ~TestsWithinReach(p, e) ->
         <<"tester", "missing_or_failing_required_tests">>
    [] /\ ClarityWithinReach(p) /\ SpecWritable(p)
       /\ TestsWithinReach(p, e) /\ ~ReviewWithinReach(p, e) ->
         <<"reviewer", "review_budget_exhausted">>
    [] OTHER -> IF e.diff_too_large THEN <<"pre_pr_sync", "diff_too_large">>
                ELSE <<"pre_pr_sync", "merge_conflict_detected">>

\* The coder produces a diff beyond the thresholds.
Oversized(p, e) == ClarityWithinReach(p) /\ SpecWritable(p) /\ e.diff_too_large

Clear(p, e) ==
  /\ ClarityWithinReach(p) /\ SpecWritable(p) /\ TestsWithinReach(p, e)
  /\ ReviewWithinReach(p, e) /\ ~e.diff_too_large /\ ~e.merge_conflict

\* No PR, and a pause whose reason is explicit and has its sink.
Escalated(reason) ==
  /\ ~pr_created /\ status = "paused"
  /\ escalation_reason = reason /\ escalation_sink = reason

\* When the graph reaches END, the run is decided as the request alone
\* decides it: escalated at the first gate it cannot pass, with that gate's
\* reason and sink; otherwise a PR, unless enforced branch protection is
\* missing.  An oversized diff is escalated too, with some reason and its
\* sink; at which gate is OversizedDiffIsNotReviewed's question.  Missing
\* branch protection has a sink only if the mapping in force names one.
\* In particular the defensive invalid_route_attempt branches of _reviewer
\* and _pr_creator are never taken, whatever the budgets.
OutcomeMatchesRequest ==
  next_node = "END" =>
    CASE Oversized(planning, execution) ->
           \E reason \in Reasons : Escalated(reason)
      [] ~Oversized(planning, execution) /\ ~Clear(planning, execution) ->
           /\ paused_at_node = Obstacle(planning, execution)[1]
           /\ Escalated(Obstacle(planning, execution)[2])
      [] Clear(planning, execution) ->
           \/ pr_created /\ status = "completed" /\ escalation_reason = None
           \/ /\ ~shadow_mode /\ ~pr_created /\ status = "paused"
              /\ paused_at_node = "pre_pr_sync"
              /\ "branch_protection_missing" \in sinks =>
                   Escalated("branch_protection_missing")

\* "Oversized diff escalates instead of flowing through review": a run whose
\* diff exceeds the thresholds is never approved by the reviewer.
OversizedDiffIsNotReviewed == execution.diff_too_large => ~review_approved

SuccessPath == <<"coder", "tester", "reviewer", "pre_pr_sync", "pr_creator">>

\* A PR exists only at the end of an unbroken coder, tester, reviewer,
\* pre-PR sync, PR creator sequence, and no coder ran before the readiness
\* gate (Protected Success Path).
ProtectedSuccessPath ==
  pr_created =>
    /\ SubSeq(node_history, Len(node_history) - 4, Len(node_history))
         = SuccessPath
    /\ \A i \in 1..Len(node_history) : node_history[i] = "coder" =>
         \E j \in 1..(i - 1) : node_history[j] = "readiness_gate"

\* Supersteps the retry budgets of a planning request can make the graph take.
SuperstepBound(p) ==
  10 + AtLeast(1, p.max_clarification_iterations)
     + 2 * AtLeast(0, p.max_test_retries)
     + 3 * AtLeast(0, p.max_review_retries)

\* Retries are bounded: no run visits more nodes than its budgets pay for,
\* and langgraph's recursion limit stops a run only if it is below that.
RetriesAreBounded ==
  /\ Len(node_history) - 1 <= SuperstepBound(planning)
  /\ phase = "recursion_error" => RecursionLimit < SuperstepBound(planning)

\* The first row written is terminal, and completed exactly when a PR was
\* created; afterwards a resume may only reopen a paused row: it never
\* reopens a completed one and a row never becomes paused again.
StoredRowIsTerminal ==
  [][/\ stored = None /\ stored' # None =>
          /\ stored'.status \in {"completed", "paused"}
          /\ stored'.status = "completed" <=> stored'.pr_created
          /\ stored'.status = "paused" => stored'.escalation_reason # None
     /\ stored # None =>
          /\ stored'.status = "completed" <=> stored.status = "completed"
          /\ stored'.status = "paused" => stored' = stored]_stored

\* A posted request whose retry budgets fit the recursion limit is answered:
\* rejected for its sinks, or run to END and saved, unless the process dies
\* or the database refuses the save.
RunReachesRepository ==
  (phase = "requested" /\ RecursionLimit >= SuperstepBound(planning))
    ~> (phase \in {"rejected", "saved", "save_failed", "killed"})

\* "another worker resumes the run from the latest persisted checkpoint": a
\* run whose process was killed still reaches the repository.
KilledRunIsResumed == (phase = "killed") ~> (stored # None)
=============================================================================
