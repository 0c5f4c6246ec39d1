------------------------ MODULE TicketWorkflowProofs ------------------------
(* Proofs about TicketWorkflow, for every set of requests and every        *)
(* recursion limit.                                                        *)
EXTENDS TicketWorkflow, TLAPS, SequenceTheorems

LEMMA TaskListE2E ==
  ASSUME NEW p \in PlanningRequest
  PROVE  TaskList(p).e2e_targets \in Nat
  BY DEF TaskList, PlanningRequest

\* What a node action leaves alone or appends, used by every step below.
LEMMA EnterType ==
  ASSUME TypeOK, NEW n \in Nodes, Enter(n)
  PROVE  /\ planning' \in PlanningRequests
         /\ execution' \in ExecutionRequests
         /\ sinks' \subseteq Reasons /\ shadow_mode' \in BOOLEAN
         /\ phase' \in Phases /\ stored' \in RowType \cup {None}
         /\ node_history' \in Seq(Nodes)
         /\ Len(node_history') = Len(node_history) + 1
         /\ Len(node_history') >= 1
         /\ planning' = planning
  BY DEF TypeOK, Enter, input

LEMMA RowIsTyped == TypeOK => Row \in RowType
  BY DEF TypeOK, Row, RowType

LEMMA ClearPauseIsTyped ==
  ASSUME NEW r \in RowType PROVE clear_pause(r) \in RowType
  BY DEF RowType, clear_pause, Statuses

\* Every step of the run keeps every field in its type.
LEMMA TypeStep ==
  ASSUME TypeOK, [Next]_vars PROVE TypeOK'
<1>1. CASE Execute
  BY <1>1, WorkflowAssumption
  DEF Execute, TypeOK, EffectiveSinks, default_escalation_sinks, Phases,
      input, route, clarity, readiness, testing, review, sync
<1>2. CASE LoadConstitution
  BY <1>2, EnterType
  DEF LoadConstitution, TypeOK, Nodes, route, clarity, readiness, testing,
      review, sync
<1>3. CASE CreateFeatureSpec
  BY <1>3, EnterType
  DEF CreateFeatureSpec, TypeOK, Nodes, route, clarity, readiness, testing,
      review, sync
<1>4. CASE Clarify
  <2> USE <1>4
  <2>1. Enter("clarify")
    BY DEF Clarify
  <2>2. next_node' \in Nodes \ {"intake"}
    BY DEF Clarify, Nodes, route_after_clarification
  <2>3. /\ status' \in Statuses /\ escalation_sink' \in Reasons \cup {None}
        /\ paused_at_node' \in Nodes \cup {None}
        /\ escalation_reason' \in Reasons \cup {None}
    BY DEF Clarify, TypeOK, Pause, route, Nodes, Reasons
  <2>4. /\ clarification_attempts' \in Nat
        /\ clarification_complete' \in BOOLEAN
    <3>1. clarification_attempts' \in {clarification_attempts, clarification_attempts + 1}
      BY DEF Clarify
    <3>2. clarification_attempts' \in Nat
      BY <3>1 DEF TypeOK
    <3>3. clarification_complete' \in BOOLEAN
      BY DEF Clarify
    <3> QED BY <3>2, <3>3
  <2>5. UNCHANGED <<readiness, testing, review, sync, pr_created>>
    BY DEF Clarify
  <2> HIDE <1>4
  <2> QED
    BY <2>1, <2>2, <2>3, <2>4, <2>5, EnterType
    DEF TypeOK, Nodes, clarity, readiness, testing, review, sync
<1>5. CASE CreatePlan
  BY <1>5, EnterType
  DEF CreatePlan, TypeOK, Nodes, route, clarity, readiness, testing,
      review, sync
<1>6. CASE CreateTaskList
  <2>1. planning.implementation_tasks \in Nat
    BY WorkflowAssumption DEF TypeOK, PlanningRequest
  <2>2. TaskList(planning).e2e_targets \in Nat
    BY TaskListE2E, WorkflowAssumption DEF TypeOK
  <2>3. required_test_targets' \in Nat
    <3>1. \/ required_test_targets' = required_test_targets
          \/ required_test_targets' =
               planning.implementation_tasks + TaskList(planning).e2e_targets
      BY <1>6 DEF CreateTaskList
    <3> QED BY <3>1, <2>1, <2>2 DEF TypeOK
  <2>4. task_list' \in {None, TaskList(planning)}
    BY <1>6 DEF CreateTaskList
  <2>5. spec_ready_for_implementation' \in BOOLEAN
    BY <1>6 DEF CreateTaskList
  <2> QED
    BY <1>6, <2>3, <2>4, <2>5, EnterType
    DEF CreateTaskList, TypeOK, Nodes, route, clarity, testing, review, sync
<1>7. CASE ReadinessGate
  BY <1>7, EnterType
  DEF ReadinessGate, TypeOK, Nodes, Reasons, Statuses, Pause, clarity,
      readiness, testing, review, sync
<1>8. CASE Coder
  BY <1>8, EnterType
  DEF Coder, TypeOK, Nodes, Statuses, clarity, readiness, testing, review,
      sync
<1>9. CASE Tester
  <2> USE <1>9
  <2>1. Enter("tester")
    BY DEF Tester
  <2>2. next_node' \in Nodes \ {"intake"}
    BY DEF Tester, Nodes, route_after_tester
  <2>3. /\ status' \in Statuses /\ escalation_sink' \in Reasons \cup {None}
        /\ paused_at_node' \in Nodes \cup {None}
        /\ escalation_reason' \in Reasons \cup {None}
    BY DEF Tester, TypeOK, Pause, route, Nodes, Reasons
  <2>4. /\ test_retry_count' \in Nat
        /\ tests_passed' \in BOOLEAN
    <3>1. test_retry_count' \in {test_retry_count, test_retry_count + 1}
      BY DEF Tester, testing
    <3>2. test_retry_count' \in Nat
      BY <3>1 DEF TypeOK
    <3>3. tests_passed' \in BOOLEAN
      BY DEF Tester, testing, TypeOK
    <3> QED BY <3>2, <3>3
  <2>5. UNCHANGED <<clarity, readiness, review, sync, pr_created>>
    BY DEF Tester
  <2> HIDE <1>9
  <2> QED
    BY <2>1, <2>2, <2>3, <2>4, <2>5, EnterType
    DEF TypeOK, Nodes, clarity, readiness, testing, review, sync
<1>10. CASE Reviewer
  <2> USE <1>10
  <2>1. Enter("reviewer")
    BY DEF Reviewer
  <2>2. next_node' \in Nodes \ {"intake"}
    BY DEF Reviewer, Nodes, route_after_reviewer
  <2>3. /\ status' \in Statuses /\ escalation_sink' \in Reasons \cup {None}
        /\ paused_at_node' \in Nodes \cup {None}
        /\ escalation_reason' \in Reasons \cup {None}
    BY DEF Reviewer, TypeOK, Pause, route, Nodes, Reasons
  <2>4. /\ review_retry_count' \in Nat
        /\ quality_checks_passed' \in BOOLEAN /\ review_approved' \in BOOLEAN
    <3>1. review_retry_count' \in {review_retry_count, review_retry_count + 1}
      BY DEF Reviewer, review
    <3>2. review_retry_count' \in Nat
      BY <3>1 DEF TypeOK
    <3>3. quality_checks_passed' \in BOOLEAN /\ review_approved' \in BOOLEAN
      BY DEF Reviewer, review, TypeOK
    <3> QED BY <3>2, <3>3
  <2>5. UNCHANGED <<clarity, readiness, testing, sync, pr_created>>
    BY DEF Reviewer
  <2> HIDE <1>10
  <2> QED
    BY <2>1, <2>2, <2>3, <2>4, <2>5, EnterType
    DEF TypeOK, Nodes, clarity, readiness, testing, review, sync
<1>11. CASE PrePrSync
  <2> USE <1>11
  <2>1. Enter("pre_pr_sync")
    BY DEF PrePrSync
  <2>2. next_node' \in Nodes \ {"intake"}
    BY DEF PrePrSync, Nodes
  <2>3. /\ status' \in Statuses /\ escalation_sink' \in Reasons \cup {None}
        /\ paused_at_node' \in Nodes \cup {None}
        /\ escalation_reason' \in Reasons \cup {None}
    BY DEF PrePrSync, TypeOK, Pause, route, Nodes, Reasons
  <2>4. /\ pre_pr_sync_passed' \in BOOLEAN
        /\ branch_protection_passed' \in BOOLEAN
    BY DEF PrePrSync, TypeOK, sync
  <2>5. UNCHANGED <<clarity, readiness, testing, review, pr_created>>
    BY DEF PrePrSync
  <2> HIDE <1>11
  <2> QED
    BY <2>1, <2>2, <2>3, <2>4, <2>5, EnterType
    DEF TypeOK, Nodes, clarity, readiness, testing, review, sync
<1>12. CASE PrCreator
  <2>1. CASE PrCreatorGuard
    BY <1>12, <2>1, EnterType
    DEF PrCreator, TypeOK, Nodes, Statuses, clarity, readiness, testing,
        review, sync
  <2>2. CASE ~PrCreatorGuard
    BY <1>12, <2>2, EnterType
    DEF PrCreator, TypeOK, Nodes, Reasons, Pause, clarity, readiness,
        testing, review, sync
  <2> QED BY <2>1, <2>2
<1>13. CASE Escalate
  BY <1>13, EnterType
  DEF Escalate, TypeOK, Nodes, Reasons, Statuses, RaisedReason, clarity,
      readiness, testing, review, sync
<1>14. CASE GraphRecursionError
  BY <1>14
  DEF GraphRecursionError, TypeOK, Phases, input, route, clarity, readiness,
      testing, review, sync
<1>15. CASE Save
  BY <1>15, RowIsTyped
  DEF Save, TypeOK, Phases, input, route, clarity, readiness, testing,
      review, sync
<1>16. CASE Killed
  BY <1>16
  DEF Killed, TypeOK, Phases, input, route, clarity, readiness, testing,
      review, sync
<1>17. CASE Resume
  BY <1>17, ClearPauseIsTyped
  DEF Resume, TypeOK, input, route, clarity, readiness, testing, review,
      sync
<1>18. CASE UNCHANGED vars
  BY <1>18
  DEF vars, TypeOK, input, route, clarity, readiness, testing, review, sync
<1> QED
  BY <1>1, <1>2, <1>3, <1>4, <1>5, <1>6, <1>7, <1>8, <1>9, <1>10, <1>11,
     <1>12, <1>13, <1>14, <1>15, <1>16, <1>17, <1>18
  DEF Next, Progress, GraphStep

LEMMA InitType == ASSUME Init PROVE TypeOK
<1>1. /\ planning \in PlanningRequests /\ execution \in ExecutionRequests
      /\ sinks \subseteq Reasons
  BY WorkflowAssumption DEF Init
<1>2. node_history \in Seq(Nodes) /\ Len(node_history) >= 1
  BY DEF Init, Nodes
<1> QED
  BY <1>1, <1>2 DEF Init, TypeOK, Phases, Nodes, Statuses

\* Type correctness of a run, for every request (TicketRunState's fields).
THEOREM TypeCorrect == Spec => []TypeOK
  BY InitType, TypeStep, PTL DEF Spec

-----------------------------------------------------------------------------
(* The inductive invariant behind the outcome and the retry bound.  It     *)
(* says what is known at the moment a node is scheduled.                   *)

AfterClarify == {"create_plan", "create_task_list", "readiness_gate"}
AfterGate == {"coder", "tester", "reviewer", "pre_pr_sync", "pr_creator"}
AfterTests == {"reviewer", "pre_pr_sync", "pr_creator"}
AfterReview == {"pre_pr_sync", "pr_creator"}

\* No retry counter has outgrown its budget; another clarification pass is
\* scheduled only while one is left.
WithinBudgets ==
  /\ test_retry_count <= AtLeast(0, planning.max_test_retries)
  /\ review_retry_count <= AtLeast(0, planning.max_review_retries)
  /\ clarification_attempts
       <= AtLeast(1, planning.max_clarification_iterations)
  /\ next_node \in {"load_constitution", "create_feature_spec", "clarify"} =>
       /\ ~clarification_complete
       /\ clarification_attempts
            < AtLeast(1, planning.max_clarification_iterations)

\* The gates passed on the way to the scheduled node.
GatesPassed ==
  /\ next_node \in AfterClarify \cup AfterGate => ClarityWithinReach(planning)
  /\ next_node = "readiness_gate" =>
       /\ (task_list # None /\ spec_ready_for_implementation)
            <=> SpecWritable(planning)
       /\ SpecWritable(planning) => required_test_targets > 0
  /\ next_node \in AfterGate =>
       SpecWritable(planning) /\ required_test_targets > 0
  /\ next_node \in AfterTests =>
       tests_passed /\ TestsWithinReach(planning, execution)
  /\ next_node \in AfterReview =>
       review_approved /\ ReviewWithinReach(planning, execution)
  /\ next_node = "pr_creator" =>
       /\ pre_pr_sync_passed /\ branch_protection_passed
       /\ ~execution.diff_too_large /\ ~execution.merge_conflict

\* The pause a run is on its way to escalate with is the expected one.
Raised ==
  /\ ~pr_created
  /\ IF ~Clear(planning, execution)
     THEN /\ paused_at_node = Obstacle(planning, execution)[1]
          /\ escalation_reason = Obstacle(planning, execution)[2]
     ELSE /\ ~shadow_mode
          /\ paused_at_node = "pre_pr_sync"
          /\ escalation_reason = "branch_protection_missing"

PausedFor(node, reason) ==
  /\ ~pr_created /\ status = "paused" /\ paused_at_node = node
  /\ escalation_reason = IF reason \in sinks THEN reason
                                             ELSE "missing_escalation_sink"
  /\ escalation_sink = IF reason \in sinks THEN reason ELSE None

\* What the code does at END, the order of its gates included.
ExactOutcome ==
  next_node = "END" =>
    IF ~Clear(planning, execution)
    THEN PausedFor(Obstacle(planning, execution)[1],
                   Obstacle(planning, execution)[2])
    ELSE \/ pr_created /\ status = "completed" /\ escalation_reason = None
         \/ ~shadow_mode /\ PausedFor("pre_pr_sync",
                                      "branch_protection_missing")

Decided ==
  /\ phase = "requested" => next_node = "load_constitution"
  /\ next_node \notin {"escalate", "END"} =>
       /\ escalation_reason = None
       /\ ~pr_created
  /\ next_node = "escalate" => Raised
  /\ ExactOutcome

Inv == TypeOK /\ WithinBudgets /\ GatesPassed /\ Decided
-----------------------------------------------------------------------------
\* The request never changes during a run.
LEMMA RequestFixed ==
  [Next]_vars => planning' = planning /\ execution' = execution
                 /\ shadow_mode' = shadow_mode
  BY DEF Next, Progress, GraphStep, Execute, LoadConstitution,
     CreateFeatureSpec, Clarify, CreatePlan, CreateTaskList, ReadinessGate,
     Coder, Tester, Reviewer, PrePrSync, PrCreator, Escalate, Enter,
     GraphRecursionError, Save, Killed, Resume, input, vars

LEMMA BudgetTypes ==
  TypeOK => /\ planning.max_test_retries \in Int
            /\ planning.max_review_retries \in Int
            /\ planning.max_clarification_iterations \in Int
            /\ test_retry_count \in Nat /\ review_retry_count \in Nat
            /\ clarification_attempts \in Nat
  BY WorkflowAssumption DEF TypeOK, PlanningRequest

\* Steps that touch neither the counters nor the scheduled node.
Aside == Execute \/ GraphRecursionError \/ Save \/ Killed \/ Resume

LEMMA AsideFrame ==
  Aside => UNCHANGED <<next_node, node_history, route, clarity, readiness,
                       testing, review, sync, pr_created>>
  BY DEF Aside, Execute, GraphRecursionError, Save, Killed, Resume

LEMMA BudgetStep ==
  ASSUME TypeOK, WithinBudgets, [Next]_vars PROVE WithinBudgets'
<1> USE RequestFixed
<1>1. CASE Clarify
  <2>1. /\ next_node = "clarify"
        /\ UNCHANGED <<testing, review>>
        /\ clarification_attempts'
             \in {clarification_attempts, clarification_attempts + 1}
    BY <1>1 DEF Clarify, Enter
  <2>2. clarification_attempts'
          <= AtLeast(1, planning.max_clarification_iterations)
    BY <2>1, BudgetTypes DEF WithinBudgets, AtLeast
  <2>3. next_node' \notin {"load_constitution", "create_feature_spec"}
    BY <1>1 DEF Clarify, route_after_clarification
  <2>4. ASSUME next_node' = "clarify"
        PROVE  /\ ~clarification_complete'
               /\ clarification_attempts'
                    < AtLeast(1, planning.max_clarification_iterations)
    <3>1. escalation_reason' = None /\ ~clarification_complete'
      BY <1>1, <2>4 DEF Clarify, route_after_clarification
    <3>2. planning.ambiguous
      BY <1>1, <3>1 DEF Clarify
    <3>3. /\ ~ClarificationResolved(clarification_attempts + 1)
          /\ clarification_attempts' = clarification_attempts + 1
      BY <1>1, <3>1, <3>2 DEF Clarify
    <3>4. ~(clarification_attempts + 1
              >= planning.max_clarification_iterations)
      BY <1>1, <3>1, <3>2, <3>3, WorkflowAssumption
      DEF Clarify, Pause, Reasons
    <3> QED BY <3>1, <3>3, <3>4, BudgetTypes DEF AtLeast
  <2> QED
    BY <2>1, <2>2, <2>3, <2>4 DEF WithinBudgets, testing, review
<1>2. CASE Tester
  <2>1. /\ UNCHANGED <<clarity, review>>
        /\ \/ test_retry_count' = test_retry_count
           \/ /\ test_retry_count < planning.max_test_retries
              /\ test_retry_count' = test_retry_count + 1
        /\ next_node' \in {"escalate", "reviewer", "coder"}
    BY <1>2 DEF Tester, testing, route_after_tester
  <2>2. test_retry_count' <= AtLeast(0, planning.max_test_retries)
    BY <2>1, BudgetTypes DEF WithinBudgets, AtLeast
  <2> QED
    BY <2>1, <2>2 DEF WithinBudgets, clarity, review
<1>3. CASE Reviewer
  <2>1. /\ UNCHANGED <<clarity, testing>>
        /\ \/ review_retry_count' = review_retry_count
           \/ /\ review_retry_count < planning.max_review_retries
              /\ review_retry_count' = review_retry_count + 1
        /\ next_node' \in {"escalate", "pre_pr_sync", "coder"}
    BY <1>3 DEF Reviewer, review, route_after_reviewer
  <2>2. review_retry_count' <= AtLeast(0, planning.max_review_retries)
    BY <2>1, BudgetTypes DEF WithinBudgets, AtLeast
  <2> QED
    BY <2>1, <2>2 DEF WithinBudgets, clarity, testing
<1>4. CASE \/ LoadConstitution \/ CreateFeatureSpec \/ CreatePlan
           \/ CreateTaskList \/ ReadinessGate \/ Coder \/ PrePrSync
           \/ PrCreator \/ Escalate
  <2>1. /\ UNCHANGED <<clarity, testing, review>>
        /\ \/ next_node \in {"load_constitution", "create_feature_spec"}
           \/ next_node' \notin {"load_constitution", "create_feature_spec",
                                 "clarify"}
    BY <1>4 DEF LoadConstitution, CreateFeatureSpec, CreatePlan,
       CreateTaskList, ReadinessGate, Coder, PrePrSync, PrCreator, Escalate,
       Enter
  <2> QED BY <2>1 DEF WithinBudgets, clarity, testing, review
<1>5. CASE Aside \/ UNCHANGED vars
  BY <1>5, AsideFrame DEF WithinBudgets, vars, clarity, testing, review
<1> QED
  BY <1>1, <1>2, <1>3, <1>4, <1>5 DEF Next, Progress, GraphStep, Aside
-----------------------------------------------------------------------------
(* How each deciding node leaves: one lemma per node.                      *)

LEMMA RequestTypes ==
  TypeOK =>
    /\ planning.clarification_resolution_attempt \in Int \cup {None}
    /\ planning.implementation_tasks \in Nat /\ planning.design_checks \in Nat
    /\ planning.force_missing_task_list \in BOOLEAN
    /\ planning.force_not_ready \in BOOLEAN
    /\ planning.public_surface_change \in BOOLEAN
    /\ execution.test_failures_before_pass \in Int
    /\ execution.quality_failures_before_pass \in Int
  BY WorkflowAssumption DEF TypeOK, PlanningRequest, ExecutionRequest

LEMMA ReasonIsSome == \A r \in Reasons : r # None
  BY WorkflowAssumption

\* A generated task list passes validation exactly when the request names an
\* implementation task and a quality check: pairing and end-to-end coverage
\* are there by construction.
LEMMA ValidTaskList ==
  ASSUME TypeOK
  PROVE  validate_for_repo_write(TaskList(planning))
           <=> planning.implementation_tasks > 0 /\ planning.design_checks > 0
  BY RequestTypes DEF validate_for_repo_write, TaskList

LEMMA ClarifyLeaves ==
  ASSUME TypeOK, WithinBudgets, Clarify, escalation_reason = None
  PROVE  \/ /\ next_node' = "escalate"
            /\ ~ClarityWithinReach(planning)
            /\ paused_at_node' = "clarify"
            /\ escalation_reason' = "unresolved_ambiguity"
         \/ /\ next_node' = "clarify"
            /\ escalation_reason' = None
         \/ /\ next_node' = "create_plan"
            /\ escalation_reason' = None
            /\ ClarityWithinReach(planning)
<1>0. /\ next_node = "clarify"
      /\ ~clarification_complete
      /\ clarification_attempts
            < AtLeast(1, planning.max_clarification_iterations)
  BY DEF Clarify, Enter, WithinBudgets
<1>1. CASE ~planning.ambiguous
  <2>1. next_node' = "create_plan" /\ escalation_reason' = None
    BY <1>1 DEF Clarify, route_after_clarification, route
  <2> QED BY <1>1, <2>1 DEF ClarityWithinReach
<1>2. CASE /\ planning.ambiguous
           /\ ClarificationResolved(clarification_attempts + 1)
  <2>1. next_node' = "create_plan" /\ escalation_reason' = None
    BY <1>2 DEF Clarify, route_after_clarification, route
  <2>2. ClarityWithinReach(planning)
    BY <1>0, <1>2, RequestTypes, BudgetTypes
    DEF ClarityWithinReach, ClarificationResolved, AtLeast
  <2> QED BY <2>1, <2>2
<1>3. CASE /\ planning.ambiguous
           /\ ~ClarificationResolved(clarification_attempts + 1)
           /\ clarification_attempts + 1
                >= planning.max_clarification_iterations
  <2>1. /\ paused_at_node' = "clarify"
        /\ escalation_reason' = "unresolved_ambiguity"
    BY <1>3 DEF Clarify, Pause
  <2>2. next_node' = "escalate"
    BY <2>1, ReasonIsSome DEF Clarify, route_after_clarification, Reasons
  <2>3. ~ClarityWithinReach(planning)
    BY <1>0, <1>3, RequestTypes, BudgetTypes
    DEF ClarityWithinReach, ClarificationResolved, AtLeast
  <2> QED BY <2>1, <2>2, <2>3
<1>4. CASE /\ planning.ambiguous
           /\ ~ClarificationResolved(clarification_attempts + 1)
           /\ ~(clarification_attempts + 1
                  >= planning.max_clarification_iterations)
  <2>1. escalation_reason' = None
    BY <1>4 DEF Clarify, route
  <2>2. ~clarification_complete'
    BY <1>0, <1>4 DEF Clarify
  <2>3. next_node' = "clarify"
    BY <2>1, <2>2 DEF Clarify, route_after_clarification
  <2> QED BY <2>1, <2>3
<1> QED BY <1>1, <1>2, <1>3, <1>4

LEMMA TesterLeaves ==
  ASSUME TypeOK, WithinBudgets, Tester, escalation_reason = None,
         required_test_targets > 0
  PROVE  \/ /\ next_node' = "escalate"
            /\ ~TestsWithinReach(planning, execution)
            /\ paused_at_node' = "tester"
            /\ escalation_reason' = "missing_or_failing_required_tests"
         \/ /\ next_node' = "coder"
            /\ escalation_reason' = None
         \/ /\ next_node' = "reviewer"
            /\ escalation_reason' = None
            /\ tests_passed'
            /\ TestsWithinReach(planning, execution)
<1>1. CASE TestsFail /\ test_retry_count >= planning.max_test_retries
  <2>1. /\ paused_at_node' = "tester"
        /\ escalation_reason' = "missing_or_failing_required_tests"
    BY <1>1, BudgetTypes DEF Tester, Pause
  <2>2. next_node' = "escalate"
    BY <2>1, ReasonIsSome DEF Tester, route_after_tester, Reasons
  <2>3. ~TestsWithinReach(planning, execution)
    BY <1>1, RequestTypes, BudgetTypes DEF TestsWithinReach, TestsFail, AtLeast
  <2> QED BY <2>1, <2>2, <2>3
<1>2. CASE TestsFail /\ test_retry_count < planning.max_test_retries
  <2>1. escalation_reason' = None /\ tests_passed' = FALSE
    BY <1>2, BudgetTypes DEF Tester, route
  <2> QED BY <2>1 DEF Tester, route_after_tester
<1>3. CASE ~TestsFail
  <2>1. escalation_reason' = None /\ tests_passed' = TRUE
    BY <1>3 DEF Tester, route
  <2>2. next_node' = "reviewer"
    BY <2>1 DEF Tester, route_after_tester
  <2>3. TestsWithinReach(planning, execution)
    BY <1>3, RequestTypes, BudgetTypes
    DEF TestsWithinReach, TestsFail, WithinBudgets, AtLeast
  <2> QED BY <2>1, <2>2, <2>3
<1> QED BY <1>1, <1>2, <1>3, BudgetTypes

LEMMA ReviewerLeaves ==
  ASSUME TypeOK, WithinBudgets, Reviewer, escalation_reason = None,
         tests_passed
  PROVE  \/ /\ next_node' = "escalate"
            /\ ~ReviewWithinReach(planning, execution)
            /\ paused_at_node' = "reviewer"
            /\ escalation_reason' = "review_budget_exhausted"
         \/ /\ next_node' = "coder"
            /\ escalation_reason' = None
         \/ /\ next_node' = "pre_pr_sync"
            /\ escalation_reason' = None
            /\ review_approved'
            /\ ReviewWithinReach(planning, execution)
<1>1. CASE QualityFails /\ review_retry_count >= planning.max_review_retries
  <2>1. /\ paused_at_node' = "reviewer"
        /\ escalation_reason' = "review_budget_exhausted"
    BY <1>1, BudgetTypes DEF Reviewer, Pause
  <2>2. next_node' = "escalate"
    BY <2>1, ReasonIsSome DEF Reviewer, route_after_reviewer, Reasons
  <2>3. ~ReviewWithinReach(planning, execution)
    BY <1>1, RequestTypes, BudgetTypes
    DEF ReviewWithinReach, QualityFails, AtLeast
  <2> QED BY <2>1, <2>2, <2>3
<1>2. CASE QualityFails /\ review_retry_count < planning.max_review_retries
  <2>1. escalation_reason' = None /\ review_approved' = FALSE
    BY <1>2, BudgetTypes DEF Reviewer, route
  <2> QED BY <2>1 DEF Reviewer, route_after_reviewer
<1>3. CASE ~QualityFails
  <2>1. escalation_reason' = None /\ review_approved' = TRUE
    BY <1>3 DEF Reviewer, route
  <2>2. next_node' = "pre_pr_sync"
    BY <2>1 DEF Reviewer, route_after_reviewer
  <2>3. ReviewWithinReach(planning, execution)
    BY <1>3, RequestTypes, BudgetTypes
    DEF ReviewWithinReach, QualityFails, WithinBudgets, AtLeast
  <2> QED BY <2>1, <2>2, <2>3
<1> QED BY <1>1, <1>2, <1>3, BudgetTypes

LEMMA PrePrSyncLeaves ==
  ASSUME TypeOK, PrePrSync, escalation_reason = None
  PROVE  \/ /\ next_node' = "escalate"
            /\ paused_at_node' = "pre_pr_sync"
            /\ \/ /\ execution.diff_too_large
                  /\ escalation_reason' = "diff_too_large"
               \/ /\ ~execution.diff_too_large /\ execution.merge_conflict
                  /\ escalation_reason' = "merge_conflict_detected"
               \/ /\ ~execution.diff_too_large /\ ~execution.merge_conflict
                  /\ ~shadow_mode
                  /\ escalation_reason' = "branch_protection_missing"
         \/ /\ next_node' = "pr_creator"
            /\ escalation_reason' = None
            /\ pre_pr_sync_passed' /\ branch_protection_passed'
            /\ ~execution.diff_too_large /\ ~execution.merge_conflict
  BY ReasonIsSome DEF PrePrSync, Pause, route, Reasons, TypeOK
-----------------------------------------------------------------------------
(* Which obstacle the request meets first, gate by gate.                   *)

LEMMA ClarityObstacle ==
  ASSUME NEW p, NEW e, ~ClarityWithinReach(p)
  PROVE  /\ ~Clear(p, e)
         /\ Obstacle(p, e) = <<"clarify", "unresolved_ambiguity">>
  BY DEF Obstacle, Clear

LEMMA ReadinessObstacle ==
  ASSUME NEW p, NEW e, ClarityWithinReach(p), ~SpecWritable(p)
  PROVE  /\ ~Clear(p, e)
         /\ Obstacle(p, e) = <<"readiness_gate", "invalid_route_attempt">>
  BY DEF Obstacle, Clear

LEMMA TestObstacle ==
  ASSUME NEW p, NEW e, ClarityWithinReach(p), SpecWritable(p),
         ~TestsWithinReach(p, e)
  PROVE  /\ ~Clear(p, e)
         /\ Obstacle(p, e) = <<"tester", "missing_or_failing_required_tests">>
  BY DEF Obstacle, Clear

LEMMA ReviewObstacle ==
  ASSUME NEW p, NEW e, ClarityWithinReach(p), SpecWritable(p),
         TestsWithinReach(p, e), ~ReviewWithinReach(p, e)
  PROVE  /\ ~Clear(p, e)
         /\ Obstacle(p, e) = <<"reviewer", "review_budget_exhausted">>
  BY DEF Obstacle, Clear

LEMMA SyncObstacle ==
  ASSUME NEW p, NEW e, ClarityWithinReach(p), SpecWritable(p),
         TestsWithinReach(p, e), ReviewWithinReach(p, e)
  PROVE  /\ e.diff_too_large =>
              /\ ~Clear(p, e)
              /\ Obstacle(p, e) = <<"pre_pr_sync", "diff_too_large">>
         /\ ~e.diff_too_large /\ e.merge_conflict =>
              /\ ~Clear(p, e)
              /\ Obstacle(p, e) = <<"pre_pr_sync", "merge_conflict_detected">>
         /\ ~e.diff_too_large /\ ~e.merge_conflict => Clear(p, e)
  BY DEF Obstacle, Clear

\* A pause that names the obstacle of an unchanged request is the right one.
LEMMA RaisedByObstacle ==
  ASSUME planning' = planning, execution' = execution, ~pr_created',
         ~Clear(planning, execution),
         Obstacle(planning, execution) = <<paused_at_node', escalation_reason'>>
  PROVE  Raised'
  BY DEF Raised

LEMMA GatesStep ==
  ASSUME Inv, [Next]_vars PROVE GatesPassed'
<1> USE RequestFixed DEF Inv
<1>1. CASE LoadConstitution \/ CreateFeatureSpec
  BY <1>1 DEF LoadConstitution, CreateFeatureSpec, GatesPassed, AfterClarify,
     AfterGate, AfterTests, AfterReview
<1>2. CASE Clarify
  <2>1. escalation_reason = None
    BY <1>2 DEF Clarify, Enter, Decided
  <2>2. \/ next_node' \in {"escalate", "clarify"}
        \/ next_node' = "create_plan" /\ ClarityWithinReach(planning)
    BY <1>2, <2>1, ClarifyLeaves
  <2> QED
    BY <2>2 DEF GatesPassed, AfterClarify, AfterGate, AfterTests, AfterReview
<1>3. CASE CreatePlan
  BY <1>3 DEF CreatePlan, Enter, GatesPassed, AfterClarify, AfterGate,
     AfterTests, AfterReview
<1>4. CASE CreateTaskList
  <2>1. next_node' = "readiness_gate" /\ ClarityWithinReach(planning)
    BY <1>4 DEF CreateTaskList, Enter, GatesPassed, AfterClarify
  <2>2. CASE planning.force_missing_task_list
    <3>1. task_list' = None
      BY <1>4, <2>2 DEF CreateTaskList
    <3>2. ~SpecWritable(planning)
      BY <2>2 DEF SpecWritable
    <3> QED
      BY <2>1, <3>1, <3>2
      DEF GatesPassed, AfterClarify, AfterGate, AfterTests, AfterReview
  <2>3. CASE ~planning.force_missing_task_list
    <3>1. /\ task_list' = TaskList(planning)
          /\ spec_ready_for_implementation'
               <=> /\ validate_for_repo_write(TaskList(planning))
                   /\ ~planning.force_not_ready
          /\ required_test_targets' =
               planning.implementation_tasks + TaskList(planning).e2e_targets
      BY <1>4, <2>3 DEF CreateTaskList
    <3>2. task_list' # None
      BY <3>1, TaskListAssumption DEF TypeOK
    <3>3. spec_ready_for_implementation' <=> SpecWritable(planning)
      BY <2>3, <3>1, ValidTaskList DEF SpecWritable
    <3>4. TaskList(planning).e2e_targets \in Nat
      BY TaskListE2E, WorkflowAssumption DEF TypeOK
    <3>5. SpecWritable(planning) => required_test_targets' > 0
      <4>1. SpecWritable(planning) => planning.implementation_tasks > 0
        BY DEF SpecWritable
      <4> QED BY <3>1, <3>4, <4>1, RequestTypes
    <3> QED
      BY <2>1, <3>2, <3>3, <3>5
      DEF GatesPassed, AfterClarify, AfterGate, AfterTests, AfterReview
  <2> QED BY <2>2, <2>3
<1>5. CASE ReadinessGate
  <2>1. /\ next_node = "readiness_gate" /\ ClarityWithinReach(planning)
        /\ UNCHANGED readiness
    BY <1>5 DEF ReadinessGate, Enter, GatesPassed, AfterClarify
  <2>2. \/ next_node' = "escalate"
        \/ /\ next_node' = "coder"
           /\ SpecWritable(planning) /\ required_test_targets > 0
    BY <1>5, <2>1 DEF ReadinessGate, GatesPassed
  <2> QED
    BY <2>1, <2>2 DEF GatesPassed, AfterClarify, AfterGate, AfterTests,
       AfterReview, readiness
<1>6. CASE Coder
  BY <1>6 DEF Coder, Enter, GatesPassed, AfterClarify, AfterGate, AfterTests,
     AfterReview, readiness
<1>7. CASE Tester
  <2>1. /\ escalation_reason = None /\ required_test_targets > 0
        /\ ClarityWithinReach(planning) /\ SpecWritable(planning)
        /\ UNCHANGED readiness
    BY <1>7 DEF Tester, Enter, Decided, GatesPassed, AfterGate
  <2>2. \/ next_node' \in {"escalate", "coder"}
        \/ /\ next_node' = "reviewer" /\ tests_passed'
           /\ TestsWithinReach(planning, execution)
    BY <1>7, <2>1, TesterLeaves
  <2> QED
    BY <2>1, <2>2 DEF GatesPassed, AfterClarify, AfterGate, AfterTests,
       AfterReview, readiness
<1>8. CASE Reviewer
  <2>1. /\ escalation_reason = None /\ required_test_targets > 0
        /\ ClarityWithinReach(planning) /\ SpecWritable(planning)
        /\ tests_passed /\ TestsWithinReach(planning, execution)
        /\ UNCHANGED <<readiness, testing>>
    BY <1>8 DEF Reviewer, Enter, Decided, GatesPassed, AfterGate, AfterTests
  <2>2. \/ next_node' \in {"escalate", "coder"}
        \/ /\ next_node' = "pre_pr_sync" /\ review_approved'
           /\ ReviewWithinReach(planning, execution)
    BY <1>8, <2>1, ReviewerLeaves
  <2> QED
    BY <2>1, <2>2 DEF GatesPassed, AfterClarify, AfterGate, AfterTests,
       AfterReview, readiness, testing
<1>9. CASE PrePrSync
  <2>1. /\ next_node = "pre_pr_sync" /\ escalation_reason = None
        /\ UNCHANGED <<readiness, testing, review>>
    BY <1>9 DEF PrePrSync, Enter, Decided
  <2>2. \/ next_node' = "escalate"
        \/ /\ next_node' = "pr_creator"
           /\ pre_pr_sync_passed' /\ branch_protection_passed'
           /\ ~execution.diff_too_large /\ ~execution.merge_conflict
    BY <1>9, <2>1, PrePrSyncLeaves
  <2> QED
    BY <2>1, <2>2 DEF GatesPassed, AfterClarify, AfterGate, AfterTests,
       AfterReview, readiness, testing, review
<1>10. CASE PrCreator \/ Escalate
  <2>1. next_node' \in {"END", "escalate"}
    BY <1>10 DEF PrCreator, Escalate
  <2> QED
    BY <2>1 DEF GatesPassed, AfterClarify, AfterGate, AfterTests, AfterReview
<1>11. CASE Aside \/ UNCHANGED vars
  <2>1. UNCHANGED <<next_node, readiness, testing, review, sync>>
    BY <1>11, AsideFrame DEF vars
  <2> QED
    BY <2>1 DEF GatesPassed, readiness, testing, review, sync
<1> QED
  BY <1>1, <1>2, <1>3, <1>4, <1>5, <1>6, <1>7, <1>8, <1>9, <1>10, <1>11
  DEF Next, Progress, GraphStep, Aside
LEMMA DecidedStep ==
  ASSUME Inv, [Next]_vars PROVE Decided'
<1> USE RequestFixed DEF Inv
<1>1. CASE \/ LoadConstitution \/ CreateFeatureSpec \/ CreatePlan
           \/ CreateTaskList \/ Coder
  <2>1. /\ phase' = "running"
        /\ next_node \notin {"escalate", "END"}
        /\ next_node' \notin {"escalate", "END"}
        /\ UNCHANGED <<escalation_reason, pr_created>>
    BY <1>1 DEF LoadConstitution, CreateFeatureSpec, CreatePlan,
       CreateTaskList, Coder, Enter, route
  <2> QED BY <2>1 DEF Decided, ExactOutcome
<1>2. CASE Clarify
  <2>1. /\ phase' = "running" /\ escalation_reason = None /\ ~pr_created'
    BY <1>2 DEF Clarify, Enter, Decided
  <2>2. CASE next_node' = "escalate"
    <3>1. /\ ~ClarityWithinReach(planning) /\ paused_at_node' = "clarify"
          /\ escalation_reason' = "unresolved_ambiguity"
      BY <1>2, <2>1, <2>2, ClarifyLeaves
    <3>2. Raised'
      BY <2>1, <3>1, ClarityObstacle, RaisedByObstacle
    <3> QED BY <2>1, <2>2, <3>2 DEF Decided, ExactOutcome
  <2>3. CASE next_node' # "escalate"
    <3>1. next_node' # "END" /\ escalation_reason' = None
      BY <1>2, <2>1, <2>3, ClarifyLeaves
    <3> QED BY <2>1, <2>3, <3>1 DEF Decided, ExactOutcome
  <2> QED BY <2>2, <2>3
<1>3. CASE ReadinessGate
  <2>1. /\ phase' = "running" /\ escalation_reason = None /\ ~pr_created'
        /\ ClarityWithinReach(planning)
    BY <1>3 DEF ReadinessGate, Enter, Decided, GatesPassed, AfterClarify
  <2>2. CASE next_node' = "escalate"
    <3>1. /\ ~SpecWritable(planning) /\ paused_at_node' = "readiness_gate"
          /\ escalation_reason' = "invalid_route_attempt"
      BY <1>3, <2>1, <2>2 DEF ReadinessGate, Enter, Pause, GatesPassed
    <3>2. Raised'
      BY <2>1, <3>1, ReadinessObstacle, RaisedByObstacle
    <3> QED BY <2>1, <2>2, <3>2 DEF Decided, ExactOutcome
  <2>3. CASE next_node' # "escalate"
    <3>1. next_node' # "END" /\ escalation_reason' = None
      BY <1>3, <2>1, <2>3 DEF ReadinessGate
    <3> QED BY <2>1, <2>3, <3>1 DEF Decided, ExactOutcome
  <2> QED BY <2>2, <2>3
<1>4. CASE Tester
  <2>1. /\ phase' = "running" /\ escalation_reason = None /\ ~pr_created'
        /\ required_test_targets > 0
        /\ ClarityWithinReach(planning) /\ SpecWritable(planning)
    BY <1>4 DEF Tester, Enter, Decided, GatesPassed, AfterGate
  <2>2. CASE next_node' = "escalate"
    <3>1. /\ ~TestsWithinReach(planning, execution)
          /\ paused_at_node' = "tester"
          /\ escalation_reason' = "missing_or_failing_required_tests"
      BY <1>4, <2>1, <2>2, TesterLeaves
    <3>2. Raised'
      BY <2>1, <3>1, TestObstacle, RaisedByObstacle
    <3> QED BY <2>1, <2>2, <3>2 DEF Decided, ExactOutcome
  <2>3. CASE next_node' # "escalate"
    <3>1. next_node' # "END" /\ escalation_reason' = None
      BY <1>4, <2>1, <2>3, TesterLeaves
    <3> QED BY <2>1, <2>3, <3>1 DEF Decided, ExactOutcome
  <2> QED BY <2>2, <2>3
<1>5. CASE Reviewer
  <2>1. /\ phase' = "running" /\ escalation_reason = None /\ ~pr_created'
        /\ ClarityWithinReach(planning) /\ SpecWritable(planning)
        /\ tests_passed /\ TestsWithinReach(planning, execution)
    BY <1>5 DEF Reviewer, Enter, Decided, GatesPassed, AfterGate, AfterTests
  <2>2. CASE next_node' = "escalate"
    <3>1. /\ ~ReviewWithinReach(planning, execution)
          /\ paused_at_node' = "reviewer"
          /\ escalation_reason' = "review_budget_exhausted"
      BY <1>5, <2>1, <2>2, ReviewerLeaves
    <3>2. Raised'
      BY <2>1, <3>1, ReviewObstacle, RaisedByObstacle
    <3> QED BY <2>1, <2>2, <3>2 DEF Decided, ExactOutcome
  <2>3. CASE next_node' # "escalate"
    <3>1. next_node' # "END" /\ escalation_reason' = None
      BY <1>5, <2>1, <2>3, ReviewerLeaves
    <3> QED BY <2>1, <2>3, <3>1 DEF Decided, ExactOutcome
  <2> QED BY <2>2, <2>3
<1>6. CASE PrePrSync
  <2>1. /\ phase' = "running" /\ escalation_reason = None /\ ~pr_created'
        /\ ClarityWithinReach(planning) /\ SpecWritable(planning)
        /\ TestsWithinReach(planning, execution)
        /\ ReviewWithinReach(planning, execution)
    BY <1>6 DEF PrePrSync, Enter, Decided, GatesPassed, AfterGate,
       AfterTests, AfterReview
  <2>2. CASE next_node' = "escalate"
    <3>1. Raised'
      BY <1>6, <2>1, <2>2, PrePrSyncLeaves, SyncObstacle DEF Raised
    <3> QED BY <2>1, <2>2, <3>1 DEF Decided, ExactOutcome
  <2>3. CASE next_node' # "escalate"
    <3>1. next_node' # "END" /\ escalation_reason' = None
      BY <1>6, <2>1, <2>3, PrePrSyncLeaves
    <3> QED BY <2>1, <2>3, <3>1 DEF Decided, ExactOutcome
  <2> QED BY <2>2, <2>3
<1>7. CASE PrCreator
  <2>1. /\ phase' = "running" /\ escalation_reason = None
        /\ PrCreatorGuard /\ Clear(planning, execution)
    BY <1>7 DEF PrCreator, Enter, Decided, GatesPassed, AfterGate,
       AfterTests, AfterReview, PrCreatorGuard, Clear
  <2>2. /\ next_node' = "END" /\ pr_created' /\ status' = "completed"
        /\ escalation_reason' = None
    BY <1>7, <2>1 DEF PrCreator
  <2> QED BY <2>1, <2>2 DEF Decided, ExactOutcome
<1>8. CASE Escalate
  <2>1. /\ phase' = "running" /\ Raised /\ next_node' = "END"
        /\ sinks' = sinks /\ pr_created' = pr_created /\ status' = "paused"
    BY <1>8 DEF Escalate, Enter, Decided
  <2>2. escalation_reason # None
    BY <2>1, ReasonIsSome DEF Raised, Obstacle, Reasons
  <2>3. /\ paused_at_node' = paused_at_node
        /\ escalation_reason' = IF escalation_reason \in sinks
                                THEN escalation_reason
                                ELSE "missing_escalation_sink"
        /\ escalation_sink' = IF escalation_reason \in sinks
                              THEN escalation_reason ELSE None
    BY <1>8, <2>2 DEF Escalate, RaisedReason
  <2> QED
    BY <2>1, <2>3 DEF Decided, ExactOutcome, Raised, PausedFor
<1>9. CASE Aside \/ UNCHANGED vars
  <2>1. UNCHANGED <<next_node, route, pr_created>>
    BY <1>9, AsideFrame DEF vars
  <2>2. next_node = "END" => sinks' = sinks
    BY <1>9 DEF Aside, Execute, GraphRecursionError, Save, Killed, Resume,
       vars, Decided
  <2>3. phase' = "requested" => next_node' = "load_constitution"
    BY <1>9, <2>1 DEF Aside, Execute, GraphRecursionError, Save, Killed,
       Resume, vars, Decided
  <2> QED
    BY <2>1, <2>2, <2>3
    DEF Decided, ExactOutcome, Raised, PausedFor, route
<1> QED
  BY <1>1, <1>2, <1>3, <1>4, <1>5, <1>6, <1>7, <1>8, <1>9
  DEF Next, Progress, GraphStep, Aside

LEMMA InvHolds == Spec => []Inv
<1>1. Init => Inv
  <2> SUFFICES ASSUME Init PROVE Inv
    OBVIOUS
  <2>1. TypeOK
    BY InitType
  <2>2. WithinBudgets
    BY <2>1, BudgetTypes DEF Init, WithinBudgets, AtLeast
  <2>3. GatesPassed
    BY DEF Init, GatesPassed, AfterClarify, AfterGate, AfterTests, AfterReview
  <2>4. Decided
    BY DEF Init, Decided, ExactOutcome
  <2> QED BY <2>1, <2>2, <2>3, <2>4 DEF Inv
<1>2. Inv /\ [Next]_vars => Inv'
  BY TypeStep, BudgetStep, GatesStep, DecidedStep DEF Inv
<1> QED BY <1>1, <1>2, PTL DEF Spec

\* A graph runs only with a mapping the validator accepted.
Registered ==
  IF phase \in {"requested", "rejected"}
  THEN next_node = "load_constitution"
  ELSE required_phase_one_escalation_reasons \subseteq sinks

\* For every request, every sink mapping and every retry budget (negative and
\* huge ones included), a run that reaches END is decided as its request
\* says: a PR only when every gate of the documented path can be passed.
THEOREM OutcomeCorrect == Spec => []OutcomeMatchesRequest
<1>1. Init => Registered
  BY DEF Init, Registered
<1>2. Inv /\ Registered /\ [Next]_vars => Registered'
  BY DEF Registered, Next, Progress, GraphStep, Execute, LoadConstitution,
     CreateFeatureSpec, Clarify, CreatePlan, CreateTaskList, ReadinessGate,
     Coder, Tester, Reviewer, PrePrSync, PrCreator, Escalate, Enter,
     GraphRecursionError, Save, Killed, Resume, vars, Inv, Decided,
     validate_escalation_sinks
<1>3. Inv /\ Registered => OutcomeMatchesRequest
  <2> SUFFICES ASSUME Inv, Registered, next_node = "END"
               PROVE  OutcomeMatchesRequest
    BY DEF OutcomeMatchesRequest
  <2>1. ExactOutcome /\ required_phase_one_escalation_reasons \subseteq sinks
    BY DEF Inv, Decided, Registered
  <2>2. CASE ~Clear(planning, execution)
    <3>1. /\ Obstacle(planning, execution)[2]
               \in required_phase_one_escalation_reasons
          /\ Obstacle(planning, execution)[2] \in Reasons
      BY DEF Obstacle, required_phase_one_escalation_reasons, Reasons
    <3>2. /\ paused_at_node = Obstacle(planning, execution)[1]
          /\ Escalated(Obstacle(planning, execution)[2])
      BY <2>1, <2>2, <3>1 DEF ExactOutcome, PausedFor, Escalated
    <3>3. \E reason \in Reasons : Escalated(reason)
      BY <3>1, <3>2
    <3>4. CASE Oversized(planning, execution)
      BY <2>2, <3>3, <3>4 DEF OutcomeMatchesRequest
    <3>5. CASE ~Oversized(planning, execution)
      BY <2>2, <3>2, <3>5 DEF OutcomeMatchesRequest
    <3> QED BY <3>4, <3>5
  <2>3. CASE Clear(planning, execution)
    <3>1. ~Oversized(planning, execution)
      BY <2>3 DEF Clear, Oversized
    <3> QED
      BY <2>1, <2>3, <3>1
      DEF OutcomeMatchesRequest, ExactOutcome, PausedFor, Escalated
  <2> QED BY <2>2, <2>3
<1> QED BY <1>1, <1>2, <1>3, InvHolds, PTL DEF Spec
-----------------------------------------------------------------------------
(* The retry bound: every node visited is paid for by the fixed part of    *)
(* the path, a clarification pass, or a retry.                             *)

Clarifications == IF planning.ambiguous THEN clarification_attempts
                  ELSE IF clarification_complete THEN 1 ELSE 0

Paid == Clarifications + 2 * test_retry_count + 3 * review_retry_count

VisitsPaid ==
  /\ next_node = "load_constitution" => Len(node_history) <= 1 + Paid
  /\ next_node = "create_feature_spec" => Len(node_history) <= 2 + Paid
  /\ next_node \in {"clarify", "create_plan"} =>
       Len(node_history) <= 3 + Paid
  /\ next_node = "create_task_list" => Len(node_history) <= 4 + Paid
  /\ next_node = "readiness_gate" => Len(node_history) <= 5 + Paid
  /\ next_node = "coder" => Len(node_history) <= 6 + Paid
  /\ next_node = "tester" => Len(node_history) <= 7 + Paid
  /\ next_node = "reviewer" => Len(node_history) <= 8 + Paid
  /\ next_node = "pre_pr_sync" => Len(node_history) <= 9 + Paid
  /\ next_node \in {"pr_creator", "escalate"} =>
       Len(node_history) <= 10 + Paid
  /\ next_node = "END" => Len(node_history) <= 11 + Paid

LEMMA PaidType == TypeOK => Paid \in Nat /\ Len(node_history) \in Nat
<1> SUFFICES ASSUME TypeOK PROVE Paid \in Nat /\ Len(node_history) \in Nat
  OBVIOUS
<1>1. Clarifications \in Nat
  BY DEF Clarifications, TypeOK
<1> QED BY <1>1 DEF Paid, TypeOK

LEMMA PaidBound ==
  ASSUME TypeOK, WithinBudgets
  PROVE  10 + Paid <= SuperstepBound(planning)
<1>1. /\ Clarifications \in Nat
      /\ Clarifications <= AtLeast(1, planning.max_clarification_iterations)
  BY BudgetTypes DEF Clarifications, WithinBudgets, AtLeast
<1>2. /\ AtLeast(0, planning.max_test_retries) \in Int
      /\ AtLeast(0, planning.max_review_retries) \in Int
      /\ AtLeast(1, planning.max_clarification_iterations) \in Int
  BY BudgetTypes DEF AtLeast
<1> QED BY <1>1, <1>2, BudgetTypes DEF Paid, SuperstepBound, WithinBudgets

LEMMA VisitStep ==
  ASSUME Inv, VisitsPaid, [Next]_vars PROVE VisitsPaid'
<1>0. /\ TypeOK /\ WithinBudgets /\ GatesPassed /\ Decided
      /\ planning' = planning
      /\ Paid \in Nat /\ Len(node_history) \in Nat
  BY RequestFixed, PaidType DEF Inv
<1>1. CASE \/ LoadConstitution \/ CreateFeatureSpec \/ CreatePlan
           \/ CreateTaskList \/ ReadinessGate \/ Coder \/ PrePrSync
           \/ Escalate
  <2>1. UNCHANGED <<clarity, testing, review>>
    BY <1>1 DEF LoadConstitution, CreateFeatureSpec, CreatePlan,
       CreateTaskList, ReadinessGate, Coder, PrePrSync, Escalate
  <2>2. Paid' = Paid
    BY <1>0, <2>1 DEF Paid, Clarifications, clarity, testing, review
  <2>3. Len(node_history') = Len(node_history) + 1
    <3>1. \E n \in Nodes : Enter(n)
      BY <1>1 DEF LoadConstitution, CreateFeatureSpec, CreatePlan,
         CreateTaskList, ReadinessGate, Coder, PrePrSync, Escalate, Nodes
    <3> QED BY <1>0, <3>1, EnterType
  <2>4. \/ /\ next_node = "load_constitution"
           /\ next_node' = "create_feature_spec"
        \/ next_node = "create_feature_spec" /\ next_node' = "clarify"
        \/ next_node = "create_plan" /\ next_node' = "create_task_list"
        \/ next_node = "create_task_list" /\ next_node' = "readiness_gate"
        \/ /\ next_node = "readiness_gate"
           /\ next_node' \in {"coder", "escalate"}
        \/ next_node = "coder" /\ next_node' = "tester"
        \/ /\ next_node = "pre_pr_sync"
           /\ next_node' \in {"pr_creator", "escalate"}
        \/ next_node = "escalate" /\ next_node' = "END"
    BY <1>1 DEF LoadConstitution, CreateFeatureSpec, CreatePlan,
       CreateTaskList, ReadinessGate, Coder, PrePrSync, Escalate, Enter
  <2> QED BY <1>0, <2>2, <2>3, <2>4 DEF VisitsPaid
<1>2. CASE Clarify
  <2>1. /\ next_node = "clarify" /\ UNCHANGED <<testing, review>>
        /\ Len(node_history') = Len(node_history) + 1
        /\ next_node' \in {"escalate", "create_plan", "clarify"}
    BY <1>0, <1>2, EnterType
    DEF Clarify, Enter, route_after_clarification, TypeOK, Nodes
  <2>2. Clarifications' = Clarifications + 1
    <3>1. CASE planning.ambiguous
      BY <1>0, <1>2, <3>1 DEF Clarify, Clarifications
    <3>2. CASE ~planning.ambiguous
      <4>1. ~clarification_complete /\ clarification_complete'
        BY <1>0, <1>2, <2>1, <3>2 DEF Clarify, WithinBudgets
      <4> QED BY <1>0, <3>2, <4>1 DEF Clarifications
    <3> QED BY <3>1, <3>2
  <2>3. Clarifications \in Nat
    BY <1>0 DEF Clarifications, TypeOK
  <2>4. Paid' = Paid + 1
    BY SMTT(30), <1>0, <2>1, <2>2, <2>3, BudgetTypes DEF Paid, testing, review
  <2> QED BY <1>0, <2>1, <2>4 DEF VisitsPaid
<1>3. CASE Tester
  <2>1. /\ next_node = "tester" /\ UNCHANGED <<clarity, review>>
        /\ Len(node_history') = Len(node_history) + 1
        /\ next_node' \in {"escalate", "reviewer", "coder"}
    BY <1>0, <1>3, EnterType DEF Tester, Enter, route_after_tester, Nodes
  <2>2. Clarifications' = Clarifications /\ Clarifications \in Nat
    BY <1>0, <2>1 DEF Clarifications, clarity, TypeOK
  <2>3. test_retry_count' \in {test_retry_count, test_retry_count + 1}
    BY <1>3 DEF Tester, testing
  <2>4. next_node' = "coder" => test_retry_count' = test_retry_count + 1
    <3>1. escalation_reason = None
      BY <1>0, <2>1 DEF Decided
    <3> QED BY <1>3, <3>1, ReasonIsSome
            DEF Tester, route_after_tester, Pause, Reasons, route, testing
  <2>5. /\ Paid' \in Nat /\ Paid' >= Paid
        /\ next_node' = "coder" => Paid' = Paid + 2
    <3>1. /\ test_retry_count \in Nat /\ review_retry_count \in Nat
          /\ review_retry_count' = review_retry_count
      BY <1>0, <2>1, BudgetTypes DEF review
    <3>2. CASE test_retry_count' = test_retry_count
      <4>1. Paid' = Paid
        BY <2>2, <3>1, <3>2 DEF Paid
      <4> QED BY <1>0, <2>4, <3>1, <3>2, <4>1
    <3>3. CASE test_retry_count' = test_retry_count + 1
      <4>1. Paid' = Paid + 2
        BY <2>2, <3>1, <3>3 DEF Paid
      <4> QED BY <1>0, <4>1
    <3> QED BY <2>3, <3>2, <3>3
  <2> QED BY <1>0, <2>1, <2>5 DEF VisitsPaid
<1>4. CASE Reviewer
  <2>1. /\ next_node = "reviewer" /\ UNCHANGED <<clarity, testing>>
        /\ Len(node_history') = Len(node_history) + 1
        /\ next_node' \in {"escalate", "pre_pr_sync", "coder"}
    BY <1>0, <1>4, EnterType DEF Reviewer, Enter, route_after_reviewer, Nodes
  <2>2. Clarifications' = Clarifications /\ Clarifications \in Nat
    BY <1>0, <2>1 DEF Clarifications, clarity, TypeOK
  <2>3. review_retry_count' \in {review_retry_count, review_retry_count + 1}
    BY <1>4 DEF Reviewer, review
  <2>4. next_node' = "coder" => review_retry_count' = review_retry_count + 1
    <3>1. escalation_reason = None /\ tests_passed
      BY <1>0, <2>1 DEF Decided, GatesPassed, AfterTests
    <3> QED BY <1>4, <3>1, ReasonIsSome
            DEF Reviewer, route_after_reviewer, Pause, Reasons, route, review
  <2>5. /\ Paid' \in Nat /\ Paid' >= Paid
        /\ next_node' = "coder" => Paid' = Paid + 3
    <3>1. /\ test_retry_count \in Nat /\ review_retry_count \in Nat
          /\ test_retry_count' = test_retry_count
      BY <1>0, <2>1, BudgetTypes DEF testing
    <3>2. CASE review_retry_count' = review_retry_count
      <4>1. Paid' = Paid
        BY <2>2, <3>1, <3>2 DEF Paid
      <4> QED BY <1>0, <2>4, <3>1, <3>2, <4>1
    <3>3. CASE review_retry_count' = review_retry_count + 1
      <4>1. Paid' = Paid + 3
        BY <2>2, <3>1, <3>3 DEF Paid
      <4> QED BY <1>0, <4>1
    <3> QED BY <2>3, <3>2, <3>3
  <2> QED BY <1>0, <2>1, <2>5 DEF VisitsPaid
<1>5. CASE PrCreator
  <2>1. /\ next_node = "pr_creator" /\ UNCHANGED <<clarity, testing, review>>
        /\ Len(node_history') = Len(node_history) + 1
    BY <1>0, <1>5, EnterType DEF PrCreator, Enter, Nodes
  <2>2. PrCreatorGuard
    BY <1>0, <2>1 DEF GatesPassed, AfterTests, AfterReview, PrCreatorGuard
  <2>3. next_node' = "END"
    BY <1>5, <2>2 DEF PrCreator
  <2>4. Paid' = Paid
    BY <1>0, <2>1 DEF Paid, Clarifications, clarity, testing, review
  <2> QED BY <1>0, <2>1, <2>3, <2>4 DEF VisitsPaid
<1>6. CASE Aside \/ UNCHANGED vars
  <2>1. UNCHANGED <<next_node, node_history, clarity, testing, review>>
    BY <1>6, AsideFrame DEF vars
  <2>2. Paid' = Paid
    BY <1>0, <2>1 DEF Paid, Clarifications, clarity, testing, review
  <2> QED BY <2>1, <2>2 DEF VisitsPaid
<1> QED
  BY <1>1, <1>2, <1>3, <1>4, <1>5, <1>6
  DEF Next, Progress, GraphStep, Aside

LEMMA VisitsWithinBound ==
  ASSUME Inv, VisitsPaid
  PROVE  /\ Len(node_history) - 1 <= SuperstepBound(planning)
         /\ next_node # "END" => Len(node_history) <= SuperstepBound(planning)
         /\ SuperstepBound(planning) \in Int
<1>0. /\ Paid \in Nat /\ Len(node_history) \in Nat
      /\ next_node \in (Nodes \ {"intake"}) \cup {"END"}
  BY PaidType DEF Inv, TypeOK
<1>1. /\ Len(node_history) <= 11 + Paid
      /\ next_node # "END" => Len(node_history) <= 10 + Paid
  BY <1>0 DEF Nodes, VisitsPaid
<1>2. SuperstepBound(planning) \in Int
  BY BudgetTypes DEF Inv, SuperstepBound, AtLeast
<1>3. 10 + Paid <= SuperstepBound(planning)
  BY PaidBound DEF Inv
<1> QED BY <1>0, <1>1, <1>2, <1>3

StoppedOverBound ==
  phase = "recursion_error" => RecursionLimit < SuperstepBound(planning)

\* For every request, the graph visits at most SuperstepBound nodes, so a
\* recursion limit of at least that never stops a run.
THEOREM RetriesBounded == Spec => []RetriesAreBounded
<1>1. Init => VisitsPaid /\ StoppedOverBound
  <2> SUFFICES ASSUME Init PROVE VisitsPaid /\ StoppedOverBound
    OBVIOUS
  <2>1. Paid = 0 /\ Len(node_history) = 1
    BY DEF Init, Paid, Clarifications
  <2> QED BY <2>1 DEF Init, VisitsPaid, StoppedOverBound
<1>2. Inv /\ VisitsPaid /\ [Next]_vars => VisitsPaid'
  BY VisitStep
<1>3. ASSUME Inv, VisitsPaid, StoppedOverBound, [Next]_vars
      PROVE  StoppedOverBound'
  <2>1. CASE GraphRecursionError
    <3>1. /\ next_node # "END" /\ Len(node_history) > RecursionLimit
          /\ RecursionLimit \in Nat /\ Len(node_history) \in Nat
      BY <2>1, PaidType, WorkflowAssumption DEF GraphRecursionError, Inv
    <3>2. RecursionLimit < SuperstepBound(planning)
      BY <1>3, <3>1, VisitsWithinBound
    <3> QED BY <3>2, <1>3, RequestFixed DEF StoppedOverBound
  <2>2. CASE ~GraphRecursionError
    <3>1. phase' = "recursion_error" => phase = "recursion_error"
      BY <1>3, <2>2 DEF Next, Progress, GraphStep, Execute, LoadConstitution,
         CreateFeatureSpec, Clarify, CreatePlan, CreateTaskList,
         ReadinessGate, Coder, Tester, Reviewer, PrePrSync, PrCreator,
         Escalate, Enter, Save, Killed, Resume, vars
    <3> QED BY <1>3, <3>1, RequestFixed DEF StoppedOverBound
  <2> QED BY <2>1, <2>2
<1>4. Inv /\ VisitsPaid /\ StoppedOverBound => RetriesAreBounded
  BY VisitsWithinBound DEF StoppedOverBound, RetriesAreBounded
<1> QED BY <1>1, <1>2, <1>3, <1>4, InvHolds, PTL DEF Spec
-----------------------------------------------------------------------------
(* The protected success path: what the node history must end with for a   *)
(* node to be scheduled, and the gate that comes before every coder.       *)

\* The last k nodes visited are the first k of the success path.
Trailing(k) ==
  /\ Len(node_history) >= k
  /\ \A i \in 1..k :
       node_history[Len(node_history) - k + i] = SuccessPath[i]

Trail ==
  /\ next_node = "tester" => Trailing(1)
  /\ next_node = "reviewer" => Trailing(2)
  /\ next_node = "pre_pr_sync" => Trailing(3)
  /\ next_node = "pr_creator" => Trailing(4)
  /\ pr_created => Trailing(5)

GateSeen(n) == \E j \in 1..n : node_history[j] = "readiness_gate"

GateFirst ==
  /\ next_node \in AfterGate => GateSeen(Len(node_history))
  /\ \A i \in 1..Len(node_history) :
       node_history[i] = "coder" => GateSeen(i - 1)

\* The edges of the compiled graph along the protected part of the path.
LEMMA GraphEdges ==
  ASSUME Inv, GraphStep
  PROVE  \E n \in Nodes :
           /\ Enter(n) /\ ~pr_created
           /\ pr_created' => n = "pr_creator" /\ next_node' = "END"
           /\ next_node' = "tester" => n = "coder"
           /\ next_node' = "reviewer" => n = "tester"
           /\ next_node' = "pre_pr_sync" => n = "reviewer"
           /\ next_node' = "pr_creator" => n = "pre_pr_sync"
           /\ next_node' \in AfterGate =>
                n \in {"readiness_gate"} \cup AfterGate
<1>0. next_node # "END" => ~pr_created
  BY DEF Inv, Decided, Raised
<1>1. CASE \/ LoadConstitution \/ CreateFeatureSpec \/ CreatePlan
           \/ CreateTaskList
  <2>1. /\ pr_created' = pr_created
        /\ \/ /\ Enter("load_constitution")
              /\ next_node' = "create_feature_spec"
           \/ Enter("create_feature_spec") /\ next_node' = "clarify"
           \/ Enter("create_plan") /\ next_node' = "create_task_list"
           \/ Enter("create_task_list") /\ next_node' = "readiness_gate"
    BY <1>1
    DEF LoadConstitution, CreateFeatureSpec, CreatePlan, CreateTaskList
  <2> QED BY <1>0, <2>1 DEF Enter, AfterGate, Nodes
<1>4. CASE Clarify
  <2>1. /\ Enter("clarify") /\ pr_created' = pr_created
        /\ next_node' \in {"escalate", "create_plan", "clarify"}
    BY <1>4 DEF Clarify, route_after_clarification
  <2> QED BY <1>0, <2>1 DEF Enter, AfterGate, Nodes
<1>2. CASE ReadinessGate \/ Coder \/ Tester \/ Reviewer \/ PrePrSync
  BY <1>0, <1>2
  DEF ReadinessGate, Coder, Tester, Reviewer, PrePrSync, Enter,
      route_after_tester, route_after_reviewer, AfterGate, Nodes
<1>3. CASE PrCreator \/ Escalate
  BY <1>0, <1>3 DEF PrCreator, Escalate, Enter, AfterGate, Nodes
<1> QED BY <1>1, <1>2, <1>3, <1>4 DEF GraphStep

\* Visiting the (k+1)-st node of the success path after its first k.
LEMMA TrailExtends ==
  ASSUME TypeOK, NEW n \in Nodes, Enter(n), NEW k \in 0..4, Trailing(k),
         n = SuccessPath[k + 1]
  PROVE  Trailing(k + 1)'
<1>1. /\ node_history' = Append(node_history, n)
      /\ node_history \in Seq(Nodes) /\ Len(node_history) \in Nat
      /\ Len(node_history') = Len(node_history) + 1
  BY EnterType DEF Enter, TypeOK
<1>2. Len(node_history') >= k + 1
  BY <1>1 DEF Trailing
<1>3. ASSUME NEW i \in 1..(k + 1)
      PROVE  node_history'[Len(node_history') - (k + 1) + i] = SuccessPath[i]
  <2>1. CASE i = k + 1
    BY <1>1, <2>1
  <2>2. CASE i \in 1..k
    <3>1. /\ Len(node_history') - (k + 1) + i = Len(node_history) - k + i
          /\ Len(node_history) - k + i \in 1..Len(node_history)
      BY <1>1, <2>2 DEF Trailing
    <3>2. node_history'[Len(node_history) - k + i]
            = node_history[Len(node_history) - k + i]
      BY <1>1, <3>1
    <3> QED BY <2>2, <3>1, <3>2 DEF Trailing
  <2> QED BY <2>1, <2>2
<1> QED BY <1>2, <1>3 DEF Trailing

LEMMA TrailStep ==
  ASSUME Inv, Trail, GraphStep PROVE Trail'
<1>1. PICK n \in Nodes :
           /\ Enter(n) /\ ~pr_created
           /\ pr_created' => n = "pr_creator" /\ next_node' = "END"
           /\ next_node' = "tester" => n = "coder"
           /\ next_node' = "reviewer" => n = "tester"
           /\ next_node' = "pre_pr_sync" => n = "reviewer"
           /\ next_node' = "pr_creator" => n = "pre_pr_sync"
  BY GraphEdges
<1>2. next_node = n /\ TypeOK
  BY <1>1 DEF Enter, Inv
<1>3. Trailing(0)
  BY <1>2 DEF Trailing, TypeOK
<1>4. /\ SuccessPath[1] = "coder" /\ SuccessPath[2] = "tester"
      /\ SuccessPath[3] = "reviewer" /\ SuccessPath[4] = "pre_pr_sync"
      /\ SuccessPath[5] = "pr_creator"
  BY DEF SuccessPath
<1>5. next_node' = "tester" => Trailing(0 + 1)'
  BY <1>1, <1>2, <1>3, <1>4, TrailExtends
<1>6. next_node' = "reviewer" => Trailing(1 + 1)'
  BY <1>1, <1>2, <1>4, TrailExtends DEF Trail
<1>7. next_node' = "pre_pr_sync" => Trailing(2 + 1)'
  BY <1>1, <1>2, <1>4, TrailExtends DEF Trail
<1>8. next_node' = "pr_creator" => Trailing(3 + 1)'
  BY <1>1, <1>2, <1>4, TrailExtends DEF Trail
<1>9. pr_created' => Trailing(4 + 1)'
  BY <1>1, <1>2, <1>4, TrailExtends DEF Trail
<1>10. 0 + 1 = 1 /\ 1 + 1 = 2 /\ 2 + 1 = 3 /\ 3 + 1 = 4 /\ 4 + 1 = 5
  OBVIOUS
<1> QED BY <1>5, <1>6, <1>7, <1>8, <1>9, <1>10 DEF Trail

LEMMA GateFirstStep ==
  ASSUME Inv, GateFirst, GraphStep PROVE GateFirst'
<1>1. PICK n \in Nodes :
           /\ Enter(n)
           /\ next_node' \in AfterGate =>
                n \in {"readiness_gate"} \cup AfterGate
  BY GraphEdges
<1> DEFINE len == Len(node_history)
<1>2. /\ next_node = n /\ len \in Nat
      /\ node_history' = Append(node_history, n)
      /\ node_history \in Seq(Nodes) /\ Len(node_history') = len + 1
      /\ node_history'[len + 1] = n
      /\ \A i \in 1..len : node_history'[i] = node_history[i]
  BY <1>1, EnterType DEF Enter, Inv, TypeOK
<1> HIDE DEF len
<1>3. ASSUME NEW m \in 0..len, GateSeen(m)
      PROVE  \E j \in 1..m : node_history'[j] = "readiness_gate"
  BY <1>2, <1>3 DEF GateSeen
<1>4. n \in AfterGate => GateSeen(len)
  BY <1>2 DEF GateFirst, len
<1>5. next_node' \in AfterGate => GateSeen(Len(node_history))'
  <2> SUFFICES ASSUME next_node' \in AfterGate
               PROVE  \E j \in 1..(len + 1) :
                        node_history'[j] = "readiness_gate"
    BY <1>2 DEF GateSeen
  <2>1. CASE n = "readiness_gate"
    BY <1>2, <2>1
  <2>2. CASE n \in AfterGate
    <3>1. \E j \in 1..len : node_history'[j] = "readiness_gate"
      BY <1>2, <1>3, <1>4, <2>2
    <3> QED BY <1>2, <3>1
  <2> QED BY <1>1, <2>1, <2>2
<1>6. ASSUME NEW i \in 1..(len + 1), node_history'[i] = "coder"
      PROVE  \E j \in 1..(i - 1) : node_history'[j] = "readiness_gate"
  <2>1. CASE i = len + 1
    <3>1. GateSeen(len)
      BY <1>2, <1>4, <1>6, <2>1 DEF AfterGate
    <3> QED BY <1>2, <1>3, <2>1, <3>1
  <2>2. CASE i \in 1..len
    <3>1. GateSeen(i - 1)
      BY <1>2, <1>6, <2>2 DEF GateFirst, len
    <3> QED BY <1>2, <1>3, <2>2, <3>1
  <2> QED BY <1>2, <2>1, <2>2
<1> QED BY <1>2, <1>5, <1>6 DEF GateFirst, GateSeen

\* For every request and every retry budget, a PR is created only at the end
\* of an unbroken coder, tester, reviewer, pre-PR sync, PR creator sequence,
\* and no coder of the run came before the readiness gate.
THEOREM SuccessPathProtected == Spec => []ProtectedSuccessPath
<1>1. Init => Trail /\ GateFirst
  <2> SUFFICES ASSUME Init PROVE Trail /\ GateFirst
    OBVIOUS
  <2>1. Len(node_history) = 1 /\ node_history[1] = "intake"
    BY DEF Init
  <2> QED BY <2>1 DEF Init, Trail, GateFirst, AfterGate
<1>2. ASSUME Inv, Trail, GateFirst, [Next]_vars PROVE Trail' /\ GateFirst'
  <2>1. CASE GraphStep
    BY <1>2, <2>1, TrailStep, GateFirstStep
  <2>2. CASE Aside \/ UNCHANGED vars
    <3>1. UNCHANGED <<next_node, node_history, pr_created>>
      BY <2>2, AsideFrame DEF vars
    <3> QED BY <1>2, <3>1 DEF Trail, Trailing, GateFirst, GateSeen
  <2> QED BY <1>2, <2>1, <2>2 DEF Next, Progress, Aside
<1>3. ASSUME Inv, Trail, GateFirst PROVE ProtectedSuccessPath
  <2> SUFFICES ASSUME pr_created
               PROVE  SubSeq(node_history, Len(node_history) - 4,
                             Len(node_history)) = SuccessPath
    BY <1>3 DEF ProtectedSuccessPath, GateFirst, GateSeen
  <2>1. /\ node_history \in Seq(Nodes) /\ Len(node_history) \in Nat
        /\ Len(node_history) >= 5
        /\ \A i \in 1..5 :
             node_history[Len(node_history) - 5 + i] = SuccessPath[i]
    BY <1>3 DEF Inv, TypeOK, Trail, Trailing
  <2> DEFINE s == SubSeq(node_history, Len(node_history) - 4,
                         Len(node_history))
  <2>2. s \in Seq(Nodes) /\ Len(s) = 5
    BY <2>1
  <2>3. ASSUME NEW i \in 1..5 PROVE s[i] = SuccessPath[i]
    BY SMTT(30), <2>1
  <2>4. SuccessPath \in Seq(Nodes) /\ Len(SuccessPath) = 5
    BY DEF SuccessPath, Nodes
  <2> HIDE DEF s
  <2>5. s = SuccessPath
    BY <2>2, <2>3, <2>4, SeqEqual
  <2> QED BY <2>5 DEF s
<1> QED BY <1>1, <1>2, <1>3, InvHolds, PTL DEF Spec
-----------------------------------------------------------------------------
(* The stored row.                                                         *)

\* A row exists only after the run was saved, and a run is saved once.
SavedOnce == stored # None => phase = "saved"

LEMMA SavedRow ==
  ASSUME Inv, Save, stored' # stored
  PROVE  /\ stored' = Row
         /\ status \in {"completed", "paused"}
         /\ status = "completed" <=> pr_created
         /\ status = "paused" => escalation_reason # None
<1>1. next_node = "END" /\ stored' = Row
  BY DEF Save
<1>2. \/ pr_created /\ status = "completed"
      \/ /\ ~pr_created /\ status = "paused"
         /\ escalation_reason # None
  BY <1>1, ReasonIsSome
  DEF Inv, Decided, ExactOutcome, PausedFor, Obstacle, Reasons
<1> QED BY <1>1, <1>2

\* The first row saved is terminal and completed exactly when a PR exists,
\* and a resume never reopens a completed row nor pauses one again.
THEOREM StoredRowTerminal == Spec => StoredRowIsTerminal
<1> DEFINE Terminal ==
      /\ stored = None /\ stored' # None =>
           /\ stored'.status \in {"completed", "paused"}
           /\ stored'.status = "completed" <=> stored'.pr_created
           /\ stored'.status = "paused" => stored'.escalation_reason # None
      /\ stored # None =>
           /\ stored'.status = "completed" <=> stored.status = "completed"
           /\ stored'.status = "paused" => stored' = stored
<1>1. Init => SavedOnce
  BY DEF Init, SavedOnce
<1>2. SavedOnce /\ [Next]_vars => SavedOnce'
  BY DEF SavedOnce, Next, Progress, GraphStep, Execute, LoadConstitution,
     CreateFeatureSpec, Clarify, CreatePlan, CreateTaskList, ReadinessGate,
     Coder, Tester, Reviewer, PrePrSync, PrCreator, Escalate, Enter,
     GraphRecursionError, Save, Killed, Resume, vars
<1>3. ASSUME Inv, SavedOnce, [Next]_vars PROVE [Terminal]_stored
  <2> SUFFICES ASSUME stored' # stored PROVE Terminal
    OBVIOUS
  <2>1. Save \/ Resume
    BY <1>3 DEF Next, Progress, GraphStep, Execute, LoadConstitution,
       CreateFeatureSpec, Clarify, CreatePlan, CreateTaskList, ReadinessGate,
       Coder, Tester, Reviewer, PrePrSync, PrCreator, Escalate, Enter,
       GraphRecursionError, Killed, vars
  <2>2. CASE Save
    <3>1. stored = None
      BY <1>3, <2>2 DEF Save, SavedOnce
    <3>2. /\ stored'.status = status /\ stored'.pr_created = pr_created
          /\ stored'.escalation_reason = escalation_reason
      BY <1>3, <2>2, SavedRow DEF Row
    <3> QED BY <1>3, <2>2, <3>1, <3>2, SavedRow
  <2>3. CASE Resume
    <3>1. /\ stored \in RowType
          /\ stored' = clear_pause(stored)
      BY <1>3, <2>3 DEF Resume, Inv, TypeOK
    <3>2. stored'.status = IF stored.status = "paused" THEN "active"
                                                       ELSE stored.status
      BY <3>1 DEF clear_pause, RowType
    <3>3. stored # None
      BY <2>3 DEF Resume
    <3> QED BY <3>2, <3>3
  <2> QED BY <2>1, <2>2, <2>3
<1> QED BY <1>1, <1>2, <1>3, InvHolds, PTL DEF Spec, StoredRowIsTerminal
=============================================================================
