-------------------------- MODULE MCTicketWorkflow --------------------------
(* Requests for model-checking TicketWorkflow.                             *)
EXTENDS TicketWorkflow

Base ==
  [ambiguous |-> FALSE, clarification_resolution_attempt |-> 1,
   implementation_tasks |-> 1, public_surface_change |-> FALSE,
   design_checks |-> 1, max_clarification_iterations |-> 2,
   max_test_retries |-> 2, max_review_retries |-> 1,
   force_missing_task_list |-> FALSE, force_not_ready |-> FALSE]

\* Ambiguous tickets: resolved early, in time, too late or never.
Ambiguous ==
  {[Base EXCEPT !.ambiguous = TRUE,
                !.clarification_resolution_attempt = r,
                !.max_clarification_iterations = m] :
     r \in {None, 0, 1, 2, 3}, m \in -1..2}

\* Every way the readiness gate can be satisfied or not.
Readiness ==
  {[Base EXCEPT !.implementation_tasks = n, !.design_checks = c,
                !.public_surface_change = s, !.force_missing_task_list = m,
                !.force_not_ready = f] :
     n \in 0..1, c \in 0..1, s \in BOOLEAN, m \in BOOLEAN, f \in BOOLEAN}

\* Retry budgets, the degenerate ones included.
Budgets ==
  {[Base EXCEPT !.max_test_retries = t, !.max_review_retries = r] :
     t \in -1..2, r \in -1..2}

MCPlanningRequests == Ambiguous \cup Readiness \cup Budgets

MCExecutionRequests ==
  [test_failures_before_pass: 0..3, quality_failures_before_pass: 0..2,
   missing_required_tests: BOOLEAN, skip_required_tests: {FALSE},
   diff_too_large: BOOLEAN, merge_conflict: BOOLEAN]
  \cup
  [test_failures_before_pass: {0}, quality_failures_before_pass: {0},
   missing_required_tests: {FALSE}, skip_required_tests: {TRUE},
   diff_too_large: {FALSE}, merge_conflict: {FALSE}]

\* No mapping (the defaults), a custom mapping the validator accepts although
\* branch_protection_missing is not in it, and one it rejects.
MCSinkRequests ==
  {{}, required_phase_one_escalation_reasons,
   required_phase_one_escalation_reasons \ {"diff_too_large"}}

\* A smaller request space, for the liveness run.
FewPlanningRequests ==
  {[Base EXCEPT !.ambiguous = a, !.clarification_resolution_attempt = r,
                !.max_test_retries = t] :
     a \in BOOLEAN, r \in {None, 2}, t \in {0, 2}}

FewExecutionRequests ==
  [test_failures_before_pass: {0, 1}, quality_failures_before_pass: {0, 1},
   missing_required_tests: BOOLEAN, skip_required_tests: {FALSE},
   diff_too_large: BOOLEAN, merge_conflict: {FALSE}]
=============================================================================
