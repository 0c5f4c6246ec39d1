--------------------------- MODULE MCControlPlane ---------------------------
(* ControlPlane for TLC: two operators, one resolving thread, one run. *)
EXTENDS ControlPlane, TLC

Measured(rate, cost, unsafe) ==
  [baseline_success_rate |-> 8, candidate_success_rate |-> rate,
   baseline_cost_usd |-> 4, candidate_cost_usd |-> cost,
   safety_regressions |-> unsafe]

\* A candidate that passes and one that every threshold blocks
MCMetrics == {Measured(9, 4, FALSE), Measured(5, 7, TRUE)}
CONSTANTS o1, o2
MCDuties == o1 :> {"create", "activate", "cleanup"} @@ o2 :> {"create", "activate", "rollback"}
MCMaxVersions == [graph |-> 1, agent |-> 0]
MCPinStatuses == {"paused", "completed"}
=============================================================================
