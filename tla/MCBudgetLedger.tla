--------------------------- MODULE MCBudgetLedger ---------------------------
(* Model-checking instances of BudgetLedger; the callers, the runs and the *)
(* reservation ids are interchangeable.                                    *)
EXTENDS BudgetLedger, TLC

Symmetry == Permutations(Callers) \cup Permutations(Runs) \cup Permutations(Ids)
=============================================================================
