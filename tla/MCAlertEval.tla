---------------------------- MODULE MCAlertEval -----------------------------
(* Instances of AlertEval for TLC: the events of each run.                 *)
EXTENDS AlertEval, TLC

Quiet == [k \in Kinds |-> 0]

RulePlan == [Quiet EXCEPT !.rules = 1, !.moves = 2]
BudgetPlan == [Quiet EXCEPT !.budgets = 1, !.moves = 2]

\* A rule or a budget, and a few troubles at a time.
EventPlans ==
    { [RulePlan EXCEPT !.moves = 3, !.crashes = 1, !.outages = 1],
      [RulePlan EXCEPT !.writes = 1, !.doubts = 1],
      [RulePlan EXCEPT !.redis = 1, !.refusals = 1],
      [RulePlan EXCEPT !.moves = 3, !.redis = 1],
      [RulePlan EXCEPT !.rules = 3, !.moves = 3, !.reads = 1],
      [RulePlan EXCEPT !.rejects = 1, !.crashes = 1],
      [BudgetPlan EXCEPT !.budgets = 2, !.months = 1, !.crashes = 1],
      [BudgetPlan EXCEPT !.budgets = 3, !.reads = 1],
      [BudgetPlan EXCEPT !.budgets = 2, !.rejects = 1],
      [BudgetPlan EXCEPT !.redis = 1, !.months = 1],
      [BudgetPlan EXCEPT !.budgets = 2, !.outages = 1, !.writes = 1],
      [BudgetPlan EXCEPT !.months = 2, !.moves = 4, !.doubts = 1, !.refusals = 1] }

=============================================================================
