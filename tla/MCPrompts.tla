------------------------------ MODULE MCPrompts ------------------------------
(* Instances of Prompts for TLC: how many saves and experiments.           *)
EXTENDS Prompts, TLC

Quiet == [k \in Kinds |-> 0]

EventPlans ==
    { [Quiet EXCEPT !.saves = 4],
      [Quiet EXCEPT !.saves = 3, !.errors = 1],
      [Quiet EXCEPT !.saves = 3, !.trials = 1],
      [Quiet EXCEPT !.saves = 3, !.trials = 1, !.stops = 1] }

PromotionPlan == { [Quiet EXCEPT !.saves = 3, !.trials = 1, !.stops = 1] }

=============================================================================
