---------------------------- MODULE MCExperiment ----------------------------
(* Instances of Experiment for TLC: the trouble that strikes each run.     *)
EXTENDS Experiment, TLC

Calm == [k \in Kinds |-> 0]

ItemPlans == { [Calm EXCEPT !.crashes = 1, !.cancels = 1],
               [Calm EXCEPT !.stalls = 1, !.cancels = 1, !.refusals = 1],
               [Calm EXCEPT !.rejects = 1, !.redis = 1],
               [Calm EXCEPT !.lapses = 1] }

=============================================================================
