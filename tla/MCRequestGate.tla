---------------------------- MODULE MCRequestGate ----------------------------
(* Instances of RequestGate for TLC: the events of each run.               *)
EXTENDS RequestGate, TLC

Quiet == [k \in Kinds |-> 0]

\* The key with a Redis error, and the budget under an edit or two, a month's
\* end and an error.
EventPlans ==
    { [Quiet EXCEPT !.revokes = 1, !.expiries = 1, !.redis = 1],
      [Quiet EXCEPT !.edits = 2, !.moves = 1],
      [Quiet EXCEPT !.edits = 1, !.moves = 1, !.redis = 1],
      [Quiet EXCEPT !.edits = 1, !.moves = 3, !.months = 1],
      [Quiet EXCEPT !.edits = 1, !.moves = 1, !.store = 1] }

=============================================================================
