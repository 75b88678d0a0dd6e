--------------------------- MODULE MCEventBuffer ----------------------------
(* Instances of EventBuffer for TLC: the trouble that strikes each run.    *)
EXTENDS EventBuffer, TLC

Trouble(failures, doubts, rejects) ==
    [k \in Kinds |-> CASE k = "failures" -> failures
                       [] k = "doubts" -> doubts
                       [] k = "rejects" -> rejects]

MixedPlans == {Trouble(2, 0, 0), Trouble(1, 1, 0), Trouble(1, 0, 1), Trouble(0, 1, 1), Trouble(0, 2, 0)}

=============================================================================
