----------------------------- MODULE MCDeletion -----------------------------
(* Instances of Deletion for TLC: a trace, and an observation of that      *)
(* trace or of another one.                                                *)
EXTENDS Deletion, TLC

CONSTANTS e1, e2, f1, f2, j1, j2

TraceAndSpan == e1 :> 1 @@ e2 :> 2
JobSymmetry == Permutations(Job)

(* f2 is the column the lookup leaves out.  A batch carries both or none:  *)
(* the two differ by what a seed brings back, not by who writes them.      *)
AllFieldsOrNone ==
    \A j \in Job : \A f, g \in Field : batch[j].row.field[f] = batch[j].row.field[g]

(* The sweep never overlaps a running job nor a batch given up half-way:   *)
(* what pausing ingest and clearing the dead letters first would give.     *)
SweepsApart == sweep' = 0 \/ Settled'

(* Sweeps with every batch; erasures with batches of one event time, and   *)
(* one failing job or a replay; an observation of another trace with an    *)
(* erasure and no failure.  Where a job met the removal of rows, no         *)
(* property claims anything any more.                                      *)
FlatBatches == \A j \in Job : batch[j].row.ver = 1 /\ batch[j].row.time = 1
Failed == {j \in Job : attempts[j] > 0}
Unmet == met \cap {"rows", "states", "sweep", "user rows", "user states"} = {}
TwoTraces == traceOf[e2] # e1
SweepOrErasure ==
    /\ erasures > 0 => FlatBatches /\ sweeps = 0 /\ Cardinality(Failed) + replays <= 1 /\ Unmet
    /\ TwoTraces => FlatBatches /\ sweeps = 0 /\ Failed = {} /\ replays = 0
=============================================================================
