--------------------------- MODULE MCMutableState ---------------------------
(* A small instance of MutableState for TLC.                               *)
EXTENDS MutableState

CONSTANTS e1, f1, f2, j1, j2

OneTrace == [e \in Entity |-> 1]

(* f2 is the column the lookup leaves out.  A batch carries both or none:  *)
(* the two differ by what a seed brings back, not by who writes them.      *)
AllFieldsOrNone ==
    \A j \in Job : \A f, g \in Field : batch[j].row.field[f] = batch[j].row.field[g]

(* The sweep never overlaps a running job nor a batch given up half-way:   *)
(* what pausing ingest and clearing the dead letters first would give.     *)
SweepsApart == sweep' = 0 \/ Settled'

(* A sweep or a replay: both together are left to state_removals.          *)
SweepOrReplay == sweeps + replays <= 1
=============================================================================
