----------------------------- MODULE MCBackfill -----------------------------
(* Instances of Backfill for TLC: the trouble that strikes each behaviour. *)
EXTENDS Backfill

Calm == [k \in Kinds |-> 0]

TroublePlans == { [Calm EXCEPT !.arrivals = 1, !.removals = 1, !.judges = 1, !.reads = 1, !.adds = 1],
                  [Calm EXCEPT !.arrivals = 1, !.writes = 2],
                  [Calm EXCEPT !.arrivals = 1, !.crashes = 2],
                  [Calm EXCEPT !.removals = 3, !.crashes = 1],
                  [Calm EXCEPT !.stalls = 1, !.crashes = 1],
                  [Calm EXCEPT !.stalls = 1, !.arrivals = 1],
                  [Calm EXCEPT !.stalls = 1, !.reads = 1],
                  [Calm EXCEPT !.removals = 1, !.stalls = 1, !.writes = 1],
                  [Calm EXCEPT !.reads = 3] }
=============================================================================
