--------------------------- MODULE MCIngestQueue ----------------------------
(***************************************************************************)
(* Instances of IngestQueue for TLC: which kinds of trouble strike, and    *)
(* how often, in each run.                                                 *)
(***************************************************************************)
EXTENDS IngestQueue, TLC

CONSTANTS b1, b2, p1, p2

OneProject == [b \in Batch |-> p1]
TwoProjects == [b \in Batch |-> IF b = b2 THEN p2 ELSE p1]

Calm == [k \in Kinds |-> 0]

\* Two replays by two processes, or one and a failure of one of the calls, the
\* removal that is done though it throws among them.
ReplayPlans == { [Calm EXCEPT !.replays = 2],
                 [Calm EXCEPT !.replays = 1, !.refusals = 1],
                 [Calm EXCEPT !.replays = 1, !.leftovers = 1],
                 [Calm EXCEPT !.replays = 1, !.vanished = 1],
                 [Calm EXCEPT !.unsure = 1, !.dropped = 1] }

\* Slow and dying workers, requests and replays that die, a rebuild, two
\* replays at once because the first has lost its lock.
RecoveryPlans == { [Calm EXCEPT !.stalls = 2, !.crashes = 2, !.unsure = 1],
                   [Calm EXCEPT !.refusals = 1, !.aborts = 1, !.replays = 1],
                   [Calm EXCEPT !.crashes = 1, !.rebuilds = 1, !.leftovers = 1],
                   [Calm EXCEPT !.replays = 2, !.lapses = 1] }

Interchangeable == Permutations(Worker) \union Permutations(Replayer)

=============================================================================
