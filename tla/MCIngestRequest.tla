-------------------------- MODULE MCIngestRequest ---------------------------
(* Instances of IngestRequest for TLC: the trouble that strikes each run.  *)
EXTENDS IngestRequest, TLC

Calm == [k \in IngestKinds |-> 0]

\* Pairs of troubles.
PairPlans == {[k \in IngestKinds |-> IF k \in {a, b} THEN 1 ELSE 0] : a, b \in IngestKinds}

Interchangeable == Permutations(Attempt)

=============================================================================
