------------------------------ MODULE Delivery ------------------------------
(***************************************************************************)
(* What the ingest queue promises, seen from outside: the fate of each     *)
(* batch.  A batch that was taken in is pending until its events land in   *)
(* the stores or it is dead-lettered; a dead letter may be revived, and    *)
(* nothing that was taken in is ever forgotten.                            *)
(***************************************************************************)

CONSTANT Batch
VARIABLE fate

Fates == {"none", "pending", "landed", "dead"}

TypeOK == fate \in [Batch -> Fates]

Init == fate = [b \in Batch |-> "none"]

Move(b, from, to) ==
    /\ fate[b] \in from
    /\ fate' = [fate EXCEPT ![b] = to]

Accept(b) == Move(b, {"none"}, "pending")

\* A run that outlived its job's lock may land a batch already given up.
Land(b) == Move(b, {"pending", "dead"}, "landed")

Bury(b) == Move(b, {"pending"}, "dead")

Revive(b) == Move(b, {"dead"}, "pending")

Next == \E b \in Batch : Accept(b) \/ Land(b) \/ Bury(b) \/ Revive(b)

Spec == Init /\ [][Next]_fate

Settle(b) == fate[b] = "pending" /\ (Land(b) \/ Bury(b))

FairSpec == Spec /\ \A b \in Batch : WF_fate(Settle(b))

=============================================================================
