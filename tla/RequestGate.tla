----------------------------- MODULE RequestGate -----------------------------
(***************************************************************************)
(* A request that comes with an API key and ends in a call to a model      *)
(* provider: authenticateKeys looks the key up, assertWithinBudget compares *)
(* the project's cost with its hard cap.  Both answer from an entry that   *)
(* Redis keeps for a minute, both go on without Redis, and neither takes a *)
(* lock: keys are revoked and budgets edited between any two of their      *)
(* steps.  One project, one key, one budget.                               *)
(***************************************************************************)
EXTENDS Naturals

CONSTANTS
    Request,   \* the requests that may be under way at once (bound)
    None,      \* no row, no entry, nothing
    Limits,    \* monthly budgets, in units of cost
    MaxSpend,  \* cost of a month at most (bound)
    Plans      \* bound: the events of a behaviour stay within one of these

\* Keys revoked and expired, budget edits, months begun, movements of the cost; failures of
\* Redis, and of the telemetry store.
Kinds == {"revokes", "expiries", "edits", "months", "moves", "redis", "store"}

ASSUME GateAssumption ==
    /\ Limits \subseteq Nat \ {0}
    /\ None \notin Limits \union [cap : Limits \union {None}]
    /\ MaxSpend \in Nat
    /\ Plans \subseteq [Kinds -> Nat]

VARIABLES
    keyRow,    \* the key is in Postgres
    expired,   \* its expiresAt has passed
    keyCache,  \* memoturn:apikey:<public key>, or None
    revoking,  \* revokeApiKey has deleted the row, not yet the entry
    budget,    \* the hard cap: monthlyUsd of a CostBudget row with hardCap, or None
    edit,      \* the cap setCostBudget or deleteCostBudget is about to write
    spend,     \* month-to-date cost
    carry,     \* cost of the last day of the month before
    guard,     \* memoturn:budgetguard:<project>, or None
    request,   \* each request
    spent      \* events so far, by kind

keyVars == <<keyRow, expired, keyCache, revoking>>
costVars == <<budget, edit, spend, carry>>
vars == <<keyVars, costVars, guard, request, spent>>

\* What load returns and Redis keeps.  Ghosts: the edit and the month it is
\* about, and whether it was kept beside an edit or when it was stale already.
NoCap == [hard |-> FALSE, limit |-> 0, cost |-> 0, rev |-> 0, month |-> 0, raced |-> FALSE]

\* Where a request is: before authenticateKeys, at one of its awaits, at one of
\* assertWithinBudget's, and past them.
AuthPlaces == {"find key", "keep key"}
GuardPlaces == {"guard", "find budget", "measure", "keep cap", "judge"}
Places == {"idle", "calling", "refused"} \union AuthPlaces \union GuardPlaces

Idle == [at |-> "idle", cap |-> NoCap]

Spend(kinds) ==
    /\ spent' = [k \in Kinds |-> IF k \in kinds THEN spent[k] + 1 ELSE spent[k]]
    /\ \E plan \in Plans : \A k \in Kinds : spent'[k] <= plan[k]

Month == spent["months"]

\* The edits written so far.
Rev == IF edit = None THEN spent["edits"] ELSE spent["edits"] - 1

Init ==
    /\ keyRow = TRUE
    /\ expired = FALSE
    /\ keyCache = None
    /\ revoking = FALSE
    /\ budget = None
    /\ edit = None
    /\ spend = 0
    /\ carry = 0
    /\ guard = None
    /\ request = [r \in Request |-> Idle]
    /\ spent = [k \in Kinds |-> 0]

-----------------------------------------------------------------------------
(* The key and its cache.                                                  *)

KeyExpires ==
    /\ ~expired
    /\ Spend({"expiries"})
    /\ expired' = TRUE
    /\ UNCHANGED <<keyRow, keyCache, revoking, costVars, guard, request>>

\* revokeApiKey: the row first.
DeleteKey ==
    /\ keyRow
    /\ Spend({"revokes"})
    /\ keyRow' = FALSE
    /\ revoking' = TRUE
    /\ UNCHANGED <<expired, keyCache, costVars, guard, request>>

\* Nothing clears the entry but its TTL.
KeyLeft == keyCache

KeyBusted == None

\* Then the entry, if Redis answers.
BustKey ==
    /\ revoking
    /\ revoking' = FALSE
    /\ \/ keyCache' = KeyBusted /\ UNCHANGED spent
       \/ Spend({"redis"}) /\ UNCHANGED keyCache
    /\ UNCHANGED <<keyRow, expired, costVars, guard, request>>

KeyEntryExpires ==
    /\ keyCache # None
    /\ keyCache' = None
    /\ UNCHANGED <<keyRow, expired, revoking, costVars, guard, request, spent>>

-----------------------------------------------------------------------------
(* The budget, its cost, and the guard's cache.                            *)

\* No call to invalidateBudgetGuard.
KeptThrough == guard

\* invalidateBudgetGuard
Invalidated == None

\* setCostBudget, deleteCostBudget: the guard's entry goes first, if Redis
\* answers.
StartEdit ==
    /\ edit = None
    /\ \/ guard' = Invalidated /\ Spend({"edits"})
       \/ UNCHANGED guard /\ Spend({"edits", "redis"})
    /\ \E limit \in Limits \union {None} : edit' = [cap |-> limit]
    /\ UNCHANGED <<keyVars, budget, spend, carry, request>>

WriteBudget ==
    /\ edit # None
    /\ budget' = edit.cap
    /\ edit' = None
    /\ UNCHANGED <<keyVars, spend, carry, guard, request, spent>>

CostMoves ==
    /\ spend < MaxSpend
    /\ Spend({"moves"})
    /\ spend' = spend + 1
    /\ UNCHANGED <<keyVars, budget, edit, carry, guard, request>>

\* Any part of the cost may have fallen on the last day.
NewMonth ==
    /\ Spend({"months"})
    /\ carry' \in 0..spend
    /\ spend' = 0
    /\ UNCHANGED <<keyVars, budget, edit, guard, request>>

GuardEntryExpires ==
    /\ guard # None
    /\ guard' = None
    /\ UNCHANGED <<keyVars, costVars, request, spent>>

-----------------------------------------------------------------------------
(* authenticateKeys, with the right secret.                                *)

\* Where a request goes that was told its key is good.
CheckBudget(r) == request' = [request EXCEPT ![r].at = "guard"]

Call(r) == request' = [request EXCEPT ![r] = [Idle EXCEPT !.at = "calling"]]

Refuse(r) == request' = [request EXCEPT ![r] = [Idle EXCEPT !.at = "refused"]]

\* Every hit keeps the entry for another minute.
KeyHitKept(r) == request' = [request EXCEPT ![r].at = "keep key"]

KeyHit(r) == CheckBudget(r)

\* A hit answers for the row; an error counts as a miss.
Arrive(r) ==
    /\ request[r].at = "idle"
    /\ \/ /\ keyCache # None
          /\ IF expired THEN Refuse(r) ELSE KeyHit(r)
          /\ UNCHANGED spent
       \/ /\ \/ keyCache = None /\ UNCHANGED spent
             \/ keyCache # None /\ Spend({"redis"})
          /\ request' = [request EXCEPT ![r].at = "find key"]
    /\ UNCHANGED <<keyVars, costVars, guard>>

FindKey(r) ==
    /\ request[r].at = "find key"
    /\ IF keyRow /\ ~expired
       THEN request' = [request EXCEPT ![r].at = "keep key"]
       ELSE Refuse(r)
    /\ UNCHANGED <<keyVars, costVars, guard, spent>>

\* raced is a ghost: the row was gone by then.
KeepKey(r) ==
    /\ request[r].at = "keep key"
    /\ \/ keyCache' = [raced |-> ~keyRow] /\ UNCHANGED spent
       \/ Spend({"redis"}) /\ UNCHANGED keyCache
    /\ CheckBudget(r)
    /\ UNCHANGED <<keyRow, expired, revoking, costVars, guard>>

-----------------------------------------------------------------------------
(* assertWithinBudget                                                      *)

\* A hit is judged as it is.
FromEntry == "judge"

ReadGuard(r) ==
    /\ request[r].at = "guard"
    /\ \/ /\ guard # None
          /\ request' = [request EXCEPT ![r].at = FromEntry, ![r].cap = guard]
          /\ UNCHANGED spent
       \/ /\ \/ guard = None /\ UNCHANGED spent
             \/ guard # None /\ Spend({"redis"})
          /\ request' = [request EXCEPT ![r].at = "find budget"]
    /\ UNCHANGED <<keyVars, costVars, guard>>

\* load: without a hard cap there is nothing to measure.
FindBudget(r) ==
    /\ request[r].at = "find budget"
    /\ request' = [request EXCEPT ![r] =
          IF budget # None
          THEN [@ EXCEPT !.at = "measure", !.cap = [NoCap EXCEPT !.hard = TRUE, !.limit = budget, !.rev = Rev]]
          ELSE [@ EXCEPT !.at = "keep cap", !.cap = [NoCap EXCEPT !.rev = Rev, !.month = Month]]]
    /\ UNCHANGED <<keyVars, costVars, guard, spent>>

GuardCost == spend + carry

\* load: a count of days rounded up reaches into the month before; a store
\* that fails lets the call through.
Measure(r) ==
    /\ request[r].at = "measure"
    /\ \/ /\ request' = [request EXCEPT ![r].at = "keep cap", ![r].cap.cost = GuardCost, ![r].cap.month = Month]
          /\ UNCHANGED spent
       \/ /\ Spend({"store"})
          /\ Call(r)
    /\ UNCHANGED <<keyVars, costVars, guard>>

KeepCap(r) ==
    LET cap == request[r].cap
    IN /\ request[r].at = "keep cap"
       /\ \/ /\ guard' = [cap EXCEPT !.raced = cap.rev # Rev \/ edit # None]
             /\ UNCHANGED spent
          \/ Spend({"redis"}) /\ UNCHANGED guard
       /\ request' = [request EXCEPT ![r].at = "judge"]
       /\ UNCHANGED <<keyVars, costVars>>

\* Without the flag: an entry without a cap has a limit of zero.
ExhaustedSoft(cap) == cap.cost >= cap.limit

Exhausted(cap) == cap.hard /\ cap.cost >= cap.limit

Judge(r) ==
    /\ request[r].at = "judge"
    /\ IF Exhausted(request[r].cap) THEN Refuse(r) ELSE Call(r)
    /\ UNCHANGED <<keyVars, costVars, guard, spent>>

Answer(r) ==
    /\ request[r].at \in {"calling", "refused"}
    /\ request' = [request EXCEPT ![r] = Idle]
    /\ UNCHANGED <<keyVars, costVars, guard, spent>>

AuthenticateKeys(r) == Arrive(r) \/ FindKey(r) \/ KeepKey(r)

AssertWithinBudget(r) ==
    ReadGuard(r) \/ FindBudget(r) \/ Measure(r) \/ KeepCap(r) \/ Judge(r)

Next ==
    \/ KeyExpires \/ DeleteKey \/ BustKey \/ KeyEntryExpires
    \/ StartEdit \/ WriteBudget \/ CostMoves \/ NewMonth \/ GuardEntryExpires
    \/ \E r \in Request : AuthenticateKeys(r) \/ AssertWithinBudget(r) \/ Answer(r)

\* A request, a revocation and an edit that have begun go on; an entry whose
\* TTL nobody renews expires, if it is not gone before.
Fairness ==
    /\ WF_vars(BustKey) /\ WF_vars(WriteBudget)
    /\ WF_vars(KeyEntryExpires) /\ WF_vars(GuardEntryExpires)
    /\ \A r \in Request :
          WF_vars((request[r].at # "idle" /\ AuthenticateKeys(r)) \/ AssertWithinBudget(r) \/ Answer(r))

Spec == Init /\ [][Next]_vars /\ Fairness

-----------------------------------------------------------------------------
(* Types.                                                                  *)
CapType == [hard : BOOLEAN, limit : Limits \union {0}, cost : 0..2 * MaxSpend,
            rev : Nat, month : Nat, raced : BOOLEAN]

TypeOK ==
    /\ keyRow \in BOOLEAN /\ expired \in BOOLEAN /\ revoking \in BOOLEAN
    /\ keyCache = None \/ keyCache \in [raced : BOOLEAN]
    /\ budget \in Limits \union {None}
    /\ edit = None \/ edit \in [cap : Limits \union {None}]
    /\ spend \in 0..MaxSpend /\ carry \in 0..MaxSpend
    /\ guard = None \/ guard \in CapType
    /\ request \in [Request -> [at : Places, cap : CapType]]
    /\ spent \in [Kinds -> Nat]

(* A revoked key's entry is only left when Redis failed or when a request  *)
(* that had found the row kept it after the revocation had cleaned up.     *)
StaleKeyRaced ==
    ~keyRow /\ keyCache # None => revoking \/ keyCache.raced \/ spent["redis"] > 0

(* Clearing the guard's entry works: one that was right when it was kept   *)
(* is not there after the next edit.                                       *)
StaleCapRaced ==
    guard # None /\ guard.rev # Rev => guard.raced \/ spent["redis"] > 0

(* A 402 is for a hard cap the cost has reached, unless the budget or the  *)
(* month has changed since it was measured.                                *)
RefusedOverCap ==
    \A r \in Request :
        LET cap == request[r].cap
        IN request[r].at = "judge" /\ Exhausted(cap) /\ cap.rev = Rev /\ cap.month = Month
           => budget # None /\ spend + carry >= budget

(* A revoked or expired key stops working, whatever races: entries that    *)
(* raced with the revocation run out and nothing renews them.              *)
KeyDies == <>[](~keyRow \/ expired) => <>[](\A r \in Request : request[r].at \in {"idle", "find key", "refused"})

Over == edit = None /\ budget # None /\ spend >= budget

(* A hard cap that stays exhausted stops every call in the end, whatever   *)
(* the cache held.                                                         *)
CapHolds == <>[]Over => <>[](\A r \in Request : request[r].at # "calling")

Within == edit = None /\ (budget = None \/ spend + carry < budget)

(* A raised or lifted cap, or a new month, lets calls through in the end.  *)
CallsResume ==
    <>[](keyRow /\ ~expired /\ Within) => <>[](\A r \in Request : request[r].at # "refused")

(* Every change of a key or of a budget takes hold in the end.             *)
ChangesTakeHold == KeyDies /\ CapHolds /\ CallsResume
=============================================================================
