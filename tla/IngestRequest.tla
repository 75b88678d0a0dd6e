--------------------------- MODULE IngestRequest ----------------------------
(***************************************************************************)
(* POST /v1/ingest with an Idempotency-Key: the requests by which a client *)
(* sends ONE batch under one key, again after every timeout or error, so   *)
(* that several handlers may be running at once.  A handler claims the key *)
(* in Redis, passes the event rate limit, submits the batch under a batch  *)
(* id of its own (IngestQueue models submitBatch in detail), and stores    *)
(* the response or releases the claim.  Every Redis error fails open.      *)
(***************************************************************************)
EXTENDS Naturals, FiniteSets

CONSTANTS
    Attempt,     \* the client's attempts to send the batch
    Unanswered,  \* no answer yet
    Limit,       \* batches of the project a rate window admits, 0 for no limit
    IngestPlans  \* bound: the trouble of a behaviour stays within one of these

\* Redis errors, failed submissions, submissions whose failure is uncertain,
\* dying handlers, expiries of the 24 h claim.
IngestKinds == {"redis", "refusals", "unsure", "crashes", "expiries"}

Answers == {"accepted", "replayed", "pending", "limited", "unavailable", "lost"}

ASSUME RequestAssumption ==
    /\ IsFiniteSet(Attempt)
    /\ Unanswered \notin Answers
    /\ Limit \in Nat
    /\ IngestPlans \subseteq [IngestKinds -> Nat]

VARIABLES
    claim,     \* the Redis key: free, pending, or holding the response
    at,        \* where each request is
    answer,    \* what its client was told
    used,      \* batches counted in the current rate window
    enqueued,  \* requests whose batch a worker will ingest
    trouble    \* trouble so far, by kind

ingestVars == <<claim, at, answer, used, enqueued, trouble>>

Handling == {"claim", "look", "limit", "submit", "release", "store"}

SpendTrouble(kind) ==
    /\ trouble' = [trouble EXCEPT ![kind] = @ + 1]
    /\ \E plan \in IngestPlans : \A k \in IngestKinds : trouble'[k] <= plan[k]

IngestInit ==
    /\ claim = "free"
    /\ at = [r \in Attempt |-> "unsent"]
    /\ answer = [r \in Attempt |-> Unanswered]
    /\ used = 0
    /\ enqueued = {}
    /\ trouble = [k \in IngestKinds |-> 0]

Goto(r, place) ==
    /\ at' = [at EXCEPT ![r] = place]
    /\ UNCHANGED answer

Reply(r, what) ==
    /\ at' = [at EXCEPT ![r] = "answered"]
    /\ answer' = [answer EXCEPT ![r] = what]

-----------------------------------------------------------------------------
Send(r) ==
    /\ at[r] = "unsent"
    /\ Goto(r, "claim")
    /\ UNCHANGED <<claim, used, enqueued, trouble>>

\* NX forgotten.
FreshAlways == TRUE

\* SET NX finds no key.
Fresh == claim = "free"

\* SET key "__pending__" EX NX; an error counts as a claim, applied or not.
Claim(r) ==
    /\ at[r] = "claim"
    /\ \/ Fresh /\ claim' = "pending" /\ Goto(r, "limit") /\ UNCHANGED trouble
       \/ ~Fresh /\ Goto(r, "look") /\ UNCHANGED <<claim, trouble>>
       \/ /\ SpendTrouble("redis")
          /\ claim' \in {claim, IF Fresh THEN "pending" ELSE claim}
          /\ Goto(r, "limit")
    /\ UNCHANGED <<used, enqueued>>

\* GET key, a second command: a key gone meanwhile is taken for expired, and
\* the request goes on as fresh although it holds no claim.
Look(r) ==
    /\ at[r] = "look"
    /\ \/ claim = "free" /\ Goto(r, "limit") /\ UNCHANGED trouble
       \/ claim = "pending" /\ Reply(r, "pending") /\ UNCHANGED trouble
       \/ claim = "stored" /\ Reply(r, "replayed") /\ UNCHANGED trouble
       \/ SpendTrouble("redis") /\ Goto(r, "limit")
    /\ UNCHANGED <<claim, used, enqueued>>

Admitted == used < Limit

\* INCRBY, then count <= limit: counting a refused batch changes nothing more.
Counted == IF Admitted THEN used + 1 ELSE used

\* The event rate limit of the project; a 429 leaves the claim where it is.
RateLimit(r) ==
    /\ at[r] = "limit"
    /\ \/ Limit = 0 /\ Goto(r, "submit") /\ UNCHANGED <<used, trouble>>
       \/ Limit # 0 /\ Admitted /\ used' = Counted /\ Goto(r, "submit") /\ UNCHANGED trouble
       \/ Limit # 0 /\ ~Admitted /\ used' = Counted /\ Reply(r, "limited") /\ UNCHANGED trouble
       \/ Limit # 0 /\ SpendTrouble("redis") /\ used' \in {used, Counted} /\ Goto(r, "submit")
    /\ UNCHANGED <<claim, enqueued>>

\* Another batch of the project counts into the same window.
OtherTraffic ==
    /\ Limit # 0
    /\ Admitted
    /\ used' = Counted
    /\ UNCHANGED <<claim, at, answer, enqueued, trouble>>

\* A failure answered as if it were a success.
AfterFailureStore == "store"
AfterFailure == "release"

\* submitBatch: done, failed, or failed for the caller only.
Submit(r) ==
    /\ at[r] = "submit"
    /\ \/ enqueued' = enqueued \union {r} /\ Goto(r, "store") /\ UNCHANGED trouble
       \/ SpendTrouble("refusals") /\ Goto(r, AfterFailure) /\ UNCHANGED enqueued
       \/ SpendTrouble("unsure") /\ Goto(r, AfterFailure) /\ enqueued' = enqueued \union {r}
    /\ UNCHANGED <<claim, used>>

\* The claim kept by a request that failed.
ReleasedStays == claim
Released == "free"

\* DEL key, whoever holds it; best effort: an error may hide that it was done.
Release(r) ==
    /\ at[r] = "release"
    /\ \/ claim' = Released /\ UNCHANGED trouble
       \/ SpendTrouble("redis") /\ claim' \in {claim, Released}
    /\ Reply(r, "unavailable")
    /\ UNCHANGED <<used, enqueued>>

\* SET key body; best effort.
Store(r) ==
    /\ at[r] = "store"
    /\ \/ claim' = "stored" /\ UNCHANGED trouble
       \/ SpendTrouble("redis") /\ claim' \in {claim, "stored"}
    /\ Reply(r, "accepted")
    /\ UNCHANGED <<used, enqueued>>

\* The API process dies under the handler.
Crash(r) ==
    /\ at[r] \in Handling
    /\ SpendTrouble("crashes")
    /\ Reply(r, "lost")
    /\ UNCHANGED <<claim, used, enqueued>>

NextWindow ==
    /\ used > 0
    /\ used' = 0
    /\ UNCHANGED <<claim, at, answer, enqueued, trouble>>

\* Handlers last seconds, the claim a day: none is running when it expires.
Expire ==
    /\ claim # "free"
    /\ \A r \in Attempt : at[r] \notin Handling
    /\ SpendTrouble("expiries")
    /\ claim' = "free"
    /\ UNCHANGED <<at, answer, used, enqueued>>

Handle(r) == \/ Claim(r) \/ Look(r) \/ RateLimit(r)
             \/ Submit(r) \/ Release(r) \/ Store(r)

\* The client has run out of retries.
Quiet ==
    /\ \A r \in Attempt : at[r] = "answered"
    /\ UNCHANGED ingestVars

IngestNext ==
    \/ \E r \in Attempt : Send(r) \/ Handle(r) \/ Crash(r)
    \/ OtherTraffic
    \/ NextWindow
    \/ Expire
    \/ Quiet

IngestSpec == IngestInit /\ [][IngestNext]_ingestVars

-----------------------------------------------------------------------------
IngestTypeOK ==
    /\ claim \in {"free", "pending", "stored"}
    /\ at \in [Attempt -> Handling \union {"unsent", "answered"}]
    /\ answer \in [Attempt -> Answers \union {Unanswered}]
    /\ used \in 0..Limit
    /\ enqueued \subseteq Attempt
    /\ trouble \in [IngestKinds -> Nat]

(* A retry gets the first response replayed "instead of creating a second  *)
(* batch" (app.ts): while no submission fails, each further batch has a    *)
(* cause of its own, a Redis error or the end of the claim's day: not a    *)
(* handler that died, nor any number of handlers at once                   *)
(* (claimIdempotencyKey).                                                  *)
ExtraBatchExplained ==
    trouble["refusals"] = 0 /\ trouble["unsure"] = 0
        => Cardinality(enqueued) <= 1 + trouble["redis"] + trouble["expiries"]

(* A client told 207, by its own request or by a replayed response, has    *)
(* its batch on the queue (submit, then storeIdempotentResponse).          *)
AcknowledgedIsEnqueued ==
    (\E r \in Attempt : answer[r] \in {"accepted", "replayed"}) => enqueued # {}

Working == {r \in Attempt : at[r] \in {"limit", "submit", "release", "store"}}

Undisturbed == trouble["redis"] = 0 /\ trouble["crashes"] = 0

(* While no handler has died and Redis has answered, only a 429 leaves a   *)
(* pending key that nobody is working for: a failed request gives it up, a *)
(* successful one turns it into the response (releaseIdempotencyKey,       *)
(* storeIdempotentResponse).                                               *)
PendingExplained ==
    claim = "pending" /\ Undisturbed
        => Working # {} \/ \E r \in Attempt : answer[r] = "limited"

=============================================================================
