---------------------------- MODULE IngestQueue -----------------------------
(***************************************************************************)
(* The life of a raw batch between the API and the stores: submitBatch     *)
(* writes it to blob storage and enqueues a job, workers run the job with  *)
(* retries, stalls and crashes, failed jobs go to the dead-letter queue,   *)
(* and operators replay dead letters (replayDlq) or whole stretches of the *)
(* blob log (scripts/replay-blob.ts).                                      *)
(*                                                                         *)
(* What a job writes to the stores is one step here (Land): MutableState   *)
(* models it.  Queue, worker and locks are BullMQ's, modelled from how the *)
(* code configures and calls them.                                         *)
(***************************************************************************)
EXTENDS Integers, Sequences, FiniteSets

CONSTANTS
    Batch,         \* raw batches, one blob object each
    Project,       \* tenants
    ProjectOf,     \* Batch -> Project
    Worker,        \* worker slots, each a process of its own
    Replayer,      \* processes that may run replayDlq: console API, dlq CLI
    None,          \* no owner, no scope
    MaxAttempts,   \* attempts (8 in the code)
    MaxStalled,    \* maxStalledCount (2 in the code)
    PageSize,      \* REPLAY_PAGE (500 in the code)
    ReplayLimit,   \* the limit argument of replayDlq
    Plans          \* bound: the trouble of a behaviour stays within one of these

\* Failing calls, calls whose answer is lost, lost `failed' handlers, blocked
\* event loops, dying workers, dying API processes, calls of replayDlq, removals
\* in one that fail or fail to answer, locks that run out under a live replay,
\* runs of the blob replay tool.
Kinds == {"refusals", "unsure", "dropped", "stalls", "crashes", "aborts",
          "replays", "leftovers", "vanished", "lapses", "rebuilds"}

ASSUME QueueAssumption ==
    /\ ProjectOf \in [Batch -> Project]
    /\ None \notin Worker \union Replayer \union Project
    /\ MaxAttempts \in Nat \ {0}
    /\ MaxStalled \in Nat
    /\ PageSize \in Nat \ {0}
    /\ ReplayLimit \in Nat
    /\ Plans \subseteq [Kinds -> Nat]

VARIABLES
    api,        \* where the request that brings each batch is
    blob,       \* batches whose object is in blob storage
    jobs,       \* every job ever added, in order of its id
    worker,     \* what each slot is running
    failing,    \* jobs whose `failed` handler is about to dead-letter them
    dlq,        \* the dead-letter queue: job ids, newest first
    replayer,   \* the state of each replayDlq call
    lock,       \* holder of the dlq-replay lock
    landed,     \* batches whose events are in the stores
    metered,    \* how often each batch was added to the usage counters
    evaluated,  \* how often its online evaluators ran
    spent       \* trouble so far, by kind

apiVars    == <<api, blob>>
replayVars == <<replayer, lock>>
effects    == <<landed, metered, evaluated>>
vars == <<api, blob, jobs, worker, failing, dlq, replayer, lock,
          landed, metered, evaluated, spent>>

-----------------------------------------------------------------------------
\* Jobs

Live == {"wait", "delayed", "active"}

Job(b, replay) == [batch |-> b, replay |-> replay, st |-> "wait",
                   made |-> 0, stalls |-> 0, owner |-> None]

Add(b, replay) == jobs' = Append(jobs, Job(b, replay))

JobSet == [batch: Batch, replay: BOOLEAN,
           st: Live \union {"done", "failed"}, made: 0..MaxAttempts,
           stalls: 0..(MaxStalled + 1), owner: Worker \union {None}]

Ids == DOMAIN jobs

Spend(kind) ==
    /\ spent' = [spent EXCEPT ![kind] = @ + 1]
    /\ \E plan \in Plans : \A k \in Kinds : spent'[k] <= plan[k]

\* When BullMQ moves a job that threw to the failed set.
Terminal(why, made) == why = "unrecoverable" \/ made >= MaxAttempts

\* The failures that come before the last attempt forgotten.
ShouldDeadLetterLate(why, made) == made >= MaxAttempts

\* Why a failed job is kept for replay rather than left to be evicted.
ShouldDeadLetter(why, made) ==
    \/ made >= MaxAttempts
    \/ why = "unrecoverable"
    \/ why = "stalled"

-----------------------------------------------------------------------------
\* What a call of replayDlq holds.  `todo' and `gone' are history: the dead
\* letters in scope when it began that it has not tried yet, and how many it
\* counts as kept though their removal was done.

NoReplay == [pc |-> "idle", scope |-> None, page |-> <<>>, last |-> FALSE,
             kept |-> 0, replayed |-> 0, todo |-> {}, gone |-> 0]

InScope(j, scope) == scope \in {None, ProjectOf[jobs[j].batch]}

Init ==
    /\ api = [b \in Batch |-> "idle"]
    /\ blob = {}
    /\ jobs = <<>>
    /\ worker = [w \in Worker |-> [job |-> 0, pc |-> "idle", made |-> 0]]
    /\ failing = [w \in Worker |-> {}]
    /\ dlq = <<>>
    /\ replayer = [r \in Replayer |-> NoReplay]
    /\ lock = None
    /\ landed = {}
    /\ metered = [b \in Batch |-> 0]
    /\ evaluated = [b \in Batch |-> 0]
    /\ spent = [k \in Kinds |-> 0]

-----------------------------------------------------------------------------
\* submitBatch: blob, then queue; a failed enqueue takes the blob back

PutBlob(b) ==
    /\ api[b] = "idle"
    /\ \/ /\ blob' = blob \union {b}
          /\ api' = [api EXCEPT ![b] = "stored"]
          /\ UNCHANGED spent
       \/ /\ Spend("refusals")
          /\ api' = [api EXCEPT ![b] = "refused"]
          /\ UNCHANGED blob
    /\ UNCHANGED <<jobs, worker, failing, dlq, replayVars, effects>>

Enqueue(b) ==
    /\ api[b] = "stored"
    /\ Add(b, FALSE)
    /\ api' = [api EXCEPT ![b] = "accepted"]
    /\ UNCHANGED <<blob, worker, failing, dlq, replayVars, effects, spent>>

\* The add throws, having enqueued the job or not.
AddThrows(b) ==
    \/ Spend("refusals") /\ UNCHANGED jobs
    \/ Spend("unsure") /\ Add(b, FALSE)

EnqueueThrows(b) ==
    /\ api[b] = "stored"
    /\ AddThrows(b)
    /\ api' = [api EXCEPT ![b] = "cleanup"]
    /\ UNCHANGED <<blob, worker, failing, dlq, replayVars, effects>>

\* Best effort: an error of the delete is swallowed.
DropBlob(b) ==
    /\ api[b] = "cleanup"
    /\ blob' \in {blob, blob \ {b}}
    /\ api' = [api EXCEPT ![b] = "refused"]
    /\ UNCHANGED <<jobs, worker, failing, dlq, replayVars, effects, spent>>

ApiCrash(b) ==
    /\ api[b] \in {"stored", "cleanup"}
    /\ Spend("aborts")
    /\ api' = [api EXCEPT ![b] = "refused"]
    /\ UNCHANGED <<blob, jobs, worker, failing, dlq, replayVars, effects>>

-----------------------------------------------------------------------------
\* The worker: one attempt of one job

At(w, pc) == worker[w].pc = pc
Goto(w, pc) == worker' = [worker EXCEPT ![w].pc = pc]
Free(w) == worker' = [worker EXCEPT ![w] = [job |-> 0, pc |-> "idle", made |-> 0]]
BatchOf(w) == jobs[worker[w].job].batch

Take(w, j) ==
    /\ At(w, "idle")
    /\ jobs[j].st = "wait"
    /\ jobs' = [jobs EXCEPT ![j].st = "active", ![j].owner = w]
    /\ worker' = [worker EXCEPT ![w] = [job |-> j, pc |-> "read", made |-> jobs[j].made]]
    /\ UNCHANGED <<apiVars, failing, dlq, replayVars, effects, spent>>

\* The attempt throws.  BullMQ settles the job only for the holder of its
\* lock; a run whose job has been handed on ends without a trace.
Fail(w, why) ==
    LET j    == worker[w].job
        made == worker[w].made + 1
        over == Terminal(why, made)
    IN  /\ Free(w)
        /\ \/ /\ jobs[j].owner # w
              /\ UNCHANGED <<jobs, failing>>
           \/ /\ jobs[j].owner = w
              /\ jobs' = [jobs EXCEPT ![j].st = IF over THEN "failed" ELSE "delayed",
                                      ![j].made = made, ![j].owner = None]
              /\ failing' = [failing EXCEPT ![w] =
                                IF ShouldDeadLetter(why, made) THEN @ \union {j} ELSE @]
        /\ UNCHANGED <<apiVars, dlq, replayVars, effects, spent>>

\* The gate forgotten: every attempt meters.
MetersAlways(w) == ~jobs[worker[w].job].replay

\* Usage is metered by the first attempt of a job that is not a blob replay.
Meters(w) == worker[w].made = 0 /\ ~jobs[worker[w].job].replay

ReadBlob(w) ==
    /\ At(w, "read")
    /\ BatchOf(w) \in blob
    /\ Goto(w, IF Meters(w) THEN "meter" ELSE "work")
    /\ UNCHANGED <<apiVars, jobs, failing, dlq, replayVars, effects, spent>>

MissBlob(w) ==
    /\ At(w, "read")
    /\ BatchOf(w) \notin blob
    /\ Fail(w, "unrecoverable")

\* A metering error is logged and swallowed.
Meter(w) ==
    /\ At(w, "meter")
    /\ \/ metered' = [metered EXCEPT ![BatchOf(w)] = @ + 1] /\ UNCHANGED spent
       \/ Spend("refusals") /\ UNCHANGED metered
    /\ Goto(w, "work")
    /\ UNCHANGED <<apiVars, jobs, failing, dlq, replayVars, landed, evaluated>>

Land(w) ==
    /\ At(w, "work")
    /\ landed' = landed \union {BatchOf(w)}
    /\ Goto(w, "evals")
    /\ UNCHANGED <<apiVars, jobs, failing, dlq, replayVars, metered, evaluated, spent>>

Evaluate(w) ==
    /\ At(w, "evals")
    /\ evaluated' = [evaluated EXCEPT ![BatchOf(w)] =
                        IF jobs[worker[w].job].replay THEN @ ELSE @ + 1]
    /\ Goto(w, "finish")
    /\ UNCHANGED <<apiVars, jobs, failing, dlq, replayVars, landed, metered, spent>>

Finish(w) ==
    /\ At(w, "finish")
    /\ Free(w)
    /\ jobs' = [jobs EXCEPT ![worker[w].job] =
                   IF @.owner = w THEN [@ EXCEPT !.st = "done", !.owner = None] ELSE @]
    /\ UNCHANGED <<apiVars, failing, dlq, replayVars, effects, spent>>

\* A transient error while reading the blob or writing the stores.
Throw(w) ==
    /\ worker[w].pc \in {"read", "work"}
    /\ Fail(w, "error")

\* The backoff delay is over.
Promote(j) ==
    /\ jobs[j].st = "delayed"
    /\ jobs' = [jobs EXCEPT ![j].st = "wait"]
    /\ UNCHANGED <<apiVars, worker, failing, dlq, replayVars, effects, spent>>

-----------------------------------------------------------------------------
\* Stalls, crashes and the dead-letter handler

\* The lock of an active job ran out: its worker died, or its event loop was
\* blocked for lockDuration.  Worker w's check finds the job, hands it back,
\* and the attempt counter does not move.
Stall(w, j) ==
    LET over == jobs[j].stalls >= MaxStalled
    IN  /\ jobs[j].st = "active"
        /\ jobs' = [jobs EXCEPT ![j].st = IF over THEN "failed" ELSE "wait",
                                ![j].stalls = @ + 1, ![j].owner = None]
        /\ failing' = [failing EXCEPT ![w] =
                          IF over /\ ShouldDeadLetter("stalled", jobs[j].made)
                          THEN @ \union {j} ELSE @]
        /\ UNCHANGED <<apiVars, worker, dlq, replayVars, effects>>

Orphaned(j) == jobs[j].st = "active" /\ worker[jobs[j].owner].job # j

\* The stalled check of any live worker, for a job whose worker died ...
Recover(w, j) == Orphaned(j) /\ Stall(w, j) /\ UNCHANGED spent

\* ... and for one whose worker is only slow, and runs on.
Wedge(w, j) == ~Orphaned(j) /\ Stall(w, j) /\ Spend("stalls")

\* The process dies with no handler under way (DropDeadLetter is the other case).
WorkerCrash(w) ==
    /\ ~At(w, "idle")
    /\ failing[w] = {}
    /\ Spend("crashes")
    /\ Free(w)
    /\ UNCHANGED <<apiVars, jobs, failing, dlq, replayVars, effects>>

DeadLetter(w, j) ==
    /\ j \in failing[w]
    /\ dlq' = <<j>> \o dlq
    /\ failing' = [failing EXCEPT ![w] = @ \ {j}]
    /\ UNCHANGED <<apiVars, jobs, worker, replayVars, effects, spent>>

\* dlq.add throws, which is only logged, or the process dies before it returns.
DropDeadLetter(w, j) ==
    /\ j \in failing[w]
    /\ Spend("dropped")
    /\ failing' = [failing EXCEPT ![w] = @ \ {j}]
    /\ UNCHANGED <<apiVars, jobs, worker, dlq, replayVars, effects>>

-----------------------------------------------------------------------------
\* replayDlq, under the fail-closed lock dlq-replay, and the blob replay tool

Now(r, pc) == replayer[r].pc = pc
Matching(scope) == {dlq[i] : i \in {k \in 1..Len(dlq) : InScope(dlq[k], scope)}}

\* The lock forgotten.
LockFreeAlways == TRUE

\* SET NX: a second replay finds the lock held and gives up.
LockFree == lock = None

ReplayStart(r, scope) ==
    /\ replayer[r].pc \in {"idle", "done"}
    /\ LockFree
    /\ Spend("replays")
    /\ lock' = r
    /\ replayer' = [replayer EXCEPT ![r] =
           [NoReplay EXCEPT !.pc = "page", !.scope = scope, !.todo = Matching(scope)]]
    /\ UNCHANGED <<apiVars, jobs, worker, failing, dlq, effects>>

\* The offset advanced by all that was handled, though removals shift the pages.
PageOfHandled(r, want) ==
    LET from == replayer[r].kept + replayer[r].replayed
    IN  SubSeq(dlq, from + 1, IF from + want < Len(dlq) THEN from + want ELSE Len(dlq))

\* dlq.getJobs(kept, kept + want - 1): kept jobs stay ahead of the page.
PageOf(r, want) ==
    LET from == replayer[r].kept
    IN  SubSeq(dlq, from + 1, IF from + want < Len(dlq) THEN from + want ELSE Len(dlq))

Want(r) == IF ReplayLimit - replayer[r].replayed < PageSize
           THEN ReplayLimit - replayer[r].replayed ELSE PageSize

\* A call that stops at its limit owes nothing more.
EndReplay(r) ==
    /\ replayer' = [replayer EXCEPT ![r] = [NoReplay EXCEPT !.pc = "done",
           !.gone = replayer[r].gone,
           !.todo = IF replayer[r].replayed < ReplayLimit THEN replayer[r].todo ELSE {}]]
    /\ lock' = IF lock = r THEN None ELSE lock

ReplayPage(r) ==
    /\ Now(r, "page")
    /\ LET page == PageOf(r, Want(r))
       IN  IF page = <<>>
           THEN EndReplay(r)
           ELSE /\ replayer' = [replayer EXCEPT ![r].pc = "step", ![r].page = page,
                                                ![r].last = Len(page) < Want(r)]
                /\ UNCHANGED lock
    /\ UNCHANGED <<apiVars, jobs, worker, failing, dlq, effects, spent>>

ReplayPageEnd(r) ==
    /\ Now(r, "step")
    /\ replayer[r].page = <<>>
    /\ IF replayer[r].last
       THEN EndReplay(r)
       ELSE replayer' = [replayer EXCEPT ![r].pc = "page"] /\ UNCHANGED lock
    /\ UNCHANGED <<apiVars, jobs, worker, failing, dlq, effects, spent>>

HasLetter(r, pc) == Now(r, pc) /\ replayer[r].page # <<>>

Letter(r) == Head(replayer[r].page)

\* A job id is in the queue at most once.
Without(queue, j) ==
    LET i == CHOOSE k \in DOMAIN queue : queue[k] = j
    IN  IF \E k \in DOMAIN queue : queue[k] = j
        THEN SubSeq(queue, 1, i - 1) \o SubSeq(queue, i + 1, Len(queue))
        ELSE queue

\* The letter stays in the queue: the rest of the page shifts by one.
KeepLetter(r) ==
    replayer' = [replayer EXCEPT ![r].pc = "step", ![r].page = Tail(@),
                                 ![r].kept = @ + 1, ![r].todo = @ \ {Letter(r)}]

ReplaySkip(r) ==
    /\ HasLetter(r, "step")
    /\ ~InScope(Letter(r), replayer[r].scope)
    /\ KeepLetter(r)
    /\ UNCHANGED <<apiVars, jobs, worker, failing, dlq, lock, effects, spent>>

\* The new job carries project, batch and key, not the replay flag.
ReplayAdd(r) ==
    /\ HasLetter(r, "step")
    /\ InScope(Letter(r), replayer[r].scope)
    /\ Add(jobs[Letter(r)].batch, FALSE)
    /\ replayer' = [replayer EXCEPT ![r].pc = "remove", ![r].todo = @ \ {Letter(r)}]
    /\ UNCHANGED <<apiVars, worker, failing, dlq, lock, effects, spent>>

ReplayAddThrows(r) ==
    /\ HasLetter(r, "step")
    /\ InScope(Letter(r), replayer[r].scope)
    /\ AddThrows(jobs[Letter(r)].batch)
    /\ KeepLetter(r)
    /\ UNCHANGED <<apiVars, worker, failing, dlq, lock, effects>>

ReplayRemove(r) ==
    /\ HasLetter(r, "remove")
    /\ dlq' = Without(dlq, Letter(r))
    /\ replayer' = [replayer EXCEPT ![r].pc = "step", ![r].page = Tail(@),
                                    ![r].replayed = @ + 1]
    /\ UNCHANGED <<apiVars, jobs, worker, failing, lock, effects, spent>>

ReplayRemoveThrows(r) ==
    /\ HasLetter(r, "remove")
    /\ Spend("leftovers")
    /\ KeepLetter(r)
    /\ UNCHANGED <<apiVars, jobs, worker, failing, dlq, lock, effects>>

\* job.remove() throws though it was done: a letter that is gone counts as kept.
ReplayRemoveVanishes(r) ==
    /\ HasLetter(r, "remove")
    /\ Spend("vanished")
    /\ dlq' = Without(dlq, Letter(r))
    /\ replayer' = [replayer EXCEPT ![r].pc = "step", ![r].page = Tail(@),
                                    ![r].kept = @ + 1, ![r].gone = @ + 1]
    /\ UNCHANGED <<apiVars, jobs, worker, failing, lock, effects>>

\* The process dies; the lock stays until its TTL runs out.
ReplayCrash(r) ==
    /\ replayer[r].pc \in {"page", "step", "remove"}
    /\ IF Now(r, "remove") THEN Spend("leftovers") ELSE Spend("aborts")
    /\ replayer' = [replayer EXCEPT ![r] = NoReplay]
    /\ UNCHANGED <<apiVars, jobs, worker, failing, dlq, lock, effects>>

LockExpires ==
    /\ lock # None
    /\ replayer[lock].pc = "idle"
    /\ lock' = None
    /\ UNCHANGED <<apiVars, jobs, worker, failing, dlq, replayer, effects, spent>>

\* The heartbeat's errors are swallowed: the lock of a replay that cannot renew
\* it, or is suspended, runs out under it, and the replay goes on.
LockLapses ==
    /\ lock # None
    /\ replayer[lock].pc # "idle"
    /\ Spend("lapses")
    /\ lock' = None
    /\ UNCHANGED <<apiVars, jobs, worker, failing, dlq, replayer, effects>>

\* scripts/replay-blob.ts: any batch in blob storage, marked as a replay.
ReplayBlob(b) ==
    /\ b \in blob
    /\ Spend("rebuilds")
    /\ Add(b, TRUE)
    /\ UNCHANGED <<apiVars, worker, failing, dlq, replayVars, effects>>

-----------------------------------------------------------------------------
Submit(b) == PutBlob(b) \/ Enqueue(b) \/ EnqueueThrows(b) \/ DropBlob(b) \/ ApiCrash(b)

Attempt(w) == \/ \E j \in Ids : Take(w, j)
              \/ ReadBlob(w) \/ MissBlob(w) \/ Meter(w)
              \/ Land(w) \/ Evaluate(w) \/ Finish(w)

Replay(r) == \/ \E scope \in Project \union {None} : ReplayStart(r, scope)
             \/ ReplayPage(r) \/ ReplayPageEnd(r) \/ ReplaySkip(r)
             \/ ReplayAdd(r) \/ ReplayAddThrows(r)
             \/ ReplayRemove(r) \/ ReplayRemoveThrows(r)
             \/ ReplayRemoveVanishes(r) \/ ReplayCrash(r)

\* Nothing is under way: the system waits for the next request.
Idle ==
    /\ \A b \in Batch : api[b] \in {"accepted", "refused"}
    /\ \A j \in Ids : jobs[j].st \notin Live
    /\ \A w \in Worker : At(w, "idle") /\ failing[w] = {}
    /\ \A r \in Replayer : replayer[r].pc \in {"idle", "done"}
    /\ UNCHANGED vars

Next ==
    \/ \E b \in Batch : Submit(b) \/ ReplayBlob(b)
    \/ \E w \in Worker : Attempt(w) \/ Throw(w) \/ WorkerCrash(w)
    \/ \E j \in Ids : Promote(j)
    \/ \E w \in Worker, j \in Ids : Recover(w, j) \/ Wedge(w, j)
                                    \/ DeadLetter(w, j) \/ DropDeadLetter(w, j)
    \/ \E r \in Replayer : Replay(r)
    \/ LockExpires \/ LockLapses
    \/ Idle

Spec == Init /\ [][Next]_vars

(***************************************************************************)
(* Workers keep taking jobs and running them, the delayed set is promoted  *)
(* and stalled jobs are found by BullMQ's timers, and the event loop runs  *)
(* the failed handler.  Nothing obliges a step to throw, a process to die  *)
(* or an operator to replay.                                               *)
(***************************************************************************)
FairSpec ==
    /\ Spec
    /\ \A w \in Worker : WF_vars(Attempt(w))
    /\ WF_vars(\E j \in Ids : Promote(j))
    /\ WF_vars(\E w \in Worker, j \in Ids : Recover(w, j))
    /\ WF_vars(\E w \in Worker, j \in Ids : DeadLetter(w, j))

-----------------------------------------------------------------------------
\* Properties

RunSet == [job: Ids \union {0}, made: 0..MaxAttempts,
           pc: {"idle", "read", "meter", "work", "evals", "finish"}]

ReplaySet == [pc: {"idle", "page", "step", "remove", "done"},
              scope: Project \union {None}, page: Seq(Ids), last: BOOLEAN,
              kept: Nat, replayed: Nat, todo: SUBSET Ids, gone: Nat]

TypeOK ==
    /\ api \in [Batch -> {"idle", "stored", "accepted", "cleanup", "refused"}]
    /\ blob \subseteq Batch
    /\ jobs \in Seq(JobSet)
    /\ worker \in [Worker -> RunSet]
    /\ failing \in [Worker -> SUBSET Ids]
    /\ dlq \in Seq(Ids)
    /\ replayer \in [Replayer -> ReplaySet]
    /\ lock \in Replayer \union {None}
    /\ landed \subseteq Batch
    /\ metered \in [Batch -> Nat]
    /\ evaluated \in [Batch -> Nat]
    /\ spent \in [Kinds -> Nat]

LiveJobs(b) == {j \in Ids : jobs[j].batch = b /\ jobs[j].st \in Live}
Letters(b) == {i \in 1..Len(dlq) : jobs[dlq[i]].batch = b}
Handlers(b) == {w \in Worker : \E j \in failing[w] : jobs[j].batch = b}

\* The fate of a batch, as Delivery sees it.
Fate(b) == IF b \in landed THEN "landed"
           ELSE IF LiveJobs(b) # {} THEN "pending"
           ELSE IF Letters(b) # {} \/ Handlers(b) # {} THEN "dead"
           ELSE "none"

D == INSTANCE Delivery WITH fate <- [b \in Batch |-> Fate(b)]

(* The queue implements Delivery: whatever retries, stalls, crashes of     *)
(* workers and replays do, a batch that was enqueued never vanishes, and   *)
(* it lands or reaches the dead-letter queue in the end: no retry ladder,  *)
(* stall or lost lock leaves it circling (queue.ts, index.ts, dlq.ts).     *)
DeliversInTime == D!FairSpec

(* Retries neither bill a batch twice nor score it twice: a second time is *)
(* always the price of a stall, a dead worker, a replay or an uncertain    *)
(* enqueue (processIngest, first-attempt gate, evaluators after commit).   *)
EffectsExplained ==
    \A b \in Batch :
        LET again == Cardinality({j \in Ids : jobs[j].batch = b}) - 1
                     + spent["stalls"] + spent["crashes"]
        IN  metered[b] <= 1 + again /\ evaluated[b] <= 1 + again

(* Serialised replays never put a batch in the queue twice: at any moment  *)
(* one job, one handler or one dead letter carries it, save the letter     *)
(* that has just been enqueued and is about to be removed, and but for     *)
(* failed removals, uncertain adds and rebuilds (replayDlq).  It ends with *)
(* the serialisation: once a live replay has lost its lock, another takes  *)
(* up the same letters, and each hop of theirs may double (withLock).      *)
OneCarrier ==
    spent["lapses"] = 0 => \A b \in Batch :
        Cardinality(LiveJobs(b)) + Cardinality(Letters(b)) + Cardinality(Handlers(b))
        - Cardinality({r \in Replayer : HasLetter(r, "remove") /\ jobs[Letter(r)].batch = b})
        <= 1 + spent["leftovers"] + spent["unsure"] + spent["rebuilds"]

(* An unlimited replay that ran to its end, no live replay having lost its *)
(* lock, has tried every dead letter in its scope that was there when it   *)
(* began, though removals shift the pages under it and new letters arrive  *)
(* in front: all but one for each removal of its own that threw though it  *)
(* was done, which moves the next page on by a letter too many (replayDlq, *)
(* the kept offset).                                                       *)
ReplayMissesNone ==
    \A r \in Replayer : Now(r, "done") /\ spent["lapses"] = 0
        => Cardinality(replayer[r].todo) <= replayer[r].gone

=============================================================================
