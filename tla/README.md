# A TLA+ model of memoturn

memoturn is an LLM observability platform: SDKs send batches of trace events to
an HTTP API, a queue of worker jobs merges them into Postgres and mirrors them
into an analytical store (Doris, or Postgres as telemetry engine), and background
jobs prune, retain, evaluate, alert and run experiments over them. This directory
models the parts whose correctness depends on the order in which several actors
act, checks them with TLC and proves the main invariants with TLAPS.

## 1. Inventory

| Component | State it keeps | Operations | What makes it correct |
|---|---|---|---|
| Ingest API (`apps/api/src/app.ts` `POST /v1/ingest`, `packages/server/src/{idempotency,ratelimit,ingest}.ts`) | idempotency claims and rate counters in Redis, raw batches in blob storage, the BullMQ ingest queue | claim, rate-limit, partition, put blob, enqueue, store the response, release the claim | an accepted batch is durable and enqueued; a retry with the same key never ingests twice and is not refused for ever |
| Ingest queue and DLQ (`packages/db/src/queue.ts`, `apps/worker/src/{index,dlq}.ts`, `packages/server/src/ingest-health.ts`) | waiting, active, delayed and failed jobs, the dead-letter queue | take, retry with backoff, stall, fail, dead-letter, replay | a job is done, pending or dead-lettered, never lost; replays are neither lost nor metered again |
| Ingest worker (`apps/worker/src/processors/ingest.ts`, `packages/server/src/{mutablestate,mirror}.ts`) | Postgres `*State` rows, telemetry rows | presence check, rehydrate, merge, read back, mirror, sample, dispatch | no merged field is lost; the mirror converges to the merged state; one physical row per entity |
| Prune, deletion and retention (`mutablestate.ts`, `lifecycle.ts`, `retention.ts`) | the same rows, payload objects | hourly state prune, trace and user deletion, daily retention, project purge | only quiet or expired rows go; deleted data does not come back; no row refers to a deleted payload |
| Distributed lock (`lock.ts`) | lock keys in Redis with an owner token and a TTL | acquire, heartbeat, release | one holder at a time; nobody releases another's lock |
| Experiments and evaluator backfills (`experiments.ts`, `evaluator-backfill.ts`) | experiment status, counters, item checkpoints | run, checkpoint, cancel, re-deliver | counters equal checkpoints; cancellation sticks; a run ends |
| Usage metering (`usage.ts`) | per-day counters | record on a batch's first attempt | a batch is never billed twice |
| Alerts and budgets (`alerts.ts`) | firing flags, notified thresholds | evaluate each minute under a lock, notify, commit; edits | a lasting breach is paged, a step of a budget is announced once per month |
| Cost guard (`budgetguard.ts`) | cached cap and month-to-date cost | check, cache, invalidate | calls over the cap are refused; an edit takes hold |
| API keys (`apikeys.ts`, `auth.ts`) | key rows, a Redis cache with a 60 s TTL | authenticate, create, revoke | a revoked key stops working |
| Prompt registry (`prompts.ts`, `prompt-composition.ts`) | numbered versions, channels, experiments on channels | save, move channels, start, stop and promote experiments, resolve includes | a channel serves its own version; `latest` tracks; includes have no cycle; an experiment has two arms |
| Datasets, review queues, webhooks, automations | rows in Postgres | single-row operations, fire-and-forget calls | no double assignment |
| SDKs (`sdks/js`, `sdks/python`, `sdks/go`) | client-side buffer, prompt cache | record, flush, retry, shutdown | no event vanishes; order survives a retry |
| Engine move (`telemetry/src/copy.ts`, `doris/migrate.ts`) | two stores | copy, verify, repartition | the target ends up equal to the source |
| Console, docs site, web site, MCP server, LLM gateway, contracts, UI kit, infra | none that several actors share | rendering, proxying | not modelled |

## 2. What is hard here

- **Read, then write.** The worker reads rows and uses them several round trips
  later: the presence check and the seed, the read-back and the insert. Other
  jobs and the sweep commit in between.
- **One ordering key for many writers.** The telemetry store keeps the row with
  the highest version, the later write on a tie; the version is the newest event
  time merged so far, which a late event does not raise.
- **At-least-once everything.** Attempts, stalls, dead-letter replays and blob
  replays run a batch again; effects outside the stores (metering, evaluators)
  must not follow.
- **Locks that fail open.** A Redis error runs the function without the lock, a
  held lock ends the call without an error, a dead holder's lock outlives the
  redelivery of its job, and a live one that cannot renew it goes on without.
- **Calls that fail after they succeeded.** Redis and queue calls may be applied
  although the caller sees an error.
- **Lanes that outlive their run.** `Promise.all` rejects on the first error and
  stops nobody.
- **Paging over a moving list.** Dead-letter pages shift with every removal and
  every arrival; a backfill pages by offset over traces that come and go.
- **Caches filled after the read.** A request reads a row, and stores what it read
  after the row was deleted or edited and the entry invalidated.
- **Several calls, no transaction.** An erasure, a prompt's save, a page and the write
  that records it: each may stop half-way, or meet another of its kind.

PROJECT.json lists these hazards at the lines where they bite.

## 3. The modules

| Module | Models | Proofs |
|---|---|---|
| `MutableState` | worker jobs, Postgres state, mirror, prune sweep | `MutableStateProofs` |
| `Deletion` | erasure of a trace or a user beside all of `MutableState`, which it extends | `MutableStateProofs` |
| `Delivery` | the abstract promise of the ingest queue | |
| `IngestQueue` | blob, queue, worker attempts, dead letters, replays; implements `Delivery` | `IngestQueueProofs` |
| `IngestRequest` | the Idempotency-Key protocol of `POST /v1/ingest` | `RequestGateProofs` |
| `Experiment` | an experiment's job, lock, lanes, checkpoints, cancellation | `ExperimentProofs` |
| `Backfill` | an evaluator backfill: its job, its paging and its row | `BackfillProofs` |
| `EventBuffer` | the event buffer of the JavaScript SDK | `EventBufferProofs` |
| `AlertEval` | the minute's sweep over alert rules and cost budgets | `AlertEvalProofs` |
| `RequestGate` | API key and hard cost cap, each with its cache, on one request path | `RequestGateProofs` |
| `Prompts` | saves, channels and experiments of the prompt registry | `PromptsProofs` |

Each has an `MC...` module that names its instances. The modules meet at two
seams: `Submit` of `IngestRequest` is `PutBlob`, `Enqueue` and their failures in
`IngestQueue`, and `Land` of `IngestQueue` is everything `MutableState` does
between `Start` and `Complete`. They are checked apart, as their product is far
out of TLC's reach. `Deletion` composes with `MutableState` in one state space,
since erasure and ingest share rows.

The modules treat trouble alike. Every kind of failure has a counter in `spent`,
`Spend(kind)` is the guard of the step that fails, and the constant `Plans` says
which combinations of failures a behaviour may contain. A property may then say
that something holds *unless* a named failure struck, instead of leaving the
failure out of the model. (`IngestRequest` calls them `trouble`, `SpendTrouble` and
`IngestPlans`, since the two protocols of a request, which share no state, are proved
about in one module.) `MutableState` needs less: `MaxAttempts` bounds its
failures, `MaxSweeps` and `MaxReplays` the rest.

### MutableState

| Variable | In the code |
|---|---|
| `state` | `TraceState`, `ObservationState`, `ScoreState` rows: version, entity time, other columns |
| `doris` | physical rows of the telemetry store, one per key; the entity time is part of the key |
| `batch` | the patches `processIngest` folds from the raw events |
| `phase`, `todo` | where each job is in `processIngest`, and the tables it has still to do |
| `absent`, `held` | local variables of `rehydratePruned` and of the read-back |
| `attempts` | BullMQ's `attemptsMade` |
| `old`, `sweep`, `page`, `sweeps` | rows past the window, and the locals of `pruneMutableState` |
| `landed`, `truth`, `late`, `reverted`, `reseeded` | history: what was merged, in commit order, which rows changed without their version rising, which live rows a seed overwrote, and which entities were seeded at all |

`Check`, `Fetch` and `Seed` are `rehydratePruned`; `Merge` is the three merge
transactions, one after another; `ReadBack` and `Insert` the read-back and the
parallel inserts; `Complete` the dispatch that swallows its errors; `Throw` any
failing step, after which the queue retries or dead-letters. `Upsert` is the SQL
`ON CONFLICT` clause, `Load` the store's sequence column. A field's value is the
job that wrote it, so a lost update shows in the state. A seed provides the fields
that the lookup by id selects (`Seedable`): of a trace all but those in `Unselected`,
which stand for `session_path`.

### Delivery and IngestQueue

`Delivery` knows the fate of a batch: none, pending, landed or dead. A pending
batch may only land or be buried, a dead one be revived, and nothing is ever
forgotten. `IngestQueue` has every job ever added (`jobs`), what each worker slot
is at (`worker`), the failed jobs whose `failed` handler has not run (`failing`),
the dead-letter list, the calls of `replayDlq` and their lock, and counts of
effects (`landed`, `metered`, `evaluated`). `Fate` maps it to `Delivery`.

`PutBlob`, `Enqueue`, `EnqueueThrows` and `DropBlob` are `submitBatch`; `Take` to
`Finish` one attempt of `processIngest`; `Fail` what BullMQ does with a throw;
`Recover` and `Wedge` its stalled check, for a dead worker and for a slow one that
runs on; `DeadLetter` the `failed` handler; the `Replay...` actions one step each
of `replayDlq`; `ReplayBlob` is `scripts/replay-blob.ts`. A removal that throws left the
letter where it was (`ReplayRemoveThrows`) or had removed it (`ReplayRemoveVanishes`,
counted in `gone`). The lock of a replay runs out when its holder has died
(`LockExpires`) or cannot renew it and goes on (`LockLapses`). BullMQ itself is external
and modelled from how the code configures and calls it.

### IngestRequest

Several requests carry one key. `Claim` is `SET NX`, `Look` the separate `GET`,
`RateLimit` the fixed window, `Submit` the call of `submitBatch`, `Store` and
`Release` the two ends. Every Redis error fails open and may or may not have been
applied. `used` counts the window together with the project's other traffic.

### Experiment

`status` and `counts` are the `Experiment` row, `cp` the checkpoints, `job` the
BullMQ job, `lock` the Redis lock and `held` the runs that renew it. A run walks
through `pc`; `lane[r][i]` says where run `r` is with item `i`; `width` is the
number of its lanes that have not thrown. `ReadStatus` to `Release` are
`runExperiment` under `withLock`; `PickItem` to `FailItem` are a lane of
`mapConcurrent`; `Reject` and `LaneThrows` are the database errors the code does
not catch; `CancelRead` and `CancelWrite` are `cancelExperiment`.

### Deletion

`op` is the erasure under way: what it erases, which of its calls is next, and the
ids and payload keys in its memory. `EraseTrace` to `Erased` are `deleteTraceData`,
`EraseUser`, `ListUser`, `SweepUser` and `DeleteUserStates` what `deleteUserData`
adds; `EraseThrows` is a call that throws, or the process dying, at any of them.
`Offload(j)` is `Start` with the payload offload of `processIngest`. A field's value
doubles as the key of its payload object, so what a job wrote with several entities
is one object, and one field names the end user. `traceOf`, fixed at the start, says
which trace an entity is of: in the run the observation is of the trace or of
another one. History: `met` records at which calls an erasure and a running job met,
`gone` what is erased for good, `robbed` payloads that went with another trace,
`forgotten` that a user's erasure met nobody.

### Backfill

`row` is the `EvaluatorBackfill` row, `list` what `listTraces` pages over, newest
first: traces arrive in front and go away anywhere. `run[r]` holds the locals of one
delivery of the job: offset, counters, the rest of its page and the traces its lanes
are judging. `RunStep` is one step of `runEvaluatorBackfill`, `EarlyThrow` an error
before its `try`, which the queue retries, `LateThrow` one inside, which writes
FAILED and is thrown on. `calls` counts the judgements of each trace.

### EventBuffer

`buffer` is the client's array, `pending[f]` what flush `f` took out of it and has
still to send, `backoff` and `timer` its two flags. `Record` is `enqueue` with its
size trigger, `Tick` the interval, `FlushNow` a call of `flush`, `Shutdown`
`shutdown`. Everything between two awaits is one step, as JavaScript runs it; a
request may be accepted, refused, fail, or be given up in doubt (`Doubtful`), and
then arrive at any later time (`Arrives`). `GivesUp` puts all that a flush has left
in front of the buffer and drops what is over its cap (`Rebuffer`). Whether a drop is
reported, which a full buffer is once per client (`client.ts:188-193`, `:249-252`), is left
out. `doubted` counts, for each event, the requests given up in doubt that carried it.

### AlertEval

`evaluateAllAlerts` and `evaluateBudgets` run side by side in one sweep, each at a
place of its own (`ruleEval[s]`, `budgetEval[s]`), under `lock:alert-eval`: read the
row, measure, notify, commit. Between any two, operators write or delete the rule
or the budget, the month ends, the metric moves, the sweep dies, or `Reject` ends it
and releases its lock while the other evaluation goes on. A rule or a budget may have no
channel that `parseChannels` keeps; it then counts as told (`NothingToSend`). `heard`,
`repeats` and `told` are history: what the channel was told last, and that an incident
which ended while the rule had no channel to tell is over for it, too. So is `unwritten`:
what the channel was told since the row was last written, by a sweep that died, whose
write failed, or that took the page for failed.

### RequestGate

A request authenticates (`keyRow`, `keyCache`) and asks for its budget (`guard` with
the cap and the cost it was built from), one await at a time. `DeleteKey` and `BustKey`
are the two halves of `revokeApiKey`, `StartEdit` and `WriteBudget` the
invalidation and the write of `setCostBudget`. An entry remembers (`raced`) whether
it was stored beside a change of what it was read from.

### Prompts

A call walks through `createPromptVersion` (`compose`, `number`, `create`, `label`),
`startExperiment` or `stopExperiment`; `versions[n]` are the bodies in order, a body
being one include or none, `channel[n][l]` the version and the challenger of a
channel. `Abort` is an error between two awaits.

## 4. What each run checks

A passing run lists only properties that a plausible bug in the mapped code
breaks: PROJECT.json names one such mutant for each.

| Run | Instance | States | Shows |
|---|---|---|---|
| `state_concurrent` | one trace of two columns, two jobs at once, two attempts each; a sweep between the jobs or a replay | 0.7 M | no merged field is lost (`StateHoldsMerges`), the mirror is never ahead and is right at the authoritative version (`MirrorFaithful`), converges for entities merged in version order (`ConvergedInOrder`), and every merged version reaches it or its job is dead (`MirrorCatchesUp`) |
| `state_removals` | a trace and an observation, of it or of another trace, one slot, two jobs, two attempts each, a replay; a sweep, or an erasure | 4.2 M | the mirror ends up showing what was merged, what was pruned being seeded back but for a column the lookup leaves out, which may be blank and is never stale (`ConvergedUnerased`); what was erased stays away (`ErasedStaysErased`), no row refers to a deleted payload that was not also another trace's (`PayloadsThere`), a user is forgotten in both stores (`UserForgotten`) |
| `queue_replays` | two tenants' batches, two replaying processes, one attempt, one page size; a call that fails, before or after it was applied | 1.4 M | a batch has one carrier (`OneCarrier`) and an unlimited replay misses no letter of its scope but one for each removal that was done though it threw (`ReplayMissesNone`) |
| `queue_recovery` | one batch, two workers, retries, stalls, crashes, a rebuild, a replay, or two side by side as the first has lost its lock | 0.2 M | the queue implements `Delivery` with its liveness (`DeliversInTime`); nothing is metered or evaluated again without cause (`EffectsExplained`) |
| `request_keys` | four requests of one key, limit 1, any two troubles | 8 k | what is acknowledged is enqueued, extra batches and stuck claims have causes |
| `experiment_items` | two items, two lanes, two deliveries, a crash, a stall, a cancellation, failing writes, errors, Redis errors, lapses | 128 k | one run at a time, DONE items rest, counters match the checkpoints, a cancellation is overwritten only by a write already decided (`CancelSticks`), and it ends unless given up for a named reason |
| `backfill_deliveries` | three traces and one that arrives, pages of two, a cap of three, two lanes, three deliveries, nine mixtures of trouble | 0.3 M | a trace is judged again only with a cause (`JudgedAgainExplained`), a completed run covers what it counted up to the moves of the list (`SelectionJudged`), it reaches a terminal status unless its job is given up (`Ends`) |
| `buffer_flights` | five events, one too large, one that does not serialize; two flushes, a buffer of three | 0.4 M | no event vanishes (`Accounted`), none arrives more often than once plus the requests given up in doubt that carried it (`SentAgainOnlyInDoubt`), order is kept (`OrderKept`) while flushes do not overlap, shutdown's promise has one exception (`ShutdownExplained`), what is recorded leaves the client (`Drains`) |
| `alerts_sweeps` | one rule or one budget, two sweeps, twelve mixtures of trouble | 0.3 M | repeated pages have causes (`RepeatsExplained`), the marker of a budget with a channel never claims what nobody was told (`MarkerTold`), a lasting breach or recovery is what the channel was told last, unless an earlier page was never written down (`EdgesTold`), and crossed steps of a budget with a channel are announced (`StepsTold`) |
| `gate_caches` | two requests, two limits, a cost of at most two | 0.2 M | stale entries have their races, refusals their cause, and revocations, caps and lifted caps take hold (`ChangesTakeHold`) |
| `prompts_registry` | two prompts, one channel besides `latest`, two callers, four saves or three and an experiment | 1.0 M | a channel serves a version of its own save, `latest` heals, saves in turn leave no cycle, experiments keep two arms unless calls overlap |
| `prompts_cycle` | the same with one caller | fails | section 6, finding 1 |

**Bounds.** The races of `MutableState` are between two jobs on one entity, and an
entity interacts with another only through a job's own control flow; two entities
of two tables bring in the separate transactions and the partial rehydration. A
field is merged by itself, so two are enough: one that a seed brings back and one that it
does not (`Unselected`). A batch carries both or none (`AllFieldsOrNone`), since who
writes them makes no difference between the two. Two event times
give *before*, *same* and *after*. Two attempts give a retry and a last attempt;
eight add repetitions only. `SweepOrReplay` keeps a sweep and a replay out of one
behaviour of `state_concurrent`. In `IngestQueue` a page of one letter
makes every offset matter; in `queue_recovery` a replay takes one letter. `Batch` has two elements where letters of two tenants
must interleave and one elsewhere, since batches meet only in the dead-letter
list. Four requests let one claim, one look, one release and one arrive late. Two
items and two lanes give a free lane, a waiting one and a mixed outcome. A backfill
of three traces has a full page, a short one, and a list that moves under its
offset; three runs let one be stalled, one run beside it and one follow both. A buffer of three with chunks of two lets a flush fail with one chunk
sent and one not, and overflow when it comes back; two flushes are all that can
differ in age, and two doubts may be about the same event or different ones. One rule and one budget suffice as rows do not interact; a limit of
two and of four gives steps below, at and above it. Two requests let one fill a
cache the other reads. Two prompts make the shortest cycle that no single prompt
closes. Symmetry is used in safety runs only, over jobs, workers, replayers or
requests; `Plans` and initial states are invariant under it.

**What the runs of the state leave to assumption.** `SweepsApart` keeps sweeps and
running jobs apart: section 6 tells what happens when they meet. In
`state_removals` an erasure comes with batches of one event time, without a sweep,
and with one failing job or a replay, and a behaviour ends where a job met the
removal of rows, since no property claims anything beyond; an observation of another
trace comes without failures and sweeps (`SweepOrErasure`). `StateHoldsMerges` excepts rows that
a late seed overwrote (section 6); two jobs alone never get there, and the proof
covers any number.

**Fairness.** `MutableState`: weak fairness of each job's own steps, since a worker
is an async function that never parks and BullMQ redelivers until a job ends; no
fairness for failures, sweeps or replays. `IngestQueue`: workers take and run jobs,
BullMQ's timers promote delayed jobs and find those of dead workers, the event
loop runs the `failed` handler; no fairness for the API or the operator.
`Experiment`: the same, and Redis expires a lock nobody renews; in `FairSpec` no
lane is favoured over another. `Backfill`: a waiting job is delivered, a live run
goes on, a dead one's job is found. `EventBuffer`: every request is answered or times
out (the client aborts it itself), the interval timer fires while it is set, a
backoff is over; nobody has to call `flush`. `AlertEval`: the cron starts a sweep
again and again, a sweep goes on to its end, a dead one's lock expires.
`RequestGate`: requests, revocations and edits that have begun go on, and Redis
expires an entry nobody renews. `IngestRequest`, `Deletion` and `Prompts` have no
liveness property: their callers may stop at any time.

## 5. What is proved

TLAPS checks these for all values of the constants that satisfy the named
assumptions (`TableAssumption`, `ValueAssumption`, `BoundAssumption`,
`DeletionAssumption`, `QueueAssumption`, `RequestAssumption`, `ExperimentAssumption`,
`BackfillAssumption`, `BufferAssumption`, `AlertAssumption`, `GateAssumption`,
`PromptAssumption`).

**MutableStateProofs, ingest.** `TypeCorrect` needs `AttemptsLeft` (a job that is not dead
has an attempt left), as `Throw` adds one. `MirrorNeverAhead` and `MirrorIsFaithful`
share the invariant `IInv`. Both properties speak of `doris` alone and are not
inductive: an insert writes a row that was read earlier. `Unpruned` says of every
row in the mirror *and in a job's memory* that it is `Behind` the state row: same
entity time, no higher version, and at the same version the same mirror row if
the entity is in order. `Commit` keeps rows behind because an upsert raises the
version or leaves the mirror row as it was or puts the entity into `late`; `Load`
keeps them because of two rows of one key the higher version is kept.
`UpsertIdempotent` says that a patch applied twice is applied once, which is why a
retry straight after a failed insert does no harm. `NoMergeLost` compares the SQL
upsert with the merge in the words of the ADR (`Expected`): they keep equal rows
equal (`MergeAgrees`), and before the first sweep a seed finds its row present
(`Unpruned`), so it either leaves the fields as they are or is recorded.

`ConvergesUnpruned` is `ConvergedInOrder` until the first sweep, for any number of
concurrent jobs. What is merged but not in the mirror must be on its way there:
`Delivering` says that the mirror has the version a job merged, or that the job will
merge again or holds a row it has not inserted; `Traced` that the version of every
state row is some job's; `OnePerTime` that the mirror has one row for each entity time.
With `IInv` the row of the highest version is the merged one. With sweeps *beside* jobs convergence is false (section 6),
so `ConvergesSerially` states it under the two hypotheses of the run
`state_removals`: `Serial`, one worker slot and every table seeded back, and
`SweepsApart` of every step, the run's action constraint: a sweep is under way only
while the jobs are settled. The invariant `Whole` speaks of every moment: an
entity's state row is what was merged, or it was pruned and the mirror has what was
merged (`RowWhole`); the one job at work (`LoneRunner`) looks for every pruned row and
seeds it before it merges (`JobWhole`). "What was merged" is `Same`: version, entity time
and every field, except that a field the lookup leaves out may be blank in an entity that
was ever seeded (`Agree`). That is as much as the code gives; an older value is excluded
there, too.

**MutableStateProofs, erasures.** All three properties of an erasure speak of the stores, and all
three are broken through a job's memory: `Bears(e, k)` says that a value is in
Postgres, in the mirror or held by a job for the entity. `Sources` is the lemma
about ingest: a value reaches an entity only from where the entity had it or from
the running job that writes it (`BatchOwn`). `ErasedNeverReturns` follows from
`GoneForGood`, that an erased value is borne by nobody and its job does not run;
`Removing` provides it, since while rows are removed without meeting a job nothing
is held (`IdleHoldsNothing`) and what the erasure has passed is empty.
`NoDanglingPayload` adds that a running job has offloaded what it writes
(`PayloadsKept`), `UserIsForgotten` that the traces the sweep has passed name nobody
(`Forgetting`). They hold for every assignment of observations to traces, several
erasures and every event time, which the run restricts (section 4).
`ConvergesUnerased` carries `Whole` over to the specification with erasures, until
the first one starts: jobs, replays and sweeps are the steps of `MutableState`.

**IngestQueueProofs.** `NothingForgotten` says that the queue implements the safety
of `Delivery` for any number of workers, replaying processes, retries, stalls,
crashes and rebuilds, as long as no `failed` handler loses its dead letter
(`spent["dropped"] = 0`; with one lost the batch really is gone). The invariant is
`NoneForgotten`: every batch that has a job has landed, or its *newest* job is live, in
a handler or a dead letter (`Kept`), and a letter that `replayDlq` is about to remove has a
newer job of its batch (`Outlived`). A removal therefore never takes the newest. This
needs no lock: it holds of any number of replays side by side, which is what a lapsed
lock leads to. A job is done only if its batch has
landed (`RunBounds`), and what BullMQ gives up on is always dead-lettered
(`Terminal` implies `ShouldDeadLetter`). The fate map then needs only that a step
touches one job (`OnlyChanges`). `TypeCorrect` needs `JobBounds`: a live job has
attempts and stalls left.

`ReplayTriesAll` rests on `OnePlace`, that no job is live, in a handler and a letter
at once nor twice in the list, and on `Paged`: a call of `replayDlq` stands at a place
of the list with all letters it has still to try at or behind that place, the page in
hand goes on from there, and new letters in front only move the place on (`Tracks`).
The letters it has passed over are at most those it counted as kept though they were
gone. `OnePlace` holds through everything; the rest only while no live replay has lost its
lock (`Serial`, `spent["lapses"] = 0`), as another would then remove letters from the same
list (`LockHeld`, `LockInductive`).
The other two count. `CarriersExplained`: the carriers of a batch other than a letter
already enqueued again, plus the request that is still to come, are at most one more
than the failed removals, uncertain adds and rebuilds (`CarriedOnce`), again while
`Serial` holds: two replays side by side enqueue what both of them hold.
`EffectsAccounted`: what was metered (or evaluated), plus the jobs and the workers that
may still do it, is at most the number of the batch's jobs plus the stalls and crashes
(`EffectsPaid`); only a first attempt may meter, and a replay of the blob neither.

**RequestGateProofs, the key of an ingest request.** `AcknowledgedSafe` rests on `ResponseInv`: a stored
response, or a handler about to store one, stands for an enqueued batch.
`PendingSafe` needs that a request not yet answered has no answer.
`ExtraBatchSafe` counts: the requests that may still create a batch or have done
so, plus one if the claim is free, are at most one plus the Redis errors plus the
expiries (`BudgetInv`). Each passing of the claim uses up its room, each expiry
gives one back.

**ExperimentProofs.** `OneRunSafe` rests on `LockInv`: whoever is inside the locked
function holds the lock and renews it (`Guarded`), and lanes are on only while
their run waits for them, so that a released lock leaves no lane behind.
`DoneItemsRestSafe` adds `Fresh`: no lane was given a DONE item; the run that read
the checkpoints is still the only one to change them. `CountsMatchSafe` needs
`CountInv`: `done` is still the number of DONE items when the counters are reset,
and the failures counted are FAILED items that no run is about to try again
(`Known`). All three assume what `Orderly` says: no uncaught error, Redis error or
lapsed lock, any number of crashes, stalls, cancellations and failing writes.

`CancelSticksSafe` is a property of steps: a run that writes over a cancellation
carries the start or the verdict it decided on before (`VerdictShape`,
`CancelSettled`).

**BackfillProofs.** Lemmas first: what cutting, joining, putting in and taking out do
to the elements of the list (`CutElements`, `Joined`, `PutIn`, `TakeOut`), and how
a set that gains or loses one member counts (`Grows`, `Shrinks`). `Base` says which
runs there may be: only the owner of the job's delivery is under way, and one more for
each stall (`JobInv`), no trace stands twice in the list (`ListInv`), a run has traces in hand
only while it judges, none of them twice (`ShapeInv`), and without a stall it works on
a row that is not terminal (`AloneInv`).

`JudgedAgainPaid` is an account (`DueInv`). What a trace has been judged, plus the runs
that may yet list it (`Listers`), plus those that hold it in a page or a lane (`Holders`),
plus the delivery that is due once more (`Again`), never exceeds what is `Paid` for. A
run that lists a trace passes from the first group to the second, one that judges it
leaves the second for the count. A trace behind a run's offset comes back only with an
arrival, which pays once for every run there may be at a time, and the row keeps a
delivery from starting again unless its worker died, was taken for dead or could not
write FAILED. A stalled run breaks the last: it may write RUNNING over a terminal
status, so a read that fails beside it costs a delivery as well. The run has plans with
a stall and an arrival and with a stall and a failed read, as a bound that charges an
arrival once, or a failed read never, holds in every other.

`CountedJudged` needs two accounts more. `MissedInv`: the counted traces a run has
neither judged, nor in hand, nor still ahead of its offset are at most the moves of
the list. `TallyInv` ties the counters of a run to what it has reached, and
`RowInv` the row to the one run that writes it while nothing has stalled: total and
counters are the run's own (`RowOf`), nothing is saved before a page was (`Fresh`),
what an earlier attempt left is no more than the list and the cap (`Bounded`), and a
completed row accounts for its total up to the removals (`Agreed`).

**EventBufferProofs.** Lemmas say which events the concatenation and the parts of
a sequence hold (`ConcatElements`, `SplitElements`); `NextKeeps` that what a step
finds in the buffer, a flush, at the API, dropped or spilled is in one of these
places after it, and for good in the last three. `NoEventVanishes` follows by
induction. `ShutdownIsExplained` needs `Closing`: while shutdown waits, what was
recorded before it and is neither settled nor another flush's is what the flush it
waits for still has to send. `TypeCorrect` includes the cap of the buffer.
`SentAgainExplained` counts an event's copies, at the API, in late requests and held
by the client: at most one more than the requests given up in doubt that carried this
event (`FewCopies`), since the buffer and the flushes never share an event (`Separate`).
Given-up requests have numbers, as two may carry the same events. `OrderIsKept` needs that a flush
holds nothing younger than the buffer (`InTurn`) and that a request given up carried
the eldest of what is held (`LateFirst`), so that its late arrival overtakes nothing
but its own copies.

**AlertEvalProofs.** `PagedAgainOnlyAfterTrouble` (`RepeatsExplained`) is an account
kept of sweeps side by side (`PaidFor`). A sweep without the lock does harm once: it
sends a page another one has sent, or its write makes the row forget an incident the
channel has heard of. While it may still do so it is `Loose`, one unit. A channel
that has heard of an incident the row will not remember is `Owed` one page more,
another unit, which the sweep with the lock spends when it pages. `Settles` says when
the row will remember: it does, or the sweep with the lock is about to write it. Pages
sent again plus units never exceed the troubles; a lost lock turns its sweep loose *or*
leaves a page owed, never both (`LockLost`). No bound on sweeps is assumed: only finitely
many are loose. `MarkersAreTold` (`MarkerTold`), about a budget with a usable channel
(`Audible`), adds what a sweep has announced and not yet written (`Caught`); that revisions and months only grow (`Dated`) keeps
what was read before an edit or the turn of a month from ever being current again.

**RequestGateProofs, the caches.** `StaleKeySafe` and `StaleCapSafe`: a cache entry that
outlives its key or its budget was stored by a request whose read had passed the
change (`CapInv`), or Redis failed. `RefusedOverCapSafe` adds `CapsTrue`: whatever
is cached or in a request's hands was true of the budget revision and the month it
names, the cost counting the last day of the month before.

**PromptsProofs.** `TypeInv` says that channels and calls point at versions that
exist. `OwnBodySafe` and `LatestTracksSafe` follow a call from its number to its
labels (`LatestInv`: while a save is alone with its prompt, its version is the
highest); `ArmsHoldSafe` an experiment from its start to its promotion, while calls
do not overlap (`ArmsInv`). `SavesStayAcyclic` assumes finitely many references
(`IsFiniteSet(Ref)`, without which the length of a walk has no bound). A walk of any
length is no invariant; a rank is: `Ranked` gives every reference a number that falls
with every include. A save knows a set of references, closed under includes and free of
the channels it occupies, that its body leads into (`Clear`, built by `Walking`), so when
a channel moves, everything outside the set moves up by the rank of the body and one
(`RanksMove`). That ranks exclude cycles is an induction along the walk: the
library's induction takes an operator, so it goes by the least member of the set of
counterexamples (`LeastOf`, from `WFMin`), which also shows that the recursive
function `Includes` is what its equation says (`IncludesAre`).

**Only model-checked.** Everything under fairness (`MirrorCatchesUp`,
`DeliversInTime`, `EndsUnlessAbandoned`, `Ends`, `Drains`, `EdgesTold`, `StepsTold`,
`ChangesTakeHold`), as liveness is out of this prover's reach; `ConvergedInOrder`
after a sweep in a behaviour where jobs run side by side. Every other invariant and
action property of a passing run is stated by a theorem of this section. The type invariants `TypeOK` of these modules
hold in their runs' instances and are listed in none of them.

## 6. Where code and documentation part

1. **`prompts_cycle`** (`prompts.ts:334`). A save refuses cycles through the channels it
   takes itself, but a version saved under `latest` only may include a prompt that
   includes this prompt's `production`; making it the challenger or the winner of
   `production` closes the cycle unseen, and resolving the channel fails.

The following were met while modelling. The models contain the behaviour, the
properties except it by name, and no run is kept for it.

**Ingest and state.**
- Merging an event with an older or equal timestamp changes the row but not its
  version, so two mirror writes tie and the staler one may come last
  (`processors/ingest.ts:329`; `late`). Nothing repairs it until the next event.
- The seed overwrites, column by column, what other batches merged after the seeding
  job had found the row absent (`processors/ingest.ts:219`; `reverted`). Three first
  batches of a new trace are enough.
- A sweep and a batch that meet lose the batch's fields: `deleteInChunks` selects
  ids past the window and deletes by id, so a row merged in between goes with its
  update, the read-back finds nothing, and the job completes
  (`mutablestate.ts:500-506`, `processors/ingest.ts:206`; `SweepsApart`).
- Scores are never seeded back: one that is pruned and then updated with another
  timestamp gets a second physical row.
- `getTraceRowsByIds` does not select `session_path` (`doris/store.ts:1481-1499`), so
  `seedTraceStates` seeds it as NULL (`mutablestate.ts:407`). After a prune and a late
  update the mirror row, written as a whole, has lost it, which is what
  `mutablestate.ts:387-392` says the seed is there to prevent (`Unselected`, `reseeded`).
- A replayed batch merges again and brings back values that later batches
  overwrote; `truth` therefore counts a replay as a new merge.

**Deletion.**
- Comments and `runbooks.md:90` know replays as what brings deleted data back; a job
  that runs while rows are removed does so too (`lifecycle.ts:94`; `met`).
- `deleteUserData` leaves the observation and score rows in Postgres of traces the
  telemetry store did not show (`lifecycle.ts:128`), although `runbooks.md:88` says the
  state mirror is removed.
- Payload objects are named by content per project and day: deleting one trace
  removes an identical payload that another refers to (`payloads.ts:37-39`,
  `lifecycle.ts:97-104`; `robbed`), although `payloads.ts:9-10` says the full value
  stays replayable from the offloaded copy. Payloads that only Postgres refers to are
  left behind.

**Queue.**
- A dead letter keeps the replay flag, its replay does not (`ingest-health.ts:116`):
  a blob replay that fails for good and is replayed bills the batch again.
- `replayDlq` without a limit need not end while letters fail again at once
  (`ingest-health.ts:104`).
- The `failed` handler is not part of the job: a failing `dlq.add`, or a process that
  dies first, drops the letter (`DropDeadLetter`).
- `lock.ts:9-10` says that a job slower than its TTL cannot have its lock expire under it,
  but errors of the heartbeat are swallowed (`lock.ts:52`): a replay that cannot renew its
  lock goes on beside the next one, and both enqueue the letters they hold (`LockLapses`).
- A `job.remove()` that throws although it was done counts a letter that is gone as kept;
  the next page starts one too far, and a letter is not tried until the next replay
  (`ingest-health.ts:115-121`; `gone`).
- A request refused by the event rate limit keeps its idempotency claim, and its
  retries are answered 409 for a day (`app.ts:834`). `SET NX` and `GET` are two commands:
  a claim released in between is taken for expired.

**Experiments and backfills.**
- A lane's error ends the run and releases the lock while the other lanes go on
  beside the retry (`concurrency.ts:14`).
- The redelivered job of a dead worker finds its lock held and completes; nobody
  resumes the experiment (`experiments.ts:308`).
- A cancellation between the look at the status and the start, or between verdict
  and write, is overwritten (`experiments.ts:240`, `:304`).
- A backfill writes FAILED and throws; the retry finds a terminal row and does
  nothing, so `attempts` never retries (`evaluator-backfill.ts:208-219`, `:141`). Its pages
  move with the list (`:168`). A second run, beside one that was taken for dead, may
  overwrite COMPLETED and FAILED by RUNNING (`:147`): a failing read is then tried again,
  and one arrival is judged again by every run there is.

**JavaScript SDK.**
- With `flushAt` 1 nothing ever sets the timer, and a full buffer is never flushed
  by the size trigger again (`client.ts:198`).
- An event that does not serialize takes the whole batch with it (`client.ts:72`,
  `:263`; `spilled`). The client warns of a full buffer once and never again, so later drops are
  silent (`:189`, `:249`). `shutdown` does not wait for other flushes (`:330`), and flushes
  that overlap reorder events (`:258`).

**Alerts, budgets, keys.**
- A rule whose only channel is of a type `parseChannels` drops (`pagerduty`, `email`)
  turns firing and resolved without anybody being paged (`alerts.ts:74`, `:382`), though
  the API accepts both types and `docs/api.md:212` names them.
- A budget without a usable channel, which is the default (`alerts.ts:197`), advances its
  marker with nobody told (`alerts.ts:382`, `:501`; `Audible`). A channel added to it later,
  by an edit, starts with a fresh marker.
- The all-clear of an incident goes out, and its commit is lost: the sweep dies, the write
  fails, or the page timed out though it was taken. If the metric breaches again before the
  next sweep, the row still says firing, there is no transition, and the new incident is
  never paged (`alerts.ts:422`, `:439-449`; `unwritten`). Likewise a page whose commit was
  lost and whose breach is over by the next sweep gets no all-clear.
- Slack and webhook delivery counts an HTTP error status as delivered
  (`automations.ts:249`; kind `refusals`).
- A sweep that read a budget before an edit writes its marker over the reset
  (`alerts.ts:203`, `:526`). When one evaluation of a sweep rejects, the lock is
  released under the other (`apps/worker/src/index.ts:200`).
- The month's cost includes the last day of the month before (`budgetguard.ts:25`;
  `carry`). The budget's cache is dropped before the write (`alerts.ts:200`), the key's
  after it: a request in between caches what is about to go (`auth.ts:39`,
  `apikeys.ts:131`).

**Prompts.**
- Two overlapping saves may leave `latest` on the older version (`prompts.ts:136`); a
  save that moves a channel is undone by `stopExperiment`; `startExperiment` may make
  a version its own challenger. The depth limit of a save and that of resolving
  differ by one (`prompts.ts:111`, `:281`, `prompt-composition.ts:139`).

## 7. What is not modelled, and why

- In the modelled parts: sampling, masking and pricing are data; the
  telemetry store's query planning and its replicas are one row set; event
  validation rejects before anything is shared; the two other users of
  `checkRateLimit`; items added to a dataset after an experiment was created (for
  them `Mark` throws on every attempt, which is `LaneThrows`).
- Retention and the project purge delete by age or project with the calls, in the
  order, that `Deletion` has for a trace. Usage metering is one upsert per day,
  seen as an effect in `IngestQueue`. Datasets, review queues, comments, views,
  webhooks and automations are single-row operations or calls nobody waits for.
- The Python and Go SDKs follow the JavaScript SDK's protocol with threads instead of
  an event loop. The engine move copies the tables beside ingest and once more with
  the worker paused; what it leaves on the target is decided by that pass and by
  what was erased since the first one.
- Most of the repository's lines render pages, declare schemas, build queries or
  call model providers: the console, the sites, contracts, analytics, stores, gateway
  and MCP server keep no state several actors share, and a state machine of them
  would say nothing. The models therefore stand for a small share of the lines and
  for most of the protocols.

## 8. Plan

Written: the modules of section 3, in that order, since ingest is what the
product rests on. What is left, most important first:

1. `Deletion`: the project purge as a second kind of erasure, which goes on after
   every error and leaves Postgres to its caller.
2. The Python SDK's buffer, where a thread takes the place of the event loop.
3. The engine move: a top-up copy after erasures, and what its checks notice.
