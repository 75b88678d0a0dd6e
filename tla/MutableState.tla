---------------------------- MODULE MutableState ----------------------------
(***************************************************************************)
(* The heart of ingest (ADR-0001): worker jobs merge event batches field   *)
(* by field into the authoritative Postgres *State rows, read the merged   *)
(* rows back and mirror them into the telemetry store (Doris), which keeps *)
(* one row per key and lets the highest event_ts win, the later write on a *)
(* tie.  An hourly sweep prunes quiet state rows; a batch that finds its   *)
(* trace or observation pruned seeds the state from the mirror first.      *)
(*                                                                         *)
(* A row is its version (stateVersion / event_ts), its entity time (the    *)
(* first-write-wins column, part of the Doris key) and its fields.  The    *)
(* value of a field is the job that wrote it, so a lost update shows.      *)
(* Version 0, time 0 and None stand for "no row" and SQL NULL: merging     *)
(* onto them is what an INSERT does.                                       *)
(***************************************************************************)
EXTENDS Naturals, FiniteSets

CONSTANTS
    Entity,       \* ids of traces, observations and scores
    Field,        \* the mergeable columns other than the entity time
    Unselected,   \* columns of a trace its lookup by id leaves out: session_path
    Job,          \* ingest jobs, one per accepted batch
    TableOf,      \* the table each entity lives in
    None,         \* SQL NULL: the event does not carry the field
    Default,      \* what the mirror writes for a NULL column
    Concurrency,  \* ingest jobs running at once, over all workers
    MaxVersion,   \* bound: event timestamps are 1..MaxVersion
    MaxAttempts,  \* attempts before a job is dead-lettered
    MaxSweeps,    \* bound: number of prune sweeps
    MaxReplays,   \* bound: number of replays, from the DLQ or the event log
    PruneChunk    \* rows a sweep selects per page

Table == 1 .. 3                  \* traces, observations, scores: the merge order
RehydratesNothing == {}          \* mutant: no table is seeded back
Rehydrated == {1, 2}             \* scores are never seeded back

ASSUME TableAssumption == TableOf \in [Entity -> Table]
ASSUME FieldAssumption == Unselected \subseteq Field
ASSUME ValueAssumption == None # Default /\ None \notin Job /\ Default \notin Job
ASSUME BoundAssumption ==
    /\ {Concurrency, MaxVersion, MaxAttempts, PruneChunk} \subseteq Nat \ {0}
    /\ {MaxSweeps, MaxReplays} \subseteq Nat

Version == 0 .. MaxVersion
Row == [ver : Version, time : Version, field : [Field -> Job \cup {None, Default}]]
NoRow == [ver |-> 0, time |-> 0, field |-> [f \in Field |-> None]]

Larger(a, b) == IF a >= b THEN a ELSE b
Smaller(a, b) == IF a <= b THEN a ELSE b
Coalesce(a, b) == IF a # None THEN a ELSE b

(* Mutants of the upsert: the stored value kept, the entity time moved.    *)
UpsertKeepsStored(row, patch) ==
    [ver   |-> Larger(row.ver, patch.ver),
     time  |-> IF row.time # 0 THEN row.time ELSE patch.time,
     field |-> [f \in Field |-> Coalesce(row.field[f], patch.field[f])]]
UpsertMovesTime(row, patch) ==
    [ver   |-> Larger(row.ver, patch.ver),
     time  |-> patch.time,
     field |-> [f \in Field |-> Coalesce(patch.field[f], row.field[f])]]

(* INSERT ... ON CONFLICT DO UPDATE: a provided field replaces the stored  *)
(* one, the entity time is kept once set, the version only rises.          *)
Upsert(row, patch) ==
    [ver   |-> Larger(row.ver, patch.ver),
     time  |-> IF row.time # 0 THEN row.time ELSE patch.time,
     field |-> [f \in Field |-> Coalesce(patch.field[f], row.field[f])]]

(* The analytical row built from a state row: NULL columns take defaults.  *)
Mirror(row) == [row EXCEPT !.field = [f \in Field |-> Coalesce(row.field[f], Default)]]

LoadUnordered(rows, row) ==      \* mutant: no sequence column
    {q \in rows : q.time # row.time} \cup {row}

(* Loading a row into the mirror: one physical row per entity time, and    *)
(* among writes of one key the highest version wins, the later on a tie.   *)
Load(rows, row) ==
    IF \E q \in rows : q.time = row.time /\ q.ver > row.ver
    THEN rows
    ELSE {q \in rows : q.time # row.time} \cup {row}

VARIABLES
    state,     \* Postgres: the *State row of each entity
    doris,     \* telemetry store: the physical rows of each entity
    batch,     \* what each job's raw batch carries
    phase,     \* where each job is
    todo,      \* the tables the job's current phase has still to do
    absent,    \* ids the job's presence check did not find
    held,      \* rows in the job's memory: fetched to seed, then read back
    attempts,  \* failed attempts of each job
    old,       \* rows not updated within the retention window
    sweep,     \* table the prune sweep is at, 0 when none runs
    page,      \* ids the sweep selected and has not yet deleted
    sweeps,    \* sweeps started
    replays,   \* finished jobs enqueued once more
    landed,    \* history: entities each job has merged
    truth,     \* history: every merge applied in commit order, nothing pruned
    late,      \* history: entities whose row changed without its version rising
    reverted,  \* history: entities whose live row a seed overwrote
    reseeded   \* history: entities a seed was written for

jobVars == <<phase, todo, absent, held, attempts>>
sweepVars == <<sweep, page, sweeps>>
history == <<landed, truth, late, reverted, reseeded>>
vars == <<state, doris, batch, jobVars, old, sweepVars, replays, history>>

Active == {"check", "fetch", "seed", "merge", "read", "insert", "dispatch"}
Running == {j \in Job : phase[j] \in Active}
Present(e) == state[e].ver # 0
TablesOf(E) == {TableOf[e] : e \in E}
Touched(j, t) == {e \in batch[j].touch : TableOf[e] = t}
First(ts) == CHOOSE t \in ts : \A u \in ts : t <= u
Nothing == [e \in Entity |-> {}]

(* One patch per touched entity; the time is the envelope's or the one the *)
(* client sent with the entity.                                            *)
Batch(j) ==
    [touch : (SUBSET Entity) \ {{}},
     row : [ver : 1 .. MaxVersion, time : 1 .. MaxVersion, field : [Field -> {j, None}]]]

Init ==
    /\ state = [e \in Entity |-> NoRow]
    /\ doris = Nothing
    /\ batch \in {b \in [Job -> UNION {Batch(j) : j \in Job}] : \A j \in Job : b[j] \in Batch(j)}
    /\ phase = [j \in Job |-> "ready"]
    /\ todo = [j \in Job |-> {}]
    /\ absent = [j \in Job |-> {}]
    /\ held = [j \in Job |-> Nothing]
    /\ attempts = [j \in Job |-> 0]
    /\ old = {} /\ sweep = 0 /\ page = {} /\ sweeps = 0
    /\ replays = 0
    /\ landed = [j \in Job |-> {}]
    /\ truth = [e \in Entity |-> NoRow]
    /\ late = {}
    /\ reverted = {}
    /\ reseeded = {}

-----------------------------------------------------------------------------
Goto(j, p, ts) ==
    /\ phase' = [phase EXCEPT ![j] = p]
    /\ todo' = [todo EXCEPT ![j] = ts]

(* Table t of the current phase is done; the last one moves on to p.       *)
Done(j, t, p, ts) ==
    IF todo[j] = {t} THEN Goto(j, p, ts) ELSE Goto(j, phase[j], todo[j] \ {t})

(* Committing upserts stamps updatedAt = now().                            *)
Commit(rows) ==
    /\ state' = [e \in Entity |-> IF e \in DOMAIN rows THEN rows[e] ELSE state[e]]
    /\ old' = old \ DOMAIN rows
    /\ late' = late \cup {e \in DOMAIN rows :
                            rows[e].ver = state[e].ver /\ Mirror(rows[e]) # Mirror(state[e])}

(* A worker takes the job.  Without traces or observations in the batch    *)
(* there is nothing to look up.                                            *)
Start(j) ==
    /\ phase[j] = "ready"
    /\ Cardinality(Running) < Concurrency
    /\ LET ts == TablesOf(batch[j].touch) \cap Rehydrated IN
       IF ts # {} THEN Goto(j, "check", ts) ELSE Goto(j, "merge", TablesOf(batch[j].touch))
    /\ UNCHANGED <<state, doris, batch, absent, held, attempts, old, sweepVars, replays, history>>

(* The presence checks of the two tables run in parallel.                  *)
Check(j, t) ==
    /\ phase[j] = "check" /\ t \in todo[j]
    /\ absent' = [absent EXCEPT ![j] = @ \cup {e \in Touched(j, t) : ~Present(e)}]
    /\ IF absent'[j] = {}
       THEN Done(j, t, "merge", TablesOf(batch[j].touch))
       ELSE Done(j, t, "fetch", TablesOf(absent'[j]))
    /\ UNCHANGED <<state, doris, batch, held, attempts, old, sweepVars, replays, history>>

(* Read the mirror's rows of the ids that were absent.                     *)
Fetch(j, t) ==
    /\ phase[j] = "fetch" /\ t \in todo[j]
    /\ held' = [held EXCEPT ![j] = [e \in Entity |->
                  IF e \in absent[j] /\ TableOf[e] = t THEN doris[e] ELSE @[e]]]
    /\ LET found == {e \in absent[j] : held'[j][e] # {}} IN
       IF found = {}
       THEN Done(j, t, "merge", TablesOf(batch[j].touch))
       ELSE Done(j, t, "seed", TablesOf(found))
    /\ UNCHANGED <<state, doris, batch, absent, attempts, old, sweepVars, replays, history>>

\* The columns a seed provides: those the lookup by id selects.
Seedable(e) == IF TableOf[e] = 1 THEN Field \ Unselected ELSE Field

(* What seeding the rows of e onto its state row can give.  Every selected *)
(* column is provided; the others come as NULL, which leaves the stored    *)
(* value.  Duplicate physical rows are returned in any order.              *)
SeedResults(e, row, rows) ==
    LET vers == {row.ver} \cup {r.ver : r \in rows} IN
    {[ver   |-> v,
      time  |-> IF row.time # 0 THEN row.time ELSE ends[1].time,
      field |-> [f \in Field |-> IF f \in Seedable(e) THEN ends[2].field[f] ELSE row.field[f]]] :
        v \in {m \in vers : \A w \in vers : w <= m},
        ends \in {p \in rows \X rows : p[1] # p[2] \/ rows = {p[1]}}}

(* One transaction per table, traces before observations.                  *)
Seed(j) ==
    /\ phase[j] = "seed"
    /\ LET t == First(todo[j])
           found == {e \in absent[j] : TableOf[e] = t /\ held[j][e] # {}}
       IN \E rows \in [found -> UNION {SeedResults(e, state[e], held[j][e]) : e \in found}] :
            /\ \A e \in found : rows[e] \in SeedResults(e, state[e], held[j][e])
            /\ Commit(rows)
            /\ reverted' = reverted \cup
                 {e \in found : Present(e) /\ Mirror(rows[e]).field # Mirror(state[e]).field}
            /\ reseeded' = reseeded \cup found
            /\ Done(j, t, "merge", TablesOf(batch[j].touch))
    /\ UNCHANGED <<doris, batch, absent, held, attempts, sweepVars, replays, landed, truth>>

(* The reference the merged row is held against, in the words of the ADR:  *)
(* only fields the event carries overwrite, the rest keep their value; the *)
(* first event gives the entity its time; the version is the highest seen. *)
Expected(row, event) ==
    [ver   |-> IF event.ver > row.ver THEN event.ver ELSE row.ver,
     time  |-> IF row.ver = 0 THEN event.time ELSE row.time,
     field |-> [f \in Field |-> IF event.field[f] \in Job THEN event.field[f] ELSE row.field[f]]]

(* mergeTraceStates, mergeObservationStates, mergeScoreStates: one         *)
(* transaction each, in this order.                                        *)
Merge(j) ==
    /\ phase[j] = "merge"
    /\ LET t == First(todo[j]) IN
       /\ Commit([e \in Touched(j, t) |-> Upsert(state[e], batch[j].row)])
       /\ landed' = [landed EXCEPT ![j] = @ \cup Touched(j, t)]
       /\ truth' = [e \in Entity |->
                      IF e \in Touched(j, t) THEN Expected(truth[e], batch[j].row) ELSE truth[e]]
       /\ Done(j, t, "read", TablesOf(batch[j].touch))
    /\ UNCHANGED <<doris, batch, absent, held, attempts, sweepVars, replays, reverted, reseeded>>

(* Read the merged rows back, the three tables in parallel.                *)
ReadBack(j, t) ==
    /\ phase[j] = "read" /\ t \in todo[j]
    /\ held' = [held EXCEPT ![j] = [e \in Entity |->
                  IF e \in Touched(j, t) THEN {r \in {state[e]} : Present(e)} ELSE @[e]]]
    /\ LET found == {e \in batch[j].touch : held'[j][e] # {}} IN
       IF found = {}
       THEN Done(j, t, "dispatch", {})
       ELSE Done(j, t, "insert", TablesOf(found))
    /\ UNCHANGED <<state, doris, batch, absent, attempts, old, sweepVars, replays, history>>

(* Insert one table's mirror rows; the tables are inserted in parallel.    *)
Insert(j, t) ==
    /\ phase[j] = "insert" /\ t \in todo[j]
    /\ doris' = [e \in Entity |->
                   IF e \in Touched(j, t) /\ held[j][e] # {}
                   THEN Load(doris[e], Mirror(CHOOSE r \in held[j][e] : TRUE))
                   ELSE doris[e]]
    /\ Done(j, t, "dispatch", {})
    /\ UNCHANGED <<state, batch, absent, held, attempts, old, sweepVars, replays, history>>

Forget(j) ==
    /\ absent' = [absent EXCEPT ![j] = {}]
    /\ held' = [held EXCEPT ![j] = Nothing]

(* Webhooks, automations and online evaluations swallow their errors.      *)
Complete(j) ==
    /\ phase[j] = "dispatch"
    /\ Goto(j, "done", {})
    /\ Forget(j)
    /\ UNCHANGED <<state, doris, batch, attempts, old, sweepVars, replays, history>>

(* Mutant: a failed insert is swallowed.                                   *)
AfterThrowSwallowed(j) ==
    CASE phase[j] = "insert" -> "dispatch"
      [] phase[j] # "insert" /\ attempts[j] + 1 = MaxAttempts -> "dead"
      [] OTHER -> "ready"
AfterThrow(j) == IF attempts[j] + 1 = MaxAttempts THEN "dead" ELSE "ready"

(* A step throws, or the worker dies and the job stalls: what the job held *)
(* is gone, its commits stay; the queue retries it or dead-letters it.     *)
Throw(j) ==
    /\ phase[j] \in Active
    /\ attempts' = [attempts EXCEPT ![j] = @ + 1]
    /\ Goto(j, AfterThrow(j), {})
    /\ Forget(j)
    /\ UNCHANGED <<state, doris, batch, old, sweepVars, replays, history>>

(* A batch is enqueued again: a dead-lettered one once the cause is fixed, *)
(* any one when the mirror is rebuilt from the event log.                  *)
Replay(j) ==
    /\ phase[j] \in {"done", "dead"}
    /\ replays < MaxReplays
    /\ replays' = replays + 1
    /\ attempts' = [attempts EXCEPT ![j] = 0]
    /\ Goto(j, "ready", {})
    /\ UNCHANGED <<state, doris, batch, absent, held, old, sweepVars, history>>

-----------------------------------------------------------------------------
(* The retention window passes.  Attempts and their backoff last minutes,  *)
(* the window is days: no job and no sweep is under way across it.         *)
Age ==
    /\ sweeps < MaxSweeps /\ sweep = 0
    /\ \A j \in Job : phase[j] \in {"done", "dead"} \/ (phase[j] = "ready" /\ attempts[j] = 0)
    /\ old # {e \in Entity : Present(e)}
    /\ old' = {e \in Entity : Present(e)}
    /\ UNCHANGED <<state, doris, batch, jobVars, sweepVars, replays, history>>

SweepStart ==
    /\ sweep = 0 /\ sweeps < MaxSweeps
    /\ sweep' = 1
    /\ sweeps' = sweeps + 1
    /\ UNCHANGED <<state, doris, batch, jobVars, old, page, replays, history>>

Prunable == {e \in old : TableOf[e] = sweep /\ Present(e)}

NextTable == IF sweep = 3 THEN 0 ELSE sweep + 1

SweepFind ==
    /\ sweep # 0 /\ page = {}
    /\ IF Prunable = {}
       THEN sweep' = NextTable /\ UNCHANGED page
       ELSE /\ page' \in SUBSET Prunable
            /\ Cardinality(page') = Smaller(Cardinality(Prunable), PruneChunk)
            /\ UNCHANGED sweep
    /\ UNCHANGED <<state, doris, batch, jobVars, old, sweeps, replays, history>>

(* Deletes by id: updatedAt is not looked at again.                        *)
SweepDelete ==
    /\ page # {}
    /\ state' = [e \in Entity |-> IF e \in page THEN NoRow ELSE state[e]]
    /\ old' = old \ page
    /\ page' = {}
    /\ sweep' = IF Cardinality(page) < PruneChunk THEN NextTable ELSE sweep
    /\ UNCHANGED <<doris, batch, jobVars, sweeps, replays, history>>

(* Every job was processed: the system waits for more batches.             *)
Idle ==
    /\ \A j \in Job : phase[j] \in {"done", "dead"}
    /\ sweep = 0
    /\ UNCHANGED vars

JobStep(j) ==
    \/ Start(j)
    \/ \E t \in Table : Check(j, t) \/ Fetch(j, t) \/ ReadBack(j, t) \/ Insert(j, t)
    \/ Seed(j)
    \/ Merge(j)
    \/ Complete(j)

Next ==
    \/ \E j \in Job : JobStep(j) \/ Throw(j) \/ Replay(j)
    \/ Age \/ SweepStart \/ SweepFind \/ SweepDelete
    \/ Idle

Spec == Init /\ [][Next]_vars

(* The queue redelivers until a job ends and a worker never parks one, so  *)
(* no job waits for ever between two steps; nothing forces a sweep.        *)
FairSpec == Spec /\ \A j \in Job : WF_vars(JobStep(j))

-----------------------------------------------------------------------------
TypeOK ==
    /\ state \in [Entity -> Row]
    /\ doris \in [Entity -> SUBSET Row]
    /\ batch \in [Job -> [touch : SUBSET Entity, row : Row]]
    /\ phase \in [Job -> Active \cup {"ready", "done", "dead"}]
    /\ todo \in [Job -> SUBSET Table]
    /\ absent \in [Job -> SUBSET Entity]
    /\ held \in [Job -> [Entity -> SUBSET Row]]
    /\ attempts \in [Job -> 0 .. MaxAttempts]
    /\ old \subseteq Entity /\ page \subseteq Entity
    /\ late \subseteq Entity /\ reverted \subseteq Entity /\ reseeded \subseteq Entity
    /\ sweep \in 0 .. 3
    /\ sweeps \in 0 .. MaxSweeps /\ replays \in 0 .. MaxReplays
    /\ landed \in [Job -> SUBSET Entity]
    /\ truth \in [Entity -> Row]

(* No job is under way and none was given up after it had begun.           *)
Settled == \A j \in Job :
    phase[j] = "done" \/ (phase[j] = "ready" /\ attempts[j] = 0 /\ landed[j] = {})

(* While nothing has been pruned, the mirror never runs ahead of Postgres: *)
(* each physical row belongs to a live state row, carries that row's       *)
(* entity time (so an entity keeps ONE row in the partitioned table) and a *)
(* version no higher than the authoritative one.                           *)
MirrorNotAhead ==
    sweeps = 0 => \A e \in Entity : \A r \in doris[e] :
        /\ Present(e)
        /\ r.time = state[e].time
        /\ r.ver <= state[e].ver

(* Nor does it mislead: where an entity's merges arrived in version order, *)
(* a mirror row at the authoritative version IS the merged state, in       *)
(* whatever order concurrent jobs read and wrote.                          *)
MirrorFaithful ==
    /\ MirrorNotAhead
    /\ sweeps = 0 => \A e \in Entity \ late : \A r \in doris[e] :
          r.ver = state[e].ver => r = Mirror(state[e])

(* A value that row may show in a field of e: the merged one, or nothing   *)
(* where a seed could not provide the field.  Never an older one.          *)
Shows(e, row, f) ==
    \/ row.field[f] = Mirror(truth[e]).field[f]
    \/ e \in reseeded /\ f \notin Seedable(e) /\ row.field[f] = Default

(* Once the jobs have settled, the mirror shows exactly what was merged,   *)
(* one physical row per entity; but of a trace that was seeded back after  *)
(* a prune, the columns its lookup leaves out (session_path) may be blank. *)
ConvergedFor(e) ==
    truth[e].ver # 0 => \E row \in doris[e] :
        /\ doris[e] = {row}
        /\ row.ver = truth[e].ver /\ row.time = truth[e].time
        /\ \A f \in Field : Shows(e, row, f)
Converged == Settled => \A e \in Entity : ConvergedFor(e)

(* The same for the entities whose merges all arrived in version order.    *)
ConvergedInOrder == Settled => \A e \in Entity \ late : ConvergedFor(e)

(* While nothing has been pruned, a state row holds every field merged     *)
(* into its entity: concurrent batches cannot lose each other's fields.    *)
(* The one exception is a row that came back between a job's presence      *)
(* check and its seed, and that the seed then overwrote.                   *)
StateHoldsMerges ==
    sweeps = 0 => \A e \in Entity \ reverted :
        Present(e) => Mirror(state[e]).field = Mirror(truth[e]).field

(* Every version merged into Postgres reaches the mirror, unless the job   *)
(* that merged it is dead-lettered: no insert failure is swallowed.        *)
MirrorCatchesUp ==
    \A j \in Job : \A e \in Entity :
        (phase[j] = "read" /\ e \in batch[j].touch)
            ~> (phase[j] = "dead" \/ \E r \in doris[e] : r.ver >= batch[j].row.ver)

=============================================================================
