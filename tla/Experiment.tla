----------------------------- MODULE Experiment -----------------------------
(***************************************************************************)
(* Server-executed experiments: createExperiment enqueues one job, workers *)
(* run it (runExperiment) under the lock experiment:<id>, a run gives the  *)
(* pending items to a few concurrent lanes (mapConcurrent), every item has *)
(* a checkpoint in Postgres, and a user may cancel at any time.  One       *)
(* experiment is modelled; each run is in a process of its own.  The queue *)
(* is BullMQ's; what an item does (LLM call, trace, evaluators) is a step. *)
(***************************************************************************)
EXTENDS Naturals, FiniteSets

CONSTANTS
    Item,          \* the dataset's items, each with a checkpoint
    Run,           \* calls of runExperiment, one per delivery of the job
    None,          \* no owner, no verdict
    Lanes,         \* EXPERIMENT_ITEM_CONCURRENCY
    MaxAttempts,   \* attempts of the job (3 in the code)
    MaxStalled,    \* maxStalledCount (1 in the code)
    Plans          \* bound: the trouble of a behaviour stays within one of these

\* Failing writes of an outcome, errors that end a run, Redis errors, dying
\* processes, blocked event loops, locks whose renewals failed for a TTL,
\* cancellations.
Kinds == {"refusals", "rejects", "redis", "crashes", "stalls", "lapses", "cancels"}

Statuses == {"PENDING", "RUNNING", "COMPLETED", "FAILED", "CANCELLED"}
Final == {"COMPLETED", "FAILED", "CANCELLED"}

ASSUME ExperimentAssumption ==
    /\ IsFiniteSet(Item) /\ Item # {}
    /\ None \notin Run \union Statuses
    /\ Lanes \in Nat \ {0}
    /\ MaxAttempts \in Nat \ {0}
    /\ MaxStalled \in Nat
    /\ Plans \subseteq [Kinds -> Nat]

VARIABLES
    status,      \* of the Experiment row
    counts,      \* its completedItems and failedItems
    cp,          \* the status of each item's checkpoint
    traces,      \* traces written for each item
    cancel,      \* where the cancel request is
    job,         \* the BullMQ job
    lock,        \* the run whose token is in the Redis lock
    held,        \* the runs that renew the lock and will release it
    pc,          \* where each run is
    lane,        \* where each run is with each item
    width,       \* the lanes of each run that have not thrown
    done,        \* DONE items each run found
    verdict,     \* final status each run is about to write
    spent        \* trouble so far, by kind

rowVars == <<status, counts>>
lockVars == <<lock, held>>
memo == <<width, done, verdict>>
vars == <<rowVars, cp, traces, cancel, job, lockVars, pc, lane, memo, spent>>

Spend(kind) ==
    /\ spent' = [spent EXCEPT ![kind] = @ + 1]
    /\ \E plan \in Plans : \A k \in Kinds : spent'[k] <= plan[k]

\* Inside the function that withLock runs.
Inside == {"load", "start", "items", "verdict", "write"}
Places == Inside \union {"idle", "read", "lock", "release", "rethrow", "return", "throw",
                         "over", "dead"}
Busy == {"mark", "execute", "succeed", "fail"}

Init ==
    /\ status = "PENDING"
    /\ counts = [completed |-> 0, failed |-> 0]
    /\ cp = [i \in Item |-> "PENDING"]
    /\ traces = [i \in Item |-> 0]
    /\ cancel = "idle"
    /\ job = [st |-> "none", made |-> 0, stalls |-> 0, owner |-> None]
    /\ lock = None
    /\ held = {}
    /\ pc = [r \in Run |-> "idle"]
    /\ lane = [r \in Run |-> [i \in Item |-> "off"]]
    /\ width = [r \in Run |-> 0]
    /\ done = [r \in Run |-> 0]
    /\ verdict = [r \in Run |-> None]
    /\ spent = [k \in Kinds |-> 0]

-----------------------------------------------------------------------------
\* The API: create (the rows are committed, the job is added), cancel

\* A failing add leaves the committed experiment without a job.
Enqueue ==
    /\ job.st = "none"
    /\ \/ job' = [job EXCEPT !.st = "wait"] /\ UNCHANGED spent
       \/ job' = [job EXCEPT !.st = "failed"] /\ Spend("refusals")
    /\ UNCHANGED <<rowVars, cp, traces, cancel, lockVars, pc, lane, memo>>

CancelRead ==
    /\ cancel = "idle"
    /\ Spend("cancels")
    /\ cancel' = IF status \in {"PENDING", "RUNNING"} THEN "write" ELSE "done"
    /\ UNCHANGED <<rowVars, cp, traces, job, lockVars, pc, lane, memo>>

CancelWrite ==
    /\ cancel = "write"
    /\ status' = "CANCELLED"
    /\ cancel' = "done"
    /\ UNCHANGED <<counts, cp, traces, job, lockVars, pc, lane, memo, spent>>

-----------------------------------------------------------------------------
\* The job: delivered, finished, retried, found stalled

At(r, place) == pc[r] = place
Goto(r, place) == pc' = [pc EXCEPT ![r] = place]
NoLanes(r) == lane' = [lane EXCEPT ![r] = [i \in Item |-> "off"]]

Take(r) ==
    /\ At(r, "idle")
    /\ job.st = "wait"
    /\ job' = [job EXCEPT !.st = "active", !.owner = r]
    /\ Goto(r, "read")
    /\ UNCHANGED <<rowVars, cp, traces, cancel, lockVars, lane, memo, spent>>

\* Only the holder of the job settles it.
Finish(r) ==
    /\ At(r, "return")
    /\ job' = IF job.owner = r THEN [job EXCEPT !.st = "done", !.owner = None] ELSE job
    /\ Goto(r, "over")
    /\ UNCHANGED <<rowVars, cp, traces, cancel, lockVars, lane, memo, spent>>

Fail(r) ==
    /\ At(r, "throw")
    /\ job' = IF job.owner = r
              THEN [job EXCEPT !.st = IF job.made + 1 = MaxAttempts THEN "failed" ELSE "wait",
                               !.made = @ + 1, !.owner = None]
              ELSE job
    /\ Goto(r, "over")
    /\ UNCHANGED <<rowVars, cp, traces, cancel, lockVars, lane, memo, spent>>

\* The stalled check: the owner died, or was blocked for lockDuration.
Stall ==
    /\ job.st = "active"
    /\ IF At(job.owner, "dead") THEN UNCHANGED spent ELSE Spend("stalls")
    /\ job' = [job EXCEPT !.st = IF job.stalls >= MaxStalled THEN "failed" ELSE "wait",
                          !.stalls = @ + 1, !.owner = None]
    /\ UNCHANGED <<rowVars, cp, traces, cancel, lockVars, pc, lane, memo>>

Crash(r) ==
    /\ pc[r] \notin {"idle", "dead"}
    /\ pc[r] = "over" => \E i \in Item : lane[r][i] \in Busy
    /\ Spend("crashes")
    /\ Goto(r, "dead")
    /\ held' = held \ {r}
    /\ NoLanes(r)
    /\ UNCHANGED <<rowVars, cp, traces, cancel, job, lock, memo>>

-----------------------------------------------------------------------------
\* runExperiment around the items

\* The status is looked at before the lock is taken, and not again inside.
ReadStatus(r) ==
    /\ At(r, "read")
    /\ Goto(r, IF status \in {"COMPLETED", "CANCELLED"} THEN "return" ELSE "lock")
    /\ UNCHANGED <<rowVars, cp, traces, cancel, job, lockVars, lane, memo, spent>>

\* NX forgotten.
FreeAlways == TRUE

Free == lock = None

\* SET NX EX.  A held lock ends the call, and so the job, without an error; a
\* Redis error runs the function without the lock, set or not.
Acquire(r) ==
    /\ At(r, "lock")
    /\ \/ /\ Free
          /\ Goto(r, "load")
          /\ lock' = r /\ held' = held \union {r}
          /\ UNCHANGED spent
       \/ /\ ~Free
          /\ Goto(r, "return")
          /\ UNCHANGED <<lockVars, spent>>
       \/ /\ Spend("redis")
          /\ Goto(r, "load")
          /\ lock' \in {lock, IF Free THEN r ELSE lock}
          /\ UNCHANGED held
    /\ UNCHANGED <<rowVars, cp, traces, cancel, job, lane, memo>>

\* The checkpoints ignored: every item runs again.
EligibleAll(c) == TRUE

\* Items to run: neither DONE nor, as after a crash, RUNNING.
Eligible(c) == c \in {"PENDING", "FAILED"}

DoneItems == {i \in Item : cp[i] = "DONE"}

\* The lanes of mapConcurrent for n items.
Width(n) == IF n < Lanes THEN n ELSE Lanes

Load(r) ==
    LET pending == {i \in Item : Eligible(cp[i])} IN
    /\ At(r, "load")
    /\ lane' = [lane EXCEPT ![r] = [i \in Item |-> IF i \in pending THEN "todo" ELSE "off"]]
    /\ width' = [width EXCEPT ![r] = Width(Cardinality(pending))]
    /\ done' = [done EXCEPT ![r] = Cardinality(DoneItems)]
    /\ Goto(r, "start")
    /\ UNCHANGED <<rowVars, cp, traces, cancel, job, lockVars, verdict, spent>>

\* The counters left as an earlier run left them.
ResetKeeps(r) == counts

Reset(r) == [completed |-> done[r], failed |-> 0]

\* The row, whatever its status is now; then the prompt, whose lookup may fail.
Start(r) ==
    /\ At(r, "start")
    /\ status' = "RUNNING"
    /\ counts' = Reset(r)
    /\ \/ Goto(r, "items") /\ UNCHANGED <<lane, spent>>
       \/ Goto(r, "rethrow") /\ NoLanes(r) /\ Spend("rejects")
    /\ UNCHANGED <<cp, traces, cancel, job, lockVars, memo>>

\* mapConcurrent resolves when every lane has run out of items.
ItemsOver(r) ==
    /\ At(r, "items")
    /\ \A i \in Item : lane[r][i] = "off"
    /\ Goto(r, "verdict")
    /\ UNCHANGED <<rowVars, cp, traces, cancel, job, lockVars, lane, memo, spent>>

\* The status not looked at again at the end.
VerdictBlind == IF counts.failed >= Cardinality(Item) THEN "FAILED" ELSE "COMPLETED"

Verdict == IF status = "CANCELLED" THEN "CANCELLED"
           ELSE IF counts.failed >= Cardinality(Item) THEN "FAILED" ELSE "COMPLETED"

ReadVerdict(r) ==
    /\ At(r, "verdict")
    /\ verdict' = [verdict EXCEPT ![r] = Verdict]
    /\ Goto(r, "write")
    /\ UNCHANGED <<rowVars, cp, traces, cancel, job, lockVars, lane, width, done, spent>>

WriteVerdict(r) ==
    /\ At(r, "write")
    /\ status' = verdict[r]
    /\ Goto(r, "release")
    /\ UNCHANGED <<counts, cp, traces, cancel, job, lockVars, lane, memo, spent>>

\* A database error outside the lanes ends the call, through the finally block
\* if the lock was taken.
Reject(r) ==
    /\ Spend("rejects")
    /\ \/ At(r, "read") /\ Goto(r, "throw")
       \/ pc[r] \in Inside \ {"items"} /\ Goto(r, "rethrow")
    /\ NoLanes(r)
    /\ UNCHANGED <<rowVars, cp, traces, cancel, job, lockVars, memo>>

\* The finally block skipped by an error.
LeavesOnSuccess(r) == IF At(r, "release") /\ lock = r THEN None ELSE lock

\* Owner-checked delete; a run that failed open has nothing to release.
Leaves(r) == IF r \in held /\ lock = r THEN None ELSE lock

\* The finally block; an error of the delete is swallowed.
Release(r) ==
    /\ pc[r] \in {"release", "rethrow"}
    /\ \/ lock' = Leaves(r) /\ UNCHANGED spent
       \/ r \in held /\ Spend("redis") /\ UNCHANGED lock
    /\ held' = held \ {r}
    /\ Goto(r, IF At(r, "release") THEN "return" ELSE "throw")
    /\ UNCHANGED <<rowVars, cp, traces, cancel, job, lane, memo>>

\* The TTL runs out: nobody renews the lock, or all renewals of a TTL fail.
LockExpires ==
    /\ lock # None
    /\ IF lock \in held THEN Spend("lapses") ELSE UNCHANGED spent
    /\ lock' = None
    /\ UNCHANGED <<rowVars, cp, traces, cancel, job, held, pc, lane, memo>>

-----------------------------------------------------------------------------
\* The lanes of mapConcurrent.  They outlive the run when one of them throws:
\* Promise.all rejects, withLock releases, the others go on taking items.

InLane(r, i, place) == lane[r][i] = place
LaneTo(r, i, place) == lane' = [lane EXCEPT ![r][i] = place]
Running(r) == pc[r] \in {"items", "rethrow", "throw", "over"}

\* Cooperative cancellation is looked at once per item, before it starts.
PickItem(r, i) ==
    /\ Running(r)
    /\ InLane(r, i, "todo")
    /\ Cardinality({k \in Item : lane[r][k] \in Busy}) < width[r]
    /\ LaneTo(r, i, IF status = "CANCELLED" THEN "off" ELSE "mark")
    /\ UNCHANGED <<rowVars, cp, traces, cancel, job, lockVars, pc, memo, spent>>

Mark(r, i) ==
    /\ InLane(r, i, "mark")
    /\ cp' = [cp EXCEPT ![i] = "RUNNING"]
    /\ LaneTo(r, i, "execute")
    /\ UNCHANGED <<rowVars, traces, cancel, job, lockVars, pc, memo, spent>>

\* The playground call writes a trace; it, or linking the trace, may fail.
Execute(r, i) ==
    /\ InLane(r, i, "execute")
    /\ \/ /\ traces' = [traces EXCEPT ![i] = @ + 1]
          /\ \E place \in {"succeed", "fail"} : LaneTo(r, i, place)
       \/ LaneTo(r, i, "fail") /\ UNCHANGED traces
    /\ UNCHANGED <<rowVars, cp, cancel, job, lockVars, pc, memo, spent>>

Settle(i, outcome) == cp' = [cp EXCEPT ![i] = outcome]

\* Checkpoint and counter in one transaction; its failure fails the item.
Succeed(r, i) ==
    /\ InLane(r, i, "succeed")
    /\ \/ /\ Settle(i, "DONE")
          /\ counts' = [counts EXCEPT !.completed = @ + 1]
          /\ LaneTo(r, i, "off")
          /\ UNCHANGED spent
       \/ /\ Spend("refusals")
          /\ LaneTo(r, i, "fail")
          /\ UNCHANGED <<cp, counts>>
    /\ UNCHANGED <<status, traces, cancel, job, lockVars, pc, memo>>

FailItem(r, i) ==
    /\ InLane(r, i, "fail")
    /\ Settle(i, "FAILED")
    /\ counts' = [counts EXCEPT !.failed = @ + 1]
    /\ LaneTo(r, i, "off")
    /\ UNCHANGED <<status, traces, cancel, job, lockVars, pc, memo, spent>>

\* An error outside the try: one lane ends, and the first one ends the run.
LaneThrows(r, i) ==
    /\ lane[r][i] \in {"mark", "fail"}
    /\ Spend("rejects")
    /\ LaneTo(r, i, "off")
    /\ width' = [width EXCEPT ![r] = @ - 1]
    /\ pc' = [pc EXCEPT ![r] = IF @ = "items" THEN "rethrow" ELSE @]
    /\ UNCHANGED <<rowVars, cp, traces, cancel, job, lockVars, done, verdict>>

-----------------------------------------------------------------------------
RunStep(r) == \/ ReadStatus(r) \/ Acquire(r) \/ Load(r) \/ Start(r) \/ ItemsOver(r)
              \/ ReadVerdict(r) \/ WriteVerdict(r) \/ Release(r) \/ Finish(r) \/ Fail(r)

LaneStep(r) == \E i \in Item : \/ PickItem(r, i) \/ Mark(r, i) \/ Execute(r, i)
                               \/ Succeed(r, i) \/ FailItem(r, i)

\* Nothing is under way.
Idle ==
    /\ job.st \in {"done", "failed"}
    /\ \A r \in Run : pc[r] \in {"idle", "over", "dead"}
    /\ UNCHANGED vars

Next ==
    \/ Enqueue \/ CancelRead \/ CancelWrite
    \/ \E r \in Run : Take(r) \/ RunStep(r) \/ LaneStep(r) \/ Reject(r) \/ Crash(r)
    \/ \E r \in Run, i \in Item : LaneThrows(r, i)
    \/ Stall \/ LockExpires
    \/ Idle

Spec == Init /\ [][Next]_vars

(***************************************************************************)
(* Workers take and run jobs, BullMQ looks for stalled ones, Redis expires *)
(* what nobody renews.  No error, crash or cancellation need happen.       *)
(***************************************************************************)
Abandoned == lock # None /\ lock \notin held

FairSpec ==
    /\ Spec
    /\ WF_vars(\E r \in Run : Take(r))
    /\ \A r \in Run : WF_vars(RunStep(r)) /\ WF_vars(LaneStep(r))
    /\ WF_vars(job.st = "active" /\ At(job.owner, "dead") /\ Stall)
    /\ WF_vars(Abandoned /\ LockExpires)

-----------------------------------------------------------------------------
TypeOK ==
    /\ status \in Statuses
    /\ counts \in [completed : Nat, failed : Nat]
    /\ cp \in [Item -> {"PENDING", "RUNNING", "DONE", "FAILED"}]
    /\ traces \in [Item -> Nat]
    /\ cancel \in {"idle", "write", "done"}
    /\ job \in [st : {"none", "wait", "active", "done", "failed"}, made : 0..MaxAttempts,
                stalls : 0..(MaxStalled + 1), owner : Run \union {None}]
    /\ lock \in Run \union {None}
    /\ held \subseteq Run
    /\ pc \in [Run -> Places]
    /\ lane \in [Run -> [Item -> Busy \union {"off", "todo"}]]
    /\ width \in [Run -> 0..Lanes]
    /\ done \in [Run -> Nat]
    /\ verdict \in [Run -> Final \union {None}]
    /\ spent \in [Kinds -> Nat]

\* Nothing that lets two runs work on the items at once.
Orderly == spent["rejects"] = 0 /\ spent["redis"] = 0 /\ spent["lapses"] = 0

Working(r) == pc[r] \in Inside \/ \E i \in Item : lane[r][i] # "off"

(* While Redis answers, locks are renewed and no run is ended by an error, *)
(* one run at a time works on the items, whatever crashes, stalls and      *)
(* cancellations do (withLock, processExperiment).                         *)
OneRunAtATime ==
    Orderly => \A r, s \in Run : Working(r) /\ Working(s) => r = s

(* ... under the same provisos, over every resume after a crash.           *)
DoneItemsRestOrderly ==
    [][Orderly' => \A i \in Item :
           cp[i] = "DONE" => cp'[i] = "DONE" /\ traces'[i] = traces[i]]_vars

(* The counters, which the progress bar and the verdict are made of, never  *)
(* count an item twice over any resumes, nor forget a DONE one (counter    *)
(* reset, one transaction per outcome).                                    *)
CountsMatch ==
    Orderly => /\ counts.completed = Cardinality(DoneItems)
               /\ counts.failed <= Cardinality({i \in Item : cp[i] = "FAILED"})

\* Nobody has looked at the status before the cancellation and will write it.
CancelSettled ==
    /\ status = "CANCELLED"
    /\ \A r \in Run : /\ pc[r] \notin {"lock", "load", "start"}
                      /\ pc[r] = "write" => verdict[r] = "CANCELLED"

(* A cancellation that reaches an experiment at its items, or between two  *)
(* attempts, is final: no retry and no verdict takes it back.  One that    *)
(* falls between a run's look at the status and its start, or its verdict  *)
(* and its write, is overwritten (runExperiment, cancelExperiment).        *)
CancelSticks == [][CancelSettled => CancelSettled']_vars

(* An experiment whose job was queued ends, unless its job is given up, a  *)
(* process dies, or the job is lost to a second delivery before its run is *)
(* ended by an error.                                                      *)
EndsUnlessAbandoned ==
    job.st = "wait" ~> \/ status \in Final
                       \/ job.st = "failed"
                       \/ spent["crashes"] > 0
                       \/ spent["rejects"] > 0 /\ spent["stalls"] + spent["redis"] > 0

=============================================================================
