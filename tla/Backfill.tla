------------------------------ MODULE Backfill ------------------------------
(***************************************************************************)
(* Evaluator backfills: createEvaluatorBackfill commits a row and adds a   *)
(* job, and runEvaluatorBackfill pages through the matching traces, newest *)
(* first, has each one judged and keeps the row's counters.  Nothing locks *)
(* the row, a job may be delivered again, and traces arrive and go away    *)
(* between two pages.  The queue is BullMQ's; a judge call is a step.      *)
(***************************************************************************)
EXTENDS Naturals, Sequences, FiniteSets

CONSTANTS
    Initial,       \* traces that match at first: 1..Initial, the newest last
    MaxTraces,     \* bound: traces that ever match
    Run,           \* calls of runEvaluatorBackfill, one per delivery of the job
    None,          \* no owner
    Cap,           \* MAX_BACKFILL_TARGETS
    Page,          \* traces listed at once
    Lanes,         \* traces judged at once
    MaxAttempts,   \* attempts of the job (3 in the code)
    MaxStalled,    \* maxStalledCount (1 in the code)
    Plans          \* bound: the trouble of a behaviour stays within one of these

\* Jobs that cannot be added, reads that throw, writes of the row that throw,
\* judge calls that fail, dying processes, blocked event loops, traces that
\* arrive, traces that go away.
Kinds == {"adds", "reads", "writes", "judges", "crashes", "stalls", "arrivals", "removals"}

Trace == 1..MaxTraces

ASSUME BackfillAssumption ==
    /\ Initial \in Nat /\ MaxTraces \in Nat /\ Initial <= MaxTraces
    /\ {Cap, Page, Lanes, MaxAttempts} \subseteq Nat \ {0}
    /\ MaxStalled \in Nat
    /\ None \notin Run
    /\ Plans \subseteq [Kinds -> Nat]
    /\ \A plan \in Plans : Initial + plan["arrivals"] <= MaxTraces

VARIABLES
    row,        \* the EvaluatorBackfill row
    job,        \* the BullMQ job
    list,       \* the matching traces in the order listTraces has them
    run,        \* the locals of each run
    calls,      \* times each trace was judged
    selection,  \* history: what the run that completed the row had counted
    spent       \* trouble so far, by kind

vars == <<row, job, list, run, calls, selection, spent>>

Spend(kind) ==
    /\ spent' = [spent EXCEPT ![kind] = @ + 1]
    /\ \E plan \in Plans : \A k \in Kinds : spent'[k] <= plan[k]

Terminal == {"COMPLETED", "FAILED"}

Idle == [at |-> "idle", offset |-> 0, total |-> 0, counted |-> {}, ok |-> 0, bad |-> 0,
         rest |-> <<>>, busy |-> {}]

Init ==
    /\ row = [status |-> "PENDING", total |-> 0, processed |-> 0, failed |-> 0]
    /\ job = [st |-> "none", made |-> 0, stalls |-> 0, owner |-> None]
    /\ list = [i \in 1..Initial |-> Initial + 1 - i]
    /\ run = [r \in Run |-> Idle]
    /\ calls = [t \in Trace |-> 0]
    /\ selection = {}
    /\ spent = [k \in Kinds |-> 0]

Elements(s) == {s[i] : i \in DOMAIN s}
Smaller(a, b) == IF a < b THEN a ELSE b

-----------------------------------------------------------------------------
\* The traces of the project

\* A trace of any age is ingested.
Arrive ==
    /\ Spend("arrivals")
    /\ \E i \in 0..Len(list) :
          list' = SubSeq(list, 1, i) \o <<Initial + spent'["arrivals"]>> \o SubSeq(list, i + 1, Len(list))
    /\ UNCHANGED <<row, job, run, calls, selection>>

\* A trace is deleted, or the filter or the time window no longer matches it.
Leave ==
    /\ Spend("removals")
    /\ \E i \in DOMAIN list : list' = SubSeq(list, 1, i - 1) \o SubSeq(list, i + 1, Len(list))
    /\ UNCHANGED <<row, job, run, calls, selection>>

-----------------------------------------------------------------------------
\* The job: added, delivered, finished, retried, found stalled

\* A failing add leaves the committed row without a job.
Enqueue ==
    /\ job.st = "none"
    /\ \/ job' = [job EXCEPT !.st = "wait"] /\ UNCHANGED spent
       \/ job' = [job EXCEPT !.st = "failed"] /\ Spend("adds")
    /\ UNCHANGED <<row, list, run, calls, selection>>

Set(r, new) == run' = [run EXCEPT ![r] = new]
Goto(r, place) == Set(r, [run[r] EXCEPT !.at = place])
Over(r) == Set(r, [Idle EXCEPT !.at = "over"])

Take(r) ==
    /\ run[r].at = "idle" /\ job.st = "wait"
    /\ job' = [job EXCEPT !.st = "active", !.owner = r]
    /\ Goto(r, "find")
    /\ UNCHANGED <<row, list, calls, selection, spent>>

\* Only the holder of the job settles it.
Finish(r) ==
    /\ run[r].at = "return"
    /\ job' = IF job.owner = r THEN [job EXCEPT !.st = "done", !.owner = None] ELSE job
    /\ Over(r)
    /\ UNCHANGED <<row, list, calls, selection, spent>>

Fail(r) ==
    /\ run[r].at = "throw"
    /\ job' = IF job.owner = r
              THEN [job EXCEPT !.st = IF job.made + 1 >= MaxAttempts THEN "failed" ELSE "wait",
                               !.made = @ + 1, !.owner = None]
              ELSE job
    /\ Over(r)
    /\ UNCHANGED <<row, list, calls, selection, spent>>

\* The owner died, or was blocked for lockDuration.
Stall ==
    /\ job.st = "active"
    /\ IF run[job.owner].at = "dead" THEN UNCHANGED spent ELSE Spend("stalls")
    /\ job' = [job EXCEPT !.st = IF job.stalls >= MaxStalled THEN "failed" ELSE "wait",
                          !.stalls = @ + 1, !.owner = None]
    /\ UNCHANGED <<row, list, run, calls, selection>>

Crash(r) ==
    /\ run[r].at \notin {"idle", "over", "dead"}
    /\ Spend("crashes")
    /\ Set(r, [Idle EXCEPT !.at = "dead"])
    /\ UNCHANGED <<row, job, list, calls, selection>>

-----------------------------------------------------------------------------
\* runEvaluatorBackfill

\* A FAILED run is tried once more.
FinishedOnly == {"COMPLETED"}

\* Nor is one that another delivery began.
FinishedOrBegun == Terminal \cup {"RUNNING"}

\* A run that has reached a terminal status is not run again.
Finished == Terminal

FindRow(r) ==
    /\ run[r].at = "find"
    /\ Goto(r, IF row.status \in Finished THEN "return" ELSE "count")
    /\ UNCHANGED <<row, job, list, calls, selection, spent>>

Count(r) ==
    /\ run[r].at = "count"
    /\ LET total == Smaller(Len(list), Cap)
       IN Set(r, [run[r] EXCEPT !.at = "start", !.total = total,
                                !.counted = Elements(SubSeq(list, 1, total))])
    /\ UNCHANGED <<row, job, list, calls, selection, spent>>

\* Whatever the status is by now, and the counters stay as they are.
StartRow(r) ==
    /\ run[r].at = "start"
    /\ row' = [row EXCEPT !.status = "RUNNING", !.total = run[r].total]
    /\ Goto(r, "list")
    /\ UNCHANGED <<job, list, calls, selection, spent>>

\* A throw before the row is RUNNING is not recorded in it.
EarlyThrow(r) ==
    /\ run[r].at \in {"find", "count", "start"}
    /\ Spend(IF run[r].at = "start" THEN "writes" ELSE "reads")
    /\ Goto(r, "throw")
    /\ UNCHANGED <<row, job, list, calls, selection>>

\* forEachLimited takes the next few traces when all of the last are settled.
Chunk(here, rest) ==
    LET n == Smaller(Lanes, Len(rest))
    IN [here EXCEPT !.at = "judge", !.busy = Elements(SubSeq(rest, 1, n)),
                    !.rest = SubSeq(rest, n + 1, Len(rest))]

PageOf(r) ==
    LET here == run[r]
    IN SubSeq(list, here.offset + 1,
              Smaller(here.offset + Smaller(Page, here.total - here.offset), Len(list)))

\* listTraces and getTraceIO; an empty page ends the run.
ListPage(r) ==
    /\ run[r].at = "list"
    /\ Set(r, IF run[r].offset >= run[r].total \/ PageOf(r) = <<>>
              THEN [run[r] EXCEPT !.at = "complete"]
              ELSE Chunk(run[r], PageOf(r)))
    /\ UNCHANGED <<row, job, list, calls, selection, spent>>

\* One trace is judged; a failure is counted, not fatal.
Judge(r) ==
    /\ run[r].at = "judge"
    /\ \E t \in run[r].busy :
          /\ calls' = [calls EXCEPT ![t] = @ + 1]
          /\ \E good \in BOOLEAN :
                LET here == [run[r] EXCEPT !.busy = @ \ {t},
                                           !.ok = IF good THEN @ + 1 ELSE @,
                                           !.bad = IF good THEN @ ELSE @ + 1]
                IN /\ IF good THEN UNCHANGED spent ELSE Spend("judges")
                   /\ Set(r, IF here.busy # {} THEN here
                             ELSE IF here.rest # <<>> THEN Chunk(here, here.rest)
                             ELSE [here EXCEPT !.at = "save"])
    /\ UNCHANGED <<row, job, list, selection>>

\* The next page begins behind what was judged on this one.
OffsetPlusOne(offset) == offset + Page + 1

NextOffset(offset) == offset + Page

SaveCounts(r) ==
    /\ run[r].at = "save"
    /\ row' = [row EXCEPT !.processed = run[r].ok, !.failed = run[r].bad]
    /\ Set(r, [run[r] EXCEPT !.at = "list", !.offset = NextOffset(@)])
    /\ UNCHANGED <<job, list, calls, selection, spent>>

Complete(r) ==
    /\ run[r].at = "complete"
    /\ row' = [row EXCEPT !.status = "COMPLETED"]
    /\ selection' = run[r].counted
    /\ Goto(r, "return")
    /\ UNCHANGED <<job, list, calls, spent>>

\* Listing, reading or a write of the row throws: to the catch block.
LateThrow(r) ==
    /\ run[r].at \in {"list", "save", "complete"}
    /\ Spend(IF run[r].at = "list" THEN "reads" ELSE "writes")
    /\ Goto(r, "catch")
    /\ UNCHANGED <<row, job, list, calls, selection>>

\* FAILED is written before the error is thrown on; if that write throws too,
\* the row stays RUNNING.
Catch(r) ==
    /\ run[r].at = "catch"
    /\ \/ /\ row' = [row EXCEPT !.status = "FAILED", !.processed = run[r].ok, !.failed = run[r].bad]
          /\ UNCHANGED spent
       \/ Spend("writes") /\ UNCHANGED row
    /\ Goto(r, "throw")
    /\ UNCHANGED <<job, list, calls, selection>>

\* The backfill is over: the worker waits for another one.
Rest ==
    /\ job.st \in {"done", "failed"}
    /\ \A r \in Run : run[r].at \in {"idle", "over", "dead"}
    /\ UNCHANGED vars

RunStep(r) ==
    \/ FindRow(r) \/ Count(r) \/ StartRow(r) \/ ListPage(r) \/ Judge(r) \/ SaveCounts(r)
    \/ Complete(r) \/ Catch(r) \/ Finish(r) \/ Fail(r)

Next ==
    \/ Arrive \/ Leave \/ Enqueue \/ Stall \/ Rest
    \/ \E r \in Run : Take(r) \/ RunStep(r) \/ EarlyThrow(r) \/ LateThrow(r) \/ Crash(r)

\* A worker that is alive goes on; a waiting job is delivered; a dead
\* worker's job is found.
Fairness ==
    /\ WF_vars(\E r \in Run : Take(r))
    /\ \A r \in Run : WF_vars(RunStep(r))
    /\ WF_vars(job.st = "active" /\ run[job.owner].at = "dead" /\ Stall)

Spec == Init /\ [][Next]_vars
FairSpec == Spec /\ Fairness

-----------------------------------------------------------------------------
Places == {"idle", "over", "dead", "find", "count", "start", "list", "judge", "save", "complete",
           "catch", "return", "throw"}

TypeOK ==
    /\ row \in [status : Terminal \cup {"PENDING", "RUNNING"}, total : Nat, processed : Nat, failed : Nat]
    /\ job \in [st : {"none", "wait", "active", "done", "failed"}, made : Nat, stalls : Nat,
                owner : Run \cup {None}]
    /\ list \in Seq(Trace)
    /\ run \in [Run -> [at : Places, offset : Nat, total : Nat, counted : SUBSET Trace,
                        ok : Nat, bad : Nat, rest : Seq(Trace), busy : SUBSET Trace]]
    /\ calls \in [Trace -> Nat]
    /\ selection \in SUBSET Trace
    /\ spent \in [Kinds -> Nat]

(* "A retried job must not re-spend judge calls on a finished run": a      *)
(* trace is judged again only for a delivery that was lost or doubled, for *)
(* a FAILED that could not be written, or when a trace that arrived pushes *)
(* it on to the next page of a run, of which each stall leaves one more.   *)
(* Only beside a stalled run, whose RUNNING overwrites a FAILED, does a    *)
(* failed read have the traces judged again.                               *)
JudgedAgainExplained ==
    \A t \in Trace :
        calls[t] <= 1 + spent["crashes"] + spent["stalls"] + spent["writes"]
                    + spent["arrivals"] * (1 + spent["stalls"])
                    + (IF spent["stalls"] = 0 THEN 0 ELSE spent["reads"])

Moves == spent["arrivals"] + spent["removals"]

(* A completed run has judged every trace it had counted but one for each  *)
(* trace that came or went.  Its counters say so, unless another run wrote *)
(* them, or found no trace left and kept those of the attempt before it.   *)
SelectionJudged ==
    row.status = "COMPLETED" =>
        /\ Cardinality({t \in selection : calls[t] = 0}) <= Moves
        /\ spent["stalls"] = 0 /\ (spent["removals"] = 0 \/ spent["crashes"] + spent["writes"] = 0) =>
              /\ row.processed + row.failed <= row.total
              /\ row.total <= row.processed + row.failed + spent["removals"]

(* A queued backfill ends in a terminal status and stays there, unless its *)
(* job was given up between two statuses: its processes died or stalled    *)
(* too often, or every attempt threw outside the part that is recorded.    *)
Ends ==
    job.st = "wait" ~>
        \/ [](row.status \in Terminal)
        \/ spent["crashes"] + spent["stalls"] > MaxStalled
        \/ spent["reads"] + spent["writes"] >= MaxAttempts
=============================================================================
