------------------------------ MODULE AlertEval ------------------------------
(***************************************************************************)
(* The alert-eval job of the worker: every minute a sweep evaluates the    *)
(* alert rules and the cost budgets, side by side, under a lock that a     *)
(* Redis error lets it do without.  Both evaluations read their rows, then *)
(* the telemetry, then page, and only then write what they decided, while  *)
(* an operator edits the rows and the telemetry moves on.                  *)
(*                                                                         *)
(* Rules do not affect one another, nor do budgets, so there is one rule   *)
(* and one budget.  The rule's metric and threshold come down to whether   *)
(* the metric breaches it; the budget's thresholds are equal fractions.    *)
(***************************************************************************)
EXTENDS Naturals, FiniteSets

CONSTANTS
    Sweep,     \* the sweeps that may be under way at once (bound)
    None,      \* no row, nobody
    Channels,  \* channels a rule or a budget may have: "none", "url", "other"
    Limits,    \* monthly budgets, in units of spend
    Steps,     \* thresholds of a budget: 1/Steps, 2/Steps, ... of the limit
    MaxSpend,  \* spend of a month at most (bound)
    Plans      \* bound: the events of a behaviour stay within one of these

\* Rules and budgets written or deleted, months begun, movements of metric and
\* spend; crashes, failed writes, channels that fail, fail in doubt, or refuse
\* with an HTTP status; telemetry errors, sweeps whose rows cannot be read, and
\* Redis errors.
Kinds == {"rules", "budgets", "months", "moves",
          "crashes", "writes", "outages", "doubts", "refusals", "reads", "rejects", "redis"}

ASSUME AlertAssumption ==
    /\ None \notin Sweep
    /\ None \notin [id : Nat, channel : Channels, enabled : BOOLEAN]
    /\ Channels \subseteq {"none", "url", "other"}
    /\ Limits \subseteq Nat \ {0}
    /\ Steps \in Nat \ {0}
    /\ MaxSpend \in Nat
    /\ Plans \subseteq [Kinds -> Nat]

VARIABLES
    lock,      \* the sweep that holds lock:alert-eval
    rule,      \* the alert rule's row, or None
    status,    \* of its AlertState row; "ok" if there is none
    breached,  \* the metric breaches the rule
    ruleEval,  \* evaluateAllAlerts in each sweep
    heard,     \* what the rule's url channel was told last; quiet, too, when
               \* an incident ended while there was no channel to tell
    repeats,   \* firing pages it took while it had heard of the incident
    unwritten, \* what it was told since the row was last written, and the
               \* sweep that told it can no longer write
    budget,    \* the cost budget's row, or None
    spend,     \* month-to-date cost
    budgetEval,\* evaluateBudgets in each sweep
    told,      \* the highest step announced for this budget in this month
    spent      \* events so far, by kind

ruleVars == <<rule, status, breached, heard, repeats, unwritten>>
budgetVars == <<budget, spend, told>>
vars == <<lock, ruleVars, ruleEval, budgetVars, budgetEval, spent>>

\* A sweep is idle, or each evaluation is at a place of its own; "done" waits
\* for the other one.
Places == {"idle", "read", "measure", "notify", "commit", "done"}

IdleRule == [at |-> "idle", id |-> 0, channel |-> "none", firing |-> FALSE,
             breached |-> FALSE, delivered |-> FALSE]
IdleBudget == [at |-> "idle", id |-> 0, rev |-> 0, limit |-> 0, channel |-> "none", notified |-> 0,
               month |-> 0, step |-> 0, delivered |-> FALSE]

Running == {s \in Sweep : ruleEval[s].at # "idle"}

Spend(kind) ==
    /\ spent' = [spent EXCEPT ![kind] = @ + 1]
    /\ \E plan \in Plans : \A k \in Kinds : spent'[k] <= plan[k]

Init ==
    /\ lock = None
    /\ rule = None
    /\ status = "ok"
    /\ breached = FALSE
    /\ ruleEval = [s \in Sweep |-> IdleRule]
    /\ heard = "quiet"
    /\ repeats = 0
    /\ unwritten = {}
    /\ budget = None
    /\ spend = 0
    /\ budgetEval = [s \in Sweep |-> IdleBudget]
    /\ told = 0
    /\ spent = [k \in Kinds |-> 0]

-----------------------------------------------------------------------------
(* The operator and the world.                                             *)

\* createAlertRule: no state row yet.
CreateRule ==
    /\ rule = None
    /\ Spend("rules")
    /\ \E channel \in Channels : rule' = [id |-> spent'["rules"], channel |-> channel, enabled |-> TRUE]
    /\ status' = "ok"
    /\ heard' = "quiet"
    /\ unwritten' = {}
    /\ UNCHANGED <<lock, breached, ruleEval, repeats, budgetVars, budgetEval>>

\* updateAlertRule: its channels, whether it is enabled.  Its state stays.
UpdateRule ==
    /\ rule # None
    /\ Spend("rules")
    /\ \E channel \in Channels, enabled \in BOOLEAN :
          rule' = [rule EXCEPT !.channel = channel, !.enabled = enabled]
    /\ UNCHANGED <<lock, status, breached, ruleEval, heard, repeats, unwritten, budgetVars, budgetEval>>

\* deleteAlertRule: the state row goes with it.
DeleteRule ==
    /\ rule # None
    /\ Spend("rules")
    /\ rule' = None
    /\ status' = "ok"
    /\ heard' = "quiet"
    /\ unwritten' = {}
    /\ UNCHANGED <<lock, breached, ruleEval, repeats, budgetVars, budgetEval>>

Month == spent["months"]

\* setCostBudget: an edit keeps the row's id, writes its channels, which are
\* none unless the caller names some, and clears its marker.  rev and month are
\* ghosts: the edit the row is from, the month the marker is about.
SetBudget ==
    /\ Spend("budgets")
    /\ \E limit \in Limits, channel \in Channels :
          budget' = [id |-> IF budget = None THEN spent'["budgets"] ELSE budget.id,
                     rev |-> spent'["budgets"], limit |-> limit, channel |-> channel,
                     notified |-> 0, about |-> <<spent'["budgets"], Month>>]
    /\ told' = 0
    /\ UNCHANGED <<lock, ruleVars, ruleEval, spend, budgetEval>>

DeleteBudget ==
    /\ budget # None
    /\ Spend("budgets")
    /\ budget' = None
    /\ UNCHANGED <<lock, ruleVars, ruleEval, spend, budgetEval, told>>

NewMonth ==
    /\ Spend("months")
    /\ spend' = 0
    /\ told' = 0
    /\ UNCHANGED <<lock, ruleVars, ruleEval, budget, budgetEval>>

MetricMoves ==
    /\ Spend("moves")
    /\ \/ breached' = ~breached /\ UNCHANGED spend
       \/ spend < MaxSpend /\ spend' = spend + 1 /\ UNCHANGED breached
    /\ UNCHANGED <<lock, rule, status, ruleEval, heard, repeats, unwritten, budget, budgetEval, told>>

-----------------------------------------------------------------------------
(* The sweep and its lock.                                                 *)

\* No lock at all.
AnybodyAcquires == TRUE

\* SET NX.
Acquires == lock = None

\* The minute's job: withLock skips it while another one holds the lock, and
\* runs it without the lock when Redis does not answer.
Start(s) ==
    /\ s \notin Running
    /\ \/ Acquires /\ lock' = s /\ UNCHANGED spent
       \/ Spend("redis") /\ UNCHANGED lock
    /\ ruleEval' = [ruleEval EXCEPT ![s].at = "read"]
    /\ budgetEval' = [budgetEval EXCEPT ![s].at = "read"]
    /\ UNCHANGED <<ruleVars, budgetVars>>

\* Only the holder releases the lock.
Released(s) == IF lock = s THEN None ELSE lock

\* Promise.all is through.
Finish(s) ==
    /\ ruleEval[s].at = "done"
    /\ budgetEval[s].at = "done"
    /\ lock' = Released(s)
    /\ ruleEval' = [ruleEval EXCEPT ![s] = IdleRule]
    /\ budgetEval' = [budgetEval EXCEPT ![s] = IdleBudget]
    /\ UNCHANGED <<ruleVars, budgetVars, spent>>

\* One evaluation cannot read its rows: Promise.all rejects and the lock is
\* released, while the other evaluation goes on.
Reject(s) ==
    /\ Spend("rejects")
    /\ lock' = Released(s)
    /\ \/ /\ ruleEval[s].at = "read"
          /\ ruleEval' = [ruleEval EXCEPT ![s].at = "done"]
          /\ UNCHANGED budgetEval
       \/ /\ budgetEval[s].at = "read"
          /\ budgetEval' = [budgetEval EXCEPT ![s].at = "done"]
          /\ UNCHANGED ruleEval
    /\ UNCHANGED <<ruleVars, budgetVars>>

\* The rule the sweep has read is still there.
SameRule(s) == rule # None /\ rule.id = ruleEval[s].id

\* What its page says.
News(s) == IF ruleEval[s].breached THEN "firing" ELSE "quiet"

\* The page has gone out, and its sweep will not write what it said.
LeftUnwritten(s) == unwritten \union (IF SameRule(s) THEN {News(s)} ELSE {})

\* The worker dies; its lock expires on its own.
Crash(s) ==
    /\ s \in Running
    /\ Spend("crashes")
    /\ unwritten' = IF ruleEval[s].at = "commit" /\ ruleEval[s].delivered
                    THEN LeftUnwritten(s) ELSE unwritten
    /\ ruleEval' = [ruleEval EXCEPT ![s] = IdleRule]
    /\ budgetEval' = [budgetEval EXCEPT ![s] = IdleBudget]
    /\ UNCHANGED <<lock, rule, status, breached, heard, repeats, budgetVars>>

\* The TTL of a dead holder, or of one whose renewals did not get through.
LockExpires ==
    /\ lock # None
    /\ IF lock \in Running THEN Spend("redis") ELSE UNCHANGED spent
    /\ lock' = None
    /\ UNCHANGED <<ruleVars, ruleEval, budgetVars, budgetEval>>

-----------------------------------------------------------------------------
(* notify: the outcomes of a message to one channel.                       *)

\* parseChannels keeps slack and webhook; without channels there is nothing
\* to send and nothing to fail.
NothingToSend(channel) == channel # "url"

\* The order of the two writes swapped: commit whatever becomes of the page.
CommitsAnyway(delivered) == TRUE

\* Only a page that was taken may be committed.
Commits(delivered) == delivered

\* A fetch that resolves counts, whatever its status; one that throws does not,
\* although the page may have been taken.
Posted(taken, delivered) ==
    \/ taken /\ delivered /\ UNCHANGED spent
    \/ ~taken /\ delivered /\ Spend("refusals")
    \/ ~taken /\ ~delivered /\ Spend("outages")
    \/ taken /\ ~delivered /\ Spend("doubts")

-----------------------------------------------------------------------------
(* evaluateAllAlerts                                                       *)

ReadRule(s) ==
    /\ ruleEval[s].at = "read"
    /\ ruleEval' = [ruleEval EXCEPT ![s] =
          IF rule # None /\ rule.enabled
          THEN [@ EXCEPT !.at = "measure", !.id = rule.id, !.channel = rule.channel,
                         !.firing = (status = "firing")]
          ELSE [@ EXCEPT !.at = "done"]]
    /\ UNCHANGED <<lock, ruleVars, budgetVars, budgetEval, spent>>

\* The prefetched window: on an error the rule is skipped; without a
\* transition there is nothing to page.
MeasureRule(s) ==
    /\ ruleEval[s].at = "measure"
    /\ \/ /\ ruleEval' = [ruleEval EXCEPT ![s].breached = breached,
                 ![s].at = IF breached # ruleEval[s].firing THEN "notify" ELSE "done"]
          /\ UNCHANGED spent
       \/ /\ Spend("reads")
          /\ ruleEval' = [ruleEval EXCEPT ![s].at = "done"]
    /\ UNCHANGED <<lock, ruleVars, budgetVars, budgetEval>>

\* The page, firing or resolved.
NotifyRule(s) ==
    LET silent == NothingToSend(ruleEval[s].channel)
    IN /\ ruleEval[s].at = "notify"
       /\ \E taken, delivered \in BOOLEAN :
             /\ IF silent THEN ~taken /\ delivered /\ UNCHANGED spent ELSE Posted(taken, delivered)
             /\ heard' = IF SameRule(s) /\ (taken \/ (News(s) = "quiet" /\ silent))
                         THEN News(s) ELSE heard
             /\ repeats' = IF taken /\ SameRule(s) /\ News(s) = "firing" /\ heard = "firing"
                           THEN repeats + 1 ELSE repeats
             /\ unwritten' = IF taken /\ ~delivered THEN LeftUnwritten(s) ELSE unwritten
             /\ ruleEval' = [ruleEval EXCEPT ![s].delivered = delivered, ![s].at = "commit"]
       /\ UNCHANGED <<lock, rule, status, breached, budgetVars, budgetEval>>

\* The upsert: a failed write is logged; without the rule's row it fails.
CommitRule(s) ==
    /\ ruleEval[s].at = "commit"
    /\ \/ /\ SameRule(s) /\ Commits(ruleEval[s].delivered)
          /\ status' = IF ruleEval[s].breached THEN "firing" ELSE "resolved"
          /\ unwritten' = {}
          /\ UNCHANGED spent
       \/ /\ ~(SameRule(s) /\ Commits(ruleEval[s].delivered))
          /\ UNCHANGED <<status, unwritten, spent>>
       \/ /\ Spend("writes")
          /\ unwritten' = IF ruleEval[s].delivered THEN LeftUnwritten(s) ELSE unwritten
          /\ UNCHANGED status
    /\ ruleEval' = [ruleEval EXCEPT ![s].at = "done"]
    /\ UNCHANGED <<lock, rule, breached, heard, repeats, budgetVars, budgetEval>>

-----------------------------------------------------------------------------
(* evaluateBudgets                                                         *)

ReadBudget(s) ==
    /\ budgetEval[s].at = "read"
    /\ budgetEval' = [budgetEval EXCEPT ![s] =
          IF budget # None
          THEN [@ EXCEPT !.at = "measure", !.id = budget.id, !.rev = budget.rev,
                         !.limit = budget.limit, !.channel = budget.channel, !.notified = budget.notified]
          ELSE [@ EXCEPT !.at = "done"]]
    /\ UNCHANGED <<lock, ruleVars, ruleEval, budgetVars, spent>>

Crossed(limit) == Cardinality({k \in 1..Steps : spend * Steps >= k * limit})

\* Compare the month's cost with the budget as it was read: below the lowest
\* step the marker is cleared, above it the highest new step is announced.
MeasureBudget(s) ==
    LET b == budgetEval[s]
        step == Crossed(b.limit)
    IN /\ b.at = "measure"
       /\ \/ /\ budgetEval' = [budgetEval EXCEPT ![s].step = step, ![s].month = Month,
                   ![s].at = CASE step > b.notified -> "notify"
                               [] step = 0 /\ b.notified > 0 -> "commit"
                               [] OTHER -> "done",
                   ![s].delivered = TRUE]
             /\ UNCHANGED spent
          \/ /\ Spend("reads")
             /\ budgetEval' = [budgetEval EXCEPT ![s].at = "done"]
       /\ UNCHANGED <<lock, ruleVars, ruleEval, budgetVars>>

\* The message is about the budget as it is and the month as it is.
Current(b) == budget # None /\ <<b.rev, b.month>> = <<budget.rev, Month>>

\* Without a channel there is nobody to tell, and the step counts as notified.
NotifyBudget(s) ==
    /\ budgetEval[s].at = "notify"
    /\ \E taken, delivered \in BOOLEAN :
          /\ IF NothingToSend(budgetEval[s].channel)
             THEN ~taken /\ delivered /\ UNCHANGED spent
             ELSE Posted(taken, delivered)
          /\ told' = IF taken /\ Current(budgetEval[s]) /\ budgetEval[s].step > told
                     THEN budgetEval[s].step ELSE told
          /\ budgetEval' = [budgetEval EXCEPT ![s].delivered = delivered, ![s].at = "commit"]
    /\ UNCHANGED <<lock, ruleVars, ruleEval, budget, spend>>

\* The update by id: fails when the row is gone or is another one.
CommitBudget(s) ==
    LET b == budgetEval[s]
    IN /\ b.at = "commit"
       /\ \/ /\ budget' = IF budget # None /\ b.id = budget.id /\ Commits(b.delivered)
                          THEN [budget EXCEPT !.notified = b.step, !.about = <<b.rev, b.month>>]
                          ELSE budget
             /\ UNCHANGED spent
          \/ Spend("writes") /\ UNCHANGED budget
       /\ budgetEval' = [budgetEval EXCEPT ![s].at = "done"]
       /\ UNCHANGED <<lock, ruleVars, ruleEval, spend, told>>

EvaluateRule(s) == ReadRule(s) \/ MeasureRule(s) \/ NotifyRule(s) \/ CommitRule(s)

EvaluateBudget(s) ==
    ReadBudget(s) \/ MeasureBudget(s) \/ NotifyBudget(s) \/ CommitBudget(s)

Operator == CreateRule \/ UpdateRule \/ DeleteRule \/ SetBudget \/ DeleteBudget

Next ==
    \/ Operator \/ NewMonth \/ MetricMoves \/ LockExpires
    \/ \E s \in Sweep : Start(s) \/ EvaluateRule(s) \/ EvaluateBudget(s)
                       \/ Finish(s) \/ Reject(s) \/ Crash(s)

\* The cron fires every minute, a sweep that runs goes on to its end, and the
\* lock of a dead one expires.
Fairness ==
    /\ WF_vars(\E s \in Sweep : Start(s))
    /\ \A s \in Sweep : WF_vars(EvaluateRule(s)) /\ WF_vars(EvaluateBudget(s)) /\ WF_vars(Finish(s))
    /\ WF_vars(LockExpires)

Spec == Init /\ [][Next]_vars /\ Fairness

-----------------------------------------------------------------------------
(* Types.                                                                  *)
TypeOK ==
    /\ lock \in Sweep \union {None}
    /\ rule = None \/ rule \in [id : Nat, channel : Channels, enabled : BOOLEAN]
    /\ status \in {"ok", "firing", "resolved"}
    /\ breached \in BOOLEAN
    /\ ruleEval \in [Sweep -> [at : Places, id : Nat, channel : Channels \union {"none"},
                           firing : BOOLEAN, breached : BOOLEAN, delivered : BOOLEAN]]
    /\ heard \in {"quiet", "firing"}
    /\ repeats \in Nat
    /\ unwritten \subseteq {"firing", "quiet"}
    /\ budget = None \/ budget \in [id : Nat, rev : Nat, limit : Limits, channel : Channels,
                                    notified : 0..Steps, about : Nat \X Nat]
    /\ spend \in 0..MaxSpend
    /\ budgetEval \in [Sweep -> [at : Places, id : Nat, rev : Nat, limit : Nat,
                                 channel : Channels \union {"none"}, notified : 0..Steps,
                                 month : Nat, step : 0..Steps, delivered : BOOLEAN]]
    /\ told \in 0..Steps
    /\ spent \in [Kinds -> Nat]

Calm(kinds) == \A k \in kinds : spent[k] = 0

\* The rule is as it was created, with a channel a page can go to.
Untouched == rule # None /\ spent["rules"] = 1 /\ rule.channel = "url"

(* Notifying only on a transition: a channel is paged again for the same   *)
(* incident at most once for each commit that was lost with its sweep or   *)
(* its write, page in doubt, all-clear refused, loss of the lock, or sweep *)
(* that lets the lock go with one evaluation still under way.              *)
RepeatsExplained ==
    repeats <= spent["crashes"] + spent["doubts"] + spent["writes"] + spent["refusals"] + spent["redis"]
               + spent["rejects"]

Stale == budget # None /\ budget.notified > 0 /\ budget.about # <<budget.rev, Month>>

\* The budget has a channel a message can go to.
Audible == budget # None /\ ~NothingToSend(budget.channel)

(* A step marked as notified was announced for this budget and this month, *)
(* or the marker is a stale one: left from the month before, or written by *)
(* a sweep that had read the budget before it was edited.  The marker of a *)
(* budget without a channel advances with nobody told.                     *)
MarkerTold ==
    Audible /\ spent["refusals"] = 0 => Stale \/ told >= budget.notified

\* One sweep at a time, and no channel that refuses what counts as sent.
Undisturbed == Calm({"refusals", "redis", "rejects"})

(* A breach that lasts is what the channel was told last, from some point  *)
(* on, through crashes, failed writes and channels that are down: the next *)
(* minute tries again.  The exception: the all-clear of an earlier         *)
(* incident went out and its commit was lost, so the row never stopped     *)
(* saying firing, and the new incident is no transition.                   *)
Pages ==
    <>[](Untouched /\ breached /\ Undisturbed /\ "quiet" \notin unwritten) => <>[](heard = "firing")

(* Likewise a recovery that lasts is announced in the end and for good,    *)
(* unless the commit of an earlier page was lost and the row never said    *)
(* firing.                                                                 *)
AllClear ==
    <>[](Untouched /\ ~breached /\ Undisturbed /\ "firing" \notin unwritten) => <>[](heard = "quiet")

(* The state machine has no edge it does not tell, but for those two.      *)
EdgesTold == Pages /\ AllClear

Announced == budget # None /\ told >= Crossed(budget.limit)

(* Every crossed step of a budget with a channel is announced in the end,  *)
(* unless the marker is a stale one that hides it.                         *)
StepsTold ==
    <>[](Audible /\ ~Stale /\ Calm({"refusals"})) => []<>Announced
=============================================================================
