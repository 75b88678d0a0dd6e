------------------------------ MODULE Deletion ------------------------------
(***************************************************************************)
(* Erasure beside ingest: deleteTraceData and deleteUserData remove a      *)
(* trace from the telemetry store, from Postgres and from the payload      *)
(* objects its rows refer to, one call after another, while jobs, replays  *)
(* and sweeps of MutableState go on.                                       *)
(*                                                                         *)
(* Every field value is a large payload: the row holds a reference to an   *)
(* object named by its content, here the job that wrote it: what one job   *)
(* wrote with several entities, of one trace or of more, is one object.    *)
(* One field also names the end user: one end user, whose traces set it.   *)
(***************************************************************************)
EXTENDS MutableState

CONSTANTS
    UserField,    \* the field that names the end user
    MaxErasures   \* bound: number of erasures

Traces == {e \in Entity : TableOf[e] = 1}

ASSUME DeletionAssumption ==
    /\ UserField \in Field \ Unselected
    /\ MaxErasures \in Nat

VARIABLES
    traceOf,    \* the trace each entity belongs to, as its batches say
    op,         \* the erasure: what it erases, where it is and what it holds
    erasures,   \* erasures begun
    objects,    \* payload objects in blob storage
    met,        \* history: places where an erasure met a running job
    gone,       \* history: of each entity, jobs whose values are erased for good
    robbed,     \* history: of each entity, its payloads erased with another trace
    forgotten   \* history: a user was erased, and no job has begun since

opVars == <<traceOf, op, erasures, objects, met, gone, robbed, forgotten>>
ingestVars == <<batch, jobVars, sweepVars, replays, history, traceOf>>
allVars == <<vars, opVars>>

Places == {"idle", "list", "refs", "spans", "rows", "states", "objects",
           "sweep", "user rows", "user states"}

NoErasure == [user |-> FALSE, at |-> "idle", ids |-> {}, table |-> 0, keys |-> {}]

DeletionInit ==
    /\ Init
    /\ traceOf \in {m \in [Entity -> Entity] : \A t \in Traces : m[t] = t}
    /\ op = NoErasure
    /\ erasures = 0
    /\ objects = {}
    /\ met = {}
    /\ gone = [e \in Entity |-> {}]
    /\ robbed = [e \in Entity |-> {}]
    /\ forgotten = FALSE

-----------------------------------------------------------------------------
\* The rows of these traces, in every table.
Of(ids) == {e \in Entity : traceOf[e] \in ids}

Values(rows) == {r.field[f] : r \in rows, f \in Field} \cap Job

\* References in the mirror's rows.
RefsOf(E) == UNION {Values(doris[e]) : e \in E}

\* References of an entity in both stores.
ValuesOf(e) == Values(doris[e] \cup {state[e]})

UserOf(row) == row.field[UserField] \in Job

UserTraces == {t \in Traces : \E r \in doris[t] : UserOf(r)}

\* The erasure goes on at place p, holding h.
Enter(p, h) ==
    /\ op' = [h EXCEPT !.at = p]
    /\ met' = IF Running # {} /\ p # "idle" THEN met \cup {p} ELSE met

Begin(h, p) ==
    /\ op.at = "idle" /\ erasures < MaxErasures
    /\ erasures' = erasures + 1
    /\ Enter(p, h)
    /\ UNCHANGED <<state, doris, old, ingestVars, objects, gone, robbed, forgotten>>

EraseTrace(t) == Begin([NoErasure EXCEPT !.ids = {t}], "refs")
EraseUser == Begin([NoErasure EXCEPT !.user = TRUE], "list")

\* listTraces asks the telemetry store; a page holds all of them.
ListUser ==
    /\ op.at = "list"
    /\ Enter(IF UserTraces = {} THEN "sweep" ELSE "refs", [op EXCEPT !.ids = UserTraces])
    /\ UNCHANGED <<state, doris, old, ingestVars, erasures, objects, gone, robbed, forgotten>>

\* getTraceIO, then listObservationsByTrace.
TraceRefs ==
    /\ op.at = "refs"
    /\ Enter("spans", [op EXCEPT !.keys = RefsOf(op.ids \cap Traces)])
    /\ UNCHANGED <<state, doris, old, ingestVars, erasures, objects, gone, robbed, forgotten>>

SpanRefs ==
    /\ op.at = "spans"
    /\ LET spans == {e \in Of(op.ids) : TableOf[e] = 2}
       IN Enter("rows", [op EXCEPT !.keys = @ \cup RefsOf(spans), !.table = 1])
    /\ UNCHANGED <<state, doris, old, ingestVars, erasures, objects, gone, robbed, forgotten>>

\* Mutant: scores and observations are left to the store's own retention.
TablesErasedFirstOnly == {1}
TablesErased == Table

\* store.deleteTraces: one DELETE per table.
DeleteRows(p, next) ==
    /\ op.at = p
    /\ LET rows == {e \in Of(op.ids) : TableOf[e] = op.table /\ op.table \in TablesErased}
       IN doris' = [e \in Entity |-> IF e \in rows THEN {} ELSE doris[e]]
    /\ IF op.table = 3
       THEN Enter(next, [op EXCEPT !.table = 0])
       ELSE Enter(p, [op EXCEPT !.table = @ + 1])
    /\ UNCHANGED <<state, old, ingestVars, erasures, objects, gone, robbed, forgotten>>

Remove(E) ==
    /\ state' = [e \in Entity |-> IF e \in E THEN NoRow ELSE state[e]]
    /\ old' = old \ E

\* Mutant: the mirror rows of the trace itself only.
StatesErasedOfTrace == op.ids
StatesErased == Of(op.ids)

\* deleteStatesForTraces: one transaction.  Unless a job met the removal, the
\* values merged so far are gone.
DeleteStates ==
    /\ op.at = "states"
    /\ Remove(StatesErased)
    /\ Enter("objects", op)
    /\ gone' = [e \in Entity |->
                  IF e \in Of(op.ids) /\ met \cap {"rows", "states"} = {}
                  THEN {j \in Job : landed[j] # {}} ELSE gone[e]]
    /\ UNCHANGED <<doris, ingestVars, erasures, objects, robbed, forgotten>>

\* Best effort: an error of deleteBlobObject is swallowed.
DeleteObject ==
    /\ op.at = "objects"
    /\ \E k \in op.keys :
          /\ objects' \in {objects, objects \ {k}}
          /\ robbed' = [e \in Entity |->
                          IF e \notin Of(op.ids) /\ k \notin objects' /\ k \in ValuesOf(e)
                          THEN robbed[e] \cup {k} ELSE robbed[e]]
          /\ Enter("objects", [op EXCEPT !.keys = @ \ {k}])
    /\ UNCHANGED <<state, doris, old, ingestVars, erasures, gone, forgotten>>

Erased ==
    /\ op.at = "objects" /\ op.keys = {}
    /\ IF op.user THEN Enter("sweep", op) ELSE Enter("idle", NoErasure)
    /\ UNCHANGED <<state, doris, old, ingestVars, erasures, objects, gone, robbed, forgotten>>

\* store.deleteByUserId: look the traces up once more, and delete their rows.
SweepUser ==
    /\ op.at = "sweep"
    /\ IF UserTraces = {}
       THEN Enter("user states", op)
       ELSE Enter("user rows", [op EXCEPT !.ids = UserTraces, !.table = 1])
    /\ UNCHANGED <<state, doris, old, ingestVars, erasures, objects, gone, robbed, forgotten>>

\* Mutant: only the traces the store knew of.
UserStatesListed == {t \in op.ids : UserOf(state[t])}
UserStates == {t \in Traces : UserOf(state[t])}

\* traceState.deleteMany: the traces that only Postgres knows of.
DeleteUserStates ==
    /\ op.at = "user states"
    /\ Remove(UserStates)
    /\ Enter("idle", NoErasure)
    /\ forgotten' = (Running = {} /\ met \cap {"sweep", "user rows", "user states"} = {})
    /\ UNCHANGED <<doris, ingestVars, erasures, objects, gone, robbed>>

\* A call of the store or of Postgres throws, or the process dies: what is
\* deleted stays deleted, and the request fails.
EraseThrows ==
    /\ op.at # "idle"
    /\ Enter("idle", NoErasure)
    /\ UNCHANGED <<state, doris, old, ingestVars, erasures, objects, gone, robbed, forgotten>>

Erasure ==
    \/ \E t \in Traces : EraseTrace(t)
    \/ EraseUser \/ ListUser \/ TraceRefs \/ SpanRefs
    \/ DeleteRows("rows", "states") \/ DeleteStates \/ DeleteObject \/ Erased
    \/ SweepUser \/ DeleteRows("user rows", "user states") \/ DeleteUserStates
    \/ EraseThrows

\* An attempt offloads the large payloads of its batch before it looks at any
\* row.
Offload(j) ==
    /\ Start(j)
    /\ objects' = objects \cup {j}
    /\ met' = IF op.at # "idle" THEN met \cup {op.at} ELSE met
    /\ gone' = [e \in Entity |-> gone[e] \ {j}]
    /\ forgotten' = FALSE
    /\ robbed' = [e \in Entity |-> robbed[e] \ {j}]
    /\ UNCHANGED <<traceOf, op, erasures>>

\* Every other step of MutableState.
Ingest ==
    /\ \/ \E j \in Job, t \in Table : Check(j, t) \/ Fetch(j, t) \/ ReadBack(j, t) \/ Insert(j, t)
       \/ \E j \in Job : Seed(j) \/ Merge(j) \/ Complete(j) \/ Throw(j) \/ Replay(j)
       \/ Age \/ SweepStart \/ SweepFind \/ SweepDelete
       \/ Idle
    /\ UNCHANGED opVars

DeletionNext ==
    \/ \E j \in Job : Offload(j)
    \/ Ingest
    \/ Erasure

DeletionSpec == DeletionInit /\ [][DeletionNext]_allVars

-----------------------------------------------------------------------------
DeletionTypeOK ==
    /\ TypeOK
    /\ op \in [user : BOOLEAN, at : Places, ids : SUBSET Traces, table : 0 .. 3, keys : SUBSET Job]
    /\ erasures \in 0 .. MaxErasures
    /\ objects \subseteq Job
    /\ met \subseteq Places
    /\ traceOf \in [Entity -> Entity]
    /\ gone \in [Entity -> SUBSET Job]
    /\ robbed \in [Entity -> SUBSET Job]
    /\ forgotten \in BOOLEAN

(* What an erasure removed does not come back, from a pruned or late row,  *)
(* from the mirror or from Postgres, whatever is ingested afterwards:      *)
(* unless the same batch runs again, or a job ran while rows were removed. *)
ErasedStaysErased ==
    \A e \in Entity : ValuesOf(e) \cap gone[e] = {}

(* A row of the mirror or of Postgres never refers to a payload that was   *)
(* deleted, though an erasure may fail at any step: rows go first, their   *)
(* objects last.  Two exceptions: a job ran while things were removed, or  *)
(* the payload was also that of another trace, erased since: objects are   *)
(* named by content, and nobody looks who else refers to one.              *)
PayloadsThere ==
    met \cap {"rows", "states", "objects"} = {} =>
        \A e \in Entity : ValuesOf(e) \subseteq objects \cup robbed[e]

(* When the data of an end user was erased, no trace of the mirror or of   *)
(* Postgres names the user, although a batch may have failed between the   *)
(* two, until another batch runs.                                          *)
UserForgotten ==
    forgotten => \A t \in Traces : \A r \in doris[t] \cup {state[t]} : ~UserOf(r)

(* Without an erasure, the mirror ends up showing what was merged, as far  *)
(* as seeds can bring it back.                                             *)
ConvergedUnerased == erasures = 0 => Converged
=============================================================================
