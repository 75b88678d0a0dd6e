------------------------- MODULE MutableStateProofs -------------------------
(***************************************************************************)
(* Proofs about MutableState and about Deletion, which extends it, for     *)
(* every set of entities, fields and jobs, every assignment of entities to *)
(* traces and every bound.                                                 *)
(*                                                                         *)
(* MutableState: its types; that until the first prune sweep the mirror    *)
(* never runs ahead of Postgres, shows the merged state whenever it carries *)
(* the authoritative version, ends up showing it (for entities whose       *)
(* merges arrive in version order), and no merged field is lost; and that  *)
(* jobs that take turns with each other and with sweeps leave the mirror   *)
(* as the merges would have it, sweeps or not.                             *)
(*                                                                         *)
(* Deletion: its types, that what was erased stays away, that no row       *)
(* refers to a payload an erasure of its own trace removed, that an erased *)
(* user is named nowhere, and that until the first erasure the mirror ends *)
(* up showing the merges.                                                  *)
(***************************************************************************)
EXTENDS Deletion, FiniteSetTheorems, TLAPS

FieldValue == Job \cup {None, Default}

(* What the upsert, the mirror and the load return.                        *)
LEMMA UpsertRow ==
    ASSUME NEW row \in Row, NEW patch \in Row
    PROVE  /\ Upsert(row, patch) \in Row
           /\ Upsert(row, patch).ver >= row.ver
           /\ Upsert(row, patch).ver >= patch.ver
           /\ row.time # 0 => Upsert(row, patch).time = row.time
           /\ row.time = 0 => Upsert(row, patch).time = patch.time
  BY BoundAssumption DEF Upsert, Row, Version, Larger, Coalesce

(* A retried merge with no other merge in between changes nothing.         *)
THEOREM UpsertIdempotent ==
    ASSUME NEW row \in Row, NEW patch \in Row
    PROVE  Upsert(Upsert(row, patch), patch) = Upsert(row, patch)
  BY BoundAssumption DEF Upsert, Row, Version, Larger, Coalesce

LEMMA MirrorRow ==
    ASSUME NEW row \in Row
    PROVE  /\ Mirror(row) \in Row
           /\ Mirror(row).ver = row.ver
           /\ Mirror(row).time = row.time
           /\ Mirror(Mirror(row)) = Mirror(row)
  BY ValueAssumption DEF Mirror, Row, Coalesce

LEMMA LoadRows ==
    ASSUME NEW rows, NEW row
    PROVE  Load(rows, row) \subseteq rows \cup {row}
  BY DEF Load

LEMMA SeedRow ==
    ASSUME NEW e, NEW row \in Row, NEW rows \in SUBSET Row, NEW new \in SeedResults(e, row, rows)
    PROVE  /\ new \in Row
           /\ new.ver >= row.ver
           /\ row.time # 0 => new.time = row.time
           /\ (\A r \in rows : r.ver <= row.ver) => new.ver = row.ver
  <1>1. PICK v \in {row.ver} \cup {r.ver : r \in rows}, ends \in rows \X rows :
          /\ \A w \in {row.ver} \cup {r.ver : r \in rows} : w <= v
          /\ new = [ver   |-> v,
                    time  |-> IF row.time # 0 THEN row.time ELSE ends[1].time,
                    field |-> [f \in Field |-> IF f \in Seedable(e) THEN ends[2].field[f] ELSE row.field[f]]]
    BY DEF SeedResults
  <1>2. ends[1] \in Row /\ ends[2] \in Row
    BY <1>1
  <1>3. v \in Version /\ row.ver <= v
    BY <1>1 DEF Row
  <1>4. row.ver \in Nat /\ v \in Nat
    BY <1>3, BoundAssumption DEF Row, Version
  <1>5. (\A r \in rows : r.ver <= row.ver) => v = row.ver
    BY <1>1, <1>3, <1>4
  <1> QED
    BY <1>1, <1>2, <1>3, <1>4, <1>5 DEF Row

-----------------------------------------------------------------------------
(* Type correctness.                                                       *)
AttemptsLeft == \A j \in Job : phase[j] = "dead" \/ attempts[j] < MaxAttempts

PhaseName == Active \cup {"ready", "done", "dead"}

LEMMA GotoTypes ==
    ASSUME TypeOK, NEW j \in Job, NEW p \in PhaseName, NEW ts \in SUBSET Table, Goto(j, p, ts)
    PROVE  phase' \in [Job -> PhaseName] /\ todo' \in [Job -> SUBSET Table]
  BY DEF TypeOK, Goto, PhaseName

LEMMA DoneTypes ==
    ASSUME TypeOK, NEW j \in Job, NEW t, NEW p \in PhaseName, NEW ts \in SUBSET Table,
           Done(j, t, p, ts)
    PROVE  phase' \in [Job -> PhaseName] /\ todo' \in [Job -> SUBSET Table]
  <1>1. CASE todo[j] = {t}
    BY <1>1, GotoTypes DEF Done
  <1>2. CASE todo[j] # {t}
    <2>1. phase[j] \in PhaseName /\ todo[j] \ {t} \in SUBSET Table
      BY DEF TypeOK, PhaseName
    <2> QED
      BY <1>2, <2>1, GotoTypes DEF Done
  <1> QED
    BY <1>1, <1>2

LEMMA CommitTypes ==
    ASSUME TypeOK, NEW rows, DOMAIN rows \subseteq Entity, \A e \in DOMAIN rows : rows[e] \in Row,
           Commit(rows)
    PROVE  state' \in [Entity -> Row] /\ old' \subseteq Entity /\ late' \subseteq Entity
  BY DEF TypeOK, Commit

LEMMA TablesInTable ==
    ASSUME NEW E \in SUBSET Entity
    PROVE  TablesOf(E) \in SUBSET Table
  BY TableAssumption DEF TablesOf

(* A step of a job leaves the other jobs where they are.                   *)
LEMMA OthersStay ==
    ASSUME TypeOK, NEW j \in Job, JobStep(j) \/ Throw(j) \/ Replay(j), NEW k \in Job, k # j
    PROVE  phase'[k] = phase[k]
  <1>1. ASSUME NEW p, NEW ts, Goto(j, p, ts) PROVE phase'[k] = phase[k]
    BY <1>1 DEF TypeOK, Goto
  <1>2. ASSUME NEW t, NEW p, NEW ts, Done(j, t, p, ts) PROVE phase'[k] = phase[k]
    BY <1>1, <1>2 DEF Done
  <1>3. CASE Start(j)
    BY <1>1, <1>3 DEF Start
  <1>4. ASSUME NEW t \in Table, Check(j, t) \/ Fetch(j, t) PROVE phase'[k] = phase[k]
    BY <1>2, <1>4 DEF Check, Fetch
  <1>5. ASSUME NEW t \in Table, ReadBack(j, t) \/ Insert(j, t) PROVE phase'[k] = phase[k]
    BY <1>2, <1>5 DEF ReadBack, Insert
  <1>6. CASE Seed(j) \/ Merge(j)
    BY <1>2, <1>6 DEF Seed, Merge
  <1>7. CASE Complete(j) \/ Throw(j) \/ Replay(j)
    BY <1>1, <1>7 DEF Complete, Throw, Replay
  <1> QED
    BY <1>3, <1>4, <1>5, <1>6, <1>7 DEF JobStep

(* No step changes a batch, starts two sweeps or forgets a seed.           *)
LEMMA StepBounds ==
    ASSUME [Next]_vars
    PROVE  /\ UNCHANGED batch
           /\ sweeps' = sweeps \/ sweeps' = sweeps + 1
           /\ reverted \subseteq reverted' /\ reseeded \subseteq reseeded'
  <1> DEFINE Goal == /\ UNCHANGED batch
                     /\ sweeps' = sweeps \/ sweeps' = sweeps + 1
                     /\ reverted \subseteq reverted' /\ reseeded \subseteq reseeded'
  <1> SUFFICES Goal
    OBVIOUS
  <1>1. ASSUME NEW j \in Job, NEW t \in Table, Check(j, t) \/ Fetch(j, t) \/ ReadBack(j, t) \/ Insert(j, t)
        PROVE  Goal
    BY <1>1 DEF Check, Fetch, ReadBack, Insert, sweepVars, history
  <1>2. ASSUME NEW j \in Job, Start(j) \/ Complete(j) \/ Throw(j) \/ Replay(j)
        PROVE  Goal
    BY <1>2 DEF Start, Complete, Throw, Replay, sweepVars, history
  <1>3. ASSUME NEW j \in Job, Seed(j) PROVE Goal
    <2>1. UNCHANGED <<batch, sweepVars>> /\ reverted \subseteq reverted' /\ reseeded \subseteq reseeded'
      BY <1>3 DEF Seed
    <2> QED
      BY <2>1 DEF sweepVars
  <1>4. ASSUME NEW j \in Job, Merge(j) PROVE Goal
    <2>1. UNCHANGED <<batch, sweepVars, reverted, reseeded>>
      BY <1>4 DEF Merge
    <2> QED
      BY <2>1 DEF sweepVars
  <1>5. CASE Age \/ SweepStart
    BY <1>5 DEF Age, SweepStart, sweepVars, history
  <1>6. CASE SweepFind \/ SweepDelete
    BY <1>6 DEF SweepFind, SweepDelete, history
  <1>7. CASE UNCHANGED vars
    BY <1>7 DEF vars, sweepVars, history
  <1> HIDE DEF Goal
  <1>8. ASSUME NEW j \in Job, JobStep(j) \/ Throw(j) \/ Replay(j) PROVE Goal
    <2>1. CASE JobStep(j)
      BY <1>1, <1>2, <1>3, <1>4, <2>1 DEF JobStep
    <2> QED
      BY <1>2, <1>8, <2>1
  <1>9. CASE Idle
    BY <1>7, <1>9 DEF Idle
  <1>10. CASE Next
    BY <1>5, <1>6, <1>8, <1>9, <1>10 DEF Next
  <1> QED
    BY <1>7, <1>10

(* Only a throw spends an attempt, and the last one ends the job.          *)
LEMMA AttemptsStep == TypeOK /\ AttemptsLeft /\ [Next]_vars => AttemptsLeft'
  <1> SUFFICES ASSUME TypeOK, AttemptsLeft, [Next]_vars PROVE AttemptsLeft'
    OBVIOUS
  <1>1. ASSUME NEW j \in Job, JobStep(j) PROVE AttemptsLeft'
    <2>1. phase[j] # "dead" /\ UNCHANGED attempts
      BY <1>1 DEF JobStep, Start, Check, Fetch, Seed, Merge, ReadBack, Insert, Complete
    <2>2. \A k \in Job : k # j => phase'[k] = phase[k]
      BY <1>1, OthersStay
    <2> QED
      BY <2>1, <2>2 DEF AttemptsLeft
  <1>2. ASSUME NEW j \in Job, Throw(j) PROVE AttemptsLeft'
    <2>1. attempts[j] < MaxAttempts /\ attempts[j] \in Nat
      BY <1>2, BoundAssumption DEF Throw, Active, AttemptsLeft, TypeOK
    <2>2. phase'[j] = "dead" \/ attempts'[j] < MaxAttempts
      BY <1>2, <2>1, BoundAssumption DEF Throw, AfterThrow, Goto, TypeOK
    <2>3. \A k \in Job : k # j => phase'[k] = phase[k] /\ attempts'[k] = attempts[k]
      BY <1>2 DEF Throw, Goto, TypeOK
    <2> QED
      BY <2>2, <2>3 DEF AttemptsLeft
  <1>3. ASSUME NEW j \in Job, Replay(j) PROVE AttemptsLeft'
    <2>1. attempts'[j] < MaxAttempts
      BY <1>3, BoundAssumption DEF Replay, TypeOK
    <2>2. \A k \in Job : k # j => phase'[k] = phase[k] /\ attempts'[k] = attempts[k]
      BY <1>3 DEF Replay, Goto, TypeOK
    <2> QED
      BY <2>1, <2>2 DEF AttemptsLeft
  <1>4. CASE Age \/ SweepStart \/ SweepFind \/ SweepDelete \/ UNCHANGED vars
    BY <1>4 DEF AttemptsLeft, Age, SweepStart, SweepFind, SweepDelete, vars, jobVars
  <1> QED
    BY <1>1, <1>2, <1>3, <1>4 DEF Next, Idle

LEMMA InitTypes == Init => TypeOK /\ AttemptsLeft
  <1> SUFFICES ASSUME Init PROVE TypeOK /\ AttemptsLeft
    OBVIOUS
  <1>1. NoRow \in Row
    BY BoundAssumption DEF NoRow, Row, Version
  <1>2. batch \in [Job -> [touch : SUBSET Entity, row : Row]]
    <2>1. ASSUME NEW j \in Job, NEW b \in Batch(j)
          PROVE  b \in [touch : SUBSET Entity, row : Row]
      BY BoundAssumption DEF Batch, Row, Version
    <2> QED
      BY <2>1 DEF Init
  <1> QED
    BY <1>1, <1>2, BoundAssumption DEF Init, TypeOK, AttemptsLeft, Nothing

LEMMA NextTypes == TypeOK /\ AttemptsLeft /\ [Next]_vars => TypeOK'
  <1> SUFFICES ASSUME TypeOK, AttemptsLeft, [Next]_vars PROVE TypeOK'
    OBVIOUS
  <1> USE DEF Active
  <1>1. ASSUME NEW j \in Job, Start(j) PROVE TypeOK'
    <2>1. TablesOf(batch[j].touch) \in SUBSET Table
      BY TablesInTable DEF TypeOK
    <2>2. "check" \in PhaseName /\ "merge" \in PhaseName
      BY DEF PhaseName
    <2>3. phase' \in [Job -> PhaseName] /\ todo' \in [Job -> SUBSET Table]
      BY <1>1, <2>1, <2>2, GotoTypes DEF Start
    <2> QED
      BY <1>1, <2>3 DEF TypeOK, Start, sweepVars, history, PhaseName
  <1>2. ASSUME NEW j \in Job, NEW t \in Table, Check(j, t) PROVE TypeOK'
    <2>1. absent' \in [Job -> SUBSET Entity]
      BY <1>2 DEF TypeOK, Check, Touched
    <2>2. TablesOf(batch[j].touch) \in SUBSET Table /\ TablesOf(absent'[j]) \in SUBSET Table
      BY <2>1, TablesInTable DEF TypeOK
    <2>3. "fetch" \in PhaseName /\ "merge" \in PhaseName
      BY DEF PhaseName
    <2>4. phase' \in [Job -> PhaseName] /\ todo' \in [Job -> SUBSET Table]
      BY <1>2, <2>2, <2>3, DoneTypes DEF Check
    <2> QED
      BY <1>2, <2>1, <2>4 DEF TypeOK, Check, sweepVars, history, PhaseName
  <1>3. ASSUME NEW j \in Job, NEW t \in Table, Fetch(j, t) PROVE TypeOK'
    <2>1. held' \in [Job -> [Entity -> SUBSET Row]]
      BY <1>3 DEF TypeOK, Fetch
    <2>2. \A E \in SUBSET Entity : TablesOf(E) \in SUBSET Table
      BY TablesInTable
    <2>3. batch[j].touch \in SUBSET Entity /\ {e \in absent[j] : held'[j][e] # {}} \in SUBSET Entity
      BY DEF TypeOK
    <2>4. "seed" \in PhaseName /\ "merge" \in PhaseName
      BY DEF PhaseName
    <2>5. phase' \in [Job -> PhaseName] /\ todo' \in [Job -> SUBSET Table]
      BY <1>3, <2>2, <2>3, <2>4, DoneTypes DEF Fetch
    <2> QED
      BY <1>3, <2>1, <2>5 DEF TypeOK, Fetch, sweepVars, history, PhaseName
  <1>4. ASSUME NEW j \in Job, Seed(j) PROVE TypeOK'
    <2> DEFINE t == First(todo[j])
               found == {e \in absent[j] : TableOf[e] = t /\ held[j][e] # {}}
    <2>1. PICK rows \in [found -> UNION {SeedResults(e, state[e], held[j][e]) : e \in found}] :
            /\ \A e \in found : rows[e] \in SeedResults(e, state[e], held[j][e])
            /\ Commit(rows)
            /\ Done(j, t, "merge", TablesOf(batch[j].touch))
      BY <1>4 DEF Seed
    <2>2. DOMAIN rows \subseteq Entity /\ \A e \in DOMAIN rows : rows[e] \in Row
      <3>1. ASSUME NEW e \in found PROVE rows[e] \in Row
        <4>1. e \in Entity /\ state[e] \in Row /\ held[j][e] \in SUBSET Row
          BY DEF TypeOK
        <4> QED
          BY <2>1, <4>1, SeedRow
      <3> QED
        BY <3>1 DEF TypeOK
    <2>3. state' \in [Entity -> Row] /\ old' \subseteq Entity /\ late' \subseteq Entity
      BY <2>1, <2>2, CommitTypes
    <2>4. TablesOf(batch[j].touch) \in SUBSET Table /\ "merge" \in PhaseName
      BY TablesInTable DEF TypeOK, PhaseName
    <2>5. phase' \in [Job -> PhaseName] /\ todo' \in [Job -> SUBSET Table]
      BY <2>1, <2>4, DoneTypes
    <2>6. reverted' \subseteq Entity /\ reseeded' \subseteq Entity
      BY <1>4 DEF TypeOK, Seed
    <2> QED
      BY <1>4, <2>3, <2>5, <2>6 DEF TypeOK, Seed, sweepVars, PhaseName
  <1>5. ASSUME NEW j \in Job, Merge(j) PROVE TypeOK'
    <2> DEFINE t == First(todo[j])
               rows == [e \in Touched(j, t) |-> Upsert(state[e], batch[j].row)]
    <2>1. DOMAIN rows \subseteq Entity /\ \A e \in DOMAIN rows : rows[e] \in Row
      BY UpsertRow DEF TypeOK, Touched
    <2>2. Commit(rows) /\ Done(j, t, "read", TablesOf(batch[j].touch))
      BY <1>5 DEF Merge
    <2>3. state' \in [Entity -> Row] /\ old' \subseteq Entity /\ late' \subseteq Entity
      <3> HIDE DEF rows
      <3> QED
        BY <2>1, <2>2, CommitTypes
    <2>4. TablesOf(batch[j].touch) \in SUBSET Table /\ "read" \in PhaseName
      BY TablesInTable DEF TypeOK, PhaseName
    <2>5. phase' \in [Job -> PhaseName] /\ todo' \in [Job -> SUBSET Table]
      BY <2>2, <2>4, DoneTypes
    <2>6. truth' \in [Entity -> Row]
      <3>1. ASSUME NEW row \in Row, NEW event \in Row PROVE Expected(row, event) \in Row
        BY DEF Expected, Row, Version
      <3> QED
        BY <1>5, <3>1 DEF TypeOK, Merge
    <2>7. landed' \in [Job -> SUBSET Entity]
      BY <1>5 DEF TypeOK, Merge, Touched
    <2> QED
      BY <1>5, <2>3, <2>5, <2>6, <2>7 DEF TypeOK, Merge, sweepVars, PhaseName
  <1>6. ASSUME NEW j \in Job, NEW t \in Table, ReadBack(j, t) PROVE TypeOK'
    <2>1. held' \in [Job -> [Entity -> SUBSET Row]]
      BY <1>6 DEF TypeOK, ReadBack
    <2>2. \A E \in SUBSET Entity : TablesOf(E) \in SUBSET Table
      BY TablesInTable
    <2>3. {e \in batch[j].touch : held'[j][e] # {}} \in SUBSET Entity
      BY DEF TypeOK
    <2>4. "insert" \in PhaseName /\ "dispatch" \in PhaseName
      BY DEF PhaseName
    <2>5. phase' \in [Job -> PhaseName] /\ todo' \in [Job -> SUBSET Table]
      BY <1>6, <2>2, <2>3, <2>4, DoneTypes DEF ReadBack
    <2> QED
      BY <1>6, <2>1, <2>5 DEF TypeOK, ReadBack, sweepVars, history, PhaseName
  <1>7. ASSUME NEW j \in Job, NEW t \in Table, Insert(j, t) PROVE TypeOK'
    <2>1. ASSUME NEW e \in Entity PROVE doris'[e] \in SUBSET Row
      <3>1. CASE e \in Touched(j, t) /\ held[j][e] # {}
        <4> DEFINE r == CHOOSE r \in held[j][e] : TRUE
        <4>1. r \in Row
          BY <3>1 DEF TypeOK
        <4>2. Mirror(r) \in Row
          BY <4>1, MirrorRow
        <4>3. doris'[e] = Load(doris[e], Mirror(r))
          BY <1>7, <3>1 DEF Insert
        <4>4. doris'[e] \subseteq doris[e] \cup {Mirror(r)}
          BY <4>3, LoadRows
        <4>5. doris[e] \in SUBSET Row
          BY DEF TypeOK
        <4> HIDE DEF r
        <4> QED
          BY <4>2, <4>4, <4>5
      <3>2. CASE ~(e \in Touched(j, t) /\ held[j][e] # {})
        BY <1>7, <3>2 DEF Insert, TypeOK
      <3> QED
        BY <3>1, <3>2
    <2>2. doris' \in [Entity -> SUBSET Row]
      BY <1>7, <2>1 DEF Insert
    <2>3. "dispatch" \in PhaseName
      BY DEF PhaseName
    <2>4. phase' \in [Job -> PhaseName] /\ todo' \in [Job -> SUBSET Table]
      <3>1. Done(j, t, "dispatch", {}) /\ {} \in SUBSET Table
        BY <1>7 DEF Insert
      <3> QED
        BY <2>3, <3>1, DoneTypes
    <2>5. UNCHANGED <<state, batch, absent, held, attempts, old, sweepVars, replays, history>>
      BY <1>7 DEF Insert
    <2> QED
      BY <2>2, <2>4, <2>5 DEF TypeOK, sweepVars, history, PhaseName
  <1>8. ASSUME NEW j \in Job, Complete(j) PROVE TypeOK'
    BY <1>8 DEF TypeOK, Complete, Goto, Forget, Nothing, sweepVars, history
  <1>9. ASSUME NEW j \in Job, Throw(j) PROVE TypeOK'
    <2>1. attempts' \in [Job -> 0 .. MaxAttempts]
      <3>1. attempts[j] \in Nat /\ MaxAttempts \in Nat /\ attempts[j] < MaxAttempts
        BY <1>9, BoundAssumption DEF Throw, AttemptsLeft, TypeOK
      <3>2. attempts[j] + 1 \in 0 .. MaxAttempts
        BY <3>1
      <3> QED
        BY <1>9, <3>2 DEF Throw, TypeOK
    <2>2. AfterThrow(j) \in PhaseName
      BY DEF AfterThrow, PhaseName
    <2>3. phase' \in [Job -> PhaseName] /\ todo' \in [Job -> SUBSET Table]
      BY <1>9, <2>2, GotoTypes DEF Throw
    <2> QED
      BY <1>9, <2>1, <2>3 DEF TypeOK, Throw, Forget, Nothing, sweepVars, history, PhaseName
  <1>10. CASE Age
    BY <1>10 DEF TypeOK, Age, jobVars, sweepVars, history
  <1>11. CASE SweepStart
    BY <1>11, BoundAssumption DEF TypeOK, SweepStart, jobVars, history
  <1>12. CASE SweepFind
    BY <1>12 DEF TypeOK, SweepFind, Prunable, NextTable, jobVars, history
  <1>13. CASE SweepDelete
    <2>1. NoRow \in Row
      BY BoundAssumption DEF NoRow, Row, Version
    <2> QED
      BY <1>13, <2>1 DEF TypeOK, SweepDelete, NextTable, jobVars, history
  <1>14. CASE UNCHANGED vars
    BY <1>14 DEF TypeOK, vars, jobVars, sweepVars, history
  <1>15. ASSUME NEW j \in Job, Replay(j) PROVE TypeOK'
    <2>1. attempts' \in [Job -> 0 .. MaxAttempts]
      BY <1>15, BoundAssumption DEF Replay, TypeOK
    <2>2. phase' \in [Job -> PhaseName] /\ todo' \in [Job -> SUBSET Table]
      BY <1>15, GotoTypes DEF Replay, PhaseName
    <2>3. replays' \in 0 .. MaxReplays
      BY <1>15, BoundAssumption DEF Replay, TypeOK
    <2> QED
      BY <1>15, <2>1, <2>2, <2>3 DEF TypeOK, Replay, sweepVars, history, PhaseName
  <1> QED
    BY <1>1, <1>2, <1>3, <1>4, <1>5, <1>6, <1>7, <1>8, <1>9, <1>10, <1>11, <1>12, <1>13, <1>14,
       <1>15
    DEF Next, JobStep, Idle

(* Every variable keeps its type, whatever the constants.                  *)
THEOREM TypeCorrect == Spec => []TypeOK
  BY InitTypes, NextTypes, AttemptsStep, PTL DEF Spec

-----------------------------------------------------------------------------
(* The batches never change, and carry a version and an entity time.       *)
BatchesReal == \A j \in Job : batch[j].row.ver # 0 /\ batch[j].row.time # 0

(* A row read from r's entity earlier is still below the state row, and at *)
(* the same version shows the same mirror row if the entity is in order.   *)
Behind(e, r) ==
    /\ Present(e)
    /\ r.time = state[e].time
    /\ r.ver <= state[e].ver
    /\ e \notin late /\ r.ver = state[e].ver => Mirror(r) = Mirror(state[e])

(* Until the first sweep, everything in the mirror or in a job's memory    *)
(* was read from a state row that is still there.                          *)
Unpruned ==
    /\ sweep = 0 /\ page = {}
    /\ \A e \in Entity : Present(e) => state[e].time # 0
    /\ \A e \in Entity : \A r \in doris[e] : Behind(e, r) /\ Mirror(r) = r
    /\ \A j \in Job : \A e \in Entity : \A r \in held[j][e] : Behind(e, r)

IInv == TypeOK /\ BatchesReal /\ (sweeps = 0 => Unpruned)

LEMMA InitInv == Init => IInv
  <1> SUFFICES ASSUME Init PROVE IInv
    OBVIOUS
  <1>1. TypeOK
    BY InitTypes
  <1>2. BatchesReal
    <2>1. ASSUME NEW j \in Job, NEW b \in Batch(j) PROVE b.row.ver # 0 /\ b.row.time # 0
      BY DEF Batch
    <2> QED
      BY <2>1 DEF Init, BatchesReal
  <1>3. Unpruned
    BY DEF Init, Unpruned, Nothing, Present, NoRow
  <1> QED
    BY <1>1, <1>2, <1>3 DEF IInv

(* Upserts that keep the entity time and do not lower the version keep     *)
(* every earlier read behind the row.                                      *)
LEMMA CommitBehind ==
    ASSUME TypeOK, NEW rows, DOMAIN rows \subseteq Entity,
           \A e \in DOMAIN rows :
             /\ rows[e] \in Row
             /\ rows[e].ver >= state[e].ver
             /\ state[e].time # 0 => rows[e].time = state[e].time,
           Commit(rows),
           NEW e \in Entity, NEW r \in Row, Behind(e, r), state[e].time # 0
    PROVE  Behind(e, r)'
  <1>1. CASE e \notin DOMAIN rows
    BY <1>1 DEF TypeOK, Commit, Behind, Present
  <1>2. CASE e \in DOMAIN rows
    <2> DEFINE new == rows[e]
    <2>1. state'[e] = new
      BY <1>2 DEF Commit
    <2>2. /\ new \in Row /\ state[e] \in Row
          /\ new.ver >= state[e].ver /\ new.time = state[e].time
      BY <1>2 DEF TypeOK
    <2>3. new.ver \in Nat /\ state[e].ver \in Nat /\ r.ver \in Nat
      BY <2>2, BoundAssumption DEF Row, Version
    <2>4. new.ver # 0 /\ r.time = new.time /\ r.ver <= new.ver
      BY <2>2, <2>3 DEF Behind, Present
    <2>5. ASSUME e \notin late', r.ver = new.ver PROVE Mirror(r) = Mirror(new)
      <3>1. state[e].ver = new.ver
        BY <2>2, <2>3, <2>5 DEF Behind
      <3>2. e \notin late /\ Mirror(new) = Mirror(state[e])
        BY <1>2, <2>5, <3>1 DEF Commit
      <3> QED
        BY <2>5, <3>1, <3>2 DEF Behind
    <2> QED
      BY <2>1, <2>4, <2>5 DEF Behind, Present
  <1> QED
    BY <1>1, <1>2

(* A step that leaves Postgres alone keeps what was behind a row behind it.*)
LEMMA SameStateBehind ==
    ASSUME UNCHANGED <<state, late>>, NEW e \in Entity, NEW r
    PROVE  Behind(e, r)' <=> Behind(e, r)
  BY DEF Behind, Present

LEMMA NextUnpruned ==
    ASSUME IInv, [Next]_vars, sweeps' = 0
    PROVE  Unpruned'
  <1>1. sweeps = 0
    <2>1. sweeps' = sweeps \/ sweeps' = sweeps + 1
      BY StepBounds
    <2>2. sweeps \in Nat
      BY BoundAssumption DEF IInv, TypeOK
    <2> QED
      BY <2>1, <2>2
  <1>2. Unpruned /\ TypeOK /\ BatchesReal
    BY <1>1 DEF IInv
  <1>3. ASSUME UNCHANGED <<state, doris, sweepVars, late>>,
               \A j \in Job : \A e \in Entity : held'[j][e] \subseteq held[j][e] \cup doris[e]
        PROVE  Unpruned'
    <2>1. \A e \in Entity : \A r : Behind(e, r)' <=> Behind(e, r)
      BY <1>3, SameStateBehind
    <2>2. \A j \in Job : \A e \in Entity : \A r \in held'[j][e] : Behind(e, r)'
      BY <1>2, <1>3, <2>1 DEF Unpruned
    <2> QED
      BY <1>2, <1>3, <2>1, <2>2 DEF Unpruned, sweepVars, Present
  <1>4. ASSUME NEW j \in Job,
               \/ Start(j) \/ Complete(j) \/ Throw(j) \/ Replay(j)
               \/ \E t \in Table : Check(j, t)
        PROVE  Unpruned'
    <2>1. UNCHANGED <<state, doris, sweepVars, late>>
      BY <1>4 DEF Start, Check, Complete, Throw, Replay, history
    <2>2. \A k \in Job : \A e \in Entity : held'[k][e] \subseteq held[k][e]
      <3>1. held' = held \/ Forget(j)
        BY <1>4 DEF Start, Check, Complete, Throw, Replay
      <3>2. \A k \in Job : held' = held \/ held'[k] \in {held[k], Nothing}
        BY <1>2, <3>1 DEF Forget, TypeOK
      <3> QED
        BY <3>2 DEF Nothing
    <2> QED
      BY <1>3, <2>1, <2>2
  <1>5. ASSUME NEW j \in Job, NEW t \in Table, Fetch(j, t) PROVE Unpruned'
    <2>1. UNCHANGED <<state, doris, sweepVars, late>>
      BY <1>5 DEF Fetch, history
    <2>2. \A k \in Job : \A e \in Entity : held'[k][e] \subseteq held[k][e] \cup doris[e]
      BY <1>2, <1>5 DEF Fetch, TypeOK
    <2> QED
      BY <1>3, <2>1, <2>2
  <1>6. ASSUME NEW rows, DOMAIN rows \subseteq Entity,
               \A e \in DOMAIN rows :
                 /\ rows[e] \in Row
                 /\ rows[e].ver >= state[e].ver
                 /\ rows[e].time # 0
                 /\ state[e].time # 0 => rows[e].time = state[e].time,
               Commit(rows), UNCHANGED <<doris, held, sweepVars>>
        PROVE  Unpruned'
    <2>1. ASSUME NEW e \in Entity, NEW r \in Row, Behind(e, r) PROVE Behind(e, r)'
      <3>1. state[e].time # 0
        BY <1>2, <2>1 DEF Unpruned, Behind
      <3> QED
        BY <1>2, <1>6, <2>1, <3>1, CommitBehind
    <2>2. \A e \in Entity : \A r \in doris[e] : Behind(e, r)' /\ Mirror(r) = r
      BY <1>2, <2>1 DEF Unpruned, TypeOK
    <2>3. \A j \in Job : \A e \in Entity : \A r \in held[j][e] : Behind(e, r)'
      BY <1>2, <2>1 DEF Unpruned, TypeOK
    <2>4. \A e \in Entity : Present(e)' => state'[e].time # 0
      BY <1>2, <1>6 DEF Unpruned, Commit, Present
    <2> QED
      BY <1>2, <1>6, <2>2, <2>3, <2>4 DEF Unpruned, sweepVars
  <1>7. ASSUME NEW j \in Job, Seed(j) PROVE Unpruned'
    <2> DEFINE t == First(todo[j])
               found == {e \in absent[j] : TableOf[e] = t /\ held[j][e] # {}}
    <2>1. PICK rows \in [found -> UNION {SeedResults(e, state[e], held[j][e]) : e \in found}] :
            /\ \A e \in found : rows[e] \in SeedResults(e, state[e], held[j][e])
            /\ Commit(rows)
      BY <1>7 DEF Seed
    <2>2. ASSUME NEW e \in found
          PROVE  /\ rows[e] \in Row
                 /\ rows[e].ver >= state[e].ver
                 /\ rows[e].time # 0
                 /\ state[e].time # 0 => rows[e].time = state[e].time
      <3>1. e \in Entity /\ state[e] \in Row /\ held[j][e] \in SUBSET Row
        BY <1>2 DEF TypeOK
      <3>2. PICK r \in held[j][e] : TRUE
        OBVIOUS
      <3>3. state[e].time # 0
        BY <1>2, <3>1, <3>2 DEF Unpruned, Behind
      <3> QED
        BY <2>1, <3>1, <3>3, SeedRow
    <2>3. found \subseteq Entity
      BY <1>2 DEF TypeOK
    <2>4. UNCHANGED <<doris, held, sweepVars>>
      BY <1>7 DEF Seed
    <2> QED
      BY <1>6, <2>1, <2>2, <2>3, <2>4
  <1>8. ASSUME NEW j \in Job, Merge(j) PROVE Unpruned'
    <2> DEFINE t == First(todo[j])
               rows == [e \in Touched(j, t) |-> Upsert(state[e], batch[j].row)]
    <2>1. ASSUME NEW e \in Touched(j, t)
          PROVE  /\ rows[e] \in Row
                 /\ rows[e].ver >= state[e].ver
                 /\ rows[e].time # 0
                 /\ state[e].time # 0 => rows[e].time = state[e].time
      <3>1. state[e] \in Row /\ batch[j].row \in Row /\ batch[j].row.time # 0
        BY <1>2 DEF TypeOK, BatchesReal, Touched
      <3>2. rows[e] = Upsert(state[e], batch[j].row)
        OBVIOUS
      <3> QED
        BY <3>1, <3>2, UpsertRow
    <2>2. DOMAIN rows = Touched(j, t) /\ Touched(j, t) \subseteq Entity
      BY <1>2 DEF TypeOK, Touched
    <2>3. Commit(rows) /\ UNCHANGED <<doris, held, sweepVars>>
      BY <1>8 DEF Merge
    <2> HIDE DEF rows
    <2> QED
      BY <1>6, <2>1, <2>2, <2>3
  <1>9. ASSUME NEW j \in Job, NEW t \in Table, ReadBack(j, t) PROVE Unpruned'
    <2>1. UNCHANGED <<state, doris, sweepVars, late>>
      BY <1>9 DEF ReadBack, history
    <2>2. \A e \in Entity : \A r : Behind(e, r)' <=> Behind(e, r)
      BY <2>1, SameStateBehind
    <2>3. \A e \in Entity : Present(e) => Behind(e, state[e])
      BY <1>2, BoundAssumption DEF Behind, TypeOK, Row, Version
    <2>4. \A k \in Job : \A e \in Entity :
            held'[k][e] \subseteq held[k][e] \cup {r \in {state[e]} : Present(e)}
      BY <1>2, <1>9 DEF ReadBack, TypeOK
    <2>5. \A k \in Job : \A e \in Entity : \A r \in held'[k][e] : Behind(e, r)'
      BY <1>2, <2>2, <2>3, <2>4 DEF Unpruned
    <2> QED
      BY <1>2, <2>1, <2>2, <2>5 DEF Unpruned, sweepVars, Present
  <1>10. ASSUME NEW j \in Job, NEW t \in Table, Insert(j, t) PROVE Unpruned'
    <2>1. UNCHANGED <<state, held, sweepVars, late>>
      BY <1>10 DEF Insert, history
    <2>2. \A e \in Entity : \A r : Behind(e, r)' <=> Behind(e, r)
      BY <2>1, SameStateBehind
    <2>3. ASSUME NEW e \in Entity, NEW r \in doris'[e] PROVE Behind(e, r) /\ Mirror(r) = r
      <3>1. CASE r \in doris[e]
        BY <1>2, <3>1 DEF Unpruned
      <3>2. CASE r \notin doris[e]
        <4> DEFINE h == CHOOSE h \in held[j][e] : TRUE
        <4>1. held[j][e] # {} /\ doris'[e] = Load(doris[e], Mirror(h))
          BY <1>10, <3>2 DEF Insert
        <4>2. h \in held[j][e] /\ h \in Row
          BY <1>2, <4>1 DEF TypeOK
        <4>3. r = Mirror(h)
          <5>1. doris'[e] \subseteq doris[e] \cup {Mirror(h)}
            BY <4>1, LoadRows
          <5> QED
            BY <3>2, <5>1
        <4>4. Behind(e, h)
          BY <1>2, <4>2 DEF Unpruned
        <4> HIDE DEF h
        <4> QED
          BY <4>2, <4>3, <4>4, MirrorRow DEF Behind
      <3> QED
        BY <3>1, <3>2
    <2> QED
      BY <1>2, <2>1, <2>2, <2>3 DEF Unpruned, sweepVars, Present
  <1>11. CASE Age \/ UNCHANGED vars
    BY <1>3, <1>11 DEF Age, vars, jobVars, history
  <1>12. CASE SweepStart \/ SweepFind \/ SweepDelete
    BY <1>1, <1>2, <1>12 DEF Unpruned, SweepStart, SweepFind, SweepDelete
  <1> QED
    BY <1>4, <1>5, <1>7, <1>8, <1>9, <1>10, <1>11, <1>12 DEF Next, JobStep, Idle

LEMMA NextInv == IInv /\ AttemptsLeft /\ [Next]_vars => IInv'
  <1> SUFFICES ASSUME IInv, AttemptsLeft, [Next]_vars PROVE IInv'
    OBVIOUS
  <1>1. TypeOK'
    BY NextTypes DEF IInv
  <1>2. BatchesReal'
    <2>1. UNCHANGED batch
      BY StepBounds
    <2> QED
      BY <2>1 DEF IInv, BatchesReal
  <1> QED
    BY <1>1, <1>2, NextUnpruned DEF IInv

LEMMA InvHolds == Spec => []IInv
  BY InitInv, InitTypes, NextInv, NextTypes, AttemptsStep, PTL DEF Spec, IInv

(* The mirror never runs ahead of Postgres before the first prune sweep,   *)
(* and every physical row keeps the entity's time.                         *)
THEOREM MirrorNeverAhead == Spec => []MirrorNotAhead
  <1>1. IInv => MirrorNotAhead
    BY DEF IInv, Unpruned, Behind, MirrorNotAhead
  <1> QED
    BY <1>1, InvHolds, PTL

(* Nor does it mislead before the first sweep: an in-order entity's mirror *)
(* row at the authoritative version shows the merged state.                *)
THEOREM MirrorIsFaithful == Spec => []MirrorFaithful
  <1>1. IInv => MirrorFaithful
    BY DEF IInv, Unpruned, Behind, MirrorFaithful, MirrorNotAhead
  <1> QED
    BY <1>1, InvHolds, PTL

-----------------------------------------------------------------------------
(* No merge is lost.  An event carries a field, whose value is its job, or *)
(* leaves it out.                                                          *)
BatchValues == \A j \in Job : \A f \in Field : batch[j].row.field[f] \in Job \cup {None}

SameFields(a, b) == \A f \in Field : Coalesce(a.field[f], Default) = Coalesce(b.field[f], Default)

MergesHeld == sweeps = 0 => \A e \in Entity \ reverted : SameFields(state[e], truth[e])

LEMMA MirrorFields ==
    ASSUME NEW a \in Row, NEW b \in Row
    PROVE  Mirror(a).field = Mirror(b).field <=> SameFields(a, b)
  <1>1. /\ Mirror(a).field = [f \in Field |-> Coalesce(a.field[f], Default)]
        /\ Mirror(b).field = [f \in Field |-> Coalesce(b.field[f], Default)]
    BY DEF Mirror, Row
  <1>2. ASSUME Mirror(a).field = Mirror(b).field, NEW f \in Field
        PROVE  Coalesce(a.field[f], Default) = Coalesce(b.field[f], Default)
    <2>1. Mirror(a).field[f] = Mirror(b).field[f]
      BY <1>2
    <2> QED
      BY <1>1, <2>1
  <1> QED
    BY <1>1, <1>2 DEF SameFields

(* The upsert of the code and the merge of the ADR give a field the same   *)
(* value, or both leave it alone; so they keep equal rows equal.           *)
LEMMA MergeField ==
    ASSUME NEW a \in Row, NEW b \in Row, NEW patch \in Row, NEW f \in Field,
           patch.field[f] \in Job \cup {None}
    PROVE  \/ Upsert(a, patch).field[f] = Expected(b, patch).field[f]
           \/ /\ Upsert(a, patch).field[f] = a.field[f]
              /\ Expected(b, patch).field[f] = b.field[f]
  <1>1. /\ Upsert(a, patch).field[f] = Coalesce(patch.field[f], a.field[f])
        /\ Expected(b, patch).field[f] =
             IF patch.field[f] \in Job THEN patch.field[f] ELSE b.field[f]
    BY DEF Upsert, Expected
  <1>2. CASE patch.field[f] \in Job
    <2>1. patch.field[f] # None
      BY <1>2, ValueAssumption
    <2> QED
      BY <1>1, <1>2, <2>1 DEF Coalesce
  <1>3. CASE patch.field[f] \notin Job
    <2>1. patch.field[f] = None
      BY <1>3
    <2> QED
      BY <1>1, <1>3, <2>1 DEF Coalesce
  <1> QED
    BY <1>2, <1>3

LEMMA MergeAgrees ==
    ASSUME NEW a \in Row, NEW b \in Row, NEW patch \in Row, SameFields(a, b),
           \A f \in Field : patch.field[f] \in Job \cup {None}
    PROVE  SameFields(Upsert(a, patch), Expected(b, patch))
  <1> SUFFICES ASSUME NEW f \in Field
               PROVE  Coalesce(Upsert(a, patch).field[f], Default)
                        = Coalesce(Expected(b, patch).field[f], Default)
    BY DEF SameFields
  <1>1. Coalesce(a.field[f], Default) = Coalesce(b.field[f], Default)
    BY DEF SameFields
  <1>2. \/ Upsert(a, patch).field[f] = Expected(b, patch).field[f]
        \/ /\ Upsert(a, patch).field[f] = a.field[f]
           /\ Expected(b, patch).field[f] = b.field[f]
    BY MergeField
  <1> QED
    BY <1>1, <1>2

LEMMA InitMerges == Init => BatchValues /\ MergesHeld
  <1> SUFFICES ASSUME Init PROVE BatchValues /\ MergesHeld
    OBVIOUS
  <1>1. ASSUME NEW j \in Job, NEW b \in Batch(j), NEW f \in Field
        PROVE  b.row.field[f] \in Job \cup {None}
    BY DEF Batch
  <1>2. BatchValues
    BY <1>1 DEF Init, BatchValues
  <1>3. MergesHeld
    BY DEF Init, MergesHeld, SameFields
  <1> QED
    BY <1>2, <1>3

LEMMA NextMerges ==
    ASSUME IInv, BatchValues, MergesHeld, [Next]_vars
    PROVE  BatchValues' /\ MergesHeld'
  <1>1. BatchValues'
    <2>1. UNCHANGED batch
      BY StepBounds
    <2> QED
      BY <2>1 DEF BatchValues
  <1> SUFFICES ASSUME sweeps' = 0, NEW e \in Entity, e \notin reverted'
               PROVE  SameFields(state'[e], truth'[e])
    BY <1>1 DEF MergesHeld, SameFields
  <1>2. sweeps = 0
    <2>1. sweeps' = sweeps \/ sweeps' = sweeps + 1
      BY StepBounds
    <2>2. sweeps \in Nat
      BY BoundAssumption DEF IInv, TypeOK
    <2> QED
      BY <2>1, <2>2
  <1>3. TypeOK /\ Unpruned
    BY <1>2 DEF IInv
  <1>4. e \notin reverted
    BY StepBounds
  <1>5. SameFields(state[e], truth[e]) /\ state[e] \in Row /\ truth[e] \in Row
    BY <1>2, <1>3, <1>4 DEF MergesHeld, TypeOK
  <1>6. ASSUME UNCHANGED <<state, truth>> PROVE SameFields(state'[e], truth'[e])
    BY <1>5, <1>6
  <1>7. ASSUME NEW j \in Job, Seed(j) PROVE SameFields(state'[e], truth'[e])
    <2> DEFINE t == First(todo[j])
               found == {d \in absent[j] : TableOf[d] = t /\ held[j][d] # {}}
    <2>1. PICK rows \in [found -> UNION {SeedResults(d, state[d], held[j][d]) : d \in found}] :
            /\ \A d \in found : rows[d] \in SeedResults(d, state[d], held[j][d])
            /\ Commit(rows)
            /\ reverted' = reverted \cup
                 {d \in found : Present(d) /\ Mirror(rows[d]).field # Mirror(state[d]).field}
      BY <1>7 DEF Seed
    <2>2. UNCHANGED truth
      BY <1>7 DEF Seed
    <2>3. CASE e \notin found
      <3>1. state'[e] = state[e]
        BY <2>1, <2>3 DEF Commit
      <3> QED
        BY <1>5, <2>2, <3>1
    <2>4. CASE e \in found
      <3>1. Present(e) /\ held[j][e] \in SUBSET Row
        BY <1>3, <2>4 DEF Unpruned, Behind, TypeOK
      <3>2. Mirror(rows[e]).field = Mirror(state[e]).field
        BY <2>1, <2>4, <3>1
      <3>3. rows[e] \in Row
        BY <1>5, <2>1, <2>4, <3>1, SeedRow
      <3>4. SameFields(rows[e], state[e])
        BY <1>5, <3>2, <3>3, MirrorFields
      <3>5. state'[e] = rows[e]
        BY <2>1, <2>4 DEF Commit
      <3> QED
        BY <1>5, <2>2, <3>4, <3>5 DEF SameFields
    <2> QED
      BY <2>3, <2>4
  <1>8. ASSUME NEW j \in Job, Merge(j) PROVE SameFields(state'[e], truth'[e])
    <2> DEFINE t == First(todo[j])
    <2>1. CASE e \in Touched(j, t)
      <3>1. state'[e] = Upsert(state[e], batch[j].row) /\ truth'[e] = Expected(truth[e], batch[j].row)
        BY <1>8, <2>1 DEF Merge, Commit
      <3>2. batch[j].row \in Row /\ \A f \in Field : batch[j].row.field[f] \in Job \cup {None}
        BY <1>3 DEF TypeOK, BatchValues
      <3> QED
        BY <1>5, <3>1, <3>2, MergeAgrees
    <2>2. CASE e \notin Touched(j, t)
      <3>1. state'[e] = state[e] /\ truth'[e] = truth[e]
        BY <1>8, <2>2 DEF Merge, Commit
      <3> QED
        BY <1>5, <3>1
    <2> QED
      BY <2>1, <2>2
  <1>9. ASSUME NEW j \in Job,
               \/ Start(j) \/ Complete(j) \/ Throw(j) \/ Replay(j)
               \/ \E t \in Table : Check(j, t) \/ Fetch(j, t) \/ ReadBack(j, t) \/ Insert(j, t)
        PROVE  UNCHANGED <<state, truth>>
    BY <1>9 DEF Start, Check, Fetch, ReadBack, Insert, Complete, Throw, Replay, history
  <1>10. CASE Age \/ UNCHANGED vars
    BY <1>6, <1>10 DEF Age, vars, history
  <1>11. CASE SweepStart \/ SweepFind \/ SweepDelete
    BY <1>2, <1>3, <1>11 DEF Unpruned, SweepStart, SweepFind, SweepDelete
  <1> QED
    BY <1>6, <1>7, <1>8, <1>9, <1>10, <1>11 DEF Next, JobStep, Idle

(* No merge is lost, however many jobs run at once, fail half-way and are  *)
(* retried: until the first sweep a state row holds every field merged,    *)
(* unless a seed of an older mirror row overwrote a row that had come back.*)
THEOREM NoMergeLost == Spec => []StateHoldsMerges
  <1>1. IInv /\ MergesHeld => StateHoldsMerges
    BY MirrorFields DEF IInv, TypeOK, MergesHeld, StateHoldsMerges
  <1> QED
    BY <1>1, InitMerges, NextMerges, InvHolds, PTL DEF Spec

-----------------------------------------------------------------------------
(* Convergence.  What a job has merged is in the mirror, or the job still  *)
(* owes it: it will merge again, or has read the row and not inserted it.  *)
Carries(e, v) == \E r \in doris[e] : r.ver >= v

HasRead(j, e) == held[j][e] # {} /\ \A r \in held[j][e] : r.ver >= batch[j].row.ver

Owing == {"ready", "check", "fetch", "seed", "merge", "dead"}

Owes(j, e) ==
    \/ phase[j] \in Owing
    \/ phase[j] = "read" /\ (TableOf[e] \in todo[j] \/ HasRead(j, e))
    \/ phase[j] = "insert" /\ TableOf[e] \in todo[j] /\ HasRead(j, e)

Delivers(j, e) ==
    /\ e \in batch[j].touch
    /\ state[e].ver >= batch[j].row.ver
    /\ Owes(j, e) \/ Carries(e, batch[j].row.ver)

Delivering == \A j \in Job : \A e \in landed[j] : Delivers(j, e)

\* The authoritative version is some job's, and the reference has the same
\* version and entity time.
Sourced ==
    \A e \in Entity : Present(e) => \E j \in Job : e \in landed[j] /\ state[e].ver <= batch[j].row.ver

SameHead ==
    \A e \in Entity :
        /\ state[e].ver = truth[e].ver /\ state[e].time = truth[e].time
        /\ state[e].ver = 0 => state[e].time = 0

OnePerTime == \A e \in Entity : \A r, q \in doris[e] : r.time = q.time => r = q

Traced == sweeps = 0 => reverted \subseteq late /\ Sourced /\ SameHead

(* Loading a row keeps one row per entity time and loses no version.       *)
LEMMA LoadKeeps ==
    ASSUME NEW rows \in SUBSET Row, NEW row \in Row
    PROVE  /\ (\A r, q \in rows : r.time = q.time => r = q)
                => \A r, q \in Load(rows, row) : r.time = q.time => r = q
           /\ \A v \in Nat : (\E r \in rows : r.ver >= v) => \E r \in Load(rows, row) : r.ver >= v
           /\ \E r \in Load(rows, row) : r.ver >= row.ver
  <1>1. row.ver \in Nat /\ \A r \in rows : r.ver \in Nat
    BY BoundAssumption DEF Row, Version
  <1>2. CASE \E q \in rows : q.time = row.time /\ q.ver > row.ver
    <2>1. Load(rows, row) = rows
      BY <1>2 DEF Load
    <2> QED
      BY <1>1, <1>2, <2>1
  <1>3. CASE ~ \E q \in rows : q.time = row.time /\ q.ver > row.ver
    <2>1. Load(rows, row) = {q \in rows : q.time # row.time} \cup {row}
      BY <1>3 DEF Load
    <2>2. ASSUME NEW v \in Nat, NEW r \in rows, r.ver >= v PROVE \E q \in Load(rows, row) : q.ver >= v
      <3>1. CASE r.time = row.time
        BY <1>1, <1>3, <2>1, <2>2, <3>1
      <3>2. CASE r.time # row.time
        BY <2>1, <2>2, <3>2
      <3> QED
        BY <3>1, <3>2
    <2>3. row \in Load(rows, row) /\ row.ver >= row.ver
      BY <1>1, <2>1
    <2> QED
      BY <2>1, <2>2, <2>3
  <1> QED
    BY <1>2, <1>3

\* What Insert loads: a row of a touched entity, mirrored.
LEMMA InsertLoads ==
    ASSUME TypeOK, NEW j \in Job, NEW t \in Table, Insert(j, t), NEW e \in Entity
    PROVE  /\ e \in Touched(j, t) /\ held[j][e] # {} =>
                \E h \in held[j][e] : h \in Row /\ Mirror(h) \in Row /\ Mirror(h).ver = h.ver
                                      /\ doris'[e] = Load(doris[e], Mirror(h))
           /\ ~(e \in Touched(j, t) /\ held[j][e] # {}) => doris'[e] = doris[e]
  <1>1. CASE e \in Touched(j, t) /\ held[j][e] # {}
    <2> DEFINE h == CHOOSE h \in held[j][e] : TRUE
    <2>1. doris'[e] = Load(doris[e], Mirror(h))
      BY <1>1 DEF Insert
    <2>2. h \in held[j][e] /\ h \in Row
      BY <1>1 DEF TypeOK
    <2> HIDE DEF h
    <2> QED
      BY <1>1, <2>1, <2>2, MirrorRow
  <1>2. CASE ~(e \in Touched(j, t) /\ held[j][e] # {})
    BY <1>2 DEF Insert
  <1> QED
    BY <1>1, <1>2

(* Only Insert writes the mirror.                                          *)
LEMMA MirrorWrites ==
    ASSUME TypeOK, [Next]_vars
    PROVE  UNCHANGED doris \/ \E j \in Job, t \in Table : Insert(j, t)
  <1> DEFINE Goal == UNCHANGED doris \/ \E j \in Job, t \in Table : Insert(j, t)
  <1> SUFFICES Goal
    OBVIOUS
  <1>1. ASSUME NEW j \in Job, NEW t \in Table, Check(j, t) \/ Fetch(j, t) \/ ReadBack(j, t) PROVE Goal
    BY <1>1 DEF Check, Fetch, ReadBack
  <1>2. ASSUME NEW j \in Job, Start(j) \/ Seed(j) \/ Merge(j) PROVE Goal
    BY <1>2 DEF Start, Seed, Merge
  <1>3. ASSUME NEW j \in Job, Complete(j) \/ Throw(j) \/ Replay(j) PROVE Goal
    BY <1>3 DEF Complete, Throw, Replay
  <1>4. CASE Age \/ SweepStart \/ SweepFind \/ SweepDelete
    BY <1>4 DEF Age, SweepStart, SweepFind, SweepDelete
  <1>5. CASE Idle \/ UNCHANGED vars
    BY <1>5 DEF Idle, vars
  <1> HIDE DEF Goal
  <1>6. ASSUME NEW j \in Job, NEW t \in Table, Insert(j, t) PROVE Goal
    BY <1>6 DEF Goal
  <1> QED
    BY <1>1, <1>2, <1>3, <1>4, <1>5, <1>6 DEF Next, JobStep

LEMMA MirrorGrows ==
    ASSUME TypeOK, OnePerTime, [Next]_vars
    PROVE  /\ OnePerTime'
           /\ \A e \in Entity, v \in Nat : Carries(e, v) => Carries(e, v)'
  <1>1. CASE UNCHANGED doris
    BY <1>1 DEF OnePerTime, Carries
  <1>2. ASSUME NEW j \in Job, NEW t \in Table, Insert(j, t), NEW e \in Entity
        PROVE  /\ \A r, q \in doris'[e] : r.time = q.time => r = q
               /\ \A v \in Nat : (\E r \in doris[e] : r.ver >= v) => \E r \in doris'[e] : r.ver >= v
    <2>1. doris[e] \in SUBSET Row /\ \A r, q \in doris[e] : r.time = q.time => r = q
      BY DEF TypeOK, OnePerTime
    <2>2. CASE e \in Touched(j, t) /\ held[j][e] # {}
      <3>1. PICK row \in Row : doris'[e] = Load(doris[e], row)
        BY <1>2, <2>2, InsertLoads
      <3>2. PICK rows \in SUBSET Row : rows = doris[e]
        BY <2>1
      <3>3. /\ \A r, q \in Load(rows, row) : r.time = q.time => r = q
            /\ \A v \in Nat : (\E r \in rows : r.ver >= v) => \E r \in Load(rows, row) : r.ver >= v
        BY <2>1, <3>2, LoadKeeps
      <3> QED
        BY <3>1, <3>2, <3>3
    <2>3. CASE ~(e \in Touched(j, t) /\ held[j][e] # {})
      BY <1>2, <2>1, <2>3, InsertLoads
    <2> QED
      BY <2>2, <2>3
  <1> QED
    BY <1>1, <1>2, MirrorWrites DEF OnePerTime, Carries

(* The only steps that change Postgres before the first sweep are a seed,  *)
(* which leaves the version and the entity time, and a merge.              *)
LEMMA UnprunedStep ==
    ASSUME IInv, [Next]_vars, sweeps' = 0
    PROVE  \/ UNCHANGED <<state, truth, late, reverted, landed>>
           \/ \E j \in Job : Seed(j)
           \/ \E j \in Job : Merge(j)
  <1> DEFINE Goal == \/ UNCHANGED <<state, truth, late, reverted, landed>>
                     \/ \E j \in Job : Seed(j)
                     \/ \E j \in Job : Merge(j)
  <1> SUFFICES Goal
    OBVIOUS
  <1>1. sweeps = 0 /\ Unpruned
    <2>1. sweeps' = sweeps \/ sweeps' = sweeps + 1
      BY StepBounds
    <2>2. sweeps \in Nat
      BY BoundAssumption DEF IInv, TypeOK
    <2> QED
      BY <2>1, <2>2 DEF IInv
  <1>2. ASSUME NEW j \in Job, NEW t \in Table, Check(j, t) \/ Fetch(j, t) \/ ReadBack(j, t) \/ Insert(j, t)
        PROVE  Goal
    BY <1>2 DEF Check, Fetch, ReadBack, Insert, history
  <1>3. ASSUME NEW j \in Job, Start(j) \/ Complete(j) \/ Throw(j) \/ Replay(j) PROVE Goal
    BY <1>3 DEF Start, Complete, Throw, Replay, history
  <1>4. CASE Age \/ SweepStart \/ SweepFind \/ SweepDelete
    BY <1>1, <1>4 DEF Age, SweepStart, SweepFind, SweepDelete, Unpruned, history
  <1>5. CASE Idle \/ UNCHANGED vars
    BY <1>5 DEF Idle, vars, history
  <1>6. ASSUME NEW j \in Job, Seed(j) \/ Merge(j) PROVE Goal
    BY <1>6
  <1> HIDE DEF Goal
  <1> QED
    BY <1>2, <1>3, <1>4, <1>5, <1>6 DEF Next, JobStep

LEMMA SeedSame ==
    ASSUME TypeOK, Unpruned, NEW j \in Job, Seed(j)
    PROVE  /\ UNCHANGED <<truth, landed>>
           /\ \A e \in Entity : state'[e].ver = state[e].ver /\ state'[e].time = state[e].time
           /\ late \subseteq late' /\ reverted' \subseteq reverted \cup late'
  <1> DEFINE found == {e \in absent[j] : TableOf[e] = First(todo[j]) /\ held[j][e] # {}}
  <1>1. PICK rows \in [found -> UNION {SeedResults(e, state[e], held[j][e]) : e \in found}] :
          /\ \A e \in found : rows[e] \in SeedResults(e, state[e], held[j][e])
          /\ Commit(rows)
          /\ reverted' = reverted \cup
               {e \in found : Present(e) /\ Mirror(rows[e]).field # Mirror(state[e]).field}
    BY DEF Seed
  <1>2. found \subseteq Entity
    BY DEF TypeOK
  <1>3. ASSUME NEW e \in found PROVE rows[e].ver = state[e].ver /\ rows[e].time = state[e].time
    <2>1. PICK row, read : row = state[e] /\ read = held[j][e]
      OBVIOUS
    <2>2. row \in Row /\ read \in SUBSET Row /\ read # {}
      BY <1>2, <2>1 DEF TypeOK
    <2>3. row.time # 0 /\ \A r \in read : r.ver <= row.ver
      BY <1>2, <2>1, <2>2 DEF Unpruned, Behind
    <2>4. rows[e] \in SeedResults(e, row, read)
      BY <1>1, <2>1
    <2> QED
      BY <2>1, <2>2, <2>3, <2>4, SeedRow
  <1> HIDE DEF found
  <1>4. /\ \A e \in Entity : state'[e] = IF e \in found THEN rows[e] ELSE state[e]
        /\ late' = late \cup {e \in found : rows[e].ver = state[e].ver /\ Mirror(rows[e]) # Mirror(state[e])}
    <2>1. DOMAIN rows = found
      BY <1>1
    <2> QED
      BY <1>1, <2>1 DEF Commit
  <1>5. UNCHANGED <<truth, landed>>
    BY DEF Seed
  <1>6. ASSUME NEW e \in found, Mirror(rows[e]).field # Mirror(state[e]).field PROVE e \in late'
    <2>1. Mirror(rows[e]) # Mirror(state[e])
      BY <1>6
    <2> QED
      BY <1>3, <1>4, <2>1
  <1> QED
    BY <1>1, <1>3, <1>4, <1>5, <1>6

LEMMA MergeRaises ==
    ASSUME TypeOK, NEW j \in Job, Merge(j), NEW e \in Entity
    PROVE  /\ late \subseteq late' /\ UNCHANGED reverted
           /\ e \in Touched(j, First(todo[j])) =>
                /\ state'[e] = Upsert(state[e], batch[j].row)
                /\ truth'[e] = Expected(truth[e], batch[j].row)
                /\ landed'[j] = landed[j] \cup Touched(j, First(todo[j]))
           /\ e \notin Touched(j, First(todo[j])) => state'[e] = state[e] /\ truth'[e] = truth[e]
           /\ \A k \in Job : landed'[k] = IF k = j THEN landed[j] \cup Touched(j, First(todo[j])) ELSE landed[k]
  <1>1. Touched(j, First(todo[j])) \subseteq Entity
    BY DEF TypeOK, Touched
  <1> QED
    BY <1>1 DEF Merge, Commit, TypeOK

LEMMA TracedStep ==
    ASSUME IInv, Traced, [Next]_vars
    PROVE  Traced'
  <1> SUFFICES ASSUME sweeps' = 0 PROVE reverted' \subseteq late' /\ Sourced' /\ SameHead'
    BY DEF Traced
  <1>1. sweeps = 0
    <2>1. sweeps' = sweeps \/ sweeps' = sweeps + 1
      BY StepBounds
    <2>2. sweeps \in Nat
      BY BoundAssumption DEF IInv, TypeOK
    <2> QED
      BY <2>1, <2>2
  <1>2. TypeOK /\ BatchesReal /\ Unpruned /\ reverted \subseteq late /\ Sourced /\ SameHead /\ batch' = batch
    BY <1>1, StepBounds DEF IInv, Traced
  <1>3. CASE UNCHANGED <<state, truth, late, reverted, landed>>
    BY <1>2, <1>3 DEF Sourced, SameHead, Present
  <1>4. ASSUME NEW j \in Job, Seed(j) PROVE reverted' \subseteq late' /\ Sourced' /\ SameHead'
    <2>1. /\ UNCHANGED <<truth, landed>>
          /\ \A e \in Entity : state'[e].ver = state[e].ver /\ state'[e].time = state[e].time
          /\ reverted' \subseteq late'
      BY <1>2, <1>4, SeedSame
    <2> QED
      BY <1>2, <2>1 DEF Sourced, SameHead, Present
  <1>5. ASSUME NEW j \in Job, Merge(j) PROVE reverted' \subseteq late' /\ Sourced' /\ SameHead'
    <2>1. batch[j].row \in Row /\ batch[j].row.ver # 0 /\ batch[j].row.time # 0
      BY <1>2 DEF TypeOK, BatchesReal
    <2>2. PICK patch \in Row : patch = batch[j].row
      BY <2>1
    <2>3. ASSUME NEW e \in Entity
          PROVE  /\ state'[e].ver = truth'[e].ver /\ state'[e].time = truth'[e].time
                 /\ state'[e].ver = 0 => state'[e].time = 0
                 /\ Present(e)' => \E k \in Job : e \in landed'[k] /\ state'[e].ver <= batch[k].row.ver
      <3>1. PICK row \in Row, ref \in Row : row = state[e] /\ ref = truth[e]
        BY <1>2 DEF TypeOK
      <3>2. /\ row.ver = ref.ver /\ row.time = ref.time /\ (row.ver = 0 => row.time = 0)
            /\ (row.ver # 0 => row.time # 0)
        BY <1>2, <3>1 DEF SameHead, Unpruned, Present
      <3>3. /\ row.ver \in Nat /\ row.time \in Nat /\ patch.ver \in Nat /\ patch.time \in Nat
            /\ patch.ver # 0 /\ patch.time # 0
        BY <2>1, <2>2, BoundAssumption DEF Row, Version
      <3>4. row.ver # 0 => \E k \in Job : e \in landed[k] /\ row.ver <= batch[k].row.ver
        BY <1>2, <3>1 DEF Sourced, Present
      <3>5. \A k \in Job : landed[k] \subseteq landed'[k]
        BY <1>2, <1>5, MergeRaises
      <3>6. CASE e \notin Touched(j, First(todo[j]))
        <4>1. state'[e] = row /\ truth'[e] = ref
          BY <1>2, <1>5, <3>1, <3>6, MergeRaises
        <4> QED
          BY <3>2, <3>4, <3>5, <4>1 DEF Present
      <3>7. CASE e \in Touched(j, First(todo[j]))
        <4>1. state'[e] = Upsert(row, patch) /\ truth'[e] = Expected(ref, patch) /\ e \in landed'[j]
          BY <1>2, <1>5, <2>2, <3>1, <3>7, MergeRaises
        <4>2. /\ Upsert(row, patch).ver = IF row.ver >= patch.ver THEN row.ver ELSE patch.ver
              /\ Upsert(row, patch).time = IF row.time # 0 THEN row.time ELSE patch.time
          BY DEF Upsert, Larger
        <4>3. /\ Expected(ref, patch).ver = IF patch.ver > ref.ver THEN patch.ver ELSE ref.ver
              /\ Expected(ref, patch).time = IF ref.ver = 0 THEN patch.time ELSE ref.time
          BY DEF Expected
        <4>4. Upsert(row, patch).ver = Expected(ref, patch).ver /\ Upsert(row, patch).ver # 0
          BY <3>2, <3>3, <4>2, <4>3
        <4>5. Upsert(row, patch).time = Expected(ref, patch).time
          BY <3>2, <3>3, <4>2, <4>3
        <4>6. CASE row.ver >= patch.ver
          <5>1. row.ver # 0 /\ state'[e].ver = row.ver
            BY <3>3, <4>1, <4>2, <4>6
          <5> QED
            BY <3>4, <3>5, <4>1, <4>4, <4>5, <5>1
        <4>7. CASE ~(row.ver >= patch.ver)
          <5>1. state'[e].ver <= batch[j].row.ver
            BY <2>2, <3>3, <4>1, <4>2, <4>7
          <5> QED
            BY <4>1, <4>4, <4>5, <5>1
        <4> QED
          BY <4>6, <4>7
      <3> QED
        BY <3>6, <3>7
    <2>4. reverted' \subseteq late'
      BY <1>2, <1>5, MergeRaises DEF Merge, Commit
    <2> QED
      BY <1>2, <2>3, <2>4 DEF Sourced, SameHead
  <1> QED
    BY <1>3, <1>4, <1>5, UnprunedStep

(* Where a step of a job leaves it, and that it leaves the others alone.   *)
LEMMA GotoWhere ==
    ASSUME TypeOK, NEW j \in Job, NEW p, NEW ts, Goto(j, p, ts)
    PROVE  phase'[j] = p /\ todo'[j] = ts /\ \A k \in Job \ {j} : phase'[k] = phase[k] /\ todo'[k] = todo[k]
  BY DEF TypeOK, Goto

LEMMA DoneWhere ==
    ASSUME TypeOK, NEW j \in Job, NEW t, NEW p, NEW ts, Done(j, t, p, ts)
    PROVE  /\ todo[j] = {t} => phase'[j] = p /\ todo'[j] = ts
           /\ todo[j] # {t} => phase'[j] = phase[j] /\ todo'[j] = todo[j] \ {t}
           /\ \A k \in Job \ {j} : phase'[k] = phase[k] /\ todo'[k] = todo[k]
  <1>1. CASE todo[j] = {t}
    BY <1>1, GotoWhere DEF Done
  <1>2. CASE todo[j] # {t}
    BY <1>2, GotoWhere DEF Done
  <1> QED
    BY <1>1, <1>2

LEMMA OthersRest ==
    ASSUME TypeOK, NEW j \in Job, JobStep(j) \/ Throw(j) \/ Replay(j), NEW k \in Job \ {j}
    PROVE  /\ phase'[k] = phase[k] /\ todo'[k] = todo[k]
           /\ absent'[k] = absent[k] /\ held'[k] = held[k] /\ landed'[k] = landed[k]
  <1> DEFINE Goal == /\ phase'[k] = phase[k] /\ todo'[k] = todo[k]
                     /\ absent'[k] = absent[k] /\ held'[k] = held[k] /\ landed'[k] = landed[k]
  <1> SUFFICES Goal
    OBVIOUS
  <1>1. Forget(j) => held'[k] = held[k] /\ absent'[k] = absent[k]
    BY DEF Forget, TypeOK
  <1>2. CASE Start(j)
    BY <1>2, GotoWhere DEF Start, history
  <1>3. ASSUME NEW t \in Table, Check(j, t) PROVE Goal
    <2>1. absent'[k] = absent[k]
      BY <1>3 DEF Check, TypeOK
    <2>2. phase'[k] = phase[k] /\ todo'[k] = todo[k]
      BY <1>3, DoneWhere DEF Check
    <2> QED
      BY <1>3, <2>1, <2>2 DEF Check, history
  <1>4. ASSUME NEW t \in Table, Fetch(j, t) PROVE Goal
    <2>1. held'[k] = held[k]
      BY <1>4 DEF Fetch, TypeOK
    <2> QED
      BY <1>4, <2>1, DoneWhere DEF Fetch, history
  <1>5. ASSUME NEW t \in Table, ReadBack(j, t) PROVE Goal
    <2>1. held'[k] = held[k]
      BY <1>5 DEF ReadBack, TypeOK
    <2> QED
      BY <1>5, <2>1, DoneWhere DEF ReadBack, history
  <1>6. ASSUME NEW t \in Table, Insert(j, t) PROVE Goal
    BY <1>6, DoneWhere DEF Insert, history
  <1>7. CASE Seed(j)
    BY <1>7, DoneWhere DEF Seed
  <1>8. CASE Merge(j)
    <2>1. landed'[k] = landed[k]
      BY <1>8, MergeRaises DEF Merge, TypeOK
    <2> QED
      BY <1>8, <2>1, DoneWhere DEF Merge
  <1>9. CASE Complete(j)
    BY <1>1, <1>9, GotoWhere DEF Complete, history
  <1>10. CASE Throw(j)
    BY <1>1, <1>10, GotoWhere DEF Throw, history
  <1>11. CASE Replay(j)
    BY <1>11, GotoWhere DEF Replay, history
  <1> HIDE DEF Goal
  <1> QED
    BY <1>2, <1>3, <1>4, <1>5, <1>6, <1>7, <1>8, <1>9, <1>10, <1>11 DEF JobStep

(* Until the first sweep the version of a state row never falls.           *)
LEMMA StateRises ==
    ASSUME IInv, [Next]_vars, sweeps' = 0, NEW e \in Entity
    PROVE  state'[e].ver >= state[e].ver
  <1>1. sweeps = 0
    <2>1. sweeps' = sweeps \/ sweeps' = sweeps + 1
      BY StepBounds
    <2>2. sweeps \in Nat
      BY BoundAssumption DEF IInv, TypeOK
    <2> QED
      BY <2>1, <2>2
  <1>2. TypeOK /\ Unpruned
    BY <1>1 DEF IInv
  <1>3. state[e] \in Row /\ state[e].ver \in Nat
    BY <1>2, BoundAssumption DEF TypeOK, Row, Version
  <1>4. CASE UNCHANGED state
    BY <1>3, <1>4
  <1>5. ASSUME NEW j \in Job, Seed(j) PROVE state'[e].ver >= state[e].ver
    BY <1>2, <1>3, <1>5, SeedSame
  <1>6. ASSUME NEW j \in Job, Merge(j) PROVE state'[e].ver >= state[e].ver
    <2>1. PICK row \in Row, patch \in Row : row = state[e] /\ patch = batch[j].row
      BY <1>2 DEF TypeOK
    <2>2. Upsert(row, patch).ver >= row.ver
      BY UpsertRow
    <2>3. state'[e] \in {row, Upsert(row, patch)}
      BY <1>2, <1>6, <2>1, MergeRaises
    <2> QED
      BY <1>3, <2>1, <2>2, <2>3
  <1> QED
    BY <1>4, <1>5, <1>6, UnprunedStep

\* A step of a job that will merge again before it can end.
LEMMA StillOwing ==
    ASSUME TypeOK, NEW j \in Job, phase[j] \in Owing \/ Throw(j),
           JobStep(j) \/ Throw(j) \/ Replay(j)
    PROVE  \/ phase'[j] \in Owing
           \/ Merge(j) /\ phase'[j] = "read" /\ todo'[j] = TablesOf(batch[j].touch)
  <1> DEFINE Goal == \/ phase'[j] \in Owing
                     \/ Merge(j) /\ phase'[j] = "read" /\ todo'[j] = TablesOf(batch[j].touch)
  <1> SUFFICES Goal
    OBVIOUS
  <1>1. CASE Start(j)
    BY <1>1, GotoWhere DEF Start, Owing
  <1>2. ASSUME NEW t \in Table, Check(j, t) PROVE phase'[j] \in {"check", "merge", "fetch"}
    BY <1>2, DoneWhere DEF Check
  <1>3. ASSUME NEW t \in Table, Fetch(j, t) PROVE phase'[j] \in {"fetch", "merge", "seed"}
    BY <1>3, DoneWhere DEF Fetch
  <1>4. ASSUME Seed(j) PROVE phase'[j] \in {"seed", "merge"}
    BY <1>4, DoneWhere DEF Seed
  <1>5. CASE Merge(j)
    <2>1. phase[j] = "merge" /\ Done(j, First(todo[j]), "read", TablesOf(batch[j].touch))
      BY <1>5 DEF Merge
    <2> QED
      BY <1>5, <2>1, DoneWhere DEF Owing
  <1>6. CASE Throw(j)
    BY <1>6, GotoWhere DEF Throw, AfterThrow, Owing
  <1>7. CASE Replay(j)
    BY <1>7, GotoWhere DEF Replay, Owing
  <1>8. ASSUME NEW t \in Table, ReadBack(j, t) \/ Insert(j, t) PROVE Throw(j)
    BY <1>8 DEF ReadBack, Insert, Owing
  <1>9. Complete(j) => Throw(j)
    BY DEF Complete, Owing
  <1> QED
    BY <1>1, <1>2, <1>3, <1>4, <1>5, <1>6, <1>7, <1>8, <1>9 DEF JobStep, Owing

LEMMA ReadDelivers ==
    ASSUME TypeOK, NEW j \in Job, NEW t \in Table, ReadBack(j, t),
           NEW e \in landed[j], e \in batch[j].touch, Present(e), state[e].ver >= batch[j].row.ver,
           UNCHANGED batch, Owes(j, e)
    PROVE  Owes(j, e)'
  <1>1. phase[j] = "read" /\ t \in todo[j] /\ e \in Entity /\ TableOf[e] \in Table
    BY TableAssumption DEF ReadBack, TypeOK
  <1>2. held'[j] = [d \in Entity |->
                       IF d \in Touched(j, t) THEN {r \in {state[d]} : Present(d)} ELSE held[j][d]]
    BY DEF ReadBack, TypeOK
  <1>3. TableOf[e] = t => held'[j][e] = {state[e]}
    BY <1>1, <1>2 DEF Touched
  <1>4. TableOf[e] # t => held'[j][e] = held[j][e]
    BY <1>1, <1>2 DEF Touched
  <1>5. (TableOf[e] \in todo[j] /\ TableOf[e] # t) \/ HasRead(j, e)'
    <2>1. CASE TableOf[e] = t
      BY <1>3, <2>1 DEF HasRead
    <2>2. CASE TableOf[e] # t
      BY <1>1, <1>4, <2>2 DEF Owes, Owing, HasRead
    <2> QED
      BY <2>1, <2>2
  <1>6. CASE todo[j] # {t}
    <2>1. phase'[j] = "read" /\ todo'[j] = todo[j] \ {t}
      BY <1>1, <1>6, DoneWhere DEF ReadBack
    <2> QED
      BY <1>5, <2>1 DEF Owes
  <1>7. CASE todo[j] = {t}
    <2>1. HasRead(j, e)'
      BY <1>5, <1>7
    <2> DEFINE found == {d \in batch[j].touch : held'[j][d] # {}}
    <2>2. e \in found
      BY <2>1 DEF HasRead
    <2>3. Done(j, t, "insert", TablesOf(found))
      BY <2>2 DEF ReadBack
    <2>4. TableOf[e] \in TablesOf(found)
      BY <2>2 DEF TablesOf
    <2>5. phase'[j] = "insert" /\ todo'[j] = TablesOf(found)
      BY <1>7, <2>3, DoneWhere
    <2> QED
      BY <2>1, <2>4, <2>5 DEF Owes
  <1> QED
    BY <1>6, <1>7

LEMMA InsertDelivers ==
    ASSUME TypeOK, NEW j \in Job, NEW t \in Table, Insert(j, t),
           NEW e \in landed[j], e \in batch[j].touch, UNCHANGED batch, Owes(j, e)
    PROVE  Owes(j, e)' \/ Carries(e, batch[j].row.ver)'
  <1>1. phase[j] = "insert" /\ held' = held /\ e \in Entity
    BY DEF Insert, TypeOK
  <1>2. TableOf[e] \in todo[j] /\ HasRead(j, e)
    BY <1>1 DEF Owes, Owing
  <1>3. CASE TableOf[e] = t
    <2>1. e \in Touched(j, t)
      BY <1>1, <1>3 DEF Touched
    <2>2. PICK h \in held[j][e] : Mirror(h) \in Row /\ Mirror(h).ver = h.ver
                                  /\ doris'[e] = Load(doris[e], Mirror(h))
      BY <1>1, <1>2, <2>1, InsertLoads DEF HasRead
    <2>3. PICK rows \in SUBSET Row, row \in Row : rows = doris[e] /\ row = Mirror(h)
      BY <1>1, <2>2 DEF TypeOK
    <2>4. PICK r \in Load(rows, row) : r.ver >= row.ver
      BY LoadKeeps
    <2>5. row.ver >= batch[j].row.ver /\ r \in Row /\ batch[j].row \in Row
      BY <1>2, <2>2, <2>3, <2>4, LoadRows DEF HasRead, TypeOK
    <2>6. r.ver >= batch[j].row.ver
      BY <2>4, <2>5, BoundAssumption DEF Row, Version
    <2> QED
      BY <2>2, <2>3, <2>4, <2>6 DEF Carries
  <1>4. CASE TableOf[e] # t
    <2>1. todo[j] # {t} /\ Done(j, t, "dispatch", {})
      BY <1>2, <1>4 DEF Insert
    <2>2. phase'[j] = "insert" /\ todo'[j] = todo[j] \ {t}
      BY <1>1, <2>1, DoneWhere
    <2> QED
      BY <1>1, <1>2, <1>4, <2>2 DEF Owes, HasRead
  <1> QED
    BY <1>3, <1>4

LEMMA LandedWhere ==
    ASSUME TypeOK, [Next]_vars, NEW j \in Job
    PROVE  \/ Merge(j)
           \/ landed'[j] = landed[j]
  <1> DEFINE Goal == Merge(j) \/ landed'[j] = landed[j]
  <1> SUFFICES Goal
    OBVIOUS
  <1>1. ASSUME NEW k \in Job, NEW t \in Table, Check(k, t) \/ Fetch(k, t) \/ ReadBack(k, t) \/ Insert(k, t)
        PROVE  Goal
    BY <1>1 DEF Check, Fetch, ReadBack, Insert, history
  <1>2. ASSUME NEW k \in Job, Start(k) \/ Seed(k) \/ Complete(k) \/ Throw(k) \/ Replay(k) PROVE Goal
    BY <1>2 DEF Start, Seed, Complete, Throw, Replay, history
  <1>3. ASSUME NEW k \in Job, Merge(k) PROVE Goal
    BY <1>3, MergeRaises DEF Merge, TypeOK
  <1>4. CASE Age \/ SweepStart \/ SweepFind \/ SweepDelete \/ Idle \/ UNCHANGED vars
    BY <1>4 DEF Age, SweepStart, SweepFind, SweepDelete, Idle, vars, history
  <1> HIDE DEF Goal
  <1> QED
    BY <1>1, <1>2, <1>3, <1>4 DEF Next, JobStep

LEMMA JobOrRest ==
    ASSUME TypeOK, [Next]_vars, NEW j \in Job
    PROVE  \/ JobStep(j) \/ Throw(j) \/ Replay(j)
           \/ phase'[j] = phase[j] /\ todo'[j] = todo[j] /\ absent'[j] = absent[j] /\ held'[j] = held[j]
  <1>1. ASSUME NEW k \in Job \ {j}, JobStep(k) \/ Throw(k) \/ Replay(k)
        PROVE  phase'[j] = phase[j] /\ todo'[j] = todo[j] /\ absent'[j] = absent[j] /\ held'[j] = held[j]
    BY <1>1, OthersRest
  <1>2. CASE Age \/ SweepStart \/ SweepFind \/ SweepDelete
    BY <1>2 DEF Age, SweepStart, SweepFind, SweepDelete, jobVars
  <1>3. CASE Idle \/ UNCHANGED vars
    BY <1>3 DEF Idle, vars, jobVars
  <1> QED
    BY <1>1, <1>2, <1>3 DEF Next

LEMMA DeliveringStep ==
    ASSUME IInv, TypeOK', OnePerTime, sweeps = 0, Delivering, [Next]_vars, sweeps' = 0
    PROVE  Delivering'
  <1>1. TypeOK /\ Unpruned /\ BatchesReal /\ batch' = batch
    BY StepBounds DEF IInv
  <1>2. SUFFICES ASSUME NEW j \in Job, NEW e \in landed'[j] PROVE Delivers(j, e)'
    BY DEF Delivering
  <1>3. PICK v \in Nat : v = batch[j].row.ver /\ v # 0
    BY <1>1, BoundAssumption DEF TypeOK, BatchesReal, Row, Version
  <1>4. ASSUME NEW d \in Entity PROVE state[d].ver \in Nat /\ state'[d].ver \in Nat /\ state'[d].ver >= state[d].ver
    <2>1. state[d] \in Row /\ state'[d] \in Row
      BY <1>1 DEF TypeOK
    <2> QED
      BY <2>1, StateRises, BoundAssumption DEF Row, Version
  <1>5. CASE e \in landed[j]
    <2>1. e \in Entity /\ e \in batch[j].touch /\ state[e].ver >= v /\ (Owes(j, e) \/ Carries(e, v))
      BY <1>1, <1>3, <1>5 DEF TypeOK, Delivering, Delivers
    <2>2. state'[e].ver >= v
      BY <1>3, <1>4, <2>1
    <2>3. Carries(e, v) => Carries(e, v)'
      BY <1>1, <2>1, MirrorGrows
    <2>4. ASSUME Owes(j, e) PROVE Owes(j, e)' \/ Carries(e, v)'
      <3>1. CASE phase'[j] = phase[j] /\ todo'[j] = todo[j] /\ held'[j] = held[j]
        BY <1>1, <2>4, <3>1 DEF Owes, HasRead
      <3>2. CASE (JobStep(j) \/ Throw(j) \/ Replay(j)) /\ (phase[j] \in Owing \/ Throw(j))
        <4>1. TableOf[e] \in TablesOf(batch[j].touch)
          BY <2>1 DEF TablesOf
        <4> QED
          BY <1>1, <3>2, <4>1, StillOwing DEF Owes
      <3>3. CASE (JobStep(j) \/ Replay(j)) /\ phase[j] \notin Owing
        <4>1. phase[j] \in {"read", "insert"}
          BY <2>4, <3>3 DEF Owes
        <4>2. PICK t \in Table : ReadBack(j, t) \/ Insert(j, t)
          BY <3>3, <4>1 DEF JobStep, Start, Check, Fetch, Seed, Merge, Complete, Replay, Owing
        <4>3. Present(e)
          BY <1>3, <1>4, <2>1 DEF Present
        <4> QED
          BY <1>1, <1>3, <1>5, <2>1, <2>4, <4>2, <4>3, ReadDelivers, InsertDelivers
      <3> QED
        BY <1>1, <3>1, <3>2, <3>3, JobOrRest
    <2> QED
      BY <1>1, <1>3, <2>1, <2>2, <2>3, <2>4 DEF Delivers
  <1>6. CASE e \notin landed[j]
    <2>1. Merge(j) /\ e \in Touched(j, First(todo[j]))
      <3>1. Merge(j)
        BY <1>1, <1>6, LandedWhere
      <3>2. landed'[j] = landed[j] \cup Touched(j, First(todo[j]))
        BY <3>1 DEF Merge, TypeOK, IInv
      <3> QED
        BY <1>6, <3>1, <3>2
    <2>2. e \in batch[j].touch /\ e \in Entity
      BY <1>1, <2>1 DEF Touched, TypeOK
    <2>3. PICK row \in Row, patch \in Row : row = state[e] /\ patch = batch[j].row
      BY <1>1, <2>2 DEF TypeOK
    <2>4. state'[e] = Upsert(row, patch)
      BY <1>1, <2>1, <2>2, <2>3, MergeRaises
    <2>5. state'[e].ver >= v
      BY <1>3, <2>3, <2>4, UpsertRow
    <2>6. phase[j] \in Owing /\ JobStep(j) /\ TableOf[e] \in TablesOf(batch[j].touch)
      BY <2>1, <2>2 DEF Merge, Owing, JobStep, TablesOf
    <2>7. Owes(j, e)'
      BY <1>1, <2>6, StillOwing DEF Owes
    <2> QED
      BY <1>1, <1>3, <2>2, <2>5, <2>7 DEF Delivers
  <1> QED
    BY <1>5, <1>6

ConvergeInv == OnePerTime /\ Traced /\ (sweeps = 0 => Delivering)

LEMMA InitConverge == Init => ConvergeInv
  <1> SUFFICES ASSUME Init PROVE OnePerTime /\ Traced /\ Delivering
    BY DEF ConvergeInv
  <1>1. OnePerTime /\ Delivering
    BY DEF Init, OnePerTime, Delivering, Nothing
  <1>2. Traced
    BY DEF Init, Traced, Sourced, SameHead, NoRow, Present
  <1> QED
    BY <1>1, <1>2

LEMMA NextConverge ==
    ASSUME IInv, TypeOK', ConvergeInv, [Next]_vars
    PROVE  ConvergeInv'
  <1>1. OnePerTime' /\ Traced'
    BY MirrorGrows, TracedStep DEF IInv, ConvergeInv
  <1>2. ASSUME sweeps' = 0 PROVE Delivering'
    <2>1. sweeps = 0
      <3>1. sweeps' = sweeps \/ sweeps' = sweeps + 1
        BY StepBounds
      <3>2. sweeps \in Nat
        BY BoundAssumption DEF IInv, TypeOK
      <3> QED
        BY <1>2, <3>1, <3>2
    <2> QED
      BY <1>2, <2>1, DeliveringStep DEF ConvergeInv
  <1> QED
    BY <1>1, <1>2 DEF ConvergeInv

(* When every job has settled, the version of Postgres has been inserted   *)
(* by the job it came from, and what the mirror shows at that version is   *)
(* the merged state.                                                       *)
LEMMA ConvergeFollows ==
    ASSUME IInv, MergesHeld, ConvergeInv, sweeps = 0
    PROVE  ConvergedInOrder
  <1>1. SUFFICES ASSUME Settled, NEW e \in Entity \ late, truth[e].ver # 0
                 PROVE  ConvergedFor(e)
    BY DEF ConvergedInOrder, ConvergedFor
  <1>2. TypeOK /\ Unpruned /\ reverted \subseteq late /\ Sourced /\ SameHead /\ Delivering /\ OnePerTime
    BY DEF IInv, ConvergeInv, Traced
  <1>3. PICK row \in Row, ref \in Row : row = state[e] /\ ref = truth[e]
    BY <1>2 DEF TypeOK
  <1>4. row.ver = ref.ver /\ row.time = ref.time /\ Present(e)
    BY <1>1, <1>2, <1>3 DEF SameHead, Present
  <1>5. Mirror(row) = Mirror(ref)
    <2>1. Mirror(row).field = Mirror(ref).field
      <3>1. SameFields(row, ref)
        BY <1>2, <1>3 DEF MergesHeld
      <3> QED
        BY <3>1, MirrorFields
    <2> QED
      BY <1>4, <2>1 DEF Mirror, Row
  <1>6. PICK j \in Job : e \in landed[j] /\ row.ver <= batch[j].row.ver
    BY <1>2, <1>3, <1>4 DEF Sourced
  <1>7. phase[j] = "done"
    BY <1>1, <1>6 DEF Settled
  <1>8. PICK r \in doris[e] : r.ver >= batch[j].row.ver
    BY <1>2, <1>6, <1>7 DEF Delivering, Delivers, Owes, Owing, Carries
  <1>9. Behind(e, r) /\ Mirror(r) = r /\ r \in Row
    BY <1>2 DEF Unpruned, TypeOK
  <1>10. r.ver = row.ver
    <2>1. r.ver \in Nat /\ row.ver \in Nat /\ batch[j].row.ver \in Nat
      BY <1>2, <1>9, BoundAssumption DEF TypeOK, Row, Version
    <2> QED
      BY <1>3, <1>6, <1>8, <1>9, <2>1 DEF Behind
  <1>11. r = Mirror(ref)
    BY <1>3, <1>5, <1>9, <1>10 DEF Behind
  <1>12. ASSUME NEW q \in doris[e] PROVE q = r
    <2>1. q.time = state[e].time /\ r.time = state[e].time
      BY <1>2, <1>9 DEF Unpruned, Behind
    <2> QED
      BY <1>2, <2>1 DEF OnePerTime
  <1>13. doris[e] = {Mirror(ref)}
    BY <1>11, <1>12
  <1> QED
    BY <1>3, <1>13, MirrorRow DEF ConvergedFor, Shows

(* Until the first prune sweep, once the jobs have settled, the mirror has *)
(* exactly one row for every entity whose merges arrived in version order, *)
(* and that row is everything that was merged, whatever failed and was     *)
(* retried or replayed on the way (mergeIngestBatch and the ingest worker).*)
THEOREM ConvergesUnpruned == Spec => [](sweeps = 0 => ConvergedInOrder)
  <1>1. Init => BatchValues /\ MergesHeld /\ ConvergeInv
    BY InitMerges, InitConverge
  <1>2. IInv /\ TypeOK' /\ BatchValues /\ MergesHeld /\ ConvergeInv /\ [Next]_vars
          => BatchValues' /\ MergesHeld' /\ ConvergeInv'
    BY NextMerges, NextConverge
  <1>3. IInv /\ MergesHeld /\ ConvergeInv => (sweeps = 0 => ConvergedInOrder)
    BY ConvergeFollows
  <1> QED
    BY <1>1, <1>2, <1>3, InvHolds, TypeCorrect, PTL DEF Spec

-----------------------------------------------------------------------------
(* One job at a time, and sweeps apart from jobs: then the mirror converges*)
(* whatever the order of versions, across sweeps, seeds and failures.      *)

\* One slot, and no table that is pruned without being seeded back.
Serial == Concurrency = 1 /\ \A e \in Entity : TableOf[e] \in Rehydrated

\* A sweep never overlaps a running job nor a batch given up half-way.
SweepsApart == sweep' = 0 \/ Settled'

LoneRunner == \A j, k \in Running : j = k
Quiet == \A j \in Job : phase[j] \notin Active => absent[j] = {} /\ held[j] = Nothing
SweptApart == (sweep = 0 => page = {}) /\ (sweep # 0 => Settled)

\* Row a of e has what row b has, but may have nothing in a column that a seed
\* of e left out.
Agree(e, a, b) ==
    \A f \in Field :
        \/ Coalesce(a.field[f], Default) = Coalesce(b.field[f], Default)
        \/ e \in reseeded /\ f \notin Seedable(e) /\ Coalesce(a.field[f], Default) = Default

Same(e, a, b) == a.ver = b.ver /\ a.time = b.time /\ Agree(e, a, b)

\* An entity that was merged and pruned: only the mirror has it.
Lost(e) == ~Present(e) /\ truth[e].ver # 0

\* Job k will insert the mirror row of e.
InHand(k, e) ==
    \/ phase[k] \in Owing \cup {"read"}
    \/ phase[k] = "insert" /\ TableOf[e] \in todo[k]

\* The mirror has one row of e, with what was merged.
Mirrored(e) == \E row \in Row : doris[e] = {Mirror(row)} /\ Same(e, row, truth[e])

RowWhole(e) ==
    /\ ~Present(e) => state[e] = NoRow
    /\ truth[e].ver = 0 => truth[e] = NoRow /\ doris[e] = {} /\ ~Present(e)
    /\ truth[e].ver # 0 => truth[e].time # 0
    /\ Lost(e) => Mirrored(e)
    /\ Present(e) => /\ Same(e, state[e], truth[e])
                     /\ \A r \in doris[e] : r.time = state[e].time /\ r.ver <= state[e].ver
                     /\ \/ Mirrored(e)
                        \/ \E k \in Job : e \in landed[k] /\ InHand(k, e)

\* A job that looks rows up has, of each lost entity, still to look whether
\* it is there, still to fetch it, or still to seed it.
Sought(j, e) ==
    \/ phase[j] = "check" /\ (TableOf[e] \in todo[j] \/ e \in absent[j])
    \/ phase[j] = "fetch" /\ e \in absent[j] /\ (TableOf[e] \in todo[j] \/ held[j][e] = doris[e])
    \/ phase[j] = "seed" /\ e \in absent[j] /\ TableOf[e] \in todo[j] /\ held[j][e] = doris[e]

Looking(j) ==
    /\ phase[j] = "seed" => todo[j] # {}
    /\ \A e \in Entity : held[j][e] \in {{}, doris[e]}
    /\ \A e \in absent[j] : (phase[j] = "seed" => TableOf[e] \in todo[j]) => ~Present(e)
    /\ \A e \in batch[j].touch : Lost(e) => Sought(j, e)

Merging(j) == \A e \in batch[j].touch : ~Lost(e) /\ (TableOf[e] \in todo[j] \/ Present(e))

Mirroring(j) ==
    \A e \in batch[j].touch :
        /\ Present(e)
        /\ phase[j] = "insert" \/ TableOf[e] \notin todo[j] => held[j][e] = {state[e]}

JobWhole(j) ==
    /\ landed[j] \subseteq batch[j].touch
    /\ phase[j] \in {"check", "fetch", "seed"} => Looking(j)
    /\ phase[j] = "merge" => Merging(j)
    /\ phase[j] \in {"read", "insert"} => Mirroring(j)

StoresWhole == \A e \in Entity : RowWhole(e)
JobsWhole == \A j \in Job : JobWhole(j)

(* Seeds only add to what a row may lack.                                  *)
LEMMA SameKept ==
    ASSUME reseeded \subseteq reseeded', NEW e, NEW a, NEW b, Same(e, a, b)
    PROVE  Same(e, a, b)'
  BY DEF Same, Agree

LEMMA MirroredKept ==
    ASSUME reseeded \subseteq reseeded', NEW e, Mirrored(e), doris'[e] = doris[e], truth'[e] = truth[e]
    PROVE  Mirrored(e)'
  <1>1. PICK row \in Row, ref \in {truth[e]} : doris[e] = {Mirror(row)} /\ Same(e, row, ref)
    BY DEF Mirrored
  <1>2. Same(e, row, ref)'
    BY <1>1, SameKept
  <1> QED
    BY <1>1, <1>2 DEF Mirrored

\* What the mirror then shows.
LEMMA MirroredShows ==
    ASSUME NEW e \in Entity, Mirrored(e), truth[e] \in Row
    PROVE  ConvergedFor(e)
  <1>1. PICK row \in Row, ref \in Row : doris[e] = {Mirror(row)} /\ ref = truth[e] /\ Same(e, row, ref)
    BY DEF Mirrored
  <1>2. /\ Mirror(row).ver = ref.ver /\ Mirror(row).time = ref.time
        /\ \A f \in Field : /\ Mirror(row).field[f] = Coalesce(row.field[f], Default)
                            /\ Mirror(ref).field[f] = Coalesce(ref.field[f], Default)
    BY <1>1, MirrorRow DEF Same, Mirror, Row
  <1>3. \A f \in Field : Shows(e, Mirror(row), f)
    BY <1>1, <1>2 DEF Same, Agree, Shows
  <1> QED
    BY <1>1, <1>2, <1>3 DEF ConvergedFor

(* Seeding the one mirror row of a pruned entity restores what it can.     *)
LEMMA SeedRestores ==
    ASSUME NEW e \in Entity, NEW row \in Row, NEW ref \in Row, row.ver # 0, Same(e, row, ref),
           NEW new \in SeedResults(e, NoRow, {Mirror(row)}),
           reseeded \subseteq reseeded', e \in reseeded'
    PROVE  new \in Row /\ Same(e, new, ref)' /\ new.ver = row.ver /\ new.time = row.time
  <1>1. PICK m \in Row : m = Mirror(row) /\ m.ver = row.ver /\ m.time = row.time
    BY MirrorRow
  <1>2. NoRow \in Row /\ NoRow.ver = 0 /\ NoRow.time = 0 /\ \A f \in Field : NoRow.field[f] = None
    BY BoundAssumption DEF NoRow, Row, Version
  <1>3. m.ver \in Nat
    BY BoundAssumption DEF Row, Version
  <1>4. PICK v \in {0, m.ver}, p \in {m} \X {m} :
          /\ \A w \in {0, m.ver} : w <= v
          /\ new = [ver |-> v, time |-> p[1].time,
                    field |-> [f \in Field |-> IF f \in Seedable(e) THEN p[2].field[f] ELSE NoRow.field[f]]]
    BY <1>1, <1>2 DEF SeedResults
  <1>5. v = m.ver
    BY <1>3, <1>4
  <1>6. p[1] = m /\ p[2] = m
    BY <1>4
  <1>7. /\ new.ver = m.ver /\ new.time = m.time
        /\ \A f \in Field : new.field[f] = IF f \in Seedable(e) THEN m.field[f] ELSE None
    BY <1>2, <1>4, <1>5, <1>6
  <1>8. new \in Row
    BY <1>1, <1>2, SeedRow
  <1>9. \A f \in Field : m.field[f] = Coalesce(row.field[f], Default)
    BY <1>1 DEF Mirror, Row
  <1>10. ASSUME NEW f \in Field
         PROVE  \/ Coalesce(new.field[f], Default) = Coalesce(ref.field[f], Default)
                \/ f \notin Seedable(e) /\ Coalesce(new.field[f], Default) = Default
    <2>1. CASE f \in Seedable(e)
      <3>1. Coalesce(row.field[f], Default) = Coalesce(ref.field[f], Default)
        BY <2>1 DEF Same, Agree
      <3>2. Coalesce(new.field[f], Default) = Coalesce(row.field[f], Default)
        BY <1>7, <1>9, <2>1, ValueAssumption DEF Coalesce
      <3> QED
        BY <3>1, <3>2
    <2>2. CASE f \notin Seedable(e)
      BY <1>7, <2>2 DEF Coalesce
    <2> QED
      BY <2>1, <2>2
  <1>11. new.ver = ref.ver /\ new.time = ref.time
    BY <1>1, <1>7 DEF Same
  <1>12. Same(e, new, ref)'
    BY <1>10, <1>11 DEF Same, Agree, Seedable
  <1> QED
    BY <1>1, <1>7, <1>8, <1>12

(* Merging keeps the state row and its reference the same.                 *)
LEMMA MergeSame ==
    ASSUME NEW e, NEW a \in Row, NEW b \in Row, Same(e, a, b), NEW patch \in Row,
           a.ver = 0 <=> a.time = 0, patch.ver # 0, patch.time # 0,
           \A f \in Field : patch.field[f] \in Job \cup {None}
    PROVE  /\ Upsert(a, patch) \in Row
           /\ Same(e, Upsert(a, patch), Expected(b, patch))
           /\ Upsert(a, patch).ver # 0 /\ Upsert(a, patch).time # 0
           /\ Upsert(a, patch).ver >= a.ver
           /\ a.time # 0 => Upsert(a, patch).time = a.time
  <1>1. a.ver \in Nat /\ b.ver \in Nat /\ patch.ver \in Nat
    BY BoundAssumption DEF Row, Version
  <1>2. /\ Upsert(a, patch).ver = IF a.ver >= patch.ver THEN a.ver ELSE patch.ver
        /\ Upsert(a, patch).time = IF a.time # 0 THEN a.time ELSE patch.time
    BY DEF Upsert, Larger
  <1>3. /\ Expected(b, patch).ver = IF patch.ver > b.ver THEN patch.ver ELSE b.ver
        /\ Expected(b, patch).time = IF b.ver = 0 THEN patch.time ELSE b.time
    BY DEF Expected
  <1>4. a.ver = b.ver /\ a.time = b.time /\ Agree(e, a, b)
    BY DEF Same
  <1>5. Agree(e, Upsert(a, patch), Expected(b, patch))
    <2>1. \A f \in Field :
            \/ Upsert(a, patch).field[f] = Expected(b, patch).field[f]
            \/ /\ Upsert(a, patch).field[f] = a.field[f]
               /\ Expected(b, patch).field[f] = b.field[f]
      BY MergeField
    <2> QED
      BY <1>4, <2>1 DEF Agree
  <1>6. Upsert(a, patch).ver = Expected(b, patch).ver /\ Upsert(a, patch).ver # 0
    BY <1>1, <1>2, <1>3, <1>4
  <1>7. Upsert(a, patch).time = Expected(b, patch).time /\ Upsert(a, patch).time # 0
    BY <1>2, <1>3, <1>4
  <1> QED
    BY <1>5, <1>6, <1>7, UpsertRow DEF Same

(* A job runs because it ran or because it started.                        *)
LEMMA Runs ==
    ASSUME TypeOK, NEW j \in Job, JobStep(j) \/ Throw(j) \/ Replay(j), phase'[j] \in Active
    PROVE  Start(j) \/ phase[j] \in Active
  <1>1. ASSUME NEW t \in Table, Check(j, t) \/ Fetch(j, t) \/ ReadBack(j, t) \/ Insert(j, t)
        PROVE  phase[j] \in Active
    BY <1>1 DEF Check, Fetch, ReadBack, Insert, Active
  <1>2. Seed(j) \/ Merge(j) \/ Complete(j) => phase[j] \in Active
    BY DEF Seed, Merge, Complete, Active
  <1>3. Throw(j) => phase[j] \in Active
    BY DEF Throw
  <1>4. ASSUME Replay(j) PROVE FALSE
    <2>1. phase'[j] = "ready"
      BY <1>4, GotoWhere DEF Replay
    <2> QED
      BY <2>1 DEF Active
  <1> QED
    BY <1>1, <1>2, <1>3, <1>4 DEF JobStep

(* With one slot a job starts only when none runs.                         *)
LEMMA StartsAlone ==
    ASSUME Serial, LoneRunner, NEW j \in Job, Start(j)
    PROVE  Running = {}
  <1>1. ASSUME NEW k \in Running PROVE FALSE
    <2>1. Running = {k}
      BY <1>1 DEF LoneRunner
    <2>2. Cardinality(Running) = 1
      BY <2>1, FS_Singleton
    <2>3. Cardinality(Running) < 1
      BY DEF Start, Serial
    <2> QED
      BY <2>2, <2>3
  <1> QED
    BY <1>1

(* While a job runs, no other job takes a step that touches the stores.    *)
LEMMA Alone ==
    ASSUME TypeOK, Serial, LoneRunner, NEW j \in Job, JobStep(j) \/ Throw(j) \/ Replay(j),
           NEW k \in Job \ {j}, phase[k] \in Active
    PROVE  Replay(j)
  <1>1. k \in Running
    BY DEF Running
  <1>2. CASE Start(j)
    BY <1>1, <1>2, StartsAlone
  <1>3. ASSUME phase[j] \in Active PROVE FALSE
    BY <1>1, <1>3 DEF LoneRunner, Running
  <1>4. ASSUME NEW t \in Table, Check(j, t) \/ Fetch(j, t) \/ ReadBack(j, t) \/ Insert(j, t)
        PROVE  phase[j] \in Active
    BY <1>4 DEF Check, Fetch, ReadBack, Insert, Active
  <1>5. Seed(j) \/ Merge(j) \/ Complete(j) => phase[j] \in Active
    BY DEF Seed, Merge, Complete, Active
  <1>6. Throw(j) => phase[j] \in Active
    BY DEF Throw
  <1> QED
    BY <1>2, <1>3, <1>4, <1>5, <1>6 DEF JobStep

LEMMA LoneStep ==
    ASSUME TypeOK, Serial, LoneRunner, [Next]_vars
    PROVE  LoneRunner'
  <1>1. ASSUME NEW j \in Job, JobStep(j) \/ Throw(j) \/ Replay(j) PROVE LoneRunner'
    <2>1. \A k \in Job \ {j} : phase'[k] = phase[k]
      BY <1>1, OthersRest
    <2>2. CASE phase'[j] \notin Active
      <3>1. \A k \in Job : phase'[k] \in Active => phase[k] \in Active
        BY <2>1, <2>2
      <3> QED
        BY <3>1 DEF LoneRunner, Running
    <2>3. CASE phase[j] \in Active
      <3>1. \A k \in Job : phase'[k] \in Active => phase[k] \in Active
        BY <2>1, <2>3
      <3> QED
        BY <3>1 DEF LoneRunner, Running
    <2>4. CASE Start(j)
      <3>1. \A k \in Job : phase[k] \notin Active
        BY <2>4, StartsAlone DEF Running
      <3> QED
        BY <2>1, <3>1 DEF LoneRunner, Running
    <2> QED
      BY <1>1, <2>2, <2>3, <2>4, Runs
  <1>2. CASE UNCHANGED phase
    BY <1>2 DEF LoneRunner, Running
  <1>3. CASE Age \/ SweepStart \/ SweepFind \/ SweepDelete
    BY <1>2, <1>3 DEF Age, SweepStart, SweepFind, SweepDelete, jobVars
  <1>4. CASE Idle \/ UNCHANGED vars
    BY <1>2, <1>4 DEF Idle, vars, jobVars
  <1> QED
    BY <1>1, <1>3, <1>4 DEF Next

(* A job that ends or gives up forgets what it held.                       *)
LEMMA QuietStep ==
    ASSUME TypeOK, Quiet, [Next]_vars
    PROVE  Quiet'
  <1> SUFFICES ASSUME NEW j \in Job, phase'[j] \notin Active PROVE absent'[j] = {} /\ held'[j] = Nothing
    BY DEF Quiet
  <1>1. CASE phase'[j] = phase[j] /\ todo'[j] = todo[j] /\ absent'[j] = absent[j] /\ held'[j] = held[j]
    BY <1>1 DEF Quiet
  <1>2. Forget(j) => absent'[j] = {} /\ held'[j] = Nothing
    BY DEF Forget, TypeOK
  <1>3. CASE Complete(j) \/ Throw(j)
    BY <1>2, <1>3 DEF Complete, Throw
  <1>4. CASE Replay(j)
    BY <1>4 DEF Replay, Quiet, Active
  <1>5. ASSUME Start(j) PROVE phase'[j] \in {"check", "merge"}
    BY <1>5, GotoWhere DEF Start
  <1>6. ASSUME NEW t \in Table, Check(j, t) PROVE phase'[j] \in {"check", "merge", "fetch"}
    BY <1>6, DoneWhere DEF Check
  <1>7. ASSUME NEW t \in Table, Fetch(j, t) PROVE phase'[j] \in {"fetch", "merge", "seed"}
    BY <1>7, DoneWhere DEF Fetch
  <1>8. ASSUME Seed(j) PROVE phase'[j] \in {"seed", "merge"}
    BY <1>8, DoneWhere DEF Seed
  <1>9. ASSUME Merge(j) PROVE phase'[j] \in {"merge", "read"}
    BY <1>9, DoneWhere DEF Merge
  <1>10. ASSUME NEW t \in Table, ReadBack(j, t) PROVE phase'[j] \in {"read", "dispatch", "insert"}
    BY <1>10, DoneWhere DEF ReadBack
  <1>11. ASSUME NEW t \in Table, Insert(j, t) PROVE phase'[j] \in {"insert", "dispatch"}
    BY <1>11, DoneWhere DEF Insert
  <1>12. phase'[j] \notin {"check", "fetch", "seed", "merge", "read", "insert", "dispatch"}
    BY DEF Active
  <1> QED
    BY <1>1, <1>3, <1>4, <1>5, <1>6, <1>7, <1>8, <1>9, <1>10, <1>11, <1>12, JobOrRest DEF JobStep

(* A sweep that has begun finds no job at work, and none to insert a row.  *)
LEMMA SweptStep ==
    ASSUME SweptApart, SweepsApart \/ UNCHANGED vars, [Next]_vars
    PROVE  SweptApart'
  <1>1. CASE UNCHANGED vars
    BY <1>1 DEF SweptApart, vars, Settled, jobVars, sweepVars, history
  <1>2. CASE UNCHANGED <<sweep, page>>
    BY <1>1, <1>2 DEF SweptApart, SweepsApart
  <1>3. CASE SweepStart
    BY <1>1, <1>3 DEF SweptApart, SweepsApart, SweepStart
  <1>4. CASE SweepFind
    BY <1>1, <1>4 DEF SweptApart, SweepsApart, SweepFind, NextTable
  <1>5. CASE SweepDelete
    BY <1>1, <1>5 DEF SweptApart, SweepsApart, SweepDelete
  <1>6. CASE Age \/ Idle
    BY <1>2, <1>6 DEF Age, Idle, vars, sweepVars
  <1>7. ASSUME NEW j \in Job, NEW t \in Table, Check(j, t) \/ Fetch(j, t) \/ ReadBack(j, t) \/ Insert(j, t)
        PROVE  UNCHANGED <<sweep, page>>
    BY <1>7 DEF Check, Fetch, ReadBack, Insert, sweepVars
  <1>8. ASSUME NEW j \in Job, Start(j) \/ Seed(j) \/ Merge(j) \/ Complete(j) \/ Throw(j) \/ Replay(j)
        PROVE  UNCHANGED <<sweep, page>>
    BY <1>8 DEF Start, Seed, Merge, Complete, Throw, Replay, sweepVars
  <1> QED
    BY <1>1, <1>2, <1>3, <1>4, <1>5, <1>6, <1>7, <1>8 DEF Next, JobStep

(* The insert a job has in hand stays in hand until that very insert.      *)
LEMMA InHandKept ==
    ASSUME TypeOK, NEW k \in Job, JobWhole(k), NEW e \in batch[k].touch, Present(e), InHand(k, e),
           [Next]_vars, ~ Insert(k, TableOf[e])
    PROVE  InHand(k, e)'
  <1>1. e \in Entity /\ TableOf[e] \in Table /\ TableOf[e] \in TablesOf(batch[k].touch)
    BY TableAssumption DEF TypeOK, TablesOf
  <1>2. CASE phase'[k] = phase[k] /\ todo'[k] = todo[k]
    BY <1>2 DEF InHand
  <1>3. CASE (JobStep(k) \/ Throw(k) \/ Replay(k)) /\ (phase[k] \in Owing \/ Throw(k))
    BY <1>3, StillOwing DEF InHand
  <1>4. ASSUME JobStep(k) \/ Replay(k), phase[k] \notin Owing
        PROVE  \E t \in Table : ReadBack(k, t) \/ Insert(k, t)
    <2>1. phase[k] \in {"read", "insert"}
      BY <1>4 DEF InHand
    <2> QED
      BY <1>4, <2>1 DEF JobStep, Start, Check, Fetch, Seed, Merge, Complete, Replay, Owing
  <1>5. ASSUME NEW t \in Table, ReadBack(k, t) PROVE InHand(k, e)'
    <2>1. phase[k] = "read" /\ Mirroring(k)
      BY <1>5 DEF ReadBack, JobWhole
    <2>2. CASE todo[k] # {t}
      <3>1. phase'[k] = "read"
        BY <1>5, <2>1, <2>2, DoneWhere DEF ReadBack
      <3> QED
        BY <3>1 DEF InHand
    <2>3. CASE todo[k] = {t}
      <3>1. held'[k][e] = {state[e]}
        <4>1. held'[k] = [d \in Entity |->
                             IF d \in Touched(k, t) THEN {r \in {state[d]} : Present(d)} ELSE held[k][d]]
          BY <1>5 DEF ReadBack, TypeOK
        <4>2. CASE TableOf[e] = t
          BY <1>1, <4>1, <4>2 DEF Touched
        <4>3. CASE TableOf[e] # t
          BY <1>1, <2>1, <2>3, <4>1, <4>3 DEF Touched, Mirroring
        <4> QED
          BY <4>2, <4>3
      <3> DEFINE found == {d \in batch[k].touch : held'[k][d] # {}}
      <3>2. e \in found
        BY <3>1
      <3>3. Done(k, t, "insert", TablesOf(found))
        BY <1>5, <3>2 DEF ReadBack
      <3>4. phase'[k] = "insert" /\ todo'[k] = TablesOf(found)
        BY <2>3, <3>3, DoneWhere
      <3>5. TableOf[e] \in TablesOf(found)
        BY <3>2 DEF TablesOf
      <3> QED
        BY <3>4, <3>5 DEF InHand
    <2> QED
      BY <2>2, <2>3
  <1>6. ASSUME NEW t \in Table, Insert(k, t), t # TableOf[e] PROVE InHand(k, e)'
    <2>1. phase[k] = "insert" /\ TableOf[e] \in todo[k]
      BY <1>6 DEF Insert, InHand, Owing
    <2>2. phase'[k] = "insert" /\ todo'[k] = todo[k] \ {t}
      BY <1>6, <2>1, DoneWhere DEF Insert
    <2> QED
      BY <1>6, <2>1, <2>2 DEF InHand
  <1> QED
    BY <1>2, <1>3, <1>4, <1>5, <1>6, JobOrRest

(* Inserting the row of a touched entity leaves that row alone.            *)
LEMMA InsertShows ==
    ASSUME TypeOK, NEW k \in Job, JobWhole(k), NEW e \in batch[k].touch, RowWhole(e), Insert(k, TableOf[e])
    PROVE  Present(e) /\ doris'[e] = {Mirror(state[e])}
  <1>1. e \in Entity /\ TableOf[e] \in Table /\ e \in Touched(k, TableOf[e])
    BY TableAssumption DEF TypeOK, Touched
  <1>2. Present(e) /\ held[k][e] = {state[e]}
    BY DEF Insert, JobWhole, Mirroring
  <1>3. doris'[e] = Load(doris[e], Mirror(state[e]))
    BY <1>1, <1>2, InsertLoads
  <1>4. PICK row \in Row : row = Mirror(state[e]) /\ row.ver = state[e].ver /\ row.time = state[e].time
    BY <1>1, MirrorRow DEF TypeOK
  <1>5. \A r \in doris[e] : r.time = row.time /\ r.ver <= row.ver /\ r.ver \in Nat /\ row.ver \in Nat
    BY <1>1, <1>2, <1>4, BoundAssumption DEF RowWhole, TypeOK, Row, Version
  <1>6. Load(doris[e], row) = {row}
    BY <1>5 DEF Load
  <1> QED
    BY <1>2, <1>3, <1>4, <1>6

\* An entity whose state row the step leaves alone.
LEMMA RowKept ==
    ASSUME TypeOK, JobsWhole, [Next]_vars, NEW e \in Entity, RowWhole(e),
           state'[e] = state[e], truth'[e] = truth[e],
           doris'[e] = doris[e] \/ \E j \in Job, t \in Table : Insert(j, t),
           \A k \in Job : landed[k] \subseteq landed'[k]
    PROVE  RowWhole(e)'
  <1>1. /\ Present(e)' <=> Present(e)
        /\ Lost(e)' <=> Lost(e)
    BY DEF Present, Lost
  <1>0. reseeded \subseteq reseeded'
    BY StepBounds
  <1>2. PICK row \in Row, ref \in Row : row = state[e] /\ ref = truth[e]
    BY DEF TypeOK
  <1>3. Present(e) => Same(e, row, ref)'
    BY <1>0, <1>2, SameKept DEF RowWhole
  <1>4. ASSUME NEW k \in Job, Insert(k, TableOf[e]), e \in batch[k].touch PROVE RowWhole(e)'
    <2>1. Present(e) /\ doris'[e] = {Mirror(row)}
      BY <1>2, <1>4, InsertShows DEF JobsWhole
    <2>2. Mirror(row).time = row.time /\ Mirror(row).ver = row.ver /\ row.ver \in Nat
      BY MirrorRow, BoundAssumption DEF Row, Version
    <2>3. \A r \in doris'[e] : r.time = state'[e].time /\ r.ver <= state'[e].ver
      BY <1>2, <2>1, <2>2
    <2>4. Present(e)' /\ ~Lost(e)' /\ truth'[e].ver # 0
      BY <1>1, <2>1 DEF RowWhole, Lost
    <2>5. Mirrored(e)'
      BY <1>2, <1>3, <2>1 DEF Mirrored
    <2> QED
      BY <1>2, <1>3, <2>1, <2>3, <2>4, <2>5 DEF RowWhole
  <1>5. ASSUME \A k \in Job : e \in batch[k].touch => ~ Insert(k, TableOf[e]) PROVE RowWhole(e)'
    <2>1. doris'[e] = doris[e]
      <3>1. ASSUME NEW j \in Job, NEW t \in Table, Insert(j, t) PROVE doris'[e] = doris[e]
        BY <1>5, <3>1, InsertLoads DEF Touched
      <3> QED
        BY <3>1
    <2>2. ASSUME NEW k \in Job, Present(e), e \in landed[k], InHand(k, e)
          PROVE  e \in landed'[k] /\ InHand(k, e)'
      <3>1. JobWhole(k) /\ e \in batch[k].touch
        BY <2>2 DEF JobsWhole, JobWhole
      <3> QED
        BY <1>5, <2>2, <3>1, InHandKept
    <2>3. Mirrored(e) => Mirrored(e)'
      BY <1>0, <2>1, MirroredKept
    <2>4. Present(e) => \/ Mirrored(e)'
                        \/ \E k \in Job : e \in landed'[k] /\ InHand(k, e)'
      BY <2>2, <2>3 DEF RowWhole
    <2>5. Present(e) => Same(e, state[e], truth[e])'
      BY <1>2, <1>3
    <2> QED
      BY <1>1, <2>1, <2>3, <2>4, <2>5 DEF RowWhole
  <1> QED
    BY <1>4, <1>5

LEMMA FirstOf ==
    ASSUME NEW ts \in SUBSET Table, ts # {}
    PROVE  First(ts) \in ts
  <1>1. \E t \in ts : \A u \in ts : t <= u
    <2>1. ts \subseteq {1, 2, 3}
      BY DEF Table
    <2>2. CASE 1 \in ts
      BY <2>1, <2>2
    <2>3. CASE 1 \notin ts /\ 2 \in ts
      BY <2>1, <2>3
    <2>4. CASE 1 \notin ts /\ 2 \notin ts
      <3>1. ts = {3}
        BY <2>1, <2>4
      <3> QED
        BY <3>1
    <2> QED
      BY <2>2, <2>3, <2>4
  <1> QED
    BY <1>1 DEF First

LEMMA SeedWhole ==
    ASSUME TypeOK, StoresWhole, JobsWhole, [Next]_vars, NEW j \in Job, Seed(j), NEW e \in Entity
    PROVE  /\ RowWhole(e)'
           /\ UNCHANGED <<truth, doris, landed>>
           /\ ~(e \in absent[j] /\ TableOf[e] = First(todo[j]) /\ held[j][e] # {}) => state'[e] = state[e]
           /\ e \in absent[j] /\ TableOf[e] = First(todo[j]) /\ held[j][e] # {} => Present(e)'
  <1> DEFINE found == {d \in absent[j] : TableOf[d] = First(todo[j]) /\ held[j][d] # {}}
  <1>1. PICK rows \in [found -> UNION {SeedResults(d, state[d], held[j][d]) : d \in found}] :
          /\ \A d \in found : rows[d] \in SeedResults(d, state[d], held[j][d])
          /\ Commit(rows)
          /\ reseeded' = reseeded \cup found
    BY DEF Seed
  <1>2. UNCHANGED <<truth, doris, landed>>
    BY DEF Seed
  <1>3. state'[e] = IF e \in found THEN rows[e] ELSE state[e]
    <2>1. DOMAIN rows = found
      BY <1>1
    <2> QED
      BY <1>1, <2>1 DEF Commit
  <1>5. CASE e \notin found
    <2>1. RowWhole(e)'
      BY <1>2, <1>3, <1>5, RowKept DEF StoresWhole
    <2> QED
      BY <1>2, <1>3, <1>5, <2>1
  <1>6. CASE e \in found
    <2>1. phase[j] = "seed" /\ TableOf[e] = First(todo[j]) /\ Looking(j) /\ RowWhole(e)
      BY <1>6 DEF Seed, JobsWhole, JobWhole, StoresWhole
    <2>2. TableOf[e] \in todo[j]
      BY <2>1, FirstOf DEF Looking, TypeOK
    <2>3. ~Present(e) /\ held[j][e] = doris[e] /\ doris[e] # {}
      BY <1>6, <2>1, <2>2 DEF Looking
    <2>4. state[e] = NoRow /\ Lost(e)
      BY <2>1, <2>3 DEF RowWhole, Lost, Mirrored
    <2>5. PICK ref \in Row : ref = truth[e] /\ ref.ver # 0 /\ ref.time # 0
      BY <2>1, <2>4 DEF RowWhole, Lost, TypeOK
    <2>6. PICK row \in Row : doris[e] = {Mirror(row)} /\ Same(e, row, ref)
      BY <2>1, <2>4, <2>5 DEF RowWhole, Mirrored
    <2>7. row.ver = ref.ver /\ row.time = ref.time /\ row.ver \in Nat
      BY <2>6, BoundAssumption DEF Same, Row, Version
    <2>8. state'[e] \in SeedResults(e, NoRow, {Mirror(row)})
      BY <1>1, <1>3, <1>6, <2>3, <2>4, <2>6
    <2>9. reseeded \subseteq reseeded' /\ e \in reseeded'
      BY <1>1, <1>6
    <2>10. PICK new \in Row : new = state'[e] /\ Same(e, new, ref)' /\ new.ver = row.ver /\ new.time = row.time
      BY <2>5, <2>6, <2>7, <2>8, <2>9, SeedRestores
    <2>11. Present(e)'
      BY <2>5, <2>7, <2>10 DEF Present
    <2>12. \A r \in doris'[e] : r.time = new.time /\ r.ver <= new.ver
      BY <1>2, <2>6, <2>7, <2>10, MirrorRow
    <2>13. Mirrored(e)'
      BY <1>2, <2>1, <2>4, <2>9, MirroredKept DEF RowWhole
    <2>14. RowWhole(e)'
      <3>1. truth'[e] = ref
        BY <1>2, <2>5
      <3> QED
        BY <2>5, <2>10, <2>11, <2>12, <2>13, <3>1 DEF RowWhole, Lost
    <2> QED
      BY <1>2, <1>6, <2>11, <2>14
  <1> QED
    BY <1>5, <1>6

LEMMA MergeWhole ==
    ASSUME TypeOK, BatchesReal, BatchValues, StoresWhole, JobsWhole, [Next]_vars,
           NEW j \in Job, Merge(j), NEW e \in Entity
    PROVE  /\ RowWhole(e)'
           /\ e \in Touched(j, First(todo[j])) => Present(e)' /\ ~Lost(e)'
           /\ e \notin Touched(j, First(todo[j])) => state'[e] = state[e] /\ truth'[e] = truth[e]
  <1>1. doris' = doris /\ \A k \in Job : landed[k] \subseteq landed'[k]
    BY MergeRaises DEF Merge
  <1>2. CASE e \notin Touched(j, First(todo[j]))
    <2>1. state'[e] = state[e] /\ truth'[e] = truth[e]
      BY <1>2, MergeRaises
    <2> QED
      BY <1>1, <1>2, <2>1, RowKept DEF StoresWhole
  <1>3. CASE e \in Touched(j, First(todo[j]))
    <2>1. PICK a \in Row, b \in Row, patch \in Row : a = state[e] /\ b = truth[e] /\ patch = batch[j].row
      BY DEF TypeOK
    <2>2. /\ state'[e] = Upsert(a, patch) /\ truth'[e] = Expected(b, patch)
          /\ e \in landed'[j]
      BY <1>3, <2>1, MergeRaises
    <2>3. phase[j] = "merge" /\ Merging(j) /\ RowWhole(e) /\ e \in batch[j].touch
      BY <1>3 DEF Merge, JobsWhole, JobWhole, StoresWhole, Touched
    <2>4. Same(e, a, b) /\ (a.ver = 0 <=> a.time = 0)
      <3>1. CASE Present(e)
        BY <2>1, <2>3, <3>1 DEF RowWhole, Same, Present
      <3>2. CASE ~Present(e)
        <4>1. a = NoRow /\ b = NoRow
          BY <2>1, <2>3, <3>2 DEF RowWhole, Merging, Lost
        <4> QED
          BY <4>1 DEF Same, Agree, NoRow
      <3> QED
        BY <3>1, <3>2
    <2>5. /\ patch.ver # 0 /\ patch.time # 0
          /\ \A f \in Field : patch.field[f] \in Job \cup {None}
      BY <2>1 DEF BatchesReal, BatchValues
    <2>6. /\ Upsert(a, patch) \in Row
          /\ Same(e, Upsert(a, patch), Expected(b, patch))
          /\ Upsert(a, patch).ver # 0 /\ Upsert(a, patch).time # 0
          /\ Upsert(a, patch).ver >= a.ver
          /\ a.time # 0 => Upsert(a, patch).time = a.time
      BY <2>4, <2>5, MergeSame
    <2>7. PICK new \in Row, ref \in {truth'[e]} :
            /\ new = state'[e] /\ Same(e, new, ref)
            /\ new.ver # 0 /\ new.time # 0 /\ new.ver >= a.ver
            /\ a.time # 0 => new.time = a.time
      BY <2>2, <2>6
    <2>8. /\ Present(e)' /\ ~Lost(e)' /\ truth'[e].ver # 0 /\ truth'[e].time # 0
          /\ Same(e, state[e], truth[e])'
      <3>1. Same(e, new, ref)'
        BY <2>7, StepBounds, SameKept
      <3> QED
        BY <2>7, <3>1 DEF Present, Lost, Same
    <2>9. \A r \in doris'[e] : r.time = new.time /\ r.ver <= new.ver
      <3>1. CASE Present(e)
        <4>1. \A r \in doris[e] : r.time = a.time /\ r.ver <= a.ver /\ r.ver \in Nat
          BY <2>1, <2>3, <3>1, BoundAssumption DEF RowWhole, TypeOK, Row, Version
        <4>2. a.time # 0 /\ a.ver \in Nat /\ new.ver \in Nat
          BY <2>1, <2>4, <2>7, <3>1, BoundAssumption DEF Present, Row, Version
        <4> QED
          BY <1>1, <2>7, <4>1, <4>2
      <3>2. CASE ~Present(e)
        BY <1>1, <2>3, <3>2 DEF RowWhole, Merging, Lost
      <3> QED
        BY <3>1, <3>2
    <2>10. InHand(j, e)'
      <3>1. phase[j] \in Owing /\ JobStep(j)
        BY <2>3 DEF Owing, JobStep
      <3> QED
        BY <3>1, StillOwing DEF InHand
    <2> QED
      BY <1>3, <2>2, <2>7, <2>8, <2>9, <2>10 DEF RowWhole
  <1> QED
    BY <1>2, <1>3

(* While a sweep runs, what it prunes is all in the mirror.                *)
LEMMA NoneInHand ==
    ASSUME Settled, NEW k \in Job, NEW e \in landed[k]
    PROVE  ~InHand(k, e)
  BY DEF Settled, InHand, Owing

LEMMA DeleteWhole ==
    ASSUME TypeOK, StoresWhole, SweptApart, SweepDelete, NEW e \in Entity
    PROVE  RowWhole(e)'
  <1>1. Settled /\ UNCHANGED <<doris, truth, landed, phase, todo, reseeded>>
    BY DEF SweptApart, SweepDelete, jobVars, history
  <1>2. RowWhole(e) /\ state[e] \in Row /\ truth[e] \in Row
    BY DEF StoresWhole, TypeOK
  <1>3. Present(e) => Mirrored(e)
    BY <1>1, <1>2, NoneInHand DEF RowWhole
  <1>4. Mirrored(e) => Mirrored(e)'
    BY <1>1, MirroredKept
  <1>5. CASE state'[e] = state[e]
    <2>1. Present(e) => Same(e, state[e], truth[e])'
      BY <1>1, <1>2, <1>5 DEF RowWhole, Same, Agree
    <2> QED
      BY <1>1, <1>2, <1>3, <1>4, <1>5, <2>1 DEF RowWhole, Present, Lost
  <1>6. CASE state'[e] # state[e]
    <2>1. state'[e] = NoRow
      BY <1>6 DEF SweepDelete
    <2>2. Present(e)
      BY <1>2, <1>6, <2>1 DEF RowWhole
    <2>3. ~Present(e)' /\ truth'[e].ver # 0
      BY <1>1, <1>2, <2>1, <2>2 DEF RowWhole, Present, NoRow
    <2> QED
      BY <1>1, <1>2, <1>3, <1>4, <2>1, <2>2, <2>3 DEF RowWhole
  <1> QED
    BY <1>5, <1>6

LEMMA StoresStep ==
    ASSUME TypeOK, BatchesReal, BatchValues, SweptApart, StoresWhole, JobsWhole, [Next]_vars
    PROVE  StoresWhole'
  <1> SUFFICES ASSUME NEW e \in Entity PROVE RowWhole(e)'
    BY DEF StoresWhole
  <1>1. ASSUME UNCHANGED <<state, truth, landed>>,
               UNCHANGED doris \/ \E j \in Job, t \in Table : Insert(j, t)
        PROVE  RowWhole(e)'
    BY <1>1, RowKept DEF StoresWhole
  <1>2. ASSUME NEW j \in Job, NEW t \in Table, Check(j, t) \/ Fetch(j, t) \/ ReadBack(j, t)
        PROVE  UNCHANGED <<state, truth, landed, doris>>
    BY <1>2 DEF Check, Fetch, ReadBack, history
  <1>3. ASSUME NEW j \in Job, NEW t \in Table, Insert(j, t) PROVE UNCHANGED <<state, truth, landed>>
    BY <1>3 DEF Insert, history
  <1>4. ASSUME NEW j \in Job, Start(j) \/ Complete(j) \/ Throw(j) \/ Replay(j)
        PROVE  UNCHANGED <<state, truth, landed, doris>>
    BY <1>4 DEF Start, Complete, Throw, Replay, history
  <1>5. ASSUME NEW j \in Job, Seed(j) PROVE RowWhole(e)'
    BY <1>5, SeedWhole
  <1>6. ASSUME NEW j \in Job, Merge(j) PROVE RowWhole(e)'
    BY <1>6, MergeWhole
  <1>7. CASE SweepDelete
    BY <1>7, DeleteWhole
  <1>8. CASE Age \/ SweepStart \/ SweepFind
    BY <1>1, <1>8 DEF Age, SweepStart, SweepFind, history
  <1>9. CASE Idle \/ UNCHANGED vars
    BY <1>1, <1>9 DEF Idle, vars, history
  <1> QED
    BY <1>1, <1>2, <1>3, <1>4, <1>5, <1>6, <1>7, <1>8, <1>9 DEF Next, JobStep

-----------------------------------------------------------------------------
(* Each step of a job keeps what the job knows right.                      *)
LEMMA StartWhole ==
    ASSUME TypeOK, Serial, Quiet, NEW j \in Job, Start(j), landed'[j] \subseteq batch'[j].touch
    PROVE  JobWhole(j)'
  <1>1. absent'[j] = {} /\ held'[j] = Nothing /\ batch' = batch
    BY DEF Start, Quiet, Active
  <1>2. PICK ts : ts = TablesOf(batch[j].touch) \cap Rehydrated
    OBVIOUS
  <1>3. \A e \in batch[j].touch : TableOf[e] \in ts
    BY <1>2 DEF Serial, TypeOK, TablesOf
  <1>4. CASE ts # {}
    <2>1. phase'[j] = "check" /\ todo'[j] = ts
      BY <1>2, <1>4, GotoWhere DEF Start
    <2> QED
      BY <1>1, <1>3, <2>1 DEF JobWhole, Looking, Nothing, Sought
  <1>5. CASE ts = {}
    <2>1. phase'[j] = "merge" /\ batch[j].touch = {}
      BY <1>2, <1>3, <1>5, GotoWhere DEF Start
    <2> QED
      BY <1>1, <2>1 DEF JobWhole, Merging
  <1> QED
    BY <1>4, <1>5

LEMMA CheckWhole ==
    ASSUME TypeOK, Quiet, NEW j \in Job, JobWhole(j), NEW t \in Table, Check(j, t)
    PROVE  JobWhole(j)'
  <1>1. phase[j] = "check" /\ t \in todo[j] /\ Looking(j) /\ batch[j].touch \subseteq Entity
    BY DEF Check, JobWhole, TypeOK
  <1>2. /\ UNCHANGED <<state, doris, truth, batch, held, landed>>
        /\ absent'[j] = absent[j] \cup {e \in Touched(j, t) : ~Present(e)}
    BY DEF Check, TypeOK, history
  <1>3. /\ \A e \in Entity : (Present(e)' <=> Present(e)) /\ (Lost(e)' <=> Lost(e))
        /\ landed'[j] \subseteq batch'[j].touch
    BY <1>2 DEF Present, Lost, JobWhole
  <1>4. \A e \in absent'[j] : ~Present(e)
    BY <1>1, <1>2 DEF Looking
  <1>5. ASSUME NEW e \in batch[j].touch, Lost(e)
        PROVE  TableOf[e] \in todo[j] \ {t} \/ e \in absent'[j]
    BY <1>1, <1>2, <1>5 DEF Looking, Sought, Touched, Lost
  <1>6. \A e \in Entity : held'[j][e] \in {{}, doris'[e]}
    BY <1>1, <1>2 DEF Looking
  <1>7. \A e \in absent'[j] : e \in Entity
    BY <1>2 DEF TypeOK, Touched
  <1>8. CASE todo[j] # {t}
    <2>1. phase'[j] = "check" /\ todo'[j] = todo[j] \ {t}
      BY <1>1, <1>8, DoneWhere DEF Check
    <2> QED
      BY <1>1, <1>2, <1>3, <1>4, <1>5, <1>6, <1>7, <2>1 DEF JobWhole, Looking, Sought
  <1>9. CASE todo[j] = {t} /\ absent'[j] = {}
    <2>1. phase'[j] = "merge" /\ todo'[j] = TablesOf(batch[j].touch)
      BY <1>9, DoneWhere DEF Check
    <2>2. \A e \in batch[j].touch : ~Lost(e)' /\ TableOf[e] \in todo'[j]
      BY <1>1, <1>3, <1>5, <1>9, <2>1 DEF TablesOf
    <2> QED
      BY <1>2, <1>3, <2>1, <2>2 DEF JobWhole, Merging
  <1>10. CASE todo[j] = {t} /\ absent'[j] # {}
    <2>1. phase'[j] = "fetch" /\ todo'[j] = TablesOf(absent'[j])
      BY <1>10, DoneWhere DEF Check
    <2>2. \A e \in batch[j].touch : Lost(e)' => e \in absent'[j] /\ TableOf[e] \in todo'[j]
      BY <1>1, <1>3, <1>5, <1>10, <2>1 DEF TablesOf
    <2> QED
      BY <1>2, <1>3, <1>4, <1>6, <1>7, <2>1, <2>2 DEF JobWhole, Looking, Sought
  <1> QED
    BY <1>8, <1>9, <1>10

LEMMA FetchWhole ==
    ASSUME TypeOK, StoresWhole, NEW j \in Job, JobWhole(j), NEW t \in Table, Fetch(j, t)
    PROVE  JobWhole(j)'
  <1>1. phase[j] = "fetch" /\ t \in todo[j] /\ Looking(j) /\ batch[j].touch \subseteq Entity
    BY DEF Fetch, JobWhole, TypeOK
  <1>2. /\ UNCHANGED <<state, doris, truth, batch, absent, landed>>
        /\ held'[j] = [e \in Entity |-> IF e \in absent[j] /\ TableOf[e] = t THEN doris[e] ELSE held[j][e]]
    BY DEF Fetch, TypeOK, history
  <1>3. /\ \A e \in Entity : (Present(e)' <=> Present(e)) /\ (Lost(e)' <=> Lost(e))
        /\ landed'[j] \subseteq batch'[j].touch
    BY <1>2 DEF Present, Lost, JobWhole
  <1>4. \A e \in absent[j] : ~Present(e) /\ e \in Entity
    BY <1>1 DEF Looking, TypeOK
  <1>5. \A e \in Entity : held'[j][e] \in {{}, doris'[e]}
    BY <1>1, <1>2 DEF Looking
  <1>6. ASSUME NEW e \in batch[j].touch, Lost(e)
        PROVE  e \in absent[j] /\ (TableOf[e] \in todo[j] \ {t} \/ held'[j][e] = doris'[e])
    BY <1>1, <1>2, <1>6 DEF Looking, Sought
  <1>7. ASSUME NEW e \in batch[j].touch, Lost(e) PROVE doris[e] # {}
    BY <1>1, <1>7 DEF StoresWhole, RowWhole, Mirrored
  <1>8. CASE todo[j] # {t}
    <2>1. phase'[j] = "fetch" /\ todo'[j] = todo[j] \ {t}
      BY <1>1, <1>8, DoneWhere DEF Fetch
    <2> QED
      BY <1>1, <1>2, <1>3, <1>4, <1>5, <1>6, <2>1 DEF JobWhole, Looking, Sought
  <1> DEFINE found == {e \in absent[j] : held'[j][e] # {}}
  <1>9. CASE todo[j] = {t} /\ found = {}
    <2>1. phase'[j] = "merge" /\ todo'[j] = TablesOf(batch[j].touch)
      BY <1>9, DoneWhere DEF Fetch
    <2>2. \A e \in batch[j].touch : ~Lost(e)' /\ TableOf[e] \in todo'[j]
      <3>1. ASSUME NEW e \in batch[j].touch, Lost(e) PROVE FALSE
        BY <1>2, <1>6, <1>7, <1>9, <3>1
      <3> QED
        BY <1>1, <1>3, <2>1, <3>1 DEF TablesOf
    <2> QED
      BY <1>2, <1>3, <2>1, <2>2 DEF JobWhole, Merging
  <1>10. CASE todo[j] = {t} /\ found # {}
    <2>1. phase'[j] = "seed" /\ todo'[j] = TablesOf(found)
      BY <1>10, DoneWhere DEF Fetch
    <2>2. ASSUME NEW e \in batch[j].touch, Lost(e)
          PROVE  e \in absent[j] /\ TableOf[e] \in todo'[j] /\ held'[j][e] = doris'[e]
      <3>1. e \in absent[j] /\ held'[j][e] = doris'[e]
        BY <1>6, <1>10, <2>2
      <3>2. e \in found
        BY <1>2, <1>7, <2>2, <3>1
      <3> QED
        BY <2>1, <3>1, <3>2 DEF TablesOf
    <2>3. todo'[j] # {}
      BY <1>10, <2>1 DEF TablesOf
    <2> QED
      BY <1>1, <1>2, <1>3, <1>4, <1>5, <2>1, <2>2, <2>3 DEF JobWhole, Looking, Sought
  <1> QED
    BY <1>8, <1>9, <1>10

LEMMA SeederWhole ==
    ASSUME TypeOK, StoresWhole, JobsWhole, [Next]_vars, NEW j \in Job, Seed(j)
    PROVE  JobWhole(j)'
  <1>1. phase[j] = "seed" /\ Looking(j) /\ landed[j] \subseteq batch[j].touch /\ batch[j].touch \subseteq Entity
    BY DEF Seed, JobsWhole, JobWhole, TypeOK
  <1>2. PICK t : t = First(todo[j]) /\ t \in todo[j]
    BY <1>1, FirstOf DEF Looking, TypeOK
  <1>3. /\ UNCHANGED <<doris, truth, batch, absent, held, landed>>
        /\ Done(j, t, "merge", TablesOf(batch[j].touch))
    BY <1>2, SeedWhole DEF Seed
  <1>4. ASSUME NEW e \in Entity, ~(e \in absent[j] /\ TableOf[e] = t /\ held[j][e] # {})
        PROVE  (Present(e)' <=> Present(e)) /\ (Lost(e)' <=> Lost(e))
    BY <1>2, <1>3, <1>4, SeedWhole DEF Present, Lost
  <1>5. ASSUME NEW e \in batch[j].touch, Lost(e)'
        PROVE  e \in absent[j] /\ TableOf[e] \in todo[j] \ {t} /\ held[j][e] = doris[e]
    <2>1. ~(e \in absent[j] /\ TableOf[e] = t /\ held[j][e] # {})
      BY <1>1, <1>2, <1>5, SeedWhole DEF Lost
    <2>2. Lost(e)
      BY <1>1, <1>4, <1>5, <2>1
    <2>3. e \in absent[j] /\ TableOf[e] \in todo[j] /\ held[j][e] = doris[e]
      BY <1>1, <2>2 DEF Looking, Sought
    <2>4. doris[e] # {}
      BY <1>1, <2>2 DEF StoresWhole, RowWhole, Mirrored
    <2> QED
      BY <2>1, <2>3, <2>4
  <1>6. ASSUME NEW e \in absent[j], TableOf[e] \in todo[j] \ {t} PROVE ~Present(e)'
    BY <1>1, <1>4, <1>6 DEF Looking, TypeOK
  <1>7. CASE todo[j] # {t}
    <2>1. phase'[j] = "seed" /\ todo'[j] = todo[j] \ {t} /\ todo'[j] # {}
      BY <1>1, <1>2, <1>3, <1>7, DoneWhere
    <2> QED
      BY <1>1, <1>3, <1>5, <1>6, <2>1 DEF JobWhole, Looking, Sought
  <1>8. CASE todo[j] = {t}
    <2>1. phase'[j] = "merge" /\ todo'[j] = TablesOf(batch[j].touch)
      BY <1>3, <1>8, DoneWhere
    <2>2. \A e \in batch[j].touch : ~Lost(e)' /\ TableOf[e] \in todo'[j]
      BY <1>5, <1>8, <2>1 DEF TablesOf
    <2> QED
      BY <1>1, <1>3, <2>1, <2>2 DEF JobWhole, Merging
  <1> QED
    BY <1>7, <1>8

LEMMA MergerWhole ==
    ASSUME TypeOK, BatchesReal, BatchValues, StoresWhole, JobsWhole, [Next]_vars, NEW j \in Job, Merge(j),
           landed'[j] \subseteq batch'[j].touch
    PROVE  JobWhole(j)'
  <1>1. phase[j] = "merge" /\ Merging(j) /\ batch[j].touch \subseteq Entity /\ batch' = batch
    BY DEF Merge, JobsWhole, JobWhole, TypeOK
  <1>2. PICK t : t = First(todo[j])
    OBVIOUS
  <1>3. Done(j, t, "read", TablesOf(batch[j].touch))
    BY <1>2 DEF Merge
  <1>4. ASSUME NEW e \in batch[j].touch
        PROVE  ~Lost(e)' /\ (Present(e)' \/ TableOf[e] \in todo[j] \ {t})
    <2>1. CASE e \in Touched(j, t)
      BY <1>1, <1>2, <2>1, MergeWhole
    <2>2. CASE e \notin Touched(j, t)
      <3>1. state'[e] = state[e] /\ truth'[e] = truth[e] /\ TableOf[e] # t
        BY <1>1, <1>2, <2>2, MergeWhole DEF Touched
      <3> QED
        BY <1>1, <3>1 DEF Merging, Present, Lost
    <2> QED
      BY <2>1, <2>2
  <1>5. CASE todo[j] # {t}
    <2>1. phase'[j] = "merge" /\ todo'[j] = todo[j] \ {t}
      BY <1>1, <1>3, <1>5, DoneWhere
    <2> QED
      BY <1>1, <1>4, <2>1 DEF JobWhole, Merging
  <1>6. CASE todo[j] = {t}
    <2>1. phase'[j] = "read" /\ todo'[j] = TablesOf(batch[j].touch)
      BY <1>3, <1>6, DoneWhere
    <2>2. \A e \in batch[j].touch : Present(e)' /\ TableOf[e] \in todo'[j]
      BY <1>4, <1>6, <2>1 DEF TablesOf
    <2> QED
      BY <1>1, <2>1, <2>2 DEF JobWhole, Mirroring
  <1> QED
    BY <1>5, <1>6

LEMMA ReaderWhole ==
    ASSUME TypeOK, NEW j \in Job, JobWhole(j), NEW t \in Table, ReadBack(j, t)
    PROVE  JobWhole(j)'
  <1>1. phase[j] = "read" /\ Mirroring(j) /\ batch[j].touch \subseteq Entity
    BY DEF ReadBack, JobWhole, TypeOK
  <1>2. /\ UNCHANGED <<state, batch, landed>>
        /\ held'[j] = [e \in Entity |->
                         IF e \in Touched(j, t) THEN {r \in {state[e]} : Present(e)} ELSE held[j][e]]
    BY DEF ReadBack, TypeOK, history
  <1>3. landed'[j] \subseteq batch'[j].touch /\ \A e \in batch[j].touch : Present(e)'
    BY <1>1, <1>2 DEF JobWhole, Mirroring, Present
  <1>4. ASSUME NEW e \in batch[j].touch
        PROVE  TableOf[e] \in todo[j] \ {t} \/ held'[j][e] = {state'[e]}
    BY <1>1, <1>2 DEF Mirroring, Touched
  <1>5. CASE todo[j] # {t}
    <2>1. phase'[j] = "read" /\ todo'[j] = todo[j] \ {t}
      BY <1>1, <1>5, DoneWhere DEF ReadBack
    <2> QED
      BY <1>2, <1>3, <1>4, <2>1 DEF JobWhole, Mirroring
  <1>6. CASE todo[j] = {t}
    <2>1. phase'[j] \in {"dispatch", "insert"}
      <3>1. \E p \in {"dispatch", "insert"} : \E ts : Done(j, t, p, ts)
        <4> DEFINE found == {e \in batch[j].touch : held'[j][e] # {}}
        <4>1. CASE found = {}
          BY <4>1 DEF ReadBack
        <4>2. CASE found # {}
          BY <4>2 DEF ReadBack
        <4> QED
          BY <4>1, <4>2
      <3> QED
        BY <1>6, <3>1, DoneWhere
    <2>2. \A e \in batch[j].touch : held'[j][e] = {state'[e]}
      BY <1>4, <1>6
    <2> QED
      BY <1>2, <1>3, <2>1, <2>2 DEF JobWhole, Mirroring
  <1> QED
    BY <1>5, <1>6

LEMMA InserterWhole ==
    ASSUME TypeOK, NEW j \in Job, JobWhole(j), NEW t \in Table, Insert(j, t)
    PROVE  JobWhole(j)'
  <1>1. phase[j] = "insert" /\ Mirroring(j) /\ UNCHANGED <<state, batch, held, landed>>
    BY DEF Insert, JobWhole, history
  <1>2. phase'[j] \in {"insert", "dispatch"}
    BY <1>1, DoneWhere DEF Insert
  <1> QED
    BY <1>1, <1>2 DEF JobWhole, Mirroring, Present

LEMMA LandedTouched ==
    ASSUME TypeOK, JobsWhole, [Next]_vars, NEW j \in Job
    PROVE  landed'[j] \subseteq batch'[j].touch
  <1>1. landed[j] \subseteq batch[j].touch /\ batch' = batch
    BY StepBounds DEF JobsWhole, JobWhole
  <1>2. CASE landed'[j] = landed[j]
    BY <1>1, <1>2
  <1>3. CASE Merge(j)
    BY <1>1, <1>3 DEF Merge, TypeOK, Touched
  <1> QED
    BY <1>2, <1>3, LandedWhere

LEMMA JobsStep ==
    ASSUME TypeOK, Serial, BatchesReal, BatchValues, LoneRunner, Quiet, SweptApart,
           StoresWhole, JobsWhole, [Next]_vars
    PROVE  JobsWhole'
  <1> SUFFICES ASSUME NEW k \in Job PROVE JobWhole(k)'
    BY DEF JobsWhole
  <1>1. JobWhole(k) /\ landed'[k] \subseteq batch'[k].touch
    BY LandedTouched DEF JobsWhole
  <1>2. CASE phase'[k] \notin Active
    <2>1. phase'[k] \notin {"check", "fetch", "seed", "merge", "read", "insert"}
      BY <1>2 DEF Active
    <2> QED
      BY <1>1, <2>1 DEF JobWhole
  <1>3. ASSUME UNCHANGED <<state, doris, truth, batch>>,
               phase'[k] = phase[k] /\ todo'[k] = todo[k] /\ absent'[k] = absent[k] /\ held'[k] = held[k]
        PROVE  JobWhole(k)'
    BY <1>1, <1>3 DEF JobWhole, Looking, Merging, Mirroring, Sought, Present, Lost
  <1>4. ASSUME JobStep(k) PROVE JobWhole(k)'
    <2>1. CASE Start(k)
      BY <1>1, <2>1, StartWhole
    <2>2. ASSUME NEW t \in Table, Check(k, t) \/ Fetch(k, t) \/ ReadBack(k, t) \/ Insert(k, t)
          PROVE  JobWhole(k)'
      BY <1>1, <2>2, CheckWhole, FetchWhole, ReaderWhole, InserterWhole
    <2>3. CASE Seed(k) \/ Merge(k)
      BY <1>1, <2>3, SeederWhole, MergerWhole
    <2>4. CASE Complete(k)
      <3>1. phase'[k] = "done"
        BY <2>4, GotoWhere DEF Complete
      <3> QED
        BY <1>2, <3>1 DEF Active
    <2> QED
      BY <1>4, <2>1, <2>2, <2>3, <2>4 DEF JobStep
  <1>5. ASSUME Throw(k) \/ Replay(k) PROVE JobWhole(k)'
    <2>1. phase'[k] \in {"ready", "dead"}
      BY <1>5, GotoWhere DEF Throw, AfterThrow, Replay
    <2> QED
      BY <1>2, <2>1 DEF Active
  <1>6. ASSUME NEW j \in Job \ {k}, JobStep(j) \/ Throw(j) \/ Replay(j) PROVE JobWhole(k)'
    <2>1. phase'[k] = phase[k] /\ todo'[k] = todo[k] /\ absent'[k] = absent[k] /\ held'[k] = held[k]
      BY <1>6, OthersRest
    <2>2. CASE phase[k] \in Active
      <3>1. Replay(j)
        BY <1>6, <2>2, Alone
      <3>2. UNCHANGED <<state, doris, truth, batch>>
        BY <3>1 DEF Replay, history
      <3> QED
        BY <1>3, <2>1, <3>2
    <2> QED
      BY <1>2, <2>1, <2>2
  <1>7. CASE Age \/ SweepStart \/ SweepFind
    BY <1>3, <1>7 DEF Age, SweepStart, SweepFind, jobVars, history
  <1>8. CASE SweepDelete
    <2>1. Settled /\ UNCHANGED phase
      BY <1>8 DEF SweptApart, SweepDelete, jobVars
    <2> QED
      BY <1>2, <2>1 DEF Settled, Active
  <1>9. CASE Idle \/ UNCHANGED vars
    BY <1>3, <1>9 DEF Idle, vars, jobVars, history
  <1> QED
    BY <1>4, <1>5, <1>6, <1>7, <1>8, <1>9 DEF Next

Whole == BatchesReal /\ BatchValues /\ LoneRunner /\ Quiet /\ SweptApart /\ StoresWhole /\ JobsWhole

LEMMA InitWhole == Init => Whole
  <1> SUFFICES ASSUME Init PROVE Whole
    OBVIOUS
  <1>1. BatchesReal /\ BatchValues
    BY InitInv, InitMerges DEF IInv
  <1>2. /\ state = [e \in Entity |-> NoRow] /\ truth = state /\ doris = Nothing
        /\ phase = [j \in Job |-> "ready"] /\ landed = [j \in Job |-> {}]
        /\ sweep = 0 /\ page = {}
        /\ absent = [j \in Job |-> {}] /\ held = [j \in Job |-> Nothing]
    BY DEF Init
  <1>3. LoneRunner /\ Quiet /\ SweptApart
    BY <1>2 DEF LoneRunner, Running, Active, Quiet, SweptApart
  <1>4. StoresWhole
    BY <1>2 DEF StoresWhole, RowWhole, Present, Lost, NoRow, Nothing
  <1>5. JobsWhole
    BY <1>2 DEF JobsWhole, JobWhole
  <1> QED
    BY <1>1, <1>3, <1>4, <1>5 DEF Whole

LEMMA WholeStep ==
    ASSUME TypeOK, Serial, Whole, [Next]_vars, SweepsApart \/ UNCHANGED vars
    PROVE  Whole'
  <1>1. BatchesReal' /\ BatchValues'
    BY StepBounds DEF Whole, BatchesReal, BatchValues
  <1>2. LoneRunner' /\ Quiet' /\ SweptApart'
    BY LoneStep, QuietStep, SweptStep DEF Whole
  <1>3. StoresWhole' /\ JobsWhole'
    BY StoresStep, JobsStep DEF Whole
  <1> QED
    BY <1>1, <1>2, <1>3 DEF Whole

LEMMA WholeConverges ==
    ASSUME TypeOK, Whole
    PROVE  Converged
  <1> SUFFICES ASSUME Settled, NEW e \in Entity, truth[e].ver # 0 PROVE ConvergedFor(e)
    BY DEF Converged, ConvergedFor
  <1>1. RowWhole(e) /\ truth[e] \in Row
    BY DEF Whole, StoresWhole, TypeOK
  <1>2. Mirrored(e)
    <2>1. CASE Present(e)
      BY <1>1, <2>1, NoneInHand DEF RowWhole
    <2>2. CASE ~Present(e)
      BY <1>1, <2>2 DEF RowWhole, Lost
    <2> QED
      BY <2>1, <2>2
  <1> QED
    BY <1>1, <1>2, MirroredShows

(* With one job at a time and sweeps apart from jobs, once the jobs have   *)
(* settled the mirror has exactly one row for every entity merged, and it  *)
(* is everything that was merged, across failures, replays, sweeps and the *)
(* seeds that bring a pruned row back (rehydrateStates, pruneMutableState);*)
(* only the columns a trace's lookup leaves out may be blank after a seed. *)
THEOREM ConvergesSerially == Serial /\ Spec /\ [][SweepsApart]_vars => []Converged
  <1>1. Init => Whole
    BY InitWhole
  <1>2. TypeOK /\ Serial /\ Whole /\ [Next]_vars /\ [SweepsApart]_vars => Whole'
    BY WholeStep
  <1>3. TypeOK /\ Whole => Converged
    BY WholeConverges
  <1>4. Serial => Serial'
    BY DEF Serial
  <1> QED
    BY <1>1, <1>2, <1>3, <1>4, TypeCorrect, PTL DEF Spec

-----------------------------------------------------------------------------
(* Erasures.                                                               *)

(* Job k wrote a field of a row that entity e has somewhere: in Postgres,  *)
(* in the mirror or in the memory of a job.                                *)
Bears(e, k) ==
    \/ \E f \in Field : state[e].field[f] = k
    \/ \E r \in doris[e] : \E f \in Field : r.field[f] = k
    \/ \E j \in Job : \E r \in held[j][e] : \E f \in Field : r.field[f] = k

(* What a batch carries is its job's, and only a running job holds rows.   *)
BatchOwn == \A j \in Job : \A f \in Field : batch[j].row.field[f] \in {j, None}
IdleHoldsNothing == \A j \in Job : phase[j] \notin Active => held[j] = Nothing

IngestInv == TypeOK /\ AttemptsLeft /\ BatchOwn /\ IdleHoldsNothing

-----------------------------------------------------------------------------
(* What the steps of MutableState do to an entity's values.                *)
LEMMA SeedFields ==
    ASSUME NEW e, NEW row, NEW rows, NEW new \in SeedResults(e, row, rows)
    PROVE  \A f \in Field : new.field[f] = row.field[f] \/ \E r \in rows : new.field[f] = r.field[f]
  BY DEF SeedResults

LEMMA MirrorValues ==
    ASSUME NEW row \in Row, NEW f \in Field, NEW k \in Job, Mirror(row).field[f] = k
    PROVE  row.field[f] = k
  BY ValueAssumption DEF Mirror, Row, Coalesce

LEMMA UpsertValues ==
    ASSUME NEW row \in Row, NEW patch \in Row, NEW f \in Field
    PROVE  Upsert(row, patch).field[f] \in {patch.field[f], row.field[f]}
  BY DEF Upsert, Row, Coalesce

(* A value reaches an entity only from a place where the entity had it, or *)
(* from the running job that writes it.                                    *)
LEMMA Sources ==
    ASSUME IngestInv, [Next]_vars, NEW e \in Entity, NEW k \in Job, Bears(e, k)'
    PROVE  Bears(e, k) \/ phase[k] \in Active
  <1> SUFFICES ASSUME ~Bears(e, k) PROVE phase[k] \in Active
    OBVIOUS
  <1>0. TypeOK /\ BatchOwn
    BY DEF IngestInv
  <1>1. ASSUME UNCHANGED <<state, doris>>,
               \A j \in Job : held'[j][e] \subseteq held[j][e] \cup doris[e] \cup {state[e]}
        PROVE  FALSE
    BY <1>1 DEF Bears
  <1>2. CASE UNCHANGED <<state, doris, held>>
    BY <1>1, <1>2
  <1>3. ASSUME NEW j \in Job, UNCHANGED <<state, doris>>, Forget(j) PROVE FALSE
    <2>1. \A i \in Job : held'[i][e] \subseteq held[i][e]
      BY <1>0, <1>3 DEF Forget, Nothing, TypeOK
    <2> QED
      BY <1>1, <1>3, <2>1
  <1>4. ASSUME NEW j \in Job, NEW t \in Table, Fetch(j, t) \/ ReadBack(j, t) PROVE FALSE
    <2>1. ASSUME NEW i \in Job PROVE held'[i][e] \subseteq held[i][e] \cup doris[e] \cup {state[e]}
      <3>1. CASE i # j
        BY <1>0, <1>4, <3>1 DEF Fetch, ReadBack, TypeOK
      <3>2. CASE i = j /\ Fetch(j, t)
        <4>1. held'[j][e] \in {doris[e], held[j][e]}
          BY <1>0, <3>2 DEF Fetch, TypeOK
        <4> QED
          BY <3>2, <4>1
      <3>3. CASE i = j /\ ReadBack(j, t)
        <4>1. held'[j][e] \in {{r \in {state[e]} : Present(e)}, held[j][e]}
          BY <1>0, <3>3 DEF ReadBack, TypeOK
        <4> QED
          BY <3>3, <4>1
      <3> QED
        BY <1>4, <3>1, <3>2, <3>3
    <2> QED
      BY <1>1, <1>4, <2>1 DEF Fetch, ReadBack
  <1>5. ASSUME NEW j \in Job, NEW t \in Table, Insert(j, t) PROVE FALSE
    <2>1. UNCHANGED <<state, held>>
      BY <1>5 DEF Insert
    <2>2. PICK r \in doris'[e] : \E f \in Field : r.field[f] = k
      BY <2>1 DEF Bears
    <2>3. r \notin doris[e]
      BY <2>2 DEF Bears
    <2> DEFINE h == CHOOSE q \in held[j][e] : TRUE
    <2>4. e \in Touched(j, t) /\ held[j][e] # {}
      BY <1>5, <2>2, <2>3 DEF Insert
    <2>5. doris'[e] = Load(doris[e], Mirror(h))
      BY <1>5, <2>4 DEF Insert
    <2>6. r = Mirror(h)
      BY <2>2, <2>3, <2>5, LoadRows
    <2>7. h \in held[j][e] /\ h \in Row
      BY <1>0, <2>4 DEF TypeOK
    <2> HIDE DEF h
    <2>8. \E f \in Field : h.field[f] = k
      BY <2>2, <2>6, <2>7, MirrorValues
    <2> QED
      BY <2>7, <2>8 DEF Bears
  <1>6. ASSUME NEW j \in Job, Seed(j) PROVE FALSE
    <2> DEFINE found == {d \in absent[j] : TableOf[d] = First(todo[j]) /\ held[j][d] # {}}
    <2>1. PICK rows \in [found -> UNION {SeedResults(d, state[d], held[j][d]) : d \in found}] :
            /\ \A d \in found : rows[d] \in SeedResults(d, state[d], held[j][d])
            /\ Commit(rows)
      BY <1>6 DEF Seed
    <2>2. UNCHANGED <<doris, held>>
      BY <1>6 DEF Seed
    <2>3. PICK f \in Field : state'[e].field[f] = k
      BY <2>2 DEF Bears
    <2>4. state'[e] # state[e]
      BY <2>3 DEF Bears
    <2>5. e \in found /\ state'[e] = rows[e]
      BY <2>1, <2>4 DEF Commit
    <2>6. \/ rows[e].field[f] = state[e].field[f]
          \/ \E r \in held[j][e] : rows[e].field[f] = r.field[f]
      BY <2>1, <2>5, SeedFields
    <2> QED
      BY <2>3, <2>5, <2>6 DEF Bears
  <1>7. ASSUME NEW j \in Job, Merge(j) PROVE phase[k] \in Active
    <2>1. UNCHANGED <<doris, held>> /\ phase[j] = "merge"
      BY <1>7 DEF Merge
    <2>2. PICK f \in Field : state'[e].field[f] = k
      BY <2>1 DEF Bears
    <2>3. state'[e] # state[e]
      BY <2>2 DEF Bears
    <2>4. state'[e] = Upsert(state[e], batch[j].row)
      BY <1>7, <2>3 DEF Merge, Commit
    <2>5. state[e] \in Row /\ batch[j].row \in Row
      BY <1>0 DEF TypeOK
    <2>6. k = batch[j].row.field[f]
      BY <2>2, <2>4, <2>5, UpsertValues DEF Bears
    <2>7. k = j
      BY <1>0, <2>6, ValueAssumption DEF BatchOwn
    <2> QED
      BY <2>1, <2>7 DEF Active
  <1>8. CASE SweepDelete
    <2>1. UNCHANGED <<doris, held>>
      BY <1>8 DEF SweepDelete, jobVars
    <2>2. \A f \in Field : state'[e].field[f] = k => state[e].field[f] = k
      BY <1>8, ValueAssumption DEF SweepDelete, NoRow
    <2> QED
      BY <2>1, <2>2 DEF Bears
  <1> QED
    BY <1>2, <1>3, <1>4, <1>5, <1>6, <1>7, <1>8
    DEF Next, JobStep, Start, Check, Complete, Throw, Replay, Age, SweepStart, SweepFind, Idle,
        vars, jobVars

-----------------------------------------------------------------------------
(* Every step of ingest is one of MutableState.                            *)
LEMMA IngestSteps == Ingest \/ (\E j \in Job : Offload(j)) => Next
  BY DEF Ingest, Offload, Next, JobStep

LEMMA KeepsIdle ==
    ASSUME TypeOK, IdleHoldsNothing, NEW j \in Job,
           \A k \in Job : k # j => phase'[k] = phase[k] /\ held'[k] = held[k],
           phase'[j] \in Active \/ held'[j] = Nothing
    PROVE  IdleHoldsNothing'
  <1>1. Nothing' = Nothing /\ Active' = Active
    BY DEF Nothing, Active
  <1> QED
    BY <1>1 DEF IdleHoldsNothing

LEMMA NextIngestInv ==
    ASSUME IngestInv, [Next]_vars
    PROVE  IngestInv'
  <1>0. TypeOK /\ AttemptsLeft /\ BatchOwn /\ IdleHoldsNothing
    BY DEF IngestInv
  <1>1. TypeOK' /\ AttemptsLeft'
    BY <1>0, NextTypes, AttemptsStep
  <1>2. BatchOwn'
    <2>1. UNCHANGED batch
      BY StepBounds
    <2> QED
      BY <1>0, <2>1 DEF BatchOwn
  <1>3. IdleHoldsNothing'
    <2>1. ASSUME NEW j \in Job, JobStep(j) \/ Throw(j) \/ Replay(j) PROVE IdleHoldsNothing'
      <3>1. \A k \in Job : k # j => phase'[k] = phase[k]
        BY <1>0, <2>1, OthersStay
      <3>2. \A k \in Job : k # j => held'[k] = held[k]
        BY <1>0, <2>1 DEF TypeOK, JobStep, Start, Check, Fetch, Seed, Merge, ReadBack, Insert, Complete,
                          Throw, Replay, Forget
      <3>3. CASE Complete(j) \/ Throw(j)
        <4>1. held'[j] = Nothing
          BY <1>0, <3>3 DEF TypeOK, Complete, Throw, Forget
        <4> QED
          BY <1>0, <3>1, <3>2, <4>1, KeepsIdle
      <3>4. CASE Replay(j)
        <4>1. held'[j] = Nothing
          BY <1>0, <3>4 DEF IdleHoldsNothing, Replay, Active
        <4> QED
          BY <1>0, <3>1, <3>2, <4>1, KeepsIdle
      <3>5. CASE Start(j)
        <4>1. phase'[j] \in Active
          BY <1>0, <3>5 DEF TypeOK, Start, Goto, Active
        <4> QED
          BY <1>0, <3>1, <3>2, <4>1, KeepsIdle
      <3>6. ASSUME NEW t \in Table, Check(j, t) \/ Fetch(j, t) \/ ReadBack(j, t) \/ Insert(j, t)
            PROVE  IdleHoldsNothing'
        <4>1. phase'[j] \in Active
          BY <1>0, <3>6 DEF TypeOK, Check, Fetch, ReadBack, Insert, Done, Goto, Active
        <4> QED
          BY <1>0, <3>1, <3>2, <4>1, KeepsIdle
      <3>7. CASE Seed(j) \/ Merge(j)
        <4>1. phase'[j] \in Active
          BY <1>0, <3>7 DEF TypeOK, Seed, Merge, Done, Goto, Active
        <4> QED
          BY <1>0, <3>1, <3>2, <4>1, KeepsIdle
      <3> QED
        BY <2>1, <3>3, <3>4, <3>5, <3>6, <3>7 DEF JobStep
    <2>2. CASE UNCHANGED <<phase, held>>
      BY <1>0, <2>2 DEF IdleHoldsNothing, Nothing
    <2> QED
      BY <2>1, <2>2 DEF Next, Age, SweepStart, SweepFind, SweepDelete, Idle, vars, jobVars
  <1> QED
    BY <1>1, <1>2, <1>3 DEF IngestInv

(* Only Offload sets a job going.                                          *)
LEMMA Wakes ==
    ASSUME TypeOK, Ingest, NEW k \in Job, phase'[k] \in Active
    PROVE  phase[k] \in Active
  <1>1. ASSUME NEW j \in Job,
               \/ \E t \in Table : Check(j, t) \/ Fetch(j, t) \/ ReadBack(j, t) \/ Insert(j, t)
               \/ Seed(j) \/ Merge(j) \/ Complete(j) \/ Throw(j)
        PROVE  phase[k] \in Active
    <2>1. phase[j] \in Active
      BY <1>1 DEF Check, Fetch, Seed, Merge, ReadBack, Insert, Complete, Throw, Active
    <2>2. k # j => phase'[k] = phase[k]
      BY <1>1, OthersStay DEF JobStep
    <2> QED
      BY <2>1, <2>2
  <1>2. ASSUME NEW j \in Job, Replay(j) PROVE phase[k] \in Active
    BY <1>2 DEF TypeOK, Replay, Goto, Active
  <1>3. CASE Age \/ SweepStart \/ SweepFind \/ SweepDelete \/ Idle
    BY <1>3 DEF Age, SweepStart, SweepFind, SweepDelete, Idle, vars, jobVars
  <1> QED
    BY <1>1, <1>2, <1>3 DEF Ingest

(* While no job runs, the mirror rests, and Postgres but for the sweep.    *)
LEMMA AtRest ==
    ASSUME TypeOK, Ingest, Running = {}
    PROVE  /\ Running' = {}
           /\ UNCHANGED <<doris, held>>
           /\ \A e \in Entity : state'[e] \in {state[e], NoRow}
  <1>1. Running' = {}
    BY Wakes DEF Running, Active
  <1>2. \A j \in Job : phase[j] \notin Active
    BY DEF Running
  <1>3. \/ \E j \in Job : Replay(j)
        \/ Age \/ SweepStart \/ SweepFind \/ SweepDelete \/ Idle
    BY <1>2 DEF Ingest, Check, Fetch, Seed, Merge, ReadBack, Insert, Complete, Throw, Active
  <1>4. UNCHANGED <<doris, held>>
    BY <1>3 DEF Replay, Age, SweepStart, SweepFind, SweepDelete, Idle, vars, jobVars
  <1>5. \A e \in Entity : state'[e] \in {state[e], NoRow}
    BY <1>3 DEF Replay, Age, SweepStart, SweepFind, SweepDelete, Idle, vars, jobVars
  <1> QED
    BY <1>1, <1>4, <1>5

-----------------------------------------------------------------------------
(* Unless a job met the removal: no job runs while rows are removed, and   *)
(* what the erasure has passed is empty.                                   *)
Unmet(places) == met \cap places = {}

Removing ==
    /\ op.at \in {"rows", "user rows"} => op.table \in Table
    /\ op.at = "rows" /\ Unmet({"rows", "states"}) =>
          Running = {} /\ \A e \in Of(op.ids) : TableOf[e] < op.table => doris[e] = {}
    /\ op.at = "states" /\ Unmet({"rows", "states"}) =>
          Running = {} /\ \A e \in Of(op.ids) : doris[e] = {}
    /\ op.at = "objects" /\ Unmet({"rows", "states", "objects"}) =>
          Running = {} /\ \A e \in Of(op.ids) : \A k \in Job : ~Bears(e, k)

(* A value that is erased for good is nowhere, and its job does not run.   *)
GoneForGood ==
    \A e \in Entity : \A k \in gone[e] : phase[k] \notin Active /\ ~Bears(e, k)

(* A running job has offloaded its payloads, and every reference leads to  *)
(* one that is there or went with another trace.                           *)
PayloadsKept ==
    Unmet({"rows", "states", "objects"}) =>
        /\ \A k \in Job : phase[k] \in Active => k \in objects
        /\ \A e \in Entity : \A k \in Job : Bears(e, k) => k \in objects \cup robbed[e]

(* No row of the mirror names the user in a trace the sweep has passed.    *)
UnnamedIn(t) == \A r \in doris[t] : ~UserOf(r)
UserPlaces == {"sweep", "user rows", "user states"}

Forgetting ==
    /\ op.at = "user rows" /\ Unmet(UserPlaces) =>
          /\ Running = {}
          /\ \A t \in Traces : t \notin op.ids \/ op.table # 1 => UnnamedIn(t)
    /\ op.at = "user states" /\ Unmet(UserPlaces) =>
          Running = {} /\ \A t \in Traces : UnnamedIn(t)
    /\ forgotten =>
          Running = {} /\ \A t \in Traces : UnnamedIn(t) /\ ~UserOf(state[t])

TraceIds == \A t \in Traces : traceOf[t] = t

DInv ==
    /\ DeletionTypeOK /\ IngestInv /\ TraceIds
    /\ Removing /\ GoneForGood /\ PayloadsKept /\ Forgetting

-----------------------------------------------------------------------------
(* An erasure only takes away, and leaves the jobs alone.                  *)
LEMMA NoRowIsRow == NoRow \in Row
  BY BoundAssumption DEF NoRow, Row, Version

LEMMA ErasureFrame ==
    ASSUME DeletionTypeOK, Erasure
    PROVE  /\ UNCHANGED ingestVars
           /\ state' \in [Entity -> Row] /\ doris' \in [Entity -> SUBSET Row] /\ old' \subseteq Entity
           /\ \A e \in Entity : state'[e] \in {state[e], NoRow}
           /\ \A e \in Entity : doris'[e] \in {doris[e], {}}
           /\ met \subseteq met'
  <1>0. /\ state \in [Entity -> Row] /\ doris \in [Entity -> SUBSET Row] /\ old \subseteq Entity
    BY DEF DeletionTypeOK, TypeOK
  <1>1. CASE UNCHANGED <<state, doris, old, ingestVars>> /\ (\E p \in Places : \E h : Enter(p, h))
    BY <1>0, <1>1 DEF Enter
  <1>2. ASSUME NEW p \in {"rows", "user rows"}, NEW n \in {"states", "user states"}, DeleteRows(p, n)
        PROVE  /\ UNCHANGED <<state, old, ingestVars>>
               /\ doris' \in [Entity -> SUBSET Row]
               /\ \A e \in Entity : doris'[e] \in {doris[e], {}}
               /\ met \subseteq met'
    BY <1>0, <1>2 DEF DeleteRows, Enter
  <1>3. ASSUME NEW E, Remove(E)
        PROVE  /\ state' \in [Entity -> Row] /\ old' \subseteq Entity
               /\ \A e \in Entity : state'[e] \in {state[e], NoRow}
    BY <1>0, <1>3, NoRowIsRow DEF Remove
  <1>4. CASE DeleteStates \/ DeleteUserStates
    <2>1. UNCHANGED <<doris, ingestVars>> /\ met \subseteq met'
      BY <1>4 DEF DeleteStates, DeleteUserStates, Enter
    <2>2. \E E : Remove(E)
      BY <1>4 DEF DeleteStates, DeleteUserStates
    <2> QED
      BY <1>0, <1>3, <2>1, <2>2
  <1>5. ASSUME NEW t \in Traces, EraseTrace(t)
        PROVE UNCHANGED <<state, doris, old, ingestVars>> /\ (\E p \in Places : \E h : Enter(p, h))
    BY <1>5 DEF EraseTrace, Begin, Places
  <1>6. CASE EraseUser \/ ListUser \/ TraceRefs \/ SpanRefs \/ DeleteObject \/ Erased \/ SweepUser
             \/ EraseThrows
    <2>1. UNCHANGED <<state, doris, old, ingestVars>>
      BY <1>6 DEF EraseUser, Begin, ListUser, TraceRefs, SpanRefs, DeleteObject, Erased, SweepUser,
                  EraseThrows
    <2>2. \E p \in Places : \E h : Enter(p, h)
      BY <1>6 DEF EraseUser, Begin, ListUser, TraceRefs, SpanRefs, DeleteObject, Erased, SweepUser,
                  EraseThrows, Places
    <2> QED
      BY <1>1, <2>1, <2>2
  <1> QED
    BY <1>0, <1>1, <1>2, <1>4, <1>5, <1>6 DEF Erasure

LEMMA ErasureBears ==
    ASSUME DeletionTypeOK, Erasure, NEW e \in Entity, NEW k \in Job, Bears(e, k)'
    PROVE  Bears(e, k)
  <1>1. /\ state'[e] \in {state[e], NoRow} /\ doris'[e] \in {doris[e], {}}
        /\ UNCHANGED held
    BY ErasureFrame DEF ingestVars, jobVars
  <1>2. \A f \in Field : NoRow.field[f] # k
    BY ValueAssumption DEF NoRow
  <1> QED
    BY <1>1, <1>2 DEF Bears

LEMMA ErasureIngest ==
    ASSUME DeletionTypeOK, IngestInv, Erasure
    PROVE  IngestInv' /\ Running' = Running
  <1>1. /\ UNCHANGED ingestVars
        /\ state' \in [Entity -> Row] /\ doris' \in [Entity -> SUBSET Row] /\ old' \subseteq Entity
    BY ErasureFrame
  <1>2. UNCHANGED <<batch, phase, todo, absent, held, attempts, sweep, page, sweeps, replays,
                    landed, truth, late, reverted, reseeded>>
    BY <1>1 DEF ingestVars, jobVars, sweepVars, history
  <1>3. TypeOK'
    BY <1>1, <1>2 DEF IngestInv, TypeOK, Active
  <1>4. AttemptsLeft' /\ BatchOwn' /\ IdleHoldsNothing' /\ Running' = Running
    BY <1>2 DEF IngestInv, AttemptsLeft, BatchOwn, IdleHoldsNothing, Nothing, Running, Active
  <1> QED
    BY <1>3, <1>4 DEF IngestInv

(* The types of the erasure.                                               *)
Operation == [user : BOOLEAN, at : Places, ids : SUBSET Traces, table : 0 .. 3, keys : SUBSET Job]

LEMMA EnterTypes ==
    ASSUME NEW p \in Places, NEW h \in Operation, Enter(p, h), met \subseteq Places
    PROVE  op' \in Operation /\ met' \subseteq Places
  BY DEF Enter, Operation

LEMMA ErasureTypes ==
    ASSUME DeletionTypeOK, IngestInv, Erasure
    PROVE  DeletionTypeOK'
  <1>0. /\ op \in Operation /\ NoErasure \in Operation /\ met \subseteq Places
        /\ erasures \in 0 .. MaxErasures /\ objects \subseteq Job
        /\ gone \in [Entity -> SUBSET Job] /\ robbed \in [Entity -> SUBSET Job] /\ forgotten \in BOOLEAN
    <2>1. "idle" \in Places
      BY DEF Places
    <2>2. NoErasure \in Operation
      BY <2>1 DEF NoErasure, Operation
    <2> QED
      BY <2>2 DEF DeletionTypeOK, Operation
  <1>1. TypeOK'
    BY ErasureIngest DEF IngestInv
  <1>2. traceOf' \in [Entity -> Entity]
    BY ErasureFrame DEF DeletionTypeOK, ingestVars
  <1>3. /\ op' \in Operation /\ met' \subseteq Places
    <2>0. {"idle", "list", "refs", "spans", "rows", "states", "objects", "sweep", "user rows",
           "user states"} \subseteq Places
      BY DEF Places
    <2>1. ASSUME NEW p \in Places, NEW h \in Operation, Enter(p, h)
          PROVE  op' \in Operation /\ met' \subseteq Places
      BY <1>0, <2>1, EnterTypes
    <2>2. UserTraces \subseteq Traces /\ \A E : RefsOf(E) \subseteq Job
      BY DEF UserTraces, RefsOf, Values
    <2>a. ASSUME NEW h \in Operation, NEW I \in SUBSET Traces, NEW K \in SUBSET Job, NEW n \in 0 .. 3
          PROVE  /\ [h EXCEPT !.ids = I] \in Operation
                 /\ [h EXCEPT !.user = TRUE] \in Operation
                 /\ [h EXCEPT !.keys = K] \in Operation
                 /\ [h EXCEPT !.table = n] \in Operation
                 /\ [h EXCEPT !.ids = I, !.table = n] \in Operation
                 /\ [h EXCEPT !.keys = K, !.table = n] \in Operation
      BY DEF Operation
    <2>b. /\ 0 \in 0 .. 3 /\ 1 \in 0 .. 3
          /\ op.table # 3 => op.table + 1 \in 0 .. 3
          /\ op.keys \in SUBSET Job
      BY <1>0 DEF Operation
    <2>3. /\ \A t \in Traces : [NoErasure EXCEPT !.ids = {t}] \in Operation
          /\ [NoErasure EXCEPT !.user = TRUE] \in Operation
          /\ [op EXCEPT !.ids = UserTraces] \in Operation
          /\ [op EXCEPT !.ids = UserTraces, !.table = 1] \in Operation
          /\ \A K \in SUBSET Job : [op EXCEPT !.keys = K] \in Operation
          /\ \A K \in SUBSET Job : [op EXCEPT !.keys = K, !.table = 1] \in Operation
          /\ [op EXCEPT !.table = 0] \in Operation
          /\ op.table # 3 => [op EXCEPT !.table = op.table + 1] \in Operation
          /\ op.keys \in SUBSET Job
      BY <1>0, <2>2, <2>a, <2>b
    <2>4. CASE EraseUser \/ \E t \in Traces : EraseTrace(t)
      BY <2>0, <2>1, <2>3, <2>4 DEF EraseUser, EraseTrace, Begin
    <2>5. CASE ListUser
      BY <1>0, <2>0, <2>1, <2>3, <2>5 DEF ListUser
    <2>6. CASE TraceRefs
      BY <2>0, <2>1, <2>2, <2>3, <2>6 DEF TraceRefs
    <2>7. CASE SpanRefs
      <3>1. PICK E : Enter("rows", [op EXCEPT !.keys = @ \cup RefsOf(E), !.table = 1])
        BY <2>7 DEF SpanRefs
      <3>2. op.keys \cup RefsOf(E) \in SUBSET Job
        BY <2>2, <2>3
      <3>3. [op EXCEPT !.keys = @ \cup RefsOf(E), !.table = 1] \in Operation
        BY <2>3, <3>2
      <3> QED
        BY <2>0, <2>1, <3>1, <3>3
    <2>8. ASSUME NEW p \in {"rows", "user rows"}, NEW n \in {"states", "user states"}, DeleteRows(p, n)
          PROVE  op' \in Operation /\ met' \subseteq Places
      BY <2>0, <2>1, <2>3, <2>8 DEF DeleteRows
    <2>9. CASE DeleteStates \/ DeleteUserStates \/ EraseThrows \/ Erased
      BY <1>0, <2>0, <2>1, <2>9 DEF DeleteStates, DeleteUserStates, EraseThrows, Erased
    <2>10. CASE DeleteObject
      <3>1. PICK k \in op.keys : Enter("objects", [op EXCEPT !.keys = @ \ {k}])
        BY <2>10 DEF DeleteObject
      <3>2. [op EXCEPT !.keys = @ \ {k}] \in Operation
        BY <2>3
      <3> QED
        BY <2>0, <2>1, <3>1, <3>2
    <2>11. CASE SweepUser
      BY <1>0, <2>0, <2>1, <2>3, <2>11 DEF SweepUser
    <2> QED
      BY <2>4, <2>5, <2>6, <2>7, <2>8, <2>9, <2>10, <2>11 DEF Erasure
  <1>4. erasures' \in 0 .. MaxErasures
    <2>1. erasures' = erasures \/ (erasures < MaxErasures /\ erasures' = erasures + 1)
      BY DEF Erasure, EraseTrace, EraseUser, Begin, ListUser, TraceRefs, SpanRefs, DeleteRows, DeleteStates,
             DeleteObject, Erased, SweepUser, DeleteUserStates, EraseThrows
    <2> QED
      BY <1>0, <2>1, DeletionAssumption
  <1>5. objects' \subseteq Job /\ robbed' \in [Entity -> SUBSET Job]
    <2>1. CASE DeleteObject
      <3>1. PICK k \in op.keys :
              /\ objects' \in {objects, objects \ {k}}
              /\ robbed' = [e \in Entity |->
                              IF e \notin Of(op.ids) /\ k \notin objects' /\ k \in ValuesOf(e)
                              THEN robbed[e] \cup {k} ELSE robbed[e]]
        BY <2>1 DEF DeleteObject
      <3>2. k \in Job
        BY <1>0 DEF Operation
      <3> QED
        BY <1>0, <3>1, <3>2
    <2>2. CASE UNCHANGED <<objects, robbed>>
      BY <1>0, <2>2
    <2> QED
      BY <2>1, <2>2 DEF Erasure, EraseTrace, EraseUser, Begin, ListUser, TraceRefs, SpanRefs, DeleteRows,
                        DeleteStates, Erased, SweepUser, DeleteUserStates, EraseThrows
  <1>6. gone' \in [Entity -> SUBSET Job] /\ forgotten' \in BOOLEAN
    <2>1. CASE DeleteStates
      BY <1>0, <2>1 DEF DeleteStates
    <2>2. CASE DeleteUserStates
      BY <1>0, <2>2 DEF DeleteUserStates
    <2>3. CASE UNCHANGED <<gone, forgotten>>
      BY <1>0, <2>3
    <2> QED
      BY <2>1, <2>2, <2>3 DEF Erasure, EraseTrace, EraseUser, Begin, ListUser, TraceRefs, SpanRefs, DeleteRows,
                              DeleteObject, Erased, SweepUser, EraseThrows
  <1> QED
    BY <1>1, <1>2, <1>3, <1>4, <1>5, <1>6 DEF DeletionTypeOK, Operation

LEMMA IngestTypes ==
    ASSUME DeletionTypeOK, IngestInv, Ingest \/ (\E j \in Job : Offload(j))
    PROVE  DeletionTypeOK' /\ IngestInv'
  <1>1. IngestInv'
    BY IngestSteps, NextIngestInv
  <1>2. CASE Ingest
    BY <1>1, <1>2 DEF DeletionTypeOK, Ingest, opVars, IngestInv
  <1>3. ASSUME NEW j \in Job, Offload(j) PROVE DeletionTypeOK'
    <2>1. /\ objects' \subseteq Job /\ met' \subseteq Places /\ forgotten' \in BOOLEAN
          /\ gone' \in [Entity -> SUBSET Job] /\ robbed' \in [Entity -> SUBSET Job]
      BY <1>3 DEF Offload, DeletionTypeOK
    <2> QED
      BY <1>1, <1>3, <2>1 DEF DeletionTypeOK, Offload, IngestInv
  <1> QED
    BY <1>1, <1>2, <1>3

-----------------------------------------------------------------------------
(* The steps keep each part of the invariant.                              *)
LEMMA EnterMet ==
    ASSUME NEW p, NEW h, Enter(p, h), p # "idle"
    PROVE  /\ met \subseteq met'
           /\ p \notin met' => Running = {}
           /\ Running = {} => met' = met
  BY DEF Enter

LEMMA InitDInv == DeletionInit => DInv
  <1> SUFFICES ASSUME DeletionInit PROVE DInv
    OBVIOUS
  <1>1. TypeOK /\ AttemptsLeft
    BY InitTypes DEF DeletionInit
  <1>2. BatchOwn
    <2>1. ASSUME NEW j \in Job, NEW b \in Batch(j), NEW f \in Field PROVE b.row.field[f] \in {j, None}
      BY DEF Batch
    <2> QED
      BY <2>1 DEF DeletionInit, Init, BatchOwn
  <1>3. IdleHoldsNothing
    BY DEF DeletionInit, Init, IdleHoldsNothing
  <1>4. DeletionTypeOK
    <2>1. "idle" \in Places
      BY DEF Places
    <2>2. op \in [user : BOOLEAN, at : Places, ids : SUBSET Traces, table : 0 .. 3, keys : SUBSET Job]
      BY <2>1 DEF DeletionInit, NoErasure
    <2>3. traceOf \in [Entity -> Entity] /\ erasures \in 0 .. MaxErasures
      BY DeletionAssumption DEF DeletionInit
    <2> QED
      BY <1>1, <2>2, <2>3 DEF DeletionInit, DeletionTypeOK
  <1>5. \A e \in Entity : \A k \in Job : ~Bears(e, k) /\ phase[k] \notin Active
    <2>1. \A f \in Field : \A k \in Job : NoRow.field[f] # k
      BY ValueAssumption DEF NoRow
    <2> QED
      BY <2>1 DEF DeletionInit, Init, Nothing, Bears, Active
  <1>6. /\ Running = {} /\ TraceIds /\ op.at = "idle" /\ ~forgotten
        /\ gone = [e \in Entity |-> {}]
    BY DEF DeletionInit, Init, NoErasure, TraceIds, Running, Active
  <1>7. \A k \in Job : phase[k] \notin Active
    BY DEF DeletionInit, Init, Active
  <1> QED
    BY <1>1, <1>2, <1>3, <1>4, <1>5, <1>6, <1>7
    DEF DInv, IngestInv, Removing, GoneForGood, PayloadsKept, Forgetting

LEMMA NextTraceIds ==
    ASSUME TraceIds, DeletionTypeOK, DeletionNext
    PROVE  TraceIds' /\ traceOf' = traceOf
  <1>1. CASE Erasure
    BY <1>1, ErasureFrame DEF ingestVars, TraceIds
  <1>2. CASE Ingest \/ \E j \in Job : Offload(j)
    BY <1>2 DEF Ingest, Offload, opVars, TraceIds
  <1> QED
    BY <1>1, <1>2 DEF DeletionNext

(* No job runs, and an ingest step is taken: nothing new appears.          *)
LEMMA RestBears ==
    ASSUME IngestInv, Ingest, Running = {}, NEW e \in Entity, NEW k \in Job, Bears(e, k)'
    PROVE  Bears(e, k)
  <1>1. [Next]_vars
    BY IngestSteps
  <1>2. phase[k] \notin Active
    BY DEF Running
  <1> QED
    BY <1>1, <1>2, Sources

LEMMA NextGone ==
    ASSUME DInv, DeletionNext
    PROVE  GoneForGood'
  <1>0. GoneForGood /\ DeletionTypeOK /\ IngestInv /\ TypeOK /\ Removing
    BY DEF DInv, IngestInv
  <1>1. SUFFICES ASSUME NEW e \in Entity, NEW k \in gone'[e]
                 PROVE  phase'[k] \notin Active /\ ~Bears(e, k)'
    BY DEF GoneForGood, Active
  <1>2. CASE Ingest
    <2>1. k \in gone[e] /\ k \in Job
      BY <1>0, <1>1, <1>2 DEF Ingest, opVars, DeletionTypeOK
    <2>2. phase[k] \notin Active /\ ~Bears(e, k)
      BY <1>0, <2>1 DEF GoneForGood
    <2>3. [Next]_vars
      BY <1>2, IngestSteps
    <2> QED
      BY <1>0, <1>2, <2>1, <2>2, <2>3, Wakes, Sources
  <1>3. ASSUME NEW j \in Job, Offload(j) PROVE phase'[k] \notin Active /\ ~Bears(e, k)'
    <2>1. k \in gone[e] /\ k \in Job /\ k # j
      BY <1>0, <1>1, <1>3 DEF Offload, DeletionTypeOK
    <2>2. phase[k] \notin Active /\ ~Bears(e, k)
      BY <1>0, <2>1 DEF GoneForGood
    <2>3. [Next]_vars
      BY <1>3, IngestSteps
    <2>4. phase'[k] = phase[k]
      BY <1>0, <1>3, <2>1 DEF Offload, Start, Goto, TypeOK
    <2> QED
      BY <1>0, <2>1, <2>2, <2>3, <2>4, Sources
  <1>4. CASE Erasure /\ k \in gone[e]
    <2>1. k \in Job /\ phase' = phase
      BY <1>0, <1>4, ErasureFrame DEF DeletionTypeOK, ingestVars, jobVars
    <2> QED
      BY <1>0, <1>4, <2>1, ErasureBears DEF GoneForGood
  <1>5. CASE Erasure /\ k \notin gone[e]
    <2>1. DeleteStates
      BY <1>1, <1>5 DEF Erasure, EraseTrace, EraseUser, Begin, ListUser, TraceRefs, SpanRefs, DeleteRows,
                        DeleteObject, Erased, SweepUser, DeleteUserStates, EraseThrows
    <2>2. e \in Of(op.ids) /\ Unmet({"rows", "states"}) /\ k \in Job
      BY <1>0, <1>1, <1>5, <2>1 DEF DeleteStates, Unmet, DeletionTypeOK
    <2>3. Running = {} /\ doris[e] = {}
      BY <1>0, <2>1, <2>2 DEF Removing, DeleteStates
    <2>4. \A j \in Job : held[j] = Nothing
      BY <1>0, <2>3 DEF IngestInv, IdleHoldsNothing, Running
    <2>5. state'[e] = NoRow /\ UNCHANGED <<doris, phase, held>>
      BY <2>1, <2>2 DEF DeleteStates, Remove, StatesErased, ingestVars, jobVars
    <2>6. \A f \in Field : NoRow.field[f] # k
      BY <2>2, ValueAssumption DEF NoRow
    <2> QED
      BY <2>2, <2>3, <2>4, <2>5, <2>6 DEF Bears, Running, Nothing
  <1> QED
    BY <1>2, <1>3, <1>4, <1>5 DEF DeletionNext

LEMMA EnteredStates ==
    ASSUME DeletionTypeOK, NEW p, NEW n, DeleteRows(p, n), NEW e \in Of(op.ids),
           TableOf[e] < op.table => doris[e] = {}, TableOf[e] <= op.table
    PROVE  doris'[e] = {}
  <1>1. TableOf[e] \in Table /\ op.table \in 0 .. 3 /\ e \in Entity
    BY TableAssumption DEF DeletionTypeOK, Of
  <1>2. TableOf[e] < op.table \/ TableOf[e] = op.table
    BY <1>1 DEF Table
  <1>3. CASE TableOf[e] = op.table
    BY <1>1, <1>3 DEF DeleteRows, TablesErased
  <1>4. CASE TableOf[e] < op.table
    BY <1>1, <1>4 DEF DeleteRows
  <1> QED
    BY <1>2, <1>3, <1>4

LEMMA NextRemoving ==
    ASSUME DInv, DeletionNext
    PROVE  Removing'
  <1>0. Removing /\ DeletionTypeOK /\ IngestInv /\ TypeOK
    BY DEF DInv, IngestInv
  <1>1. traceOf' = traceOf
    BY NextTraceIds DEF DInv
  <1>2. CASE Ingest
    <2>1. op' = op /\ met' = met
      BY <1>2 DEF Ingest, opVars
    <2>2. CASE Running = {}
      <3>1. Running' = {} /\ doris' = doris
        BY <1>0, <1>2, <2>2, AtRest
      <3>2. \A e \in Entity : \A k \in Job : Bears(e, k)' => Bears(e, k)
        BY <1>0, <1>2, <2>2, RestBears
      <3>3. Of(op.ids)' = Of(op.ids) /\ Of(op.ids) \subseteq Entity
        BY <1>1, <2>1 DEF Of
      <3> QED
        BY <1>0, <2>1, <3>1, <3>2, <3>3 DEF Removing, Unmet
    <2>3. CASE Running # {}
      BY <1>0, <2>1, <2>3 DEF Removing, Unmet
    <2> QED
      BY <2>2, <2>3
  <1>3. ASSUME NEW j \in Job, Offload(j) PROVE Removing'
    <2>1. op' = op /\ (op.at # "idle" => op.at \in met')
      BY <1>3 DEF Offload
    <2> QED
      BY <1>0, <2>1 DEF Removing, Unmet
  <1>4. CASE Erasure
    <2>0. Running' = Running
      BY <1>0, <1>4, ErasureIngest
    <2>1. CASE op'.at \notin {"rows", "user rows", "states", "objects"}
      BY <2>1 DEF Removing
    <2>2. CASE SpanRefs
      <3>1. PICK K : op' = [op EXCEPT !.keys = K, !.table = 1, !.at = "rows"]
        BY <2>2 DEF SpanRefs, Enter
      <3>2. op'.at = "rows" /\ op'.table = 1
        BY <1>0, <3>1 DEF DeletionTypeOK
      <3>3. "rows" \notin met' => Running = {}
        BY <2>2, EnterMet DEF SpanRefs
      <3>4. \A e \in Entity : ~(TableOf[e] < 1)
        BY TableAssumption DEF Table
      <3> QED
        BY <2>0, <3>2, <3>3, <3>4 DEF Removing, Unmet, Of, Table
    <2>3. CASE SweepUser
      <3>1. op'.at = "user rows" => op'.table = 1
        BY <1>0, <2>3 DEF SweepUser, Enter, DeletionTypeOK
      <3>2. op'.at \in {"user rows", "user states"}
        BY <1>0, <2>3 DEF SweepUser, Enter, DeletionTypeOK
      <3>3. 1 \in Table
        BY DEF Table
      <3> QED
        BY <3>1, <3>2, <3>3 DEF Removing
    <2>4. CASE DeleteRows("user rows", "user states")
      <3>1. op.table \in Table /\ op.table # 3 => op.table + 1 \in Table
        BY DEF Table
      <3>2. op.table \in Table
        BY <1>0, <2>4 DEF DeleteRows, Removing
      <3>3. op'.at \in {"user rows", "user states"} /\ (op'.at = "user rows" => op'.table \in Table)
        BY <1>0, <2>4, <3>1, <3>2 DEF DeleteRows, Enter, DeletionTypeOK
      <3> QED
        BY <3>3 DEF Removing
    <2>5. CASE DeleteRows("rows", "states")
      <3>1. op.at = "rows" /\ op.table \in Table /\ met \subseteq met'
        BY <1>0, <1>4, <2>5, ErasureFrame DEF DeleteRows, Removing
      <3>2. /\ op'.ids = op.ids
            /\ op.table = 3 => op'.at = "states"
            /\ op.table # 3 => op'.at = "rows" /\ op'.table = op.table + 1
        BY <1>0, <2>5 DEF DeleteRows, Enter, DeletionTypeOK
      <3>3. Of(op.ids)' = Of(op.ids) /\ Of(op.ids) \subseteq Entity
        BY <1>1, <3>2 DEF Of
      <3>4. op.table # 3 => op.table + 1 \in Table
        BY <3>1 DEF Table
      <3>5. ASSUME Unmet({"rows", "states"})'
            PROVE  /\ Running = {}
                   /\ \A e \in Of(op.ids) : TableOf[e] <= op.table => doris'[e] = {}
        <4>1. Running = {} /\ \A e \in Of(op.ids) : TableOf[e] < op.table => doris[e] = {}
          BY <1>0, <3>1, <3>5 DEF Removing, Unmet
        <4> QED
          BY <1>0, <2>5, <4>1, EnteredStates
      <3>6. \A e \in Entity : TableOf[e] <= 3 /\ (op.table # 3 /\ TableOf[e] < op.table + 1 => TableOf[e] <= op.table)
        BY <3>1, TableAssumption DEF Table
      <3>7. CASE op.table = 3
        <4>1. op'.at = "states"
          BY <3>2, <3>7
        <4>2. ASSUME Unmet({"rows", "states"})'
              PROVE  Running' = {} /\ \A e \in Of(op.ids)' : doris'[e] = {}
          BY <2>0, <3>3, <3>5, <3>6, <3>7, <4>2
        <4> QED
          BY <4>1, <4>2 DEF Removing
      <3>8. CASE op.table # 3
        <4>1. op'.at = "rows" /\ op'.table = op.table + 1 /\ op'.table \in Table
          BY <3>2, <3>4, <3>8
        <4>2. ASSUME Unmet({"rows", "states"})'
              PROVE  Running' = {} /\ \A e \in Of(op.ids)' : TableOf[e] < op'.table => doris'[e] = {}
          BY <2>0, <3>3, <3>5, <3>6, <3>8, <4>1, <4>2
        <4> QED
          BY <4>1, <4>2 DEF Removing
      <3> QED
        BY <3>7, <3>8
    <2>6. CASE DeleteStates
      <3>1. op'.at = "objects" /\ op'.ids = op.ids
        BY <1>0, <2>6 DEF DeleteStates, Enter, DeletionTypeOK
      <3>2. op.at = "states" /\ met \subseteq met'
        BY <1>4, <1>0, <2>6, ErasureFrame DEF DeleteStates
      <3>3. Of(op.ids)' = Of(op.ids) /\ Of(op.ids) \subseteq Entity
        BY <1>1, <3>1 DEF Of
      <3>4. ASSUME Unmet({"rows", "states", "objects"})', NEW e \in Of(op.ids), NEW k \in Job
            PROVE  Running' = {} /\ ~Bears(e, k)'
        <4>1. Running = {} /\ doris[e] = {}
          BY <1>0, <3>2, <3>4 DEF Removing, Unmet
        <4>2. \A j \in Job : held[j] = Nothing
          BY <1>0, <4>1 DEF IngestInv, IdleHoldsNothing, Running
        <4>3. e \in Entity /\ state'[e] = NoRow /\ UNCHANGED <<doris, held>>
          BY <2>6, <3>3, <3>4 DEF DeleteStates, Remove, StatesErased, ingestVars, jobVars
        <4>4. \A f \in Field : NoRow.field[f] # k
          BY ValueAssumption DEF NoRow
        <4> QED
          BY <2>0, <4>1, <4>2, <4>3, <4>4 DEF Bears, Nothing
      <3>5. ASSUME Unmet({"rows", "states", "objects"})' PROVE Running' = {}
        BY <1>0, <2>0, <3>2, <3>5 DEF Removing, Unmet
      <3> QED
        BY <3>1, <3>3, <3>4, <3>5 DEF Removing
    <2>7. CASE DeleteObject
      <3>1. op'.at = "objects" /\ op'.ids = op.ids
        BY <1>0, <2>7 DEF DeleteObject, Enter, DeletionTypeOK
      <3>2. op.at = "objects" /\ met \subseteq met'
        BY <1>0, <1>4, <2>7, ErasureFrame DEF DeleteObject
      <3>3. Of(op.ids)' = Of(op.ids) /\ Of(op.ids) \subseteq Entity
        BY <1>1, <3>1 DEF Of
      <3>4. Unmet({"rows", "states", "objects"})' =>
              Running = {} /\ \A e \in Of(op.ids) : \A k \in Job : ~Bears(e, k)
        BY <1>0, <3>2 DEF Removing, Unmet
      <3>5. \A e \in Entity : \A k \in Job : Bears(e, k)' => Bears(e, k)
        BY <1>0, <1>4, ErasureBears
      <3> QED
        BY <2>0, <3>1, <3>3, <3>4, <3>5 DEF Removing
    <2>8. CASE \/ EraseUser \/ (\E t \in Traces : EraseTrace(t)) \/ ListUser \/ TraceRefs \/ Erased
               \/ DeleteUserStates \/ EraseThrows
      <3>1. op'.at \notin {"rows", "user rows", "states", "objects"}
        BY <1>0, <2>8 DEF EraseUser, EraseTrace, Begin, ListUser, TraceRefs, Erased, DeleteUserStates,
                          EraseThrows, Enter, NoErasure, DeletionTypeOK
      <3> QED
        BY <2>1, <3>1
    <2> QED
      BY <1>4, <2>2, <2>3, <2>4, <2>5, <2>6, <2>7, <2>8 DEF Erasure
  <1> QED
    BY <1>2, <1>3, <1>4 DEF DeletionNext

LEMMA NextPayloads ==
    ASSUME DInv, DeletionNext
    PROVE  PayloadsKept'
  <1>0. PayloadsKept /\ Removing /\ DeletionTypeOK /\ IngestInv /\ TypeOK
    BY DEF DInv, IngestInv
  <1> DEFINE places == {"rows", "states", "objects"}
  <1>1. SUFFICES ASSUME Unmet(places)'
                 PROVE  /\ \A k \in Job : phase'[k] \in Active => k \in objects'
                        /\ \A e \in Entity : \A k \in Job :
                              Bears(e, k)' => k \in objects' \cup robbed'[e]
    BY DEF PayloadsKept, Active
  <1>2. met \subseteq met'
    <2>1. CASE Erasure
      BY <1>0, <2>1, ErasureFrame
    <2>2. CASE Ingest \/ \E j \in Job : Offload(j)
      BY <2>2 DEF Ingest, Offload, opVars
    <2> QED
      BY <2>1, <2>2 DEF DeletionNext
  <1>3. /\ \A k \in Job : phase[k] \in Active => k \in objects
        /\ \A e \in Entity : \A k \in Job : Bears(e, k) => k \in objects \cup robbed[e]
    BY <1>0, <1>1, <1>2 DEF PayloadsKept, Unmet
  <1>4. CASE Ingest
    <2>1. objects' = objects /\ robbed' = robbed
      BY <1>4 DEF Ingest, opVars
    <2>2. [Next]_vars
      BY <1>4, IngestSteps
    <2>3. \A k \in Job : phase'[k] \in Active => phase[k] \in Active
      BY <1>0, <1>4, Wakes
    <2>4. \A e \in Entity : \A k \in Job : Bears(e, k)' => Bears(e, k) \/ phase[k] \in Active
      BY <1>0, <2>2, Sources
    <2> QED
      BY <1>3, <2>1, <2>3, <2>4
  <1>5. ASSUME NEW j \in Job, Offload(j)
        PROVE  /\ \A k \in Job : phase'[k] \in Active => k \in objects'
               /\ \A e \in Entity : \A k \in Job : Bears(e, k)' => k \in objects' \cup robbed'[e]
    <2>1. /\ objects' = objects \cup {j}
          /\ \A e \in Entity : robbed'[e] = robbed[e] \ {j}
      BY <1>5 DEF Offload
    <2>2. [Next]_vars
      BY <1>5, IngestSteps
    <2>3. \A k \in Job : k # j => phase'[k] = phase[k]
      BY <1>0, <1>5 DEF Offload, Start, Goto, TypeOK
    <2>4. \A e \in Entity : \A k \in Job : Bears(e, k)' => Bears(e, k) \/ phase[k] \in Active
      BY <1>0, <2>2, Sources
    <2> QED
      BY <1>3, <2>1, <2>3, <2>4
  <1>6. CASE Erasure
    <2>1. phase' = phase
      BY <1>0, <1>6, ErasureFrame DEF ingestVars, jobVars
    <2>2. \A e \in Entity : \A k \in Job : Bears(e, k)' => Bears(e, k)
      BY <1>0, <1>6, ErasureBears
    <2>3. CASE UNCHANGED <<objects, robbed>>
      BY <1>3, <2>1, <2>2, <2>3
    <2>4. CASE DeleteObject
      <3>1. PICK d \in op.keys :
              /\ objects' \in {objects, objects \ {d}}
              /\ robbed' = [e \in Entity |->
                              IF e \notin Of(op.ids) /\ d \notin objects' /\ d \in ValuesOf(e)
                              THEN robbed[e] \cup {d} ELSE robbed[e]]
        BY <2>4 DEF DeleteObject
      <3>2. Running = {} /\ \A e \in Of(op.ids) : \A k \in Job : ~Bears(e, k)
        BY <1>0, <1>1, <1>2, <2>4 DEF DeleteObject, Removing, Unmet
      <3>3. \A k \in Job : phase'[k] \notin Active
        BY <2>1, <3>2 DEF Running
      <3>4. ASSUME NEW e \in Entity, NEW k \in Job, Bears(e, k)
            PROVE  k \in objects' \cup robbed'[e]
        <4>1. e \notin Of(op.ids) /\ k \in objects \cup robbed[e]
          BY <1>3, <3>2, <3>4
        <4>2. \A j \in Job : held[j] = Nothing
          BY <1>0, <3>2 DEF IngestInv, IdleHoldsNothing, Running
        <4>3. k \in ValuesOf(e)
          BY <3>4, <4>2 DEF Bears, ValuesOf, Values, Nothing
        <4> QED
          BY <3>1, <4>1, <4>3
      <3> QED
        BY <2>2, <3>3, <3>4
    <2> QED
      BY <1>6, <2>3, <2>4 DEF Erasure, EraseTrace, EraseUser, Begin, ListUser, TraceRefs, SpanRefs, DeleteRows,
                              DeleteStates, Erased, SweepUser, DeleteUserStates, EraseThrows
  <1> QED
    BY <1>4, <1>5, <1>6 DEF DeletionNext

LEMMA NextForgetting ==
    ASSUME DInv, DeletionNext
    PROVE  Forgetting'
  <1>0. Forgetting /\ Removing /\ DeletionTypeOK /\ IngestInv /\ TypeOK /\ TraceIds
    BY DEF DInv, IngestInv
  <1>1. \A row : ~(row = NoRow /\ UserOf(row))
    BY ValueAssumption, DeletionAssumption DEF NoRow, UserOf
  <1>2. Traces \subseteq Entity /\ \A t \in Traces : TableOf[t] = 1
    BY DEF Traces
  <1>3. CASE Ingest
    <2>1. op' = op /\ met' = met /\ forgotten' = forgotten
      BY <1>3 DEF Ingest, opVars
    <2>2. CASE Running = {}
      <3>1. /\ Running' = {} /\ doris' = doris
            /\ \A e \in Entity : state'[e] \in {state[e], NoRow}
        BY <1>0, <1>3, <2>2, AtRest
      <3>2. \A t \in Traces : UnnamedIn(t)' <=> UnnamedIn(t)
        BY <3>1 DEF UnnamedIn, UserOf
      <3>3. \A t \in Traces : ~UserOf(state[t]) => ~UserOf(state[t])'
        BY <1>1, <1>2, <3>1 DEF UserOf
      <3> QED
        BY <1>0, <2>1, <3>1, <3>2, <3>3 DEF Forgetting, Unmet, UserPlaces, Traces
    <2>3. CASE Running # {}
      BY <1>0, <2>1, <2>3 DEF Forgetting, Unmet, UserPlaces
    <2> QED
      BY <2>2, <2>3
  <1>4. ASSUME NEW j \in Job, Offload(j) PROVE Forgetting'
    <2>1. op' = op /\ (op.at # "idle" => op.at \in met') /\ ~forgotten'
      BY <1>4 DEF Offload
    <2> QED
      BY <1>0, <2>1 DEF Forgetting, Unmet, UserPlaces
  <1>5. CASE Erasure
    <2>0. /\ Running' = Running /\ met \subseteq met'
          /\ \A e \in Entity : state'[e] \in {state[e], NoRow}
          /\ \A e \in Entity : doris'[e] \in {doris[e], {}}
      BY <1>0, <1>5, ErasureIngest, ErasureFrame
    <2>1. \A t \in Traces : UnnamedIn(t) => UnnamedIn(t)'
      BY <1>2, <2>0 DEF UnnamedIn, UserOf
    <2>2. \A t \in Traces : ~UserOf(state[t]) => ~UserOf(state[t])'
      BY <1>1, <1>2, <2>0 DEF UserOf
    <2>3. ASSUME forgotten
          PROVE  Running' = {} /\ \A t \in Traces : UnnamedIn(t)' /\ ~UserOf(state[t])'
      BY <1>0, <2>0, <2>1, <2>2, <2>3 DEF Forgetting
    <2>4. ASSUME op'.at \notin {"user rows", "user states"}, forgotten' => forgotten
          PROVE  Forgetting'
      BY <2>3, <2>4 DEF Forgetting, Traces
    <2>5. CASE SweepUser
      <3>1. forgotten' = forgotten
        BY <2>5 DEF SweepUser
      <3>2. CASE UserTraces = {}
        <4>1. op'.at = "user states" /\ ("user states" \notin met' => Running = {})
          BY <1>0, <2>5, <3>2 DEF SweepUser, Enter, DeletionTypeOK
        <4>2. \A t \in Traces : UnnamedIn(t)
          BY <3>2 DEF UserTraces, UnnamedIn
        <4> QED
          BY <2>0, <2>1, <2>3, <3>1, <4>1, <4>2 DEF Forgetting, Unmet, UserPlaces, Traces
      <3>3. CASE UserTraces # {}
        <4>1. /\ op'.at = "user rows" /\ op'.ids = UserTraces /\ op'.table = 1
              /\ "user rows" \notin met' => Running = {}
          BY <1>0, <2>5, <3>3 DEF SweepUser, Enter, DeletionTypeOK
        <4>2. \A t \in Traces : t \notin UserTraces => UnnamedIn(t)
          BY DEF UserTraces, UnnamedIn
        <4> QED
          BY <2>0, <2>1, <2>3, <3>1, <4>1, <4>2 DEF Forgetting, Unmet, UserPlaces, Traces
      <3> QED
        BY <3>2, <3>3
    <2>6. CASE DeleteRows("user rows", "user states")
      <3>1. forgotten' = forgotten /\ op.at = "user rows" /\ op.table \in Table
        BY <1>0, <2>6 DEF DeleteRows, Removing
      <3>2. /\ op'.ids = op.ids
            /\ op.table = 3 => op'.at = "user states"
            /\ op.table # 3 => op'.at = "user rows"
        BY <1>0, <2>6 DEF DeleteRows, Enter, DeletionTypeOK
      <3>3. ASSUME Unmet(UserPlaces)', NEW t \in Traces
            PROVE  Running = {} /\ UnnamedIn(t)'
        <4>1. Running = {} /\ (t \notin op.ids \/ op.table # 1 => UnnamedIn(t))
          BY <1>0, <2>0, <3>1, <3>3 DEF Forgetting, Unmet, UserPlaces
        <4>2. CASE t \in op.ids /\ op.table = 1
          <5>1. t \in Of(op.ids) /\ TableOf[t] = op.table /\ op.table \in TablesErased
            BY <1>0, <1>2, <3>1, <4>2 DEF Of, TraceIds, TablesErased
          <5>2. doris'[t] = {}
            BY <1>2, <2>6, <5>1 DEF DeleteRows
          <5> QED
            BY <4>1, <5>2 DEF UnnamedIn
        <4> QED
          BY <2>1, <4>1, <4>2
      <3>4. ASSUME Unmet(UserPlaces)' PROVE Running = {}
        BY <1>0, <2>0, <3>1, <3>4 DEF Forgetting, Unmet, UserPlaces
      <3> QED
        BY <2>0, <2>3, <3>1, <3>2, <3>3, <3>4 DEF Forgetting, Traces
    <2>7. CASE DeleteUserStates
      <3>1. op'.at = "idle" /\ op.at = "user states"
        BY <1>0, <2>7 DEF DeleteUserStates, Enter, NoErasure, DeletionTypeOK
      <3>2. ASSUME forgotten', NEW t \in Traces
            PROVE  Running' = {} /\ UnnamedIn(t)' /\ ~UserOf(state[t])'
        <4>1. Running = {} /\ Unmet(UserPlaces)
          BY <2>7, <3>2 DEF DeleteUserStates, Unmet, UserPlaces
        <4>2. UnnamedIn(t)
          BY <1>0, <3>1, <4>1 DEF Forgetting
        <4>3. UserOf(state[t]) => state'[t] = NoRow
          BY <1>2, <2>7 DEF DeleteUserStates, Remove, UserStates
        <4>4. ~UserOf(state[t])'
          BY <1>1, <2>2, <4>3 DEF UserOf
        <4> QED
          BY <2>0, <2>1, <4>1, <4>2, <4>4
      <3>3. forgotten' => Running' = {}
        BY <2>0, <2>7 DEF DeleteUserStates
      <3> QED
        BY <3>1, <3>2, <3>3 DEF Forgetting, Traces
    <2>8. CASE \/ EraseUser \/ (\E t \in Traces : EraseTrace(t)) \/ ListUser \/ TraceRefs \/ SpanRefs
               \/ DeleteRows("rows", "states") \/ DeleteStates \/ DeleteObject \/ Erased \/ EraseThrows
      <3>1. op'.at \notin {"user rows", "user states"}
        BY <1>0, <2>8 DEF EraseUser, EraseTrace, Begin, ListUser, TraceRefs, SpanRefs, DeleteRows, DeleteStates,
                          DeleteObject, Erased, EraseThrows, Enter, NoErasure, DeletionTypeOK
      <3>2. forgotten' = forgotten
        BY <2>8 DEF EraseUser, EraseTrace, Begin, ListUser, TraceRefs, SpanRefs, DeleteRows, DeleteStates,
                    DeleteObject, Erased, EraseThrows
      <3> QED
        BY <2>4, <3>1, <3>2
    <2> QED
      BY <1>5, <2>5, <2>6, <2>7, <2>8 DEF Erasure
  <1> QED
    BY <1>3, <1>4, <1>5 DEF DeletionNext

-----------------------------------------------------------------------------
LEMMA StutterDInv == DInv /\ UNCHANGED allVars => DInv'
  <1> SUFFICES ASSUME DInv, UNCHANGED allVars PROVE DInv'
    OBVIOUS
  <1>1. UNCHANGED <<state, doris, batch, phase, todo, absent, held, attempts, old, sweep, page, sweeps,
                    replays, landed, truth, late, reverted, reseeded>>
    BY DEF allVars, vars, jobVars, sweepVars, history
  <1>2. UNCHANGED <<traceOf, op, erasures, objects, met, gone, robbed, forgotten>>
    BY DEF allVars, opVars
  <1>3. TypeOK' /\ DeletionTypeOK'
    BY <1>1, <1>2 DEF DInv, DeletionTypeOK, TypeOK, Active
  <1>4. AttemptsLeft' /\ BatchOwn' /\ IdleHoldsNothing' /\ Running' = Running
    BY <1>1 DEF DInv, IngestInv, AttemptsLeft, BatchOwn, IdleHoldsNothing, Nothing, Running, Active
  <1>5. \A e \in Entity : \A k \in Job : Bears(e, k)' <=> Bears(e, k)
    BY <1>1 DEF Bears
  <1>6. Of(op.ids)' = Of(op.ids) /\ Of(op.ids) \subseteq Entity
    BY <1>2 DEF Of
  <1>7. Removing'
    BY <1>1, <1>2, <1>4, <1>5, <1>6 DEF DInv, Removing, Unmet
  <1>8. GoneForGood'
    <2>1. \A e \in Entity : gone[e] \subseteq Job
      BY DEF DInv, DeletionTypeOK
    <2> QED
      BY <1>1, <1>2, <1>5, <2>1 DEF DInv, GoneForGood, Active
  <1>9. PayloadsKept'
    BY <1>1, <1>2, <1>5 DEF DInv, PayloadsKept, Unmet, Active
  <1>10. Forgetting' /\ TraceIds'
    BY <1>1, <1>2, <1>4 DEF DInv, Forgetting, TraceIds, Unmet, UserPlaces, UnnamedIn, UserOf, Traces
  <1> QED
    BY <1>3, <1>4, <1>7, <1>8, <1>9, <1>10 DEF DInv, IngestInv

LEMMA DInvHolds == DeletionSpec => []DInv
  <1>1. DInv /\ [DeletionNext]_allVars => DInv'
    <2> SUFFICES ASSUME DInv, DeletionNext PROVE DInv'
      BY StutterDInv
    <2>1. DeletionTypeOK' /\ IngestInv'
      <3>1. DeletionTypeOK /\ IngestInv
        BY DEF DInv
      <3>2. CASE Erasure
        BY <3>1, <3>2, ErasureTypes, ErasureIngest
      <3>3. CASE Ingest \/ \E j \in Job : Offload(j)
        BY <3>1, <3>3, IngestTypes
      <3> QED
        BY <3>2, <3>3 DEF DeletionNext
    <2>2. TraceIds'
      BY NextTraceIds DEF DInv
    <2> QED
      BY <2>1, <2>2, NextRemoving, NextGone, NextPayloads, NextForgetting DEF DInv
  <1> QED
    BY <1>1, InitDInv, PTL DEF DeletionSpec

(* Every variable of an erasure beside ingest keeps its type.              *)
THEOREM DeletionTypeCorrect == DeletionSpec => []DeletionTypeOK
  <1>1. DInv => DeletionTypeOK
    BY DEF DInv
  <1> QED
    BY <1>1, DInvHolds, PTL

(* What deleteTraceData removed while no job ran does not come back from   *)
(* the mirror, from Postgres or from a job's memory, until the batch that  *)
(* brought it runs again.                                                  *)
THEOREM ErasedNeverReturns == DeletionSpec => []ErasedStaysErased
  <1>1. DInv => ErasedStaysErased
    <2> SUFFICES ASSUME DInv, NEW e \in Entity, NEW k \in gone[e] PROVE k \notin ValuesOf(e)
      BY DEF ErasedStaysErased
    <2>1. ~Bears(e, k)
      BY DEF DInv, GoneForGood
    <2> QED
      BY <2>1 DEF Bears, ValuesOf, Values
  <1> QED
    BY <1>1, DInvHolds, PTL

(* However far deleteTraceData gets, no row is left referring to a payload *)
(* object it deleted, but for those shared with another trace.             *)
THEOREM NoDanglingPayload == DeletionSpec => []PayloadsThere
  <1>1. DInv => PayloadsThere
    <2> SUFFICES ASSUME DInv, Unmet({"rows", "states", "objects"}),
                        NEW e \in Entity, NEW k \in ValuesOf(e)
                 PROVE  k \in objects \cup robbed[e]
      BY DEF PayloadsThere, Unmet
    <2>1. k \in Job /\ Bears(e, k)
      BY DEF ValuesOf, Values, Bears
    <2> QED
      BY <2>1 DEF DInv, PayloadsKept
  <1> QED
    BY <1>1, DInvHolds, PTL

(* After deleteUserData met no job, no trace in either store names the     *)
(* user until a batch runs.                                                *)
THEOREM UserIsForgotten == DeletionSpec => []UserForgotten
  <1>1. DInv => UserForgotten
    BY DEF DInv, Forgetting, UserForgotten, UnnamedIn
  <1> QED
    BY <1>1, DInvHolds, PTL

-----------------------------------------------------------------------------
(* Until an erasure begins, the steps are those of MutableState.           *)
Unerased == erasures = 0 => op.at = "idle" /\ Whole

LEMMA UnerasedStep ==
    ASSUME DInv, Serial, Unerased, [DeletionNext]_allVars, SweepsApart \/ UNCHANGED vars
    PROVE  Unerased'
  <1> SUFFICES ASSUME erasures' = 0 PROVE op'.at = "idle" /\ Whole'
    BY DEF Unerased
  <1>1. TypeOK /\ erasures \in Nat
    BY DeletionAssumption DEF DInv, DeletionTypeOK
  <1>2. CASE UNCHANGED allVars
    <2>1. UNCHANGED vars /\ erasures = 0 /\ op' = op
      BY <1>2 DEF allVars, opVars
    <2> QED
      BY <1>1, <2>1, WholeStep DEF Unerased
  <1>3. CASE Ingest \/ \E j \in Job : Offload(j)
    <2>1. UNCHANGED <<op, erasures>>
      BY <1>3 DEF Ingest, Offload, opVars
    <2>2. Next
      BY <1>3, IngestSteps
    <2> QED
      BY <1>1, <2>1, <2>2, WholeStep DEF Unerased
  <1>4. ASSUME Erasure PROVE FALSE
    <2>1. ASSUME NEW h, NEW p, Begin(h, p) PROVE FALSE
      BY <1>1, <2>1 DEF Begin
    <2>2. ASSUME op.at # "idle", UNCHANGED erasures PROVE FALSE
      BY <2>2 DEF Unerased
    <2>3. ListUser \/ TraceRefs \/ SpanRefs \/ SweepUser => op.at # "idle" /\ UNCHANGED erasures
      BY DEF ListUser, TraceRefs, SpanRefs, SweepUser
    <2>4. DeleteStates \/ DeleteObject \/ Erased \/ DeleteUserStates \/ EraseThrows
            => op.at # "idle" /\ UNCHANGED erasures
      BY DEF DeleteStates, DeleteObject, Erased, DeleteUserStates, EraseThrows
    <2>5. DeleteRows("rows", "states") \/ DeleteRows("user rows", "user states")
            => op.at # "idle" /\ UNCHANGED erasures
      BY DEF DeleteRows
    <2>6. EraseUser \/ (\E t \in Traces : EraseTrace(t)) => FALSE
      BY <2>1 DEF EraseUser, EraseTrace
    <2> QED
      BY <1>4, <2>2, <2>3, <2>4, <2>5, <2>6 DEF Erasure
  <1> QED
    BY <1>2, <1>3, <1>4 DEF DeletionNext

(* With one job at a time and sweeps apart from jobs, as long as nothing   *)
(* is erased the mirror ends up showing exactly what was merged: what was  *)
(* pruned is seeded back (rehydrateStates), however jobs fail.             *)
THEOREM ConvergesUnerased == Serial /\ DeletionSpec /\ [][SweepsApart]_vars => []ConvergedUnerased
  <1>1. DeletionInit => Unerased
    BY InitWhole DEF DeletionInit, NoErasure, Unerased
  <1>2. DInv /\ Serial /\ Unerased /\ [DeletionNext]_allVars /\ [SweepsApart]_vars => Unerased'
    BY UnerasedStep
  <1>3. DInv /\ Unerased => ConvergedUnerased
    BY WholeConverges DEF DInv, DeletionTypeOK, Unerased, ConvergedUnerased
  <1>4. Serial => Serial'
    BY DEF Serial
  <1> QED
    BY <1>1, <1>2, <1>3, <1>4, DInvHolds, PTL DEF DeletionSpec

=============================================================================
