-------------------------- MODULE ExperimentProofs --------------------------
(***************************************************************************)
(* Proofs about Experiment, for any finite set of items, any runs, lanes,  *)
(* attempts and trouble: the lock keeps runs apart, DONE items rest, and   *)
(* the counters agree with the checkpoints.                                *)
(***************************************************************************)
EXTENDS Experiment, FiniteSetTheorems, TLAPS

(* What the proofs need of the types; of width, that a lane count is a     *)
(* number takes a count of the lanes at work, and is left to TLC.          *)
Shape ==
    /\ counts \in [completed : Nat, failed : Nat]
    /\ cp \in [Item -> {"PENDING", "RUNNING", "DONE", "FAILED"}]
    /\ traces \in [Item -> Nat]
    /\ lock \in Run \union {None}
    /\ held \subseteq Run
    /\ pc \in [Run -> Places]
    /\ lane \in [Run -> [Item -> Busy \union {"off", "todo"}]]
    /\ done \in [Run -> Nat]
    /\ spent \in [Kinds -> Nat]

LEMMA SpendCounts ==
    ASSUME NEW kind \in Kinds, spent \in [Kinds -> Nat], Spend(kind)
    PROVE  /\ spent' \in [Kinds -> Nat]
           /\ spent'[kind] # 0
           /\ \A k \in Kinds : spent'[k] >= spent[k]
  BY DEF Spend

LEMMA DoneCounts ==
    ASSUME Shape
    PROVE  IsFiniteSet(DoneItems) /\ Cardinality(DoneItems) \in Nat
  BY ExperimentAssumption, FS_Subset, FS_CardinalityType DEF DoneItems

(* The two ways lanes change, besides Load.                                *)
LEMMA LaneMoves ==
    ASSUME lane \in [Run -> [Item -> Busy \union {"off", "todo"}]], NEW r \in Run
    PROVE  /\ NoLanes(r) =>
                 /\ lane' \in [Run -> [Item -> Busy \union {"off", "todo"}]]
                 /\ \A i \in Item : lane'[r][i] = "off"
                 /\ \A s \in Run \ {r} : lane'[s] = lane[s]
           /\ \A i \in Item, place \in Busy \union {"off"} :
                 LaneTo(r, i, place) =>
                    /\ lane' \in [Run -> [Item -> Busy \union {"off", "todo"}]]
                    /\ lane'[r][i] = place
                    /\ \A s \in Run, k \in Item :
                          s # r \/ k # i => lane'[s][k] = lane[s][k]
  BY DEF NoLanes, LaneTo

LEMMA ShapeCorrect == Spec => []Shape
  <1>1. Init => Shape
    BY DEF Init, Shape, Places, Inside, Busy
  <1>2. Shape /\ [Next]_vars => Shape'
    <2> SUFFICES ASSUME Shape, [Next]_vars
                 PROVE  Shape'
      OBVIOUS
    <2> USE ExperimentAssumption DEF Shape, Places, Inside, Goto, rowVars, lockVars, memo
    <2>0. \A k \in Kinds : Spend(k) => spent' \in [Kinds -> Nat]
      BY SpendCounts
    <2>1. CASE Enqueue \/ CancelRead \/ CancelWrite \/ Stall \/ LockExpires
      BY <2>0, <2>1 DEF Enqueue, CancelRead, CancelWrite, Stall, LockExpires, Kinds
    <2>2. ASSUME NEW r \in Run, Take(r) \/ ReadStatus(r) \/ Finish(r) \/ Fail(r)
          PROVE  Shape'
      BY <2>2 DEF Take, ReadStatus, Finish, Fail
    <2>3. ASSUME NEW r \in Run, Acquire(r)
          PROVE  Shape'
      BY <2>0, <2>3 DEF Acquire, Kinds
    <2>4. ASSUME NEW r \in Run, Load(r)
          PROVE  Shape'
      BY <2>4, DoneCounts DEF Load
    <2>5. ASSUME NEW r \in Run, Start(r)
          PROVE  Shape'
      <3>1. counts' \in [completed : Nat, failed : Nat]
        BY <2>5 DEF Start, Reset
      <3>2. lane' \in [Run -> [Item -> Busy \union {"off", "todo"}]]
        BY <2>5, LaneMoves DEF Start
      <3>3. spent' \in [Kinds -> Nat]
        BY <2>0, <2>5 DEF Start, Kinds
      <3>4. pc' \in [Run -> Places]
        BY <2>5 DEF Start
      <3> QED
        BY <2>5, <3>1, <3>2, <3>3, <3>4 DEF Start
    <2>6. ASSUME NEW r \in Run, ItemsOver(r) \/ WriteVerdict(r)
          PROVE  Shape'
      BY <2>6 DEF ItemsOver, WriteVerdict
    <2>7. ASSUME NEW r \in Run, ReadVerdict(r)
          PROVE  Shape'
      BY <2>7 DEF ReadVerdict
    <2>8. ASSUME NEW r \in Run, Release(r)
          PROVE  Shape'
      BY <2>0, <2>8 DEF Release, Leaves, Kinds
    <2>9. ASSUME NEW r \in Run, Reject(r) \/ Crash(r)
          PROVE  Shape'
      <3>1. lane' \in [Run -> [Item -> Busy \union {"off", "todo"}]]
        BY <2>9, LaneMoves DEF Reject, Crash
      <3> QED
        BY <2>0, <2>9, <3>1 DEF Reject, Crash, Kinds
    <2>10. ASSUME NEW r \in Run, NEW i \in Item, PickItem(r, i) \/ Mark(r, i) \/ Execute(r, i)
           PROVE  Shape'
      <3>1. lane' \in [Run -> [Item -> Busy \union {"off", "todo"}]]
        <4>1. CASE PickItem(r, i)
          BY <4>1, LaneMoves DEF PickItem, Busy
        <4>2. CASE Mark(r, i) \/ Execute(r, i)
          BY <4>2, LaneMoves DEF Mark, Execute, Busy
        <4> QED
          BY <2>10, <4>1, <4>2
      <3> QED
        BY <2>10, <3>1 DEF PickItem, Mark, Execute
    <2>11. ASSUME NEW r \in Run, NEW i \in Item, Succeed(r, i) \/ FailItem(r, i)
           PROVE  Shape'
      <3>1. counts' \in [completed : Nat, failed : Nat]
        BY <2>11 DEF Succeed, FailItem
      <3>2. lane' \in [Run -> [Item -> Busy \union {"off", "todo"}]]
        BY <2>11, LaneMoves DEF Succeed, FailItem, Busy
      <3> QED
        BY <2>0, <2>11, <3>1, <3>2 DEF Succeed, FailItem, Settle, Kinds
    <2>12. ASSUME NEW r \in Run, NEW i \in Item, LaneThrows(r, i)
           PROVE  Shape'
      BY <2>0, <2>12, LaneMoves DEF LaneThrows, Kinds
    <2>13. CASE UNCHANGED vars
      BY <2>13 DEF vars
    <2> QED
      BY <2>1, <2>2, <2>3, <2>4, <2>5, <2>6, <2>7, <2>8, <2>9, <2>10, <2>11, <2>12, <2>13
      DEF Next, RunStep, LaneStep, Idle
  <1> QED
    BY <1>1, <1>2, PTL DEF Spec

-----------------------------------------------------------------------------
(* Trouble is only ever added, and an error, a Redis error or a lapse ends *)
(* the orderly part of a behavior.                                         *)
LEMMA OrderlyBefore ==
    ASSUME Shape, [Next]_vars, Orderly'
    PROVE  /\ Orderly
           /\ ~Spend("rejects") /\ ~Spend("redis") /\ ~Spend("lapses")
  <1>1. \A k \in Kinds : Spend(k) => spent'[k] # 0 /\ \A n \in Kinds : spent'[n] >= spent[n]
    BY SpendCounts DEF Shape
  <1>2. spent' = spent \/ \E k \in Kinds : Spend(k)
    <2>1. CASE Enqueue \/ CancelRead \/ CancelWrite \/ Stall \/ LockExpires \/ Idle \/ UNCHANGED vars
      BY <2>1 DEF Enqueue, CancelRead, CancelWrite, Stall, LockExpires, Idle, vars, Kinds
    <2>2. ASSUME NEW r \in Run, Take(r) \/ RunStep(r) \/ Reject(r) \/ Crash(r)
          PROVE  spent' = spent \/ \E k \in Kinds : Spend(k)
      BY <2>2 DEF Take, RunStep, ReadStatus, Acquire, Load, Start, ItemsOver, ReadVerdict,
                  WriteVerdict, Release, Finish, Fail, Reject, Crash, Kinds
    <2>3. ASSUME NEW r \in Run, NEW i \in Item,
                 \/ PickItem(r, i) \/ Mark(r, i) \/ Execute(r, i) \/ Succeed(r, i)
                 \/ FailItem(r, i) \/ LaneThrows(r, i)
          PROVE  spent' = spent \/ \E k \in Kinds : Spend(k)
      BY <2>3 DEF PickItem, Mark, Execute, Succeed, FailItem, LaneThrows, Kinds
    <2> QED
      BY <2>1, <2>2, <2>3 DEF Next, LaneStep
  <1> QED
    BY <1>1, <1>2 DEF Orderly, Shape, Kinds

(* In an orderly behavior whoever is inside withLock's function holds the  *)
(* lock, and lanes are on only while their run waits for them.             *)
Guarded(r) ==
    /\ pc[r] \in Inside \union {"release", "rethrow"} => lock = r /\ r \in held
    /\ \A i \in Item : /\ lane[r][i] # "off" => pc[r] \in {"start", "items"}
                       /\ lane[r][i] \in Busy => pc[r] = "items"

(* ... and no lane is given a DONE item.                                   *)
Fresh(r) == \A i \in Item : lane[r][i] # "off" => cp[i] # "DONE"

LockInv == Orderly => \A r \in Run : Guarded(r) /\ Fresh(r)

LEMMA LockInvInductive ==
    ASSUME Shape, LockInv, [Next]_vars
    PROVE  LockInv'
  <1> SUFFICES ASSUME Orderly', NEW s \in Run
               PROVE  Guarded(s)' /\ Fresh(s)'
    BY DEF LockInv
  <1> USE ExperimentAssumption DEF Shape, Guarded, Fresh, Inside, Busy
  <1>1. \A r \in Run : Guarded(r) /\ Fresh(r)
    BY OrderlyBefore DEF LockInv
  <1>2. ~Spend("rejects") /\ ~Spend("redis") /\ ~Spend("lapses")
    BY OrderlyBefore
  <1>3. CASE Enqueue \/ CancelRead \/ CancelWrite \/ Stall \/ Idle \/ UNCHANGED vars
    BY <1>1, <1>3 DEF Enqueue, CancelRead, CancelWrite, Stall, Idle, vars, rowVars, lockVars
  <1>4. CASE LockExpires
    BY <1>1, <1>2, <1>4 DEF LockExpires, rowVars
  <1>5. ASSUME NEW r \in Run,
               \/ Take(r) \/ ReadStatus(r) \/ Finish(r) \/ Fail(r)
               \/ ItemsOver(r) \/ ReadVerdict(r) \/ WriteVerdict(r)
        PROVE  Guarded(s)' /\ Fresh(s)'
    BY <1>1, <1>5 DEF Take, ReadStatus, Finish, Fail, ItemsOver, ReadVerdict, WriteVerdict,
                      Goto, At, rowVars, lockVars, memo
  <1>6. ASSUME NEW r \in Run, Acquire(r)
        PROVE  Guarded(s)' /\ Fresh(s)'
    BY <1>1, <1>2, <1>6 DEF Acquire, Free, Goto, At, rowVars, lockVars, memo
  <1>7. ASSUME NEW r \in Run, Load(r)
        PROVE  Guarded(s)' /\ Fresh(s)'
    BY <1>1, <1>7 DEF Load, Eligible, Goto, At, rowVars, lockVars, memo
  <1>8. ASSUME NEW r \in Run, Start(r)
        PROVE  Guarded(s)' /\ Fresh(s)'
    BY <1>1, <1>2, <1>8 DEF Start, Goto, At, lockVars, memo
  <1>9. ASSUME NEW r \in Run, Release(r)
        PROVE  Guarded(s)' /\ Fresh(s)'
    BY <1>1, <1>2, <1>9 DEF Release, Leaves, Goto, At, rowVars, memo
  <1>10. ASSUME NEW r \in Run, Crash(r)
         PROVE  Guarded(s)' /\ Fresh(s)'
    BY <1>1, <1>10, LaneMoves DEF Crash, Goto, rowVars, memo
  <1>11. ASSUME NEW r \in Run, NEW i \in Item, PickItem(r, i)
         PROVE  Guarded(s)' /\ Fresh(s)'
    <2>1. PICK place \in {"off", "mark"} : LaneTo(r, i, place)
      BY <1>11 DEF PickItem
    <2>2. /\ lane'[r][i] = place
          /\ \A q \in Run, k \in Item : q # r \/ k # i => lane'[q][k] = lane[q][k]
      BY <2>1, LaneMoves
    <2>3. lane[r][i] = "todo" /\ pc[r] = "items"
      BY <1>1, <1>11 DEF PickItem, InLane, Running
    <2>4. UNCHANGED <<pc, lock, held, cp>>
      BY <1>11 DEF PickItem, lockVars
    <2> QED
      BY <1>1, <2>2, <2>3, <2>4
  <1>12. ASSUME NEW r \in Run, NEW i \in Item,
                Mark(r, i) \/ Execute(r, i) \/ Succeed(r, i) \/ FailItem(r, i)
         PROVE  Guarded(s)' /\ Fresh(s)'
    <2>1. lane[r][i] \in Busy
      BY <1>12 DEF Mark, Execute, Succeed, FailItem, InLane
    <2>2. \A q \in Run \ {r}, k \in Item : lane[q][k] = "off"
      BY <1>1, <2>1
    <2>3. /\ lane'[r][i] \in Busy \union {"off"}
          /\ lane'[r][i] # "off" => cp'[i] # "DONE"
          /\ \A q \in Run, k \in Item : q # r \/ k # i => lane'[q][k] = lane[q][k]
          /\ \A k \in Item \ {i} : cp'[k] = cp[k]
      <3>1. CASE Mark(r, i)
        BY <3>1, LaneMoves DEF Mark
      <3>2. CASE Execute(r, i)
        BY <1>1, <2>1, <3>2, LaneMoves DEF Execute
      <3>3. CASE Succeed(r, i)
        BY <1>1, <2>1, <3>3, LaneMoves DEF Succeed, Settle
      <3>4. CASE FailItem(r, i)
        BY <3>4, LaneMoves DEF FailItem, Settle
      <3> QED
        <4> HIDE DEF Busy
        <4> QED
          BY <1>12, <3>1, <3>2, <3>3, <3>4
    <2>4. pc' = pc /\ lock' = lock /\ held' = held
      <3>1. CASE Mark(r, i) \/ Execute(r, i)
        BY <3>1 DEF Mark, Execute, lockVars
      <3>2. CASE Succeed(r, i) \/ FailItem(r, i)
        BY <3>2 DEF Succeed, FailItem, lockVars
      <3> QED
        BY <1>12, <3>1, <3>2
    <2>5. CASE s = r
      BY <1>1, <2>1, <2>3, <2>4, <2>5
    <2>6. CASE s # r
      BY <1>1, <2>2, <2>3, <2>4, <2>6
    <2> QED
      BY <2>5, <2>6
  <1> QED
    BY <1>2, <1>3, <1>4, <1>5, <1>6, <1>7, <1>8, <1>9, <1>10, <1>11, <1>12
    DEF Next, RunStep, LaneStep, Reject, LaneThrows

(* LockInv over every behavior.                                            *)
LEMMA LockInvSafe == Spec => []LockInv
  <1>1. Init => LockInv
    BY DEF Init, LockInv, Guarded, Fresh, Inside, Busy
  <1>2. Shape /\ LockInv /\ [Next]_vars => LockInv'
    BY LockInvInductive
  <1> QED
    BY <1>1, <1>2, ShapeCorrect, PTL DEF Spec

(* One run at a time works on the items, for any number of deliveries and  *)
(* whatever crashes, stalls and cancellations do, while Redis answers,     *)
(* locks are renewed and no error ends a run (withLock).                   *)
THEOREM OneRunSafe == Spec => []OneRunAtATime
  <1>1. LockInv => OneRunAtATime
    BY DEF LockInv, Guarded, OneRunAtATime, Working, Inside
  <1> QED
    BY <1>1, LockInvSafe, PTL

-----------------------------------------------------------------------------
(* The items are written by four steps of a lane, the verdict by one.      *)
LEMMA ItemsWritten ==
    ASSUME [Next]_vars
    PROVE  \/ UNCHANGED <<cp, traces>>
           \/ \E r \in Run, i \in Item : Mark(r, i) \/ Execute(r, i) \/ Succeed(r, i) \/ FailItem(r, i)
  <1>1. CASE Enqueue \/ CancelRead \/ CancelWrite
    BY <1>1 DEF Enqueue, CancelRead, CancelWrite
  <1>2. CASE Stall \/ LockExpires \/ Idle \/ UNCHANGED vars
    BY <1>2 DEF Stall, LockExpires, Idle, vars
  <1>3. ASSUME NEW r \in Run, Take(r) \/ Reject(r) \/ Crash(r)
        PROVE  UNCHANGED <<cp, traces>>
    BY <1>3 DEF Take, Reject, Crash
  <1>4. ASSUME NEW r \in Run, ReadStatus(r) \/ Acquire(r) \/ Load(r) \/ Start(r) \/ ItemsOver(r)
        PROVE  UNCHANGED <<cp, traces>>
    BY <1>4 DEF ReadStatus, Acquire, Load, Start, ItemsOver
  <1>5. ASSUME NEW r \in Run, ReadVerdict(r) \/ WriteVerdict(r) \/ Release(r) \/ Finish(r) \/ Fail(r)
        PROVE  UNCHANGED <<cp, traces>>
    BY <1>5 DEF ReadVerdict, WriteVerdict, Release, Finish, Fail
  <1>6. ASSUME NEW r \in Run, NEW i \in Item, PickItem(r, i) \/ LaneThrows(r, i)
        PROVE  UNCHANGED <<cp, traces>>
    BY <1>6 DEF PickItem, LaneThrows
  <1> QED
    BY <1>1, <1>2, <1>3, <1>4, <1>5, <1>6 DEF Next, RunStep, LaneStep

LEMMA VerdictWritten ==
    ASSUME [Next]_vars
    PROVE  verdict' = verdict \/ \E r \in Run : ReadVerdict(r)
  <1>1. CASE Enqueue \/ CancelRead \/ CancelWrite
    BY <1>1 DEF Enqueue, CancelRead, CancelWrite, memo
  <1>2. CASE Stall \/ LockExpires \/ Idle \/ UNCHANGED vars
    BY <1>2 DEF Stall, LockExpires, Idle, vars, memo
  <1>3. ASSUME NEW r \in Run, Take(r) \/ Reject(r) \/ Crash(r) PROVE verdict' = verdict
    BY <1>3 DEF Take, Reject, Crash, memo
  <1>4. ASSUME NEW r \in Run, ReadStatus(r) \/ Acquire(r) \/ Load(r) \/ Start(r) \/ ItemsOver(r)
        PROVE  verdict' = verdict
    BY <1>4 DEF ReadStatus, Acquire, Load, Start, ItemsOver, memo
  <1>5. ASSUME NEW r \in Run, WriteVerdict(r) \/ Release(r) \/ Finish(r) \/ Fail(r)
        PROVE  verdict' = verdict
    BY <1>5 DEF WriteVerdict, Release, Finish, Fail, memo
  <1>6. ASSUME NEW r \in Run, NEW i \in Item, PickItem(r, i) \/ LaneThrows(r, i) \/ Mark(r, i)
        PROVE  verdict' = verdict
    BY <1>6 DEF PickItem, LaneThrows, Mark, memo
  <1>7. ASSUME NEW r \in Run, NEW i \in Item, Execute(r, i) \/ Succeed(r, i) \/ FailItem(r, i)
        PROVE  verdict' = verdict
    BY <1>7 DEF Execute, Succeed, FailItem, memo
  <1> QED
    BY <1>1, <1>2, <1>3, <1>4, <1>5, <1>6, <1>7 DEF Next, RunStep, LaneStep

-----------------------------------------------------------------------------
(* No step of an orderly behavior runs a DONE item again or takes its      *)
(* checkpoint back, over any number of resumes (runExperiment).            *)
THEOREM DoneItemsRestSafe == Spec => DoneItemsRestOrderly
  <1> DEFINE Rests == Orderly' => \A i \in Item :
                         cp[i] = "DONE" => cp'[i] = "DONE" /\ traces'[i] = traces[i]
  <1>1. Shape /\ LockInv /\ [Next]_vars => [Rests]_vars
    <2> SUFFICES ASSUME Shape, LockInv, [Next]_vars, Orderly', NEW k \in Item, cp[k] = "DONE"
                 PROVE  cp'[k] = "DONE" /\ traces'[k] = traces[k]
      OBVIOUS
    <2>1. \A r \in Run : lane[r][k] = "off"
      BY OrderlyBefore DEF LockInv, Fresh
    <2>2. CASE UNCHANGED <<cp, traces>>
      BY <2>2
    <2>3. ASSUME NEW r \in Run, NEW i \in Item,
                 Mark(r, i) \/ Execute(r, i) \/ Succeed(r, i) \/ FailItem(r, i)
          PROVE  cp'[k] = "DONE" /\ traces'[k] = traces[k]
      <3>1. i # k
        BY <2>1, <2>3 DEF Mark, Execute, Succeed, FailItem, InLane
      <3>2. cp'[k] = cp[k]
        BY <2>3, <3>1 DEF Shape, Mark, Execute, Succeed, FailItem, Settle
      <3>3. traces'[k] = traces[k]
        BY <2>3, <3>1 DEF Shape, Mark, Execute, Succeed, FailItem, Settle
      <3> QED
        BY <3>2, <3>3
    <2> QED
      BY <2>2, <2>3, ItemsWritten
  <1> QED
    BY <1>1, ShapeCorrect, LockInvSafe, PTL DEF Spec, DoneItemsRestOrderly

-----------------------------------------------------------------------------
(* The failures the counter may have counted: not those of items a run is  *)
(* about to try again, once that run has reset the counter.                *)
Known == {i \in Item : cp[i] = "FAILED"
                          /\ \A r \in Run : lane[r][i] = "off" \/ pc[r] = "start"}

CountInv ==
    Orderly => /\ counts.completed = Cardinality(DoneItems)
               /\ \A r \in Run : pc[r] = "start" => done[r] = Cardinality(DoneItems)
               /\ counts.failed <= Cardinality(Known)

LEMMA KnownCounts ==
    /\ IsFiniteSet(Known) /\ IsFiniteSet(Known')
    /\ Cardinality(Known) \in Nat /\ Cardinality(Known') \in Nat
    /\ Known \subseteq Known' => Cardinality(Known) <= Cardinality(Known')
  <1>1. IsFiniteSet(Known) /\ IsFiniteSet(Known')
    BY ExperimentAssumption, FS_Subset DEF Known
  <1> QED
    BY <1>1, FS_Subset, FS_CardinalityType

LEMMA CountInvInductive ==
    ASSUME Shape, Shape', LockInv, CountInv, [Next]_vars
    PROVE  CountInv'
  <1> SUFFICES ASSUME Orderly'
               PROVE  /\ counts'.completed = Cardinality(DoneItems')
                      /\ \A s \in Run : pc'[s] = "start" => done'[s] = Cardinality(DoneItems')
                      /\ counts'.failed <= Cardinality(Known')
    BY DEF CountInv
  <1> DEFINE Goal == /\ counts'.completed = Cardinality(DoneItems')
                     /\ \A s \in Run : pc'[s] = "start" => done'[s] = Cardinality(DoneItems')
                     /\ counts'.failed <= Cardinality(Known')
  <1>1. /\ counts.completed = Cardinality(DoneItems)
        /\ \A r \in Run : pc[r] = "start" => done[r] = Cardinality(DoneItems)
        /\ counts.failed <= Cardinality(Known)
        /\ \A r \in Run : Guarded(r) /\ Fresh(r)
    BY OrderlyBefore DEF CountInv, LockInv
  <1>2. /\ ~Spend("rejects") /\ ~Spend("redis") /\ ~Spend("lapses")
        /\ counts.failed \in Nat /\ counts'.failed \in Nat
    BY OrderlyBefore DEF Shape
  <1>3. ASSUME UNCHANGED <<counts, cp>>, Known \subseteq Known',
               \A s \in Run : pc'[s] = "start" => pc[s] = "start" /\ done'[s] = done[s]
        PROVE  Goal
    <2>1. DoneItems' = DoneItems
      BY <1>3 DEF DoneItems
    <2>2. Cardinality(Known) <= Cardinality(Known')
      BY <1>3, KnownCounts
    <2> QED
      BY <1>1, <1>2, <1>3, <2>1, <2>2, KnownCounts
  <1>4. CASE UNCHANGED <<counts, cp, lane, pc, done>>
    BY <1>3, <1>4 DEF Known
  <1>5. ASSUME NEW r \in Run,
               \/ Take(r) \/ ReadStatus(r) \/ Finish(r) \/ Fail(r) \/ ItemsOver(r)
               \/ ReadVerdict(r) \/ WriteVerdict(r) \/ Acquire(r) \/ Release(r)
        PROVE  Goal
    <2>1. /\ UNCHANGED <<counts, cp, lane, done>>
          /\ \E place \in Places \ {"start"} : Goto(r, place)
          /\ pc[r] # "start"
      BY <1>2, <1>5 DEF Take, ReadStatus, Finish, Fail, ItemsOver, ReadVerdict, WriteVerdict,
                  Acquire, Release, At, rowVars, memo, Places, Inside
    <2>2. \A s \in Run : pc'[s] = "start" <=> pc[s] = "start"
      BY <2>1 DEF Goto, Shape
    <2> QED
      BY <1>3, <2>1, <2>2 DEF Known
  <1>6. ASSUME NEW r \in Run, Load(r)
        PROVE  Goal
    <2>1. \A s \in Run : pc'[s] = "start" => done'[s] = Cardinality(DoneItems)
      BY <1>1, <1>6 DEF Load, Goto, Shape
    <2>2. Known \subseteq Known'
      BY <1>6 DEF Known, Load, Goto, Shape, rowVars
    <2>3. DoneItems' = DoneItems /\ counts' = counts
      BY <1>6 DEF Load, DoneItems, rowVars
    <2> QED
      BY <1>1, <1>2, <2>1, <2>2, <2>3, KnownCounts
  <1>7. ASSUME NEW r \in Run, Start(r)
        PROVE  Goal
    <2>1. counts'.completed = Cardinality(DoneItems) /\ counts'.failed = 0
      BY <1>1, <1>7 DEF Start, Reset, At
    <2>2. DoneItems' = DoneItems /\ done' = done
      BY <1>7 DEF Start, DoneItems, memo
    <2>3. \A s \in Run : pc'[s] = "start" => pc[s] = "start"
      BY <1>2, <1>7 DEF Start, Goto, Shape
    <2> QED
      BY <1>1, <2>1, <2>2, <2>3, KnownCounts
  <1>8. ASSUME NEW r \in Run, Crash(r)
        PROVE  Goal
    <2>1. \A s \in Run, i \in Item : lane'[s][i] = lane[s][i] \/ lane'[s][i] = "off"
      BY <1>8, LaneMoves DEF Crash, Shape
    <2>2. \A s \in Run : pc'[s] = pc[s] \/ \A i \in Item : lane'[s][i] = "off"
      BY <1>8, LaneMoves DEF Crash, Goto, Shape
    <2>3. Known \subseteq Known'
      BY <1>8, <2>1, <2>2 DEF Known, Crash, rowVars
    <2>4. \A s \in Run : pc'[s] = "start" => pc[s] = "start"
      BY <1>8 DEF Crash, Goto, Shape
    <2> QED
      BY <1>3, <1>8, <2>3, <2>4 DEF Crash, rowVars, memo
  <1>9. ASSUME NEW r \in Run, NEW i \in Item, PickItem(r, i)
        PROVE  Goal
    <2>0. PICK place \in {"off", "mark"} : LaneTo(r, i, place)
      BY <1>9 DEF PickItem
    <2>1. \A s \in Run, k \in Item : lane[s][k] = "off" => lane'[s][k] = "off"
      <3>1. \A s \in Run, k \in Item : s # r \/ k # i => lane'[s][k] = lane[s][k]
        BY <2>0, LaneMoves DEF Shape, Busy
      <3>2. lane[r][i] # "off"
        BY <1>9 DEF PickItem, InLane
      <3> QED
        BY <3>1, <3>2
    <2>2. UNCHANGED <<counts, cp, pc, done>>
      BY <1>9 DEF PickItem, rowVars, memo
    <2> QED
      BY <1>3, <2>1, <2>2 DEF Known
  <1>10. ASSUME NEW r \in Run, NEW i \in Item, Execute(r, i)
         PROVE  Goal
    <2>1. \A s \in Run, k \in Item : lane[s][k] = "off" => lane'[s][k] = "off"
      <3>1. PICK place \in Busy : LaneTo(r, i, place)
        BY <1>10 DEF Execute, Busy
      <3>2. \A s \in Run, k \in Item : s # r \/ k # i => lane'[s][k] = lane[s][k]
        BY <3>1, LaneMoves DEF Shape
      <3>3. lane[r][i] # "off"
        BY <1>10 DEF Execute, InLane
      <3> QED
        BY <3>2, <3>3
    <2> QED
      BY <1>3, <1>10, <2>1 DEF Execute, Known, rowVars, memo
  <1>11. ASSUME NEW r \in Run, NEW i \in Item, Mark(r, i) \/ Succeed(r, i) \/ FailItem(r, i)
         PROVE  Goal
    <2>1. /\ lane[r][i] \in Busy
          /\ pc' = pc /\ done' = done
      BY <1>11 DEF Mark, Succeed, FailItem, InLane, Busy, memo
    <2>2. pc[r] = "items" /\ cp[i] # "DONE"
      BY <1>1, <2>1 DEF Guarded, Fresh, Busy
    <2>3. \A s \in Run : pc[s] # "start" /\ (s # r => lane[s][i] = "off")
      BY <1>1, <2>2 DEF Guarded, Inside
    <2>4. i \notin Known /\ i \notin DoneItems
      BY <2>1, <2>2 DEF Known, DoneItems, Busy
    <2>5. /\ \A s \in Run, k \in Item : k # i => lane'[s][k] = lane[s][k]
          /\ \A k \in Item : k # i => cp'[k] = cp[k]
      BY <1>11, LaneMoves DEF Mark, Succeed, FailItem, Settle, Shape, Busy
    <2>6. Known \subseteq Known' /\ DoneItems \subseteq DoneItems' \union {i}
      BY <2>1, <2>4, <2>5 DEF Known, DoneItems
    <2>7. CASE cp'[i] # "DONE" /\ counts' = counts
      <3>1. DoneItems' = DoneItems
        BY <2>4, <2>5, <2>7 DEF DoneItems
      <3>2. Cardinality(Known) <= Cardinality(Known')
        BY <2>6, KnownCounts
      <3> QED
        BY <1>1, <1>2, <2>1, <2>7, <3>1, <3>2, KnownCounts
    <2>8. CASE Succeed(r, i) /\ cp'[i] = "DONE"
      <3>1. DoneItems' = DoneItems \union {i}
        BY <2>4, <2>5, <2>8 DEF DoneItems
      <3>2. Cardinality(DoneItems') = Cardinality(DoneItems) + 1
        BY <2>4, <3>1, DoneCounts, FS_AddElement
      <3>3. counts' = [counts EXCEPT !.completed = @ + 1]
        BY <2>2, <2>8 DEF Succeed
      <3>4. counts'.completed = counts.completed + 1 /\ counts'.failed = counts.failed
        BY <3>3 DEF Shape
      <3> QED
        BY <1>1, <1>2, <2>1, <2>3, <2>6, <3>2, <3>4, KnownCounts
    <2>9. CASE FailItem(r, i)
      <3>1. DoneItems' = DoneItems
        BY <2>4, <2>5, <2>9 DEF DoneItems, FailItem, Settle, Shape
      <3>2. lane'[r][i] = "off" /\ cp'[i] = "FAILED"
        BY <2>9, LaneMoves DEF FailItem, Settle, Shape
      <3>3. \A s \in Run \ {r} : lane'[s][i] = "off"
        BY <2>3, <2>9, LaneMoves DEF FailItem, Shape
      <3>4. Known \union {i} \subseteq Known'
        BY <2>6, <3>2, <3>3 DEF Known
      <3>5. Cardinality(Known) + 1 <= Cardinality(Known')
        <4>1. Cardinality(Known \union {i}) = Cardinality(Known) + 1
          BY <2>4, KnownCounts, FS_AddElement
        <4> QED
          BY <3>4, <4>1, KnownCounts, FS_Subset
      <3>6. counts'.completed = counts.completed /\ counts'.failed = counts.failed + 1
        BY <2>9 DEF FailItem, Shape
      <3> QED
        BY <1>1, <1>2, <2>1, <2>3, <3>1, <3>5, <3>6, KnownCounts
    <2>10. CASE Mark(r, i)
      BY <2>7, <2>10 DEF Mark, Shape, rowVars
    <2>11. CASE Succeed(r, i) /\ cp'[i] # "DONE"
      BY <2>7, <2>11 DEF Succeed, Settle, Shape
    <2> QED
      BY <1>11, <2>8, <2>9, <2>10, <2>11
  <1>12. Goal
    BY <1>2, <1>4, <1>5, <1>6, <1>7, <1>8, <1>9, <1>10, <1>11
    DEF Next, RunStep, LaneStep, Enqueue, CancelRead, CancelWrite, Stall, LockExpires, Idle,
        vars, rowVars, memo, Reject, LaneThrows
  <1> QED
    BY <1>12

(* The counters agree with the checkpoints for any number of items and     *)
(* resumes: completed is the number of DONE items, and failed counts only  *)
(* items that are FAILED (runExperiment's reset and transactions).         *)
THEOREM CountsMatchSafe == Spec => []CountsMatch
  <1>1. Init => CountInv
    <2> SUFFICES ASSUME Init
                 PROVE  CountInv
      OBVIOUS
    <2>1. DoneItems = {}
      BY DEF Init, DoneItems
    <2> QED
      BY <2>1, FS_EmptySet, KnownCounts DEF Init, CountInv
  <1>2. Shape /\ Shape' /\ LockInv /\ CountInv /\ [Next]_vars => CountInv'
    BY CountInvInductive
  <1>3. Shape /\ CountInv => CountsMatch
    <2> SUFFICES ASSUME Shape, CountInv, Orderly
                 PROVE  /\ counts.completed = Cardinality(DoneItems)
                        /\ counts.failed <= Cardinality({i \in Item : cp[i] = "FAILED"})
      BY DEF CountsMatch
    <2> DEFINE failed == {i \in Item : cp[i] = "FAILED"}
    <2>1. IsFiniteSet(failed) /\ Known \in SUBSET failed
      BY ExperimentAssumption, FS_Subset DEF Known
    <2>2. Cardinality(Known) <= Cardinality(failed) /\ Cardinality(failed) \in Nat
      BY <2>1, FS_Subset, FS_CardinalityType
    <2>3. counts.failed <= Cardinality(Known) /\ counts.failed \in Nat
      BY DEF CountInv, Shape
    <2> HIDE DEF failed
    <2>4. counts.failed <= Cardinality(failed)
      BY <2>2, <2>3, KnownCounts
    <2> QED
      BY <2>4 DEF CountInv, failed
  <1> QED
    BY <1>1, <1>2, <1>3, ShapeCorrect, LockInvSafe, PTL DEF Spec

-----------------------------------------------------------------------------
VerdictShape == pc \in [Run -> Places] /\ verdict \in [Run -> Final \union {None}]

(* Verdicts are only made by ReadVerdict.                                  *)
LEMMA VerdictShapeCorrect == Spec => []VerdictShape
  <1>1. Init => VerdictShape
    BY DEF Init, VerdictShape, Places
  <1>2. Shape' /\ VerdictShape /\ [Next]_vars => VerdictShape'
    <2> SUFFICES ASSUME Shape', VerdictShape, [Next]_vars
                 PROVE  verdict' \in [Run -> Final \union {None}]
      BY DEF Shape, VerdictShape
    <2>1. CASE verdict' = verdict
      BY <2>1 DEF VerdictShape
    <2>2. ASSUME NEW r \in Run, ReadVerdict(r)
          PROVE  verdict' \in [Run -> Final \union {None}]
      <3>1. Verdict \in Final
        BY DEF Verdict, Final
      <3>2. verdict' = [verdict EXCEPT ![r] = Verdict]
        BY <2>2 DEF ReadVerdict
      <3> QED
        BY <3>1, <3>2 DEF VerdictShape
    <2> QED
      BY <2>1, <2>2, VerdictWritten
  <1> QED
    BY <1>1, <1>2, ShapeCorrect, PTL DEF Spec

-----------------------------------------------------------------------------
(* Only two steps write a status that is not the cancellation: the start   *)
(* of a run that had looked at the status before, and the verdict of one   *)
(* that had; a settled cancellation has neither ahead of it, and no step   *)
(* brings one about, for any number of runs and without any proviso.       *)
THEOREM CancelSticksSafe == Spec => CancelSticks
  <1>1. VerdictShape /\ [Next]_vars => [CancelSettled => CancelSettled']_vars
    <2> SUFFICES ASSUME VerdictShape, [Next]_vars, CancelSettled
                 PROVE  CancelSettled'
      OBVIOUS
    <2> USE DEF VerdictShape, CancelSettled, At, Goto, rowVars, memo
    <2>1. CASE Enqueue \/ CancelRead \/ CancelWrite \/ Stall \/ LockExpires \/ Idle \/ UNCHANGED vars
      BY <2>1 DEF Enqueue, CancelRead, CancelWrite, Stall, LockExpires, Idle, vars
    <2>2. ASSUME NEW r \in Run, Take(r) \/ ReadStatus(r) \/ ItemsOver(r) \/ Finish(r) \/ Fail(r)
          PROVE  CancelSettled'
      BY <2>2 DEF Take, ReadStatus, ItemsOver, Finish, Fail
    <2>3. ASSUME NEW r \in Run, Acquire(r) \/ Load(r) \/ Start(r)
          PROVE  CancelSettled'
      BY <2>3 DEF Acquire, Load, Start
    <2>4. ASSUME NEW r \in Run, ReadVerdict(r) \/ WriteVerdict(r)
          PROVE  CancelSettled'
      BY <2>4 DEF ReadVerdict, Verdict, WriteVerdict
    <2>5. ASSUME NEW r \in Run, Release(r) \/ Reject(r) \/ Crash(r)
          PROVE  CancelSettled'
      BY <2>5 DEF Release, Reject, Crash
    <2>6. ASSUME NEW r \in Run, NEW i \in Item,
                 \/ PickItem(r, i) \/ Mark(r, i) \/ Execute(r, i) \/ Succeed(r, i)
                 \/ FailItem(r, i) \/ LaneThrows(r, i)
          PROVE  CancelSettled'
      BY <2>6 DEF PickItem, Mark, Execute, Succeed, FailItem, LaneThrows
    <2> QED
      BY <2>1, <2>2, <2>3, <2>4, <2>5, <2>6 DEF Next, RunStep, LaneStep
  <1> QED
    BY <1>1, VerdictShapeCorrect, PTL DEF Spec, CancelSticks

=============================================================================
