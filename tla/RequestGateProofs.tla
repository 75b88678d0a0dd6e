-------------------------- MODULE RequestGateProofs --------------------------
(***************************************************************************)
(* Proofs about RequestGate, for any number of requests, any limits, costs *)
(* and events: types, stale entries have had their race, and a refusal     *)
(* has its cause.  Then about IngestRequest, a request behind that gate,   *)
(* for any finite set of attempts, any rate limit and any trouble: types,  *)
(* an acknowledged batch is enqueued, what a pending claim means, and how  *)
(* many batches one key can create while no submission fails.              *)
(***************************************************************************)
EXTENDS RequestGate, IngestRequest, FiniteSetTheorems, TLAPS

(* A step that is charged to some kinds adds one to each of them.          *)
LEMMA SpendCounts ==
    ASSUME spent \in [Kinds -> Nat], NEW kinds, Spend(kinds)
    PROVE  /\ spent' \in [Kinds -> Nat]
           /\ \A k \in Kinds : spent'[k] = IF k \in kinds THEN spent[k] + 1 ELSE spent[k]
  BY DEF Spend

\* An edit under way is one of those counted.
EditCounted == edit # None => spent["edits"] > 0

TypeInv == TypeOK /\ EditCounted

(* Rev counts the edits written: it moves with WriteBudget alone.          *)
LEMMA RevMoves ==
    ASSUME TypeInv
    PROVE  /\ Rev \in Nat
           /\ UNCHANGED <<edit, spent>> => Rev' = Rev
           /\ \A kinds : "edits" \notin kinds /\ edit' = edit /\ Spend(kinds) => Rev' = Rev
           /\ StartEdit => Rev' = Rev
           /\ WriteBudget => Rev' = Rev + 1
  <1> USE DEF TypeInv, TypeOK, EditCounted, Rev, Kinds
  <1>1. Rev \in Nat
    OBVIOUS
  <1>2. UNCHANGED <<edit, spent>> => Rev' = Rev
    OBVIOUS
  <1>3. ASSUME NEW kinds, "edits" \notin kinds, edit' = edit, Spend(kinds)
        PROVE  Rev' = Rev
    BY <1>3, SpendCounts
  <1>4. ASSUME StartEdit
        PROVE  Rev' = Rev
    <2>1. edit = None /\ spent'["edits"] = spent["edits"] + 1
      BY <1>4, SpendCounts DEF StartEdit
    <2>2. edit' # None
      BY <1>4, GateAssumption DEF StartEdit
    <2> QED
      BY <2>1, <2>2
  <1>5. WriteBudget => Rev' = Rev + 1
    BY DEF WriteBudget
  <1> QED
    BY <1>1, <1>2, <1>3, <1>4, <1>5

-----------------------------------------------------------------------------
(* What a load returns has the type of an entry.                           *)
LEMMA CapsTyped ==
    ASSUME NEW rev \in Nat, NEW month \in Nat
    PROVE  /\ NoCap \in CapType
           /\ [NoCap EXCEPT !.rev = rev, !.month = month] \in CapType
           /\ \A limit \in Limits : [NoCap EXCEPT !.hard = TRUE, !.limit = limit, !.rev = rev] \in CapType
           /\ \A cap \in CapType, cost \in 0..2 * MaxSpend :
                 [cap EXCEPT !.cost = cost, !.month = month] \in CapType
           /\ \A cap \in CapType, raced \in BOOLEAN : [cap EXCEPT !.raced = raced] \in CapType
  <1>1. 0 \in 0..2 * MaxSpend
    BY GateAssumption
  <1> QED
    BY <1>1 DEF NoCap, CapType

RequestType == [Request -> [at : Places, cap : CapType]]

(* The ways a request moves on keep its type.                              *)
LEMMA RequestMoves ==
    ASSUME request \in RequestType, NEW r \in Request
    PROVE  /\ \A place \in Places : [request EXCEPT ![r].at = place] \in RequestType
           /\ \A place \in Places, cap \in CapType :
                 [request EXCEPT ![r].at = place, ![r].cap = cap] \in RequestType
           /\ CheckBudget(r) \/ Call(r) \/ Refuse(r) => request' \in RequestType
           /\ [request EXCEPT ![r] = Idle] \in RequestType
  <1>1. NoCap \in CapType
    BY CapsTyped
  <1>2. {"idle", "calling", "refused", "guard"} \subseteq Places
    BY DEF Places, GuardPlaces
  <1>3. ASSUME NEW place \in Places, NEW cap \in CapType
        PROVE  [request EXCEPT ![r].at = place, ![r].cap = cap] \in RequestType
    <2>1. [request EXCEPT ![r].at = place] \in RequestType
      BY DEF RequestType
    <2>2. [[request EXCEPT ![r].at = place] EXCEPT ![r].cap = cap] \in RequestType
      BY <2>1 DEF RequestType
    <2> QED
      BY <2>2
  <1>4. \A place \in Places : [request EXCEPT ![r] = [Idle EXCEPT !.at = place]] \in RequestType
    BY <1>1 DEF Idle, RequestType
  <1>5. [request EXCEPT ![r] = Idle] \in RequestType
    BY <1>1, <1>2 DEF Idle, RequestType
  <1>6. \A place \in Places : [request EXCEPT ![r].at = place] \in RequestType
    BY DEF RequestType
  <1> QED
    BY <1>1, <1>2, <1>3, <1>4, <1>5, <1>6 DEF CheckBudget, Call, Refuse

(* So does a load that has measured the cost.                              *)
LEMMA Measured ==
    ASSUME request \in RequestType, NEW r \in Request, NEW place \in Places,
           NEW cost \in 0..2 * MaxSpend, NEW month \in Nat
    PROVE  [request EXCEPT ![r].at = place, ![r].cap.cost = cost, ![r].cap.month = month] \in RequestType
  <1>1. [request EXCEPT ![r].at = place] \in RequestType
    BY DEF RequestType
  <1>2. ASSUME NEW q \in RequestType
        PROVE  [q EXCEPT ![r].cap.cost = cost] \in RequestType /\ [q EXCEPT ![r].cap.month = month] \in RequestType
    <2>1. q[r] \in [at : Places, cap : CapType] /\ q[r].cap \in CapType
      BY DEF RequestType
    <2>2. [q[r].cap EXCEPT !.cost = cost] \in CapType /\ [q[r].cap EXCEPT !.month = month] \in CapType
      BY <2>1 DEF CapType
    <2>3. \A cap \in CapType : [q EXCEPT ![r].cap = cap] \in RequestType
      BY DEF RequestType
    <2> QED
      BY <2>2, <2>3
  <1> DEFINE q1 == [request EXCEPT ![r].at = place]
             q2 == [q1 EXCEPT ![r].cap.cost = cost]
  <1>3. q2 \in RequestType
    <2> HIDE DEF q1
    <2> QED
      BY <1>1, <1>2 DEF q1
  <1>4. [q2 EXCEPT ![r].cap.month = month] \in RequestType
    <2> HIDE DEF q2
    <2> QED
      BY <1>2, <1>3
  <1> QED
    BY <1>4

(* Steps that neither load nor keep a cap.                                 *)
LEMMA RequestSteps ==
    ASSUME request \in RequestType, guard = None \/ guard \in CapType, NEW r \in Request
    PROVE  AuthenticateKeys(r) \/ ReadGuard(r) \/ Judge(r) \/ Answer(r) => request' \in RequestType
  <1>1. {"find key", "keep key", "find budget", "judge"} \subseteq Places
    BY DEF Places, AuthPlaces, GuardPlaces
  <1>2. Arrive(r) => request' \in RequestType
    BY <1>1, RequestMoves DEF Arrive, KeyHit
  <1>3. FindKey(r) => request' \in RequestType
    BY <1>1, RequestMoves DEF FindKey
  <1>4. KeepKey(r) => request' \in RequestType
    BY RequestMoves DEF KeepKey
  <1>5. ReadGuard(r) => request' \in RequestType
    <2>1. guard # None => [request EXCEPT ![r].at = "judge", ![r].cap = guard] \in RequestType
      BY <1>1, RequestMoves
    <2>2. [request EXCEPT ![r].at = "find budget"] \in RequestType
      BY <1>1, RequestMoves
    <2> QED
      BY <2>1, <2>2 DEF ReadGuard, FromEntry
  <1>6. Judge(r) => request' \in RequestType
    BY RequestMoves DEF Judge
  <1>7. Answer(r) => request' \in RequestType
    BY RequestMoves DEF Answer
  <1> QED
    BY <1>2, <1>3, <1>4, <1>5, <1>6, <1>7 DEF AuthenticateKeys

(* Steps that load one.                                                    *)
LEMMA LoadSteps ==
    ASSUME request \in RequestType, budget \in Limits \union {None}, Rev \in Nat, Month \in Nat,
           GuardCost \in 0..2 * MaxSpend, NEW r \in Request
    PROVE  FindBudget(r) \/ Measure(r) => request' \in RequestType
  <1>1. {"measure", "keep cap"} \subseteq Places
    BY DEF Places, GuardPlaces
  <1>2. ASSUME FindBudget(r) PROVE request' \in RequestType
    <2>1. [NoCap EXCEPT !.rev = Rev, !.month = Month] \in CapType
      BY CapsTyped
    <2>2. budget # None => [NoCap EXCEPT !.hard = TRUE, !.limit = budget, !.rev = Rev] \in CapType
      BY CapsTyped
    <2>3. \A place \in Places, cap \in CapType :
             [request EXCEPT ![r] = [@ EXCEPT !.at = place, !.cap = cap]] \in RequestType
      BY DEF RequestType
    <2>4. CASE budget # None
      BY <1>1, <1>2, <2>2, <2>3, <2>4 DEF FindBudget
    <2>5. CASE budget = None
      BY <1>1, <1>2, <2>1, <2>3, <2>5 DEF FindBudget
    <2> QED
      BY <2>4, <2>5
  <1>3. ASSUME Measure(r) PROVE request' \in RequestType
    <2> DEFINE kept == [request EXCEPT ![r].at = "keep cap", ![r].cap.cost = GuardCost,
                                       ![r].cap.month = Month]
    <2>1. kept \in RequestType
      BY <1>1, Measured
    <2>2. request' = kept \/ Call(r)
      BY <1>3 DEF Measure
    <2> HIDE DEF kept
    <2> QED
      BY <2>1, <2>2, RequestMoves
  <1> QED
    BY <1>2, <1>3

LEMMA TypeInvInductive ==
    ASSUME TypeInv, [Next]_vars
    PROVE  TypeInv'
  <1> USE GateAssumption DEF TypeInv, TypeOK, EditCounted, keyVars, costVars
  <1>1. \A kinds : Spend(kinds) =>
           /\ spent' \in [Kinds -> Nat]
           /\ spent["edits"] > 0 => spent'["edits"] > 0
           /\ "edits" \in kinds => spent'["edits"] > 0
    BY SpendCounts DEF Kinds
  <1>2. CASE KeyExpires \/ DeleteKey \/ BustKey \/ KeyEntryExpires \/ GuardEntryExpires
    BY <1>1, <1>2 DEF KeyExpires, DeleteKey, BustKey, KeyBusted, KeyEntryExpires, GuardEntryExpires
  <1>3. CASE StartEdit \/ WriteBudget
    BY <1>1, <1>3 DEF StartEdit, WriteBudget, Invalidated
  <1>4. CASE CostMoves \/ NewMonth
    BY <1>1, <1>4 DEF CostMoves, NewMonth
  <1>0. request \in RequestType
    BY DEF RequestType
  <1>5. ASSUME NEW r \in Request, AuthenticateKeys(r) \/ AssertWithinBudget(r) \/ Answer(r),
               request' \in RequestType, guard' = None \/ guard' \in CapType
        PROVE  TypeInv'
    <2>1. CASE Arrive(r) \/ FindKey(r) \/ KeepKey(r) \/ Answer(r)
      <3>1. keyCache' = keyCache \/ keyCache' \in [raced : BOOLEAN]
        <4>1. [raced |-> ~keyRow] \in [raced : BOOLEAN]
          OBVIOUS
        <4>2. keyCache' = keyCache \/ keyCache' = [raced |-> ~keyRow]
          BY <2>1 DEF Arrive, FindKey, KeepKey, Answer
        <4> QED
          BY <4>1, <4>2
      <3>2. UNCHANGED <<keyRow, expired, revoking, budget, edit, spend, carry>>
        BY <2>1 DEF Arrive, FindKey, KeepKey, Answer
      <3>3. spent' = spent \/ Spend({"redis"})
        BY <2>1 DEF Arrive, FindKey, KeepKey, Answer
      <3> QED
        BY <1>1, <1>5, <3>1, <3>2, <3>3 DEF RequestType
    <2>2. CASE AssertWithinBudget(r)
      BY <1>1, <1>5, <2>2 DEF AssertWithinBudget, ReadGuard, FindBudget, Measure, KeepCap, Judge,
         RequestType
    <2> QED
      BY <1>5, <2>1, <2>2 DEF AuthenticateKeys
  <1>6. ASSUME NEW r \in Request, AuthenticateKeys(r) \/ Answer(r)
        PROVE  TypeInv'
    <2>1. request' \in RequestType
      BY <1>0, <1>6, RequestSteps
    <2>2. guard' = guard
      BY <1>6 DEF AuthenticateKeys, Arrive, FindKey, KeepKey, Answer
    <2> QED
      BY <1>5, <1>6, <2>1, <2>2
  <1>7. "judge" \in Places
    BY DEF Places, GuardPlaces
  <1>8. ASSUME NEW r \in Request, ReadGuard(r) \/ Judge(r)
        PROVE  TypeInv'
    <2>1. request' \in RequestType
      BY <1>0, <1>8, RequestSteps
    <2>2. guard' = guard
      BY <1>8 DEF ReadGuard, Judge
    <2> QED
      BY <1>5, <1>8, <2>1, <2>2 DEF AssertWithinBudget
  <1>9. ASSUME NEW r \in Request, FindBudget(r) \/ Measure(r)
        PROVE  TypeInv'
    <2>1. Rev \in Nat /\ Month \in Nat /\ GuardCost \in 0..2 * MaxSpend
      BY RevMoves DEF Month, Kinds, GuardCost
    <2>2. budget \in Limits \union {None}
      OBVIOUS
    <2>3. request' \in RequestType
      BY <1>0, <1>9, <2>1, <2>2, LoadSteps
    <2>4. guard' = guard
      BY <1>9 DEF FindBudget, Measure
    <2> QED
      BY <1>5, <1>9, <2>3, <2>4 DEF AssertWithinBudget
  <1>10. ASSUME NEW r \in Request, KeepCap(r)
         PROVE  TypeInv'
    <2>1. request' \in RequestType
      BY <1>7, <1>10, RequestMoves DEF KeepCap, RequestType
    <2>2. guard' = None \/ guard' \in CapType
      <3>1. \A raced \in BOOLEAN : [request[r].cap EXCEPT !.raced = raced] \in CapType
        BY DEF CapType
      <3>2. (request[r].cap.rev # Rev \/ edit # None) \in BOOLEAN
        OBVIOUS
      <3> QED
        BY <1>10, <3>1, <3>2 DEF KeepCap
    <2> QED
      BY <1>5, <1>10, <2>1, <2>2 DEF AssertWithinBudget
  <1>11. CASE UNCHANGED vars
    BY <1>11 DEF vars
  <1> QED
    BY <1>2, <1>3, <1>4, <1>6, <1>8, <1>9, <1>10, <1>11 DEF Next, AssertWithinBudget

LEMMA TypeInvHolds == Spec => []TypeInv
  <1>1. ASSUME Init
        PROVE  TypeInv
    <2>1. request \in [Request -> [at : Places, cap : CapType]]
      BY <1>1, CapsTyped DEF Init, Idle, Places
    <2>2. spent \in [Kinds -> Nat] /\ spend \in 0..MaxSpend /\ carry \in 0..MaxSpend
      BY <1>1, GateAssumption DEF Init
    <2> QED
      BY <1>1, <2>1, <2>2 DEF Init, TypeInv, TypeOK, EditCounted
  <1>2. TypeInv /\ [Next]_vars => TypeInv'
    BY TypeInvInductive
  <1> QED
    BY <1>1, <1>2, PTL DEF Spec

(* The types; they rest on that an edit under way is a counted one         *)
(* (setCostBudget, assertWithinBudget, authenticateKeys).                  *)
THEOREM TypeSafe == Spec => []TypeOK
  <1>1. TypeInv => TypeOK
    BY DEF TypeInv
  <1> QED
    BY <1>1, TypeInvHolds, PTL

-----------------------------------------------------------------------------
RedisFailed == spent["redis"] > 0

(* A Redis error is never forgotten.                                       *)
LEMMA RedisCounts ==
    ASSUME TypeInv
    PROVE  /\ RedisFailed /\ [Next]_vars => RedisFailed'
           /\ \A kinds : "redis" \in kinds /\ Spend(kinds) => RedisFailed'
  <1>1. ASSUME NEW kinds, Spend(kinds)
        PROVE  /\ RedisFailed => RedisFailed'
               /\ "redis" \in kinds => RedisFailed'
    BY <1>1, SpendCounts DEF TypeInv, TypeOK, RedisFailed, Kinds
  <1>2. [Next]_vars => spent' = spent \/ \E kinds : Spend(kinds)
    <2> SUFFICES ASSUME [Next]_vars
                 PROVE  spent' = spent \/ \E kinds : Spend(kinds)
      OBVIOUS
    <2>1. CASE \/ KeyExpires \/ DeleteKey \/ BustKey \/ KeyEntryExpires \/ StartEdit \/ WriteBudget
               \/ CostMoves \/ NewMonth \/ GuardEntryExpires \/ UNCHANGED vars
      BY <2>1 DEF KeyExpires, DeleteKey, BustKey, KeyEntryExpires, StartEdit, WriteBudget,
                  CostMoves, NewMonth, GuardEntryExpires, vars
    <2>2. ASSUME NEW r \in Request, AuthenticateKeys(r) \/ AssertWithinBudget(r) \/ Answer(r)
          PROVE  spent' = spent \/ \E kinds : Spend(kinds)
      BY <2>2 DEF AuthenticateKeys, Arrive, FindKey, KeepKey, AssertWithinBudget, ReadGuard,
                  FindBudget, Measure, KeepCap, Judge, Answer
    <2> QED
      BY <2>1, <2>2 DEF Next
  <1> QED
    BY <1>1, <1>2 DEF RedisFailed

(* A key entry outlives its row only by a race or by a Redis error: the    *)
(* revocation drops what was kept before it, and whatever is kept after    *)
(* the row is gone carries the mark of the race (revokeApiKey,             *)
(* authenticateKeys).                                                      *)
THEOREM StaleKeySafe == Spec => []StaleKeyRaced
  <1>1. Init => StaleKeyRaced
    BY DEF Init, StaleKeyRaced
  <1>2. TypeInv /\ StaleKeyRaced /\ [Next]_vars => StaleKeyRaced'
    <2> SUFFICES ASSUME TypeInv, StaleKeyRaced, [Next]_vars, ~RedisFailed', ~keyRow', keyCache' # None
                 PROVE  revoking' \/ keyCache'.raced
      BY DEF StaleKeyRaced, RedisFailed
    <2>1. ~RedisFailed /\ \A kinds : "redis" \in kinds => ~Spend(kinds)
      BY RedisCounts
    <2>2. keyRow \/ keyCache = None \/ revoking \/ keyCache.raced
      BY <2>1 DEF StaleKeyRaced, RedisFailed
    <2>3. CASE UNCHANGED <<keyRow, keyCache, revoking>>
      BY <2>2, <2>3
    <2>4. CASE DeleteKey \/ BustKey \/ KeyEntryExpires
      BY <2>1, <2>4 DEF DeleteKey, BustKey, KeyBusted, KeyEntryExpires
    <2>5. ASSUME NEW r \in Request, KeepKey(r)
          PROVE  revoking' \/ keyCache'.raced
      <3>1. keyCache' = [raced |-> ~keyRow] /\ ~keyRow
        BY <2>1, <2>5 DEF KeepKey
      <3>2. keyCache'.raced = ~keyRow
        BY <3>1
      <3> QED
        BY <3>1, <3>2
    <2> QED
      BY <2>3, <2>4, <2>5 DEF Next, keyVars, vars, KeyExpires, StartEdit, WriteBudget, CostMoves,
         NewMonth, GuardEntryExpires, AuthenticateKeys, Arrive, FindKey, AssertWithinBudget,
         ReadGuard, FindBudget, Measure, KeepCap, Judge, Answer
  <1> QED
    BY <1>1, <1>2, TypeInvHolds, PTL DEF Spec

-----------------------------------------------------------------------------
(* An entry that is not of the budget about to be written is gone before   *)
(* the write, or carries the mark of the race.                             *)
CapInv == guard # None /\ (guard.rev # Rev \/ edit # None) => guard.raced \/ RedisFailed

(* Clearing the guard's entry before the write is enough for what was      *)
(* right when it was kept (invalidateBudgetGuard, setCostBudget): whatever *)
(* is stale beside the row was kept during an edit or after Redis failed.  *)
THEOREM StaleCapSafe == Spec => []StaleCapRaced
  <1>1. Init => CapInv
    BY DEF Init, CapInv
  <1>2. TypeInv /\ CapInv /\ [Next]_vars => CapInv'
    <2> SUFFICES ASSUME TypeInv, CapInv, [Next]_vars, ~RedisFailed', guard' # None,
                        guard'.rev # Rev' \/ edit' # None
                 PROVE  guard'.raced
      BY DEF CapInv
    <2>1. ~RedisFailed /\ \A kinds : "redis" \in kinds => ~Spend(kinds)
      BY RedisCounts
    <2>2. guard = None \/ guard.raced \/ (guard.rev = Rev /\ edit = None)
      BY <2>1 DEF CapInv
    <2>3. CASE UNCHANGED <<guard, edit>> /\ Rev' = Rev
      BY <2>2, <2>3
    <2>4. CASE StartEdit \/ GuardEntryExpires
      BY <2>1, <2>4 DEF StartEdit, Invalidated, GuardEntryExpires
    <2>5. CASE WriteBudget
      BY <2>2, <2>5 DEF WriteBudget
    <2>6. ASSUME NEW r \in Request, KeepCap(r)
          PROVE  guard'.raced
      <3>1. guard' = [request[r].cap EXCEPT !.raced = request[r].cap.rev # Rev \/ edit # None]
        BY <2>1, <2>6 DEF KeepCap
      <3>2. edit' = edit /\ spent' = spent
        BY <2>1, <2>6 DEF KeepCap, costVars
      <3>3. request[r].cap \in CapType
        BY DEF TypeInv, TypeOK
      <3> QED
        BY <3>1, <3>2, <3>3, RevMoves DEF CapType
    <2>7. CASE \/ KeyExpires \/ DeleteKey \/ BustKey \/ KeyEntryExpires \/ CostMoves \/ NewMonth
               \/ UNCHANGED vars
      <3>1. UNCHANGED <<guard, edit>>
        BY <2>7 DEF KeyExpires, DeleteKey, BustKey, KeyEntryExpires, CostMoves, NewMonth, vars, costVars
      <3>2. Rev' = Rev
        BY <2>7, <3>1, RevMoves DEF KeyExpires, DeleteKey, BustKey, KeyEntryExpires, CostMoves,
           NewMonth, vars
      <3> QED
        BY <2>3, <3>1, <3>2
    <2>8. ASSUME NEW r \in Request,
                 \/ AuthenticateKeys(r) \/ ReadGuard(r) \/ FindBudget(r) \/ Measure(r) \/ Judge(r)
                 \/ Answer(r)
          PROVE  guard'.raced
      <3>1. UNCHANGED <<guard, edit>>
        BY <2>8 DEF AuthenticateKeys, Arrive, FindKey, KeepKey, ReadGuard, FindBudget, Measure,
           Judge, Answer, costVars
      <3>2. spent' = spent \/ \E kinds : "edits" \notin kinds /\ Spend(kinds)
        BY <2>8 DEF AuthenticateKeys, Arrive, FindKey, KeepKey, ReadGuard, FindBudget, Measure,
           Judge, Answer
      <3>3. Rev' = Rev
        BY <3>1, <3>2, RevMoves
      <3> QED
        BY <2>3, <3>1, <3>3
    <2> QED
      BY <2>4, <2>5, <2>6, <2>7, <2>8 DEF Next, AssertWithinBudget
  <1>3. CapInv => StaleCapRaced
    BY DEF CapInv, StaleCapRaced, RedisFailed
  <1> QED
    BY <1>1, <1>2, <1>3, TypeInvHolds, PTL DEF Spec

-----------------------------------------------------------------------------
(* A cap of the present edit is the row's, and a cost of the present month *)
(* is not above what the project has spent by now.                         *)
CapTrue(cap) ==
    /\ cap.rev <= Rev
    /\ cap.month <= Month
    /\ cap.hard /\ cap.rev = Rev =>
          /\ budget # None
          /\ budget = cap.limit
          /\ cap.month = Month => cap.cost <= spend + carry

CapsTrue ==
    /\ guard # None => CapTrue(guard)
    /\ \A r \in Request : CapTrue(request[r].cap)

(* Edits and months are only added, and within a month the cost grows.     *)
LEMMA TimePasses ==
    ASSUME TypeInv, [Next]_vars
    PROVE  \/ Rev' = Rev + 1 /\ Month' = Month
           \/ Rev' = Rev /\ budget' = budget /\ Month' = Month + 1
           \/ Rev' = Rev /\ budget' = budget /\ Month' = Month /\ spend' + carry' >= spend + carry
  <1>1. Month \in Nat /\ Rev \in Nat /\ spend \in Nat /\ carry \in Nat
    BY GateAssumption, RevMoves DEF Month, Kinds, TypeInv, TypeOK
  <1>2. \A kinds : Spend(kinds) => Month' = IF "months" \in kinds THEN Month + 1 ELSE Month
    BY SpendCounts DEF Month, Kinds, TypeInv, TypeOK
  <1>3. spent' = spent => Month' = Month
    BY DEF Month
  <1>4. CASE NewMonth
    BY <1>2, <1>4, RevMoves DEF NewMonth
  <1>5. CASE StartEdit
    BY <1>1, <1>2, <1>5, RevMoves DEF StartEdit
  <1>6. CASE WriteBudget
    BY <1>3, <1>6, RevMoves DEF WriteBudget
  <1>7. CASE CostMoves
    BY <1>1, <1>2, <1>7, RevMoves DEF CostMoves
  <1>8. ASSUME UNCHANGED <<budget, edit, spend, carry>>,
               \/ spent' = spent
               \/ \E kinds : kinds \intersect {"months", "edits"} = {} /\ Spend(kinds)
        PROVE  Rev' = Rev /\ budget' = budget /\ Month' = Month /\ spend' + carry' >= spend + carry
    BY <1>1, <1>2, <1>3, <1>8, RevMoves
  <1>9. CASE KeyExpires \/ DeleteKey \/ BustKey \/ KeyEntryExpires \/ GuardEntryExpires \/ UNCHANGED vars
    BY <1>8, <1>9 DEF KeyExpires, DeleteKey, BustKey, KeyEntryExpires, GuardEntryExpires, vars, costVars
  <1>10. ASSUME NEW r \in Request, AuthenticateKeys(r) \/ AssertWithinBudget(r) \/ Answer(r)
         PROVE  Rev' = Rev /\ budget' = budget /\ Month' = Month /\ spend' + carry' >= spend + carry
    BY <1>8, <1>10 DEF AuthenticateKeys, Arrive, FindKey, KeepKey, AssertWithinBudget, ReadGuard,
       FindBudget, Measure, KeepCap, Judge, Answer, costVars
  <1> QED
    BY <1>4, <1>5, <1>6, <1>7, <1>9, <1>10 DEF Next

(* What is true of a cap stays so.                                         *)
LEMMA CapStaysTrue ==
    ASSUME TypeInv, TypeInv', [Next]_vars, NEW cap \in CapType, CapTrue(cap)
    PROVE  CapTrue(cap)'
  <1>1. cap.rev \in Nat /\ cap.month \in Nat /\ cap.cost \in Nat
    BY GateAssumption DEF CapType
  <1>2. Rev \in Nat /\ Month \in Nat /\ spend \in Nat /\ carry \in Nat
    BY GateAssumption, RevMoves DEF Month, Kinds, TypeInv, TypeOK
  <1>3. spend' \in Nat /\ carry' \in Nat
    BY GateAssumption DEF TypeInv, TypeOK
  <1>4. cap.rev <= Rev /\ cap.month <= Month
    BY DEF CapTrue
  <1>5. CASE Rev' = Rev + 1 /\ Month' = Month
    <2>1. cap.rev <= Rev' /\ cap.month <= Month' /\ cap.rev # Rev'
      BY <1>1, <1>2, <1>4, <1>5
    <2> QED
      BY <2>1 DEF CapTrue
  <1>6. CASE Rev' = Rev /\ budget' = budget /\ Month' = Month + 1
    <2>1. cap.rev <= Rev' /\ cap.month <= Month' /\ cap.month # Month'
      BY <1>1, <1>2, <1>4, <1>6
    <2>2. cap.hard /\ cap.rev = Rev' => budget' # None /\ budget' = cap.limit
      BY <1>6 DEF CapTrue
    <2> QED
      BY <2>1, <2>2 DEF CapTrue
  <1>7. CASE Rev' = Rev /\ budget' = budget /\ Month' = Month /\ spend' + carry' >= spend + carry
    <2>1. cap.hard /\ cap.rev = Rev' =>
             /\ budget' # None
             /\ budget' = cap.limit
             /\ cap.month = Month' => cap.cost <= spend' + carry'
      <3>1. cap.hard /\ cap.rev = Rev =>
               budget # None /\ budget = cap.limit /\ (cap.month = Month => cap.cost <= spend + carry)
        BY DEF CapTrue
      <3>2. cap.cost <= spend + carry => cap.cost <= spend' + carry'
        <4>1. \A a, b, c \in Nat : a <= b /\ c >= b => a <= c
          OBVIOUS
        <4>0. \A a, b \in Nat : a + b \in Nat
          OBVIOUS
        <4>2. spend + carry \in Nat /\ spend' + carry' \in Nat
          BY <1>2, <1>3, <4>0
        <4>3. spend' + carry' >= spend + carry
          BY <1>7
        <4> QED
          BY <1>1, <4>1, <4>2, <4>3
      <3> QED
        BY <1>7, <3>1, <3>2
    <2> QED
      BY <1>4, <1>7, <2>1 DEF CapTrue
  <1> QED
    BY <1>5, <1>6, <1>7, TimePasses

LEMMA CapsTrueInductive ==
    ASSUME TypeInv, TypeInv', CapsTrue, [Next]_vars
    PROVE  CapsTrue'
  <1>1. \A cap \in CapType : CapTrue(cap) => CapTrue(cap)'
    BY CapStaysTrue
  <1>2. guard = None \/ (guard \in CapType /\ CapTrue(guard))
    BY DEF CapsTrue, TypeInv, TypeOK
  <1>3. \A r \in Request : request[r].cap \in CapType /\ CapTrue(request[r].cap)
    BY DEF CapsTrue, TypeInv, TypeOK
  <1>4. request \in [Request -> [at : Places, cap : CapType]]
    BY DEF TypeInv, TypeOK
  <1>5. CapTrue(NoCap)'
    <2>1. Rev' \in Nat /\ Month' \in Nat
      BY RevMoves, TimePasses DEF Month, Kinds, TypeInv, TypeOK
    <2> QED
      BY <2>1 DEF CapTrue, NoCap
  <1>6. ASSUME guard' = guard \/ guard' = None
        PROVE  guard' # None => CapTrue(guard)'
    BY <1>1, <1>2, <1>6 DEF CapTrue
  <1>7. ASSUME NEW r \in Request,
               \/ request'[r].cap = request[r].cap
               \/ request'[r].cap = NoCap
               \/ guard # None /\ request'[r].cap = guard
        PROVE  CapTrue(request[r].cap)'
    BY <1>1, <1>2, <1>3, <1>5, <1>7 DEF CapTrue
  <1>8. ASSUME NEW r \in Request, \A q \in Request \ {r} : request'[q] = request[q],
               CapTrue(request[r].cap)'
        PROVE  \A q \in Request : CapTrue(request[q].cap)'
    BY <1>7, <1>8
  <1>9. CASE \/ KeyExpires \/ DeleteKey \/ BustKey \/ KeyEntryExpires \/ StartEdit \/ WriteBudget
             \/ CostMoves \/ NewMonth \/ GuardEntryExpires \/ UNCHANGED vars
    <2>1. request' = request /\ (guard' = guard \/ guard' = None)
      BY <1>9 DEF KeyExpires, DeleteKey, BustKey, KeyEntryExpires, StartEdit, Invalidated,
         WriteBudget, CostMoves, NewMonth, GuardEntryExpires, vars
    <2> QED
      BY <1>6, <1>7, <2>1 DEF CapsTrue
  <1>10. ASSUME NEW r \in Request, AuthenticateKeys(r) \/ ReadGuard(r) \/ Judge(r) \/ Answer(r)
         PROVE  CapsTrue'
    <2>1. guard' = guard
      BY <1>10 DEF AuthenticateKeys, Arrive, FindKey, KeepKey, ReadGuard, Judge, Answer
    <2>2. \A q \in Request \ {r} : request'[q] = request[q]
      BY <1>4, <1>10 DEF AuthenticateKeys, Arrive, FindKey, KeepKey, KeyHit, ReadGuard, Judge,
         Answer, CheckBudget, Refuse, Call
    <2>3. CASE AuthenticateKeys(r) \/ Judge(r) \/ Answer(r)
      <3>1. request'[r].cap = request[r].cap \/ request'[r].cap = NoCap
        <4>1. CheckBudget(r) \/ Refuse(r) \/ Call(r) =>
                 request'[r].cap = request[r].cap \/ request'[r].cap = NoCap
          BY <1>4 DEF CheckBudget, Refuse, Call, Idle
        <4>2. \A place \in Places : [request EXCEPT ![r].at = place][r].cap = request[r].cap
          BY <1>4
        <4>3. [request EXCEPT ![r] = Idle][r].cap = NoCap
          BY <1>4 DEF Idle
        <4>4. {"find key", "keep key"} \subseteq Places
          BY DEF Places, AuthPlaces
        <4>5. CASE Arrive(r)
          BY <4>1, <4>2, <4>4, <4>5 DEF Arrive, KeyHit
        <4>6. CASE FindKey(r) \/ KeepKey(r)
          BY <4>1, <4>2, <4>4, <4>6 DEF FindKey, KeepKey
        <4>7. CASE Judge(r) \/ Answer(r)
          BY <4>1, <4>3, <4>7 DEF Judge, Answer
        <4> QED
          BY <2>3, <4>5, <4>6, <4>7 DEF AuthenticateKeys
      <3> QED
        BY <1>6, <1>7, <1>8, <2>1, <2>2, <3>1 DEF CapsTrue
    <2>4. CASE ReadGuard(r)
      <3>1. request'[r].cap = request[r].cap \/ (guard # None /\ request'[r].cap = guard)
        BY <1>4, <2>4 DEF ReadGuard
      <3> QED
        BY <1>6, <1>7, <1>8, <2>1, <2>2, <3>1 DEF CapsTrue
    <2> QED
      BY <1>10, <2>3, <2>4
  <1>11. ASSUME NEW r \in Request, FindBudget(r)
         PROVE  CapsTrue'
    <2>1. UNCHANGED <<guard, budget, spend, carry>> /\ Rev' = Rev /\ Month' = Month
      BY <1>11, RevMoves DEF FindBudget, costVars, Month
    <2>2. \A q \in Request \ {r} : request'[q] = request[q]
      BY <1>4, <1>11 DEF FindBudget
    <2>3. Rev \in Nat /\ Month \in Nat /\ spend + carry \in Nat
      BY GateAssumption, RevMoves DEF Month, Kinds, TypeInv, TypeOK
    <2>4. CapTrue(request[r].cap)'
      <3>1. CASE budget # None
        <4>1. request'[r].cap = [NoCap EXCEPT !.hard = TRUE, !.limit = budget, !.rev = Rev]
          BY <1>4, <1>11, <3>1 DEF FindBudget
        <4> QED
          BY <2>1, <2>3, <3>1, <4>1 DEF CapTrue, NoCap
      <3>2. CASE budget = None
        <4>1. request'[r].cap = [NoCap EXCEPT !.rev = Rev, !.month = Month]
          BY <1>4, <1>11, <3>2 DEF FindBudget
        <4> QED
          BY <2>1, <2>3, <3>2, <4>1 DEF CapTrue, NoCap
      <3> QED
        BY <3>1, <3>2
    <2> QED
      BY <1>6, <1>8, <2>1, <2>2, <2>4 DEF CapsTrue
  <1>12. ASSUME NEW r \in Request, Measure(r)
         PROVE  CapsTrue'
    <2>1. guard' = guard
      BY <1>12 DEF Measure
    <2>2. \A q \in Request \ {r} : request'[q] = request[q]
      BY <1>4, <1>12 DEF Measure, Call
    <2>3. CASE Call(r)
      BY <1>4, <1>6, <1>7, <1>8, <2>1, <2>2, <2>3 DEF Call, Idle, CapsTrue
    <2>4. CASE ~Call(r)
      <3>1. /\ UNCHANGED <<budget, spend, carry>>
            /\ Rev' = Rev /\ Month' = Month
        BY <1>12, <2>4, RevMoves DEF Measure, costVars, Month
      <3>4. /\ request'[r].cap.hard = request[r].cap.hard /\ request'[r].cap.limit = request[r].cap.limit
            /\ request'[r].cap.rev = request[r].cap.rev
            /\ request'[r].cap.cost = spend + carry /\ request'[r].cap.month = Month
        <4>1. request' = [request EXCEPT ![r].at = "keep cap", ![r].cap.cost = GuardCost,
                                         ![r].cap.month = Month]
          BY <1>12, <2>4 DEF Measure
        <4>2. request[r] \in [at : Places, cap : CapType] /\ request[r].cap \in CapType
          BY <1>4
        <4>3. request'[r] = [request[r] EXCEPT !.at = "keep cap", !.cap.cost = GuardCost, !.cap.month = Month]
          BY <1>4, <4>1
        <4>4. request'[r].cap = [request[r].cap EXCEPT !.cost = GuardCost, !.month = Month]
          BY <4>2, <4>3
        <4> QED
          BY <4>2, <4>4 DEF CapType, GuardCost
      <3>2. Rev \in Nat /\ Month \in Nat /\ spend + carry \in Nat
        BY GateAssumption, RevMoves DEF Month, Kinds, TypeInv, TypeOK
      <3>3. CapTrue(request[r].cap)'
        BY <1>3, <3>1, <3>2, <3>4 DEF CapTrue, CapType
      <3> QED
        BY <1>6, <1>8, <2>1, <2>2, <3>3 DEF CapsTrue
    <2> QED
      BY <2>3, <2>4
  <1>13. ASSUME NEW r \in Request, KeepCap(r)
         PROVE  CapsTrue'
    <2>1. \A q \in Request : request'[q].cap = request[q].cap
      BY <1>4, <1>13 DEF KeepCap
    <2>2. guard' = guard \/ \E raced \in BOOLEAN : guard' = [request[r].cap EXCEPT !.raced = raced]
      BY <1>13 DEF KeepCap
    <2>3. guard' # None => CapTrue(guard)'
      BY <1>1, <1>3, <1>6, <2>2 DEF CapTrue, CapType
    <2> QED
      BY <1>7, <2>1, <2>3 DEF CapsTrue
  <1> QED
    BY <1>9, <1>10, <1>11, <1>12, <1>13 DEF Next, AssertWithinBudget

(* A request is refused for its cost only by a cap that the cost of the    *)
(* month has reached, once the budget and the month are those of its       *)
(* measurement (assertWithinBudget): the sum the guard keeps is never      *)
(* above the present one, and its limit is the row's.                      *)
THEOREM RefusedOverCapSafe == Spec => []RefusedOverCap
  <1>1. Init => CapsTrue
    BY DEF Init, CapsTrue, CapTrue, Idle, NoCap, Rev, Month, Kinds
  <1>2. TypeInv /\ TypeInv' /\ CapsTrue /\ [Next]_vars => CapsTrue'
    BY CapsTrueInductive
  <1>3. TypeInv /\ CapsTrue => RefusedOverCap
    <2> SUFFICES ASSUME TypeInv, CapsTrue, NEW r \in Request, Exhausted(request[r].cap),
                        request[r].cap.rev = Rev, request[r].cap.month = Month
                 PROVE  budget # None /\ spend + carry >= budget
      BY DEF RefusedOverCap
    <2>1. request[r].cap \in CapType /\ CapTrue(request[r].cap)
      BY DEF CapsTrue, TypeInv, TypeOK
    <2>2. /\ request[r].cap.cost >= request[r].cap.limit
          /\ request[r].cap.cost <= spend + carry
          /\ budget # None /\ budget = request[r].cap.limit
      BY <2>1 DEF Exhausted, CapTrue
    <2>3. request[r].cap.cost \in Nat /\ request[r].cap.limit \in Nat
      <3>1. request[r].cap.cost \in 0..2 * MaxSpend /\ request[r].cap.limit \in Limits \union {0}
        BY <2>1 DEF CapType
      <3>2. 0..2 * MaxSpend \subseteq Nat /\ Limits \union {0} \subseteq Nat
        BY GateAssumption
      <3> QED
        BY <3>1, <3>2
    <2>4. spend + carry \in Nat
      BY GateAssumption DEF TypeInv, TypeOK
    <2> QED
      BY <2>2, <2>3, <2>4
  <1> QED
    BY <1>1, <1>2, <1>3, TypeInvHolds, PTL DEF Spec

-----------------------------------------------------------------------------
(* IngestRequest.                                                          *)
LEMMA TroubleCounts ==
    ASSUME NEW kind \in IngestKinds, trouble \in [IngestKinds -> Nat], SpendTrouble(kind)
    PROVE  /\ trouble' \in [IngestKinds -> Nat]
           /\ trouble'[kind] = trouble[kind] + 1
           /\ \A k \in IngestKinds \ {kind} : trouble'[k] = trouble[k]
  BY DEF SpendTrouble

(* The type invariant, for every limit: the window never counts more       *)
(* batches than checkRateLimit admits.                                     *)
THEOREM IngestTypeCorrect == IngestSpec => []IngestTypeOK
  <1>1. IngestInit => IngestTypeOK
    BY RequestAssumption DEF IngestInit, IngestTypeOK
  <1>2. IngestTypeOK /\ [IngestNext]_ingestVars => IngestTypeOK'
    <2> SUFFICES ASSUME IngestTypeOK, [IngestNext]_ingestVars
                 PROVE  IngestTypeOK'
      OBVIOUS
    <2> USE RequestAssumption DEF IngestTypeOK
    <2>1. ASSUME NEW r \in Attempt, Send(r)
          PROVE  IngestTypeOK'
      BY <2>1 DEF Send, Goto, Handling
    <2>2. ASSUME NEW r \in Attempt, Claim(r)
          PROVE  IngestTypeOK'
      <3>1. trouble' \in [IngestKinds -> Nat]
        BY <2>2, TroubleCounts DEF Claim, IngestKinds
      <3> QED
        BY <2>2, <3>1 DEF Claim, Goto, Handling
    <2>3. ASSUME NEW r \in Attempt, Look(r)
          PROVE  IngestTypeOK'
      <3>1. trouble' \in [IngestKinds -> Nat]
        BY <2>3, TroubleCounts DEF Look, IngestKinds
      <3> QED
        BY <2>3, <3>1 DEF Look, Goto, Reply, Handling, Answers
    <2>4. ASSUME NEW r \in Attempt, RateLimit(r)
          PROVE  IngestTypeOK'
      <3>1. trouble' \in [IngestKinds -> Nat]
        BY <2>4, TroubleCounts DEF RateLimit, IngestKinds
      <3>2. used' \in 0..Limit
        BY <2>4 DEF RateLimit, Counted, Admitted
      <3> QED
        BY <2>4, <3>1, <3>2 DEF RateLimit, Goto, Reply, Handling, Answers
    <2>5. ASSUME NEW r \in Attempt, Submit(r)
          PROVE  IngestTypeOK'
      <3>1. trouble' \in [IngestKinds -> Nat]
        BY <2>5, TroubleCounts DEF Submit, IngestKinds
      <3> QED
        BY <2>5, <3>1 DEF Submit, Goto, Handling, AfterFailure
    <2>6. ASSUME NEW r \in Attempt, Release(r)
          PROVE  IngestTypeOK'
      <3>1. trouble' \in [IngestKinds -> Nat]
        BY <2>6, TroubleCounts DEF Release, IngestKinds
      <3> QED
        BY <2>6, <3>1 DEF Release, Released, Reply, Handling, Answers
    <2>7. ASSUME NEW r \in Attempt, Store(r)
          PROVE  IngestTypeOK'
      <3>1. trouble' \in [IngestKinds -> Nat]
        BY <2>7, TroubleCounts DEF Store, IngestKinds
      <3> QED
        BY <2>7, <3>1 DEF Store, Reply, Handling, Answers
    <2>8. ASSUME NEW r \in Attempt, Crash(r)
          PROVE  IngestTypeOK'
      <3>1. trouble' \in [IngestKinds -> Nat]
        BY <2>8, TroubleCounts DEF Crash, IngestKinds
      <3> QED
        BY <2>8, <3>1 DEF Crash, Reply, Handling, Answers
    <2>9. CASE OtherTraffic
      BY <2>9 DEF OtherTraffic, Counted, Admitted
    <2>10. CASE NextWindow
      BY <2>10 DEF NextWindow
    <2>11. CASE Expire
      BY <2>11, TroubleCounts DEF Expire, IngestKinds
    <2>12. CASE UNCHANGED ingestVars
      BY <2>12 DEF ingestVars
    <2> QED
      BY <2>1, <2>2, <2>3, <2>4, <2>5, <2>6, <2>7, <2>8, <2>9, <2>10, <2>11, <2>12
      DEF IngestNext, Handle, Quiet
  <1> QED
    BY <1>1, <1>2, PTL DEF IngestSpec

-----------------------------------------------------------------------------
(* A stored response, or a request about to store one, stands for a batch  *)
(* that was enqueued.                                                      *)
ResponseInv ==
    /\ claim = "stored" => enqueued # {}
    /\ \A r \in Attempt : at[r] = "store" => enqueued # {}
    /\ AcknowledgedIsEnqueued

(* A 207, first or replayed, is only ever sent for an enqueued batch.      *)
THEOREM AcknowledgedSafe == IngestSpec => []AcknowledgedIsEnqueued
  <1>1. IngestInit => ResponseInv
    BY RequestAssumption DEF IngestInit, ResponseInv, AcknowledgedIsEnqueued, Answers
  <1>2. IngestTypeOK /\ ResponseInv /\ [IngestNext]_ingestVars => ResponseInv'
    <2> SUFFICES ASSUME IngestTypeOK, ResponseInv, [IngestNext]_ingestVars
                 PROVE  ResponseInv'
      OBVIOUS
    <2> USE DEF IngestTypeOK, ResponseInv, AcknowledgedIsEnqueued
    <2>1. ASSUME NEW r \in Attempt, Send(r) \/ Claim(r)
          PROVE  ResponseInv'
      BY <2>1 DEF Send, Claim, Goto
    <2>2. ASSUME NEW r \in Attempt, Look(r)
          PROVE  ResponseInv'
      BY <2>2 DEF Look, Goto, Reply
    <2>3. ASSUME NEW r \in Attempt, RateLimit(r)
          PROVE  ResponseInv'
      BY <2>3 DEF RateLimit, Goto, Reply
    <2>4. ASSUME NEW r \in Attempt, Submit(r)
          PROVE  ResponseInv'
      BY <2>4 DEF Submit, Goto, AfterFailure
    <2>5. ASSUME NEW r \in Attempt, Release(r) \/ Crash(r)
          PROVE  ResponseInv'
      BY <2>5 DEF Release, Released, Crash, Reply
    <2>6. ASSUME NEW r \in Attempt, Store(r)
          PROVE  ResponseInv'
      BY <2>6 DEF Store, Reply
    <2>7. CASE OtherTraffic \/ NextWindow \/ Expire \/ UNCHANGED ingestVars
      BY <2>7 DEF OtherTraffic, NextWindow, Expire, ingestVars
    <2> QED
      BY <2>1, <2>2, <2>3, <2>4, <2>5, <2>6, <2>7 DEF IngestNext, Handle, Quiet
  <1>3. ResponseInv => AcknowledgedIsEnqueued
    BY DEF ResponseInv
  <1> QED
    BY <1>1, <1>2, <1>3, IngestTypeCorrect, PTL DEF IngestSpec

-----------------------------------------------------------------------------
(* A request is answered once: what its client was told is not revised.    *)
AnsweredOnce == \A r \in Attempt : at[r] # "answered" => answer[r] = Unanswered

LEMMA AnsweredOnceSafe == IngestSpec => []AnsweredOnce
  <1>1. IngestInit => AnsweredOnce
    BY DEF IngestInit, AnsweredOnce
  <1>2. IngestTypeOK /\ AnsweredOnce /\ [IngestNext]_ingestVars => AnsweredOnce'
    BY DEF IngestTypeOK, AnsweredOnce, IngestNext, Handle, Send, Claim, Look, RateLimit, Submit,
           Release, Store, Crash, OtherTraffic, NextWindow, Expire, Quiet, ingestVars, Goto, Reply
  <1> QED
    BY <1>1, <1>2, IngestTypeCorrect, PTL DEF IngestSpec

(* Without Redis errors and dying handlers, only a 429 leaves a pending    *)
(* claim behind.                                                           *)
THEOREM PendingSafe == IngestSpec => []PendingExplained
  <1>1. IngestInit => PendingExplained
    BY DEF IngestInit, PendingExplained
  <1>2. IngestTypeOK /\ AnsweredOnce /\ PendingExplained /\ [IngestNext]_ingestVars => PendingExplained'
    <2> SUFFICES ASSUME IngestTypeOK, AnsweredOnce, PendingExplained, [IngestNext]_ingestVars,
                        claim' = "pending", Undisturbed'
                 PROVE  (Working # {} \/ \E r \in Attempt : answer[r] = "limited")'
      BY DEF PendingExplained
    <2> USE DEF IngestTypeOK, Working
    <2>1. ASSUME NEW r \in Attempt, Send(r)
          PROVE  (Working # {} \/ \E q \in Attempt : answer[q] = "limited")'
      BY <2>1 DEF Send, Goto, PendingExplained, Undisturbed
    <2>2. ASSUME NEW kind \in {"redis", "crashes"}, SpendTrouble(kind)
          PROVE  FALSE
      BY <2>2, TroubleCounts DEF Undisturbed, IngestKinds
    <2>3. Undisturbed
      <3>1. \A kind \in IngestKinds : SpendTrouble(kind) => kind \notin {"redis", "crashes"}
        BY <2>2
      <3> QED
        BY <3>1 DEF Undisturbed, IngestKinds, IngestNext, Handle, Send, Claim, Look, RateLimit, Submit,
               Release, Store, Crash, OtherTraffic, NextWindow, Expire, Quiet, ingestVars, SpendTrouble
    <2>4. ASSUME NEW r \in Attempt, Claim(r)
          PROVE  (Working # {} \/ \E q \in Attempt : answer[q] = "limited")'
      BY <2>2, <2>3, <2>4 DEF Claim, Goto, PendingExplained
    <2>5. ASSUME NEW r \in Attempt, Look(r)
          PROVE  (Working # {} \/ \E q \in Attempt : answer[q] = "limited")'
      BY <2>2, <2>3, <2>5, RequestAssumption
      DEF Look, Goto, Reply, PendingExplained, AnsweredOnce, Answers
    <2>6. ASSUME NEW r \in Attempt, RateLimit(r)
          PROVE  (Working # {} \/ \E q \in Attempt : answer[q] = "limited")'
      BY <2>2, <2>6 DEF RateLimit, Goto, Reply
    <2>7. ASSUME NEW r \in Attempt, Submit(r)
          PROVE  (Working # {} \/ \E q \in Attempt : answer[q] = "limited")'
      BY <2>7 DEF Submit, Goto, AfterFailure
    <2>8. ASSUME NEW r \in Attempt, Release(r) \/ Store(r) \/ Crash(r)
          PROVE  FALSE
      BY <2>2, <2>8 DEF Release, Released, Store, Crash
    <2>9. CASE OtherTraffic \/ NextWindow \/ UNCHANGED ingestVars
      BY <2>3, <2>9 DEF OtherTraffic, NextWindow, ingestVars, PendingExplained
    <2>10. CASE Expire
      BY <2>10 DEF Expire
    <2> QED
      BY <2>1, <2>4, <2>5, <2>6, <2>7, <2>8, <2>9, <2>10 DEF IngestNext, Handle, Quiet
  <1> QED
    BY <1>1, <1>2, IngestTypeCorrect, AnsweredOnceSafe, PTL DEF IngestSpec

-----------------------------------------------------------------------------
(* The requests that may still create, or have created, a batch.           *)
Passed == {r \in Attempt : at[r] \in {"limit", "submit"}} \cup enqueued

(* Each of them took the claim when it was free, or a Redis error for it;  *)
(* a free claim is room for one more.                                      *)
Room == IF claim = "free" THEN 1 ELSE 0

BudgetInv ==
    trouble["refusals"] = 0 /\ trouble["unsure"] = 0 =>
        /\ \A r \in Attempt : at[r] # "release"
        /\ (\E r \in Attempt : at[r] = "look") => claim # "free"
        /\ Cardinality(Passed) + Room <= 1 + trouble["redis"] + trouble["expiries"]

LEMMA PassedFinite ==
    ASSUME IngestTypeOK
    PROVE  /\ IsFiniteSet(Passed)
           /\ Cardinality(Passed) \in Nat
           /\ IsFiniteSet(enqueued)
           /\ Cardinality(enqueued) \in Nat
           /\ Cardinality(enqueued) <= Cardinality(Passed)
  <1>1. Passed \subseteq Attempt /\ enqueued \subseteq Passed
    BY DEF IngestTypeOK, Passed
  <1>2. IsFiniteSet(Passed)
    BY <1>1, FS_Subset, RequestAssumption
  <1> QED
    BY <1>1, <1>2, FS_Subset, FS_CardinalityType

(* How a step may change Passed.                                           *)
LEMMA PassedShrinks ==
    ASSUME IngestTypeOK, Passed' \subseteq Passed
    PROVE  /\ Cardinality(Passed') \in Nat
           /\ Cardinality(Passed') <= Cardinality(Passed)
  BY PassedFinite, FS_Subset, FS_CardinalityType

LEMMA PassedGrows ==
    ASSUME IngestTypeOK, NEW r, Passed' \subseteq Passed \cup {r}
    PROVE  /\ Cardinality(Passed') \in Nat
           /\ Cardinality(Passed') <= Cardinality(Passed) + 1
  <1>1. /\ IsFiniteSet(Passed \cup {r})
        /\ Cardinality(Passed \cup {r}) <= Cardinality(Passed) + 1
        /\ Cardinality(Passed \cup {r}) \in Nat
    <2>1. IsFiniteSet(Passed) /\ Cardinality(Passed) \in Nat
      BY PassedFinite
    <2>2. /\ IsFiniteSet(Passed \cup {r})
          /\ \/ Cardinality(Passed \cup {r}) = Cardinality(Passed)
             \/ Cardinality(Passed \cup {r}) = Cardinality(Passed) + 1
      BY <2>1, FS_AddElement
    <2> QED
      BY <2>1, <2>2
  <1>2. /\ IsFiniteSet(Passed')
        /\ Cardinality(Passed') <= Cardinality(Passed \cup {r})
    BY <1>1, FS_Subset
  <1> QED
    BY <1>1, <1>2, PassedFinite, FS_CardinalityType

(* While no submission fails, one key creates at most one batch, and one   *)
(* more per Redis error and per day.                                       *)
THEOREM ExtraBatchSafe == IngestSpec => []ExtraBatchExplained
  <1>1. IngestInit => BudgetInv
    <2>1. IngestInit => Passed = {} /\ Room = 1
      BY DEF IngestInit, Passed, Room
    <2> QED
      BY <2>1, FS_EmptySet DEF IngestInit, BudgetInv, IngestKinds
  <1>2. IngestTypeOK /\ BudgetInv /\ [IngestNext]_ingestVars => BudgetInv'
    <2> SUFFICES ASSUME IngestTypeOK, BudgetInv, [IngestNext]_ingestVars,
                        trouble'["refusals"] = 0, trouble'["unsure"] = 0
                 PROVE  BudgetInv'
      BY DEF BudgetInv
    <2>1. ASSUME NEW kind \in {"refusals", "unsure"}, SpendTrouble(kind)
          PROVE  FALSE
      BY <2>1, TroubleCounts DEF IngestKinds, IngestTypeOK
    <2>2. /\ trouble["refusals"] = 0 /\ trouble["unsure"] = 0
          /\ trouble \in [IngestKinds -> Nat]
      <3>1. \A kind \in IngestKinds : SpendTrouble(kind) => kind \notin {"refusals", "unsure"}
        BY <2>1
      <3> QED
        BY <3>1 DEF IngestTypeOK, IngestKinds, IngestNext, Handle, Send, Claim, Look, RateLimit, Submit,
               Release, Store, Crash, OtherTraffic, NextWindow, Expire, Quiet, ingestVars, SpendTrouble
    <2>3. /\ \A r \in Attempt : at[r] # "release"
          /\ (\E r \in Attempt : at[r] = "look") => claim # "free"
          /\ Cardinality(Passed) + Room <= 1 + trouble["redis"] + trouble["expiries"]
          /\ Cardinality(Passed) \in Nat
      BY <2>2, PassedFinite DEF BudgetInv
    <2> USE DEF IngestTypeOK
    <2>4. ASSUME NEW r \in Attempt, Send(r)
          PROVE  BudgetInv'
      <3>1. Passed' \subseteq Passed /\ Room' = Room
        BY <2>4 DEF Send, Goto, Passed, Room
      <3> QED
        BY <2>2, <2>3, <2>4, <3>1, PassedShrinks DEF Send, Goto, BudgetInv, IngestKinds, Room
    <2>5. ASSUME NEW r \in Attempt, Claim(r)
          PROVE  BudgetInv'
      <3>0. /\ \A q \in Attempt : at'[q] # "release"
            /\ (\E q \in Attempt : at'[q] = "look") => claim' # "free"
        BY <2>3, <2>5 DEF Claim, Goto, Fresh
      <3>1. CASE Goto(r, "look")
        <4>1. Passed' \subseteq Passed /\ Room' = Room /\ UNCHANGED trouble
          BY <2>5, <3>1 DEF Claim, Goto, Passed, Room
        <4> QED
          BY <2>2, <2>3, <3>0, <4>1, PassedShrinks DEF BudgetInv, IngestKinds, Room
      <3>2. CASE Fresh /\ claim' = "pending" /\ Goto(r, "limit") /\ UNCHANGED trouble
        <4>1. Passed' \subseteq Passed \cup {r} /\ Room = 1 /\ Room' = 0
          BY <2>5, <3>2 DEF Claim, Goto, Passed, Room, Fresh
        <4> QED
          BY <2>2, <2>3, <3>0, <3>2, <4>1, PassedGrows DEF BudgetInv, IngestKinds
      <3>3. CASE SpendTrouble("redis") /\ Goto(r, "limit") /\ claim' \in {claim, "pending"}
        <4>1. Passed' \subseteq Passed \cup {r}
          BY <2>5, <3>3 DEF Claim, Goto, Passed
        <4>2. Room' <= Room /\ Room \in Nat /\ Room' \in Nat
          BY <3>3 DEF Room
        <4>3. trouble'["redis"] = trouble["redis"] + 1 /\ trouble'["expiries"] = trouble["expiries"]
          BY <3>3, TroubleCounts DEF IngestKinds
        <4> QED
          BY <2>2, <2>3, <3>0, <4>1, <4>2, <4>3, PassedGrows DEF BudgetInv, IngestKinds
      <3> QED
        BY <2>5, <3>1, <3>2, <3>3 DEF Claim
    <2>6. ASSUME NEW r \in Attempt, Look(r)
          PROVE  BudgetInv'
      <3>0. /\ claim # "free" /\ Room' = Room /\ Room \in Nat
            /\ \A q \in Attempt : at'[q] # "release"
            /\ (\E q \in Attempt : at'[q] = "look") => claim' # "free"
        BY <2>3, <2>6 DEF Look, Goto, Reply, Room
      <3>1. CASE Reply(r, "pending") \/ Reply(r, "replayed")
        <4>1. Passed' \subseteq Passed /\ UNCHANGED trouble
          BY <2>6, <3>1 DEF Look, Goto, Reply, Passed
        <4> QED
          BY <2>2, <2>3, <3>0, <4>1, PassedShrinks DEF BudgetInv, IngestKinds
      <3>2. CASE SpendTrouble("redis") /\ Goto(r, "limit")
        <4>1. Passed' \subseteq Passed \cup {r}
          BY <2>6, <3>2 DEF Look, Goto, Passed
        <4>2. trouble'["redis"] = trouble["redis"] + 1 /\ trouble'["expiries"] = trouble["expiries"]
          BY <3>2, TroubleCounts DEF IngestKinds
        <4> QED
          BY <2>2, <2>3, <3>0, <4>1, <4>2, PassedGrows DEF BudgetInv, IngestKinds
      <3> QED
        BY <2>6, <3>0, <3>1, <3>2 DEF Look
    <2>7. ASSUME NEW r \in Attempt, RateLimit(r) \/ Submit(r) \/ Store(r) \/ Crash(r)
          PROVE  BudgetInv'
      <3>1. /\ \A q \in Attempt : at'[q] # "release"
            /\ (\E q \in Attempt : at'[q] = "look") => claim' # "free"
        BY <2>1, <2>3, <2>7 DEF RateLimit, Submit, Store, Crash, Goto, Reply
      <3>2. Passed' \subseteq Passed
        BY <2>7 DEF RateLimit, Submit, Store, Crash, Goto, Reply, Passed
      <3>3. Room' <= Room /\ Room \in Nat /\ Room' \in Nat
        BY <2>7 DEF RateLimit, Submit, Store, Crash, Room
      <3>4. trouble'["redis"] >= trouble["redis"] /\ trouble'["expiries"] >= trouble["expiries"]
            /\ trouble' \in [IngestKinds -> Nat]
        BY <2>1, <2>2, <2>7, TroubleCounts DEF RateLimit, Submit, Store, Crash, IngestKinds
      <3> QED
        BY <2>2, <2>3, <3>1, <3>2, <3>3, <3>4, PassedShrinks DEF BudgetInv, IngestKinds
    <2>8. ASSUME NEW r \in Attempt, Release(r)
          PROVE  BudgetInv'
      BY <2>3, <2>8 DEF Release
    <2>9. CASE Expire
      <3>1. Passed' = Passed /\ Room = 0 /\ Room' = 1
        BY <2>9 DEF Expire, Passed, Room
      <3>2. trouble'["expiries"] = trouble["expiries"] + 1 /\ trouble'["redis"] = trouble["redis"]
        BY <2>9, TroubleCounts DEF Expire, IngestKinds
      <3>3. \A q \in Attempt : at'[q] \notin {"release", "look"}
        BY <2>9 DEF Expire, Handling
      <3> QED
        BY <2>2, <2>3, <3>1, <3>2, <3>3 DEF BudgetInv, IngestKinds
    <2>10. CASE OtherTraffic \/ NextWindow \/ UNCHANGED ingestVars
      <3>1. Passed' = Passed /\ Room' = Room /\ UNCHANGED <<claim, at, trouble>>
        BY <2>10 DEF OtherTraffic, NextWindow, ingestVars, Passed, Room
      <3> QED
        BY <2>2, <2>3, <3>1 DEF BudgetInv
    <2> QED
      BY <2>4, <2>5, <2>6, <2>7, <2>8, <2>9, <2>10 DEF IngestNext, Handle, Quiet
  <1>3. IngestTypeOK /\ BudgetInv => ExtraBatchExplained
    <2> SUFFICES ASSUME IngestTypeOK, BudgetInv, trouble["refusals"] = 0, trouble["unsure"] = 0
                 PROVE  Cardinality(enqueued) <= 1 + trouble["redis"] + trouble["expiries"]
      BY DEF ExtraBatchExplained
    <2>1. trouble["redis"] \in Nat /\ trouble["expiries"] \in Nat
      BY DEF IngestTypeOK, IngestKinds
    <2> QED
      BY <2>1, PassedFinite DEF BudgetInv, Room
  <1> QED
    BY <1>1, <1>2, <1>3, IngestTypeCorrect, PTL DEF IngestSpec

=============================================================================
