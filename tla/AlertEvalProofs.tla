-------------------------- MODULE AlertEvalProofs --------------------------
(***************************************************************************)
(* Proofs about AlertEval, for any number of sweeps, any channels, limits, *)
(* thresholds and bounds: its types, that a rule's channel is paged again  *)
(* for an incident only after a trouble that explains it, and that a       *)
(* budget's marker stands for an announcement.                             *)
(***************************************************************************)
EXTENDS AlertEval, FiniteSetTheorems, TLAPS

LEMMA Spends ==
    ASSUME TypeOK, NEW kind \in Kinds, Spend(kind)
    PROVE  /\ spent' \in [Kinds -> Nat]
           /\ spent'[kind] = spent[kind] + 1
           /\ \A k \in Kinds \ {kind} : spent'[k] = spent[k]
  BY DEF TypeOK, Spend

(* What evaluateAllAlerts and evaluateBudgets hold.                        *)
RuleEvals == [at : Places, id : Nat, channel : Channels \union {"none"},
              firing : BOOLEAN, breached : BOOLEAN, delivered : BOOLEAN]
BudgetEvals == [at : Places, id : Nat, rev : Nat, limit : Nat,
                channel : Channels \union {"none"}, notified : 0..Steps,
                month : Nat, step : 0..Steps, delivered : BOOLEAN]

LEMMA Idles == IdleRule \in RuleEvals /\ IdleBudget \in BudgetEvals
  BY AlertAssumption DEF IdleRule, IdleBudget, RuleEvals, BudgetEvals, Places

LEMMA Evals ==
    ASSUME TypeOK
    PROVE  ruleEval \in [Sweep -> RuleEvals] /\ budgetEval \in [Sweep -> BudgetEvals]
  BY DEF TypeOK, RuleEvals, BudgetEvals

(* A step that touches nothing but evaluations, the lock and the count.    *)
LEMMA EvalTypes ==
    ASSUME TypeOK, UNCHANGED <<ruleVars, budgetVars>>,
           lock' \in Sweep \union {None}, spent' \in [Kinds -> Nat],
           ruleEval' \in [Sweep -> RuleEvals], budgetEval' \in [Sweep -> BudgetEvals]
    PROVE  TypeOK'
  BY DEF TypeOK, RuleEvals, BudgetEvals, ruleVars, budgetVars

LEMMA StepCount == \A limit : Crossed(limit) \in 0 .. Steps
  <1> SUFFICES ASSUME NEW limit PROVE Crossed(limit) \in 0 .. Steps
    OBVIOUS
  <1> DEFINE Taken == {k \in 1 .. Steps : spend * Steps >= k * limit}
  <1>1. IsFiniteSet(1 .. Steps) /\ Cardinality(1 .. Steps) = Steps
    BY AlertAssumption, FS_Interval
  <1>2. Taken \subseteq 1 .. Steps
    OBVIOUS
  <1> HIDE DEF Taken
  <1>3. IsFiniteSet(Taken) /\ Cardinality(Taken) <= Steps
    BY <1>1, <1>2, FS_Subset
  <1>4. Cardinality(Taken) \in Nat
    BY <1>3, FS_CardinalityType
  <1> QED
    BY <1>3, <1>4, AlertAssumption DEF Crossed, Taken

-----------------------------------------------------------------------------
(* Types.                                                                  *)
LEMMA InitTypes == Init => TypeOK
  <1> SUFFICES ASSUME Init PROVE TypeOK
    OBVIOUS
  <1>1. ruleEval \in [Sweep -> RuleEvals] /\ budgetEval \in [Sweep -> BudgetEvals]
    BY Idles DEF Init
  <1>2. spent \in [Kinds -> Nat]
    BY DEF Init
  <1>3. spend \in 0 .. MaxSpend /\ told \in 0 .. Steps /\ repeats \in Nat
    BY AlertAssumption DEF Init
  <1> QED
    BY <1>1, <1>2, <1>3, ZenonT(60) DEF Init, TypeOK, RuleEvals, BudgetEvals

LEMMA NextTypes == TypeOK /\ [Next]_vars => TypeOK'
  <1> SUFFICES ASSUME TypeOK, [Next]_vars PROVE TypeOK'
    OBVIOUS
  <1>1. CASE CreateRule
    BY <1>1, Spends DEF CreateRule, TypeOK, Kinds, budgetVars
  <1>2. CASE UpdateRule
    BY <1>2, Spends DEF UpdateRule, TypeOK, Kinds, budgetVars
  <1>3. CASE DeleteRule
    BY <1>3, Spends DEF DeleteRule, TypeOK, Kinds, budgetVars
  <1>4. CASE SetBudget
    BY <1>4, Spends, AlertAssumption DEF SetBudget, TypeOK, Kinds, ruleVars, Month
  <1>5. CASE DeleteBudget
    BY <1>5, Spends DEF DeleteBudget, TypeOK, Kinds, ruleVars
  <1>6. CASE NewMonth
    BY <1>6, Spends, AlertAssumption DEF NewMonth, TypeOK, Kinds, ruleVars
  <1>7. CASE MetricMoves
    <2>1. spent' \in [Kinds -> Nat]
      BY <1>7, Spends DEF MetricMoves, Kinds
    <2>2. spend' \in 0 .. MaxSpend
      BY <1>7, AlertAssumption DEF MetricMoves, TypeOK
    <2>3. breached' \in BOOLEAN
      BY <1>7, Zenon DEF MetricMoves, TypeOK
    <2> QED
      BY <1>7, <2>1, <2>2, <2>3 DEF MetricMoves, TypeOK
  <1>8. CASE LockExpires
    BY <1>8, Spends DEF LockExpires, TypeOK, Kinds, ruleVars, budgetVars
  <1>9. ASSUME NEW s \in Sweep, Start(s) PROVE TypeOK'
    <2>1. spent' \in [Kinds -> Nat]
      BY <1>9, Spends DEF Start, Kinds, TypeOK
    <2>2. lock' \in Sweep \union {None}
      BY <1>9 DEF Start, TypeOK, Acquires
    <2>3. ruleEval' \in [Sweep -> RuleEvals]
      BY <1>9, Evals DEF Start, RuleEvals, Places
    <2>4. budgetEval' \in [Sweep -> BudgetEvals]
      BY <1>9, Evals DEF Start, BudgetEvals, Places
    <2> QED
      BY <1>9, <2>1, <2>2, <2>3, <2>4, EvalTypes DEF Start
  <1>10. ASSUME NEW s \in Sweep, Finish(s) PROVE TypeOK'
    <2>1. spent' \in [Kinds -> Nat]
      BY <1>10 DEF Finish, TypeOK
    <2>2. lock' \in Sweep \union {None}
      BY <1>10 DEF Finish, TypeOK, Released
    <2>3. ruleEval' \in [Sweep -> RuleEvals]
      BY <1>10, Evals, Idles DEF Finish
    <2>4. budgetEval' \in [Sweep -> BudgetEvals]
      BY <1>10, Evals, Idles DEF Finish
    <2> QED
      BY <1>10, <2>1, <2>2, <2>3, <2>4, EvalTypes DEF Finish
  <1>11. ASSUME NEW s \in Sweep, Reject(s) PROVE TypeOK'
    <2>1. spent' \in [Kinds -> Nat]
      BY <1>11, Spends DEF Reject, Kinds, TypeOK
    <2>2. lock' \in Sweep \union {None}
      BY <1>11 DEF Reject, TypeOK, Released
    <2>3. ruleEval' \in [Sweep -> RuleEvals]
      BY <1>11, Evals DEF Reject, RuleEvals, Places
    <2>4. budgetEval' \in [Sweep -> BudgetEvals]
      BY <1>11, Evals DEF Reject, BudgetEvals, Places
    <2> QED
      BY <1>11, <2>1, <2>2, <2>3, <2>4, EvalTypes DEF Reject
  <1>12. ASSUME NEW s \in Sweep, Crash(s) PROVE TypeOK'
    <2>1. spent' \in [Kinds -> Nat]
      BY <1>12, Spends DEF Crash, Kinds, TypeOK
    <2>2. lock' \in Sweep \union {None}
      BY <1>12 DEF Crash, TypeOK
    <2>3. ruleEval' \in [Sweep -> RuleEvals]
      BY <1>12, Evals, Idles DEF Crash
    <2>4. budgetEval' \in [Sweep -> BudgetEvals]
      BY <1>12, Evals, Idles DEF Crash
    <2>5. unwritten' \subseteq {"firing", "quiet"}
      BY <1>12 DEF Crash, LeftUnwritten, News, TypeOK
    <2>6. UNCHANGED <<rule, status, breached, heard, repeats, budget, spend, told>>
      BY <1>12 DEF Crash, budgetVars
    <2> QED
      BY <2>1, <2>2, <2>3, <2>4, <2>5, <2>6 DEF TypeOK, RuleEvals, BudgetEvals
  <1>13. ASSUME NEW s \in Sweep, ReadRule(s) PROVE TypeOK'
    <2>1. ruleEval'[s] \in RuleEvals
      <3>1. ruleEval[s] \in RuleEvals
        BY Evals
      <3>2. rule # None => rule.id \in Nat /\ rule.channel \in Channels
        BY DEF TypeOK
      <3>3. ruleEval'[s] = IF rule # None /\ rule.enabled
               THEN [ruleEval[s] EXCEPT !.at = "measure", !.id = rule.id, !.channel = rule.channel,
                                        !.firing = (status = "firing")]
               ELSE [ruleEval[s] EXCEPT !.at = "done"]
        BY <1>13, Evals DEF ReadRule
      <3> QED
        BY <3>1, <3>2, <3>3 DEF RuleEvals, Places
    <2>2. ruleEval' \in [Sweep -> RuleEvals]
      BY <1>13, <2>1, Evals DEF ReadRule
    <2>3. UNCHANGED <<lock, budgetEval, spent, ruleVars, budgetVars>>
      BY <1>13 DEF ReadRule
    <2> QED
      BY <2>2, <2>3, Evals, EvalTypes DEF TypeOK
  <1>14. ASSUME NEW s \in Sweep, MeasureRule(s) PROVE TypeOK'
    <2>1. spent' \in [Kinds -> Nat]
      BY <1>14, Spends DEF MeasureRule, Kinds, TypeOK
    <2>2. breached \in BOOLEAN
      BY DEF TypeOK
    <2>3. ruleEval' \in [Sweep -> RuleEvals]
      BY <1>14, <2>2, Evals DEF MeasureRule, RuleEvals, Places
    <2>4. UNCHANGED <<lock, budgetEval, ruleVars, budgetVars>>
      BY <1>14 DEF MeasureRule
    <2> QED
      BY <2>1, <2>3, <2>4, Evals, EvalTypes DEF TypeOK
  <1>15. ASSUME NEW s \in Sweep, NotifyRule(s) PROVE TypeOK'
    <2>1. spent' \in [Kinds -> Nat]
      BY <1>15, Spends DEF NotifyRule, Posted, TypeOK, Kinds
    <2>2. ruleEval' \in [Sweep -> RuleEvals]
      BY <1>15, Evals DEF NotifyRule, RuleEvals, Places
    <2>3. heard' \in {"quiet", "firing"} /\ repeats' \in Nat
      BY <1>15 DEF NotifyRule, News, TypeOK
    <2>4. UNCHANGED <<lock, rule, status, breached, budget, spend, told, budgetEval>>
      BY <1>15 DEF NotifyRule, budgetVars
    <2>5. unwritten' \subseteq {"firing", "quiet"}
      BY <1>15 DEF NotifyRule, LeftUnwritten, News, TypeOK
    <2> QED
      BY <2>1, <2>2, <2>3, <2>4, <2>5 DEF TypeOK, RuleEvals
  <1>16. ASSUME NEW s \in Sweep, CommitRule(s) PROVE TypeOK'
    <2>1. spent' \in [Kinds -> Nat]
      BY <1>16, Spends DEF CommitRule, TypeOK, Kinds
    <2>2. ruleEval' \in [Sweep -> RuleEvals]
      BY <1>16, Evals DEF CommitRule, RuleEvals, Places
    <2>3. status' \in {"ok", "firing", "resolved"}
      BY <1>16 DEF CommitRule, TypeOK
    <2>4. UNCHANGED <<lock, rule, breached, heard, repeats, budget, spend, told, budgetEval>>
      BY <1>16 DEF CommitRule, budgetVars
    <2>5. unwritten' \subseteq {"firing", "quiet"}
      BY <1>16 DEF CommitRule, LeftUnwritten, News, TypeOK
    <2> QED
      BY <2>1, <2>2, <2>3, <2>4, <2>5 DEF TypeOK, RuleEvals
  <1>17. ASSUME NEW s \in Sweep, ReadBudget(s) PROVE TypeOK'
    <2>1. budgetEval'[s] \in BudgetEvals
      <3>1. budgetEval[s] \in BudgetEvals
        BY Evals
      <3>2. budget # None => /\ budget.id \in Nat /\ budget.rev \in Nat
                             /\ budget.limit \in Nat /\ budget.channel \in Channels
                             /\ budget.notified \in 0 .. Steps
        BY AlertAssumption DEF TypeOK
      <3>3. CASE budget # None
        <4>1. budgetEval'[s] = [budgetEval[s] EXCEPT !.at = "measure", !.id = budget.id, !.rev = budget.rev,
                                                     !.limit = budget.limit, !.channel = budget.channel,
                                                     !.notified = budget.notified]
          BY <1>17, <3>3, Evals DEF ReadBudget
        <4> QED
          BY <3>1, <3>2, <3>3, <4>1 DEF BudgetEvals, Places
      <3>4. CASE budget = None
        <4>1. budgetEval'[s] = [budgetEval[s] EXCEPT !.at = "done"]
          BY <1>17, <3>4, Evals DEF ReadBudget
        <4> QED
          BY <3>1, <4>1 DEF BudgetEvals, Places
      <3> QED
        BY <3>3, <3>4
    <2>2. budgetEval' \in [Sweep -> BudgetEvals]
      BY <1>17, <2>1, Evals DEF ReadBudget
    <2>3. UNCHANGED <<lock, ruleEval, spent, ruleVars, budgetVars>>
      BY <1>17 DEF ReadBudget
    <2> QED
      BY <2>2, <2>3, Evals, EvalTypes DEF TypeOK
  <1>18. ASSUME NEW s \in Sweep, MeasureBudget(s) PROVE TypeOK'
    <2>1. spent' \in [Kinds -> Nat]
      BY <1>18, Spends DEF MeasureBudget, TypeOK, Kinds
    <2>2. Month \in Nat /\ Crossed(budgetEval[s].limit) \in 0 .. Steps
      BY StepCount DEF Month, TypeOK, Kinds
    <2>3. budgetEval' \in [Sweep -> BudgetEvals]
      BY <1>18, <2>2, Evals DEF MeasureBudget, BudgetEvals, Places
    <2>4. UNCHANGED <<lock, ruleEval, ruleVars, budgetVars>>
      BY <1>18 DEF MeasureBudget
    <2> QED
      BY <2>1, <2>3, <2>4, Evals, EvalTypes DEF TypeOK
  <1>19. ASSUME NEW s \in Sweep, NotifyBudget(s) PROVE TypeOK'
    <2>1. spent' \in [Kinds -> Nat]
      BY <1>19, Spends DEF NotifyBudget, Posted, TypeOK, Kinds
    <2>2. budgetEval' \in [Sweep -> BudgetEvals]
      BY <1>19, Evals DEF NotifyBudget, BudgetEvals, Places
    <2>3. told' \in 0 .. Steps
      BY <1>19 DEF NotifyBudget, TypeOK
    <2> QED
      BY <1>19, <2>1, <2>2, <2>3 DEF NotifyBudget, TypeOK, BudgetEvals, ruleVars
  <1>20. ASSUME NEW s \in Sweep, CommitBudget(s) PROVE TypeOK'
    <2>1. spent' \in [Kinds -> Nat]
      BY <1>20, Spends DEF CommitBudget, Kinds, TypeOK
    <2>2. budgetEval' \in [Sweep -> BudgetEvals]
      BY <1>20, Evals DEF CommitBudget, BudgetEvals, Places
    <2>3. /\ budgetEval[s].step \in 0 .. Steps
          /\ <<budgetEval[s].rev, budgetEval[s].month>> \in Nat \X Nat
      BY DEF TypeOK
    <2>4. budget' = None \/ budget' \in [id : Nat, rev : Nat, limit : Limits, channel : Channels,
                                         notified : 0..Steps, about : Nat \X Nat]
      <3>1. CASE UNCHANGED budget
        BY <3>1 DEF TypeOK
      <3>2. CASE /\ budget # None
                 /\ budget' = [budget EXCEPT !.notified = budgetEval[s].step,
                                            !.about = <<budgetEval[s].rev, budgetEval[s].month>>]
        <4>1. budget \in [id : Nat, rev : Nat, limit : Limits, channel : Channels,
                          notified : 0..Steps, about : Nat \X Nat]
          BY <3>2 DEF TypeOK
        <4> QED
          BY <2>3, <3>2, <4>1
      <3> QED
        BY <1>20, <3>1, <3>2 DEF CommitBudget
    <2> QED
      BY <1>20, <2>1, <2>2, <2>4 DEF CommitBudget, TypeOK, BudgetEvals, ruleVars
  <1>21. CASE UNCHANGED vars
    BY <1>21 DEF vars, ruleVars, budgetVars, TypeOK
  <1> QED
    BY <1>1, <1>2, <1>3, <1>4, <1>5, <1>6, <1>7, <1>8, <1>9, <1>10, <1>11, <1>12, <1>13, <1>14,
       <1>15, <1>16, <1>17, <1>18, <1>19, <1>20, <1>21
       DEF Next, Operator, EvaluateRule, EvaluateBudget

(* Every variable keeps its type, whatever the sweeps, the operator and    *)
(* the world do.                                                           *)
THEOREM TypeCorrect == Spec => []TypeOK
  <1>1. Init => TypeOK
    BY InitTypes
  <1>2. TypeOK /\ [Next]_vars => TypeOK'
    BY NextTypes
  <1> QED
    BY <1>1, <1>2, PTL DEF Spec

-----------------------------------------------------------------------------
(* No page again without a trouble.  A sweep that runs without the lock    *)
(* may page what another one has paged, or write over what another one has *)
(* written, but not both: Loose are the sweeps that may still do either.   *)
(* Paged and not written down leaves one page owed to the rule, which the  *)
(* next sweep that holds the lock sends, and settles.                      *)
MayPage(s) == ruleEval[s].at \in {"read", "measure", "notify"}
MayClear(s) == ruleEval[s].at = "commit" /\ ~ruleEval[s].breached /\ ruleEval[s].delivered

Loose == {s \in Sweep \ {lock} : MayPage(s) \/ MayClear(s)}

(* Where the sweep with the lock leaves a rule whose channel has heard of  *)
(* the incident: with a row that says so, read or about to be written.     *)
AtWork(s) == SameRule(s) /\ ruleEval[s].at \in {"measure", "notify", "commit"}

Settles(s) ==
    \/ ruleEval[s].at # "commit" /\ ruleEval[s].firing /\ status = "firing"
    \/ ruleEval[s].at = "commit" /\ ruleEval[s].delivered /\ ruleEval[s].breached
    \/ ruleEval[s].at = "commit" /\ ~ruleEval[s].delivered /\ status = "firing"

Settled == IF lock \in Sweep /\ AtWork(lock) THEN Settles(lock) ELSE status = "firing"
Owed == IF heard = "firing" /\ ~Settled THEN 1 ELSE 0

Troubles == spent["crashes"] + spent["doubts"] + spent["writes"] + spent["refusals"] + spent["redis"]
            + spent["rejects"]

Transitions == \A s \in Sweep : ruleEval[s].at = "notify" => ruleEval[s].breached = ~ruleEval[s].firing

PaidFor ==
    /\ IsFiniteSet(Loose)
    /\ repeats + Cardinality(Loose) + Owed <= Troubles

PInv == TypeOK /\ Transitions /\ PaidFor

(* Counting.                                                               *)
LEMMA Grows ==
    ASSUME NEW A, NEW B, NEW x, IsFiniteSet(A), B \subseteq A \union {x}
    PROVE  IsFiniteSet(B) /\ Cardinality(B) <= Cardinality(A) + 1
           /\ Cardinality(A) \in Nat /\ Cardinality(B) \in Nat
  <1>1. /\ IsFiniteSet(A \union {x})
        /\ Cardinality(A \union {x}) = IF x \in A THEN Cardinality(A) ELSE Cardinality(A) + 1
    BY FS_AddElement
  <1> QED
    BY <1>1, FS_Subset, FS_CardinalityType

LEMMA Stays ==
    ASSUME NEW A, NEW B, IsFiniteSet(A), B \subseteq A
    PROVE  IsFiniteSet(B) /\ Cardinality(B) <= Cardinality(A)
           /\ Cardinality(A) \in Nat /\ Cardinality(B) \in Nat
  BY FS_Subset, FS_CardinalityType

LEMMA Shrinks ==
    ASSUME NEW A, NEW B, NEW x \in A, IsFiniteSet(A), B \subseteq A \ {x}
    PROVE  IsFiniteSet(B) /\ Cardinality(B) + 1 <= Cardinality(A)
           /\ Cardinality(A) \in Nat /\ Cardinality(B) \in Nat
  <1>1. IsFiniteSet(A \ {x}) /\ Cardinality(A \ {x}) = Cardinality(A) - 1
    BY FS_RemoveElement
  <1> QED
    BY <1>1, FS_Subset, FS_CardinalityType

TroubleKinds == {"crashes", "doubts", "writes", "refusals", "redis", "rejects"}

LEMMA TroublesGrow ==
    ASSUME TypeOK
    PROVE  /\ Troubles \in Nat
           /\ \A kind \in Kinds : Spend(kind) =>
                 Troubles' = Troubles + (IF kind \in TroubleKinds THEN 1 ELSE 0)
           /\ UNCHANGED spent => Troubles' = Troubles
  <1>1. \A kind \in TroubleKinds : spent[kind] \in Nat
    BY DEF TypeOK, Kinds, TroubleKinds
  <1>2. ASSUME NEW kind \in Kinds, Spend(kind)
        PROVE  Troubles' = Troubles + (IF kind \in TroubleKinds THEN 1 ELSE 0)
    <2>1. \A k \in TroubleKinds : spent'[k] = IF k = kind THEN spent[k] + 1 ELSE spent[k]
      BY <1>2, Spends DEF Kinds, TroubleKinds
    <2> QED
      BY <1>1, <2>1 DEF Troubles, TroubleKinds
  <1> QED
    BY <1>1, <1>2 DEF Troubles, TroubleKinds

(* A step that frees no sweep, repeats no page and leaves none newly owed. *)
LEMMA NoPage ==
    ASSUME PaidFor, TypeOK, repeats' = repeats, Troubles' \in Nat, Troubles' >= Troubles,
           Loose' \subseteq Loose, heard' = "firing" /\ ~Settled' => heard = "firing" /\ ~Settled
    PROVE  PaidFor'
  <1>1. IsFiniteSet(Loose') /\ Cardinality(Loose') <= Cardinality(Loose)
        /\ Cardinality(Loose) \in Nat /\ Cardinality(Loose') \in Nat
    BY Stays DEF PaidFor
  <1> QED
    BY <1>1, TroublesGrow DEF PaidFor, Owed, TypeOK

(* One trouble pays for one page owed, or for one sweep let loose.         *)
LEMMA OnePage ==
    ASSUME PaidFor, TypeOK, repeats' = repeats, Troubles' = Troubles + 1, Loose' \subseteq Loose
    PROVE  PaidFor'
  <1>1. IsFiniteSet(Loose') /\ Cardinality(Loose') <= Cardinality(Loose)
        /\ Cardinality(Loose) \in Nat /\ Cardinality(Loose') \in Nat
    BY Stays DEF PaidFor
  <1> QED
    BY <1>1, TroublesGrow DEF PaidFor, Owed, TypeOK

LEMMA OneLoose ==
    ASSUME PaidFor, TypeOK, repeats' = repeats, Troubles' = Troubles + 1,
           NEW s, Loose' \subseteq Loose \union {s},
           heard' = "firing" /\ ~Settled' => heard = "firing" /\ ~Settled
    PROVE  PaidFor'
  <1>1. IsFiniteSet(Loose') /\ Cardinality(Loose') <= Cardinality(Loose) + 1
        /\ Cardinality(Loose) \in Nat /\ Cardinality(Loose') \in Nat
    BY Grows DEF PaidFor
  <1> QED
    BY <1>1, TroublesGrow DEF PaidFor, Owed, TypeOK

(* What a loose sweep does, once.                                          *)
LEMMA LooseEnds ==
    ASSUME PaidFor, TypeOK, NEW s \in Loose, Loose' \subseteq Loose \ {s},
           repeats' \in Nat, Troubles' \in Nat, Troubles' >= Troubles,
           \/ repeats' = repeats
           \/ /\ repeats' = repeats + 1
              /\ heard' = "firing" /\ ~Settled' => heard = "firing" /\ ~Settled
    PROVE  PaidFor'
  <1>1. IsFiniteSet(Loose') /\ Cardinality(Loose') + 1 <= Cardinality(Loose)
        /\ Cardinality(Loose) \in Nat /\ Cardinality(Loose') \in Nat
    BY Shrinks DEF PaidFor
  <1> QED
    BY <1>1, TroublesGrow DEF PaidFor, Owed, TypeOK


(* The page that was owed is sent, and settled or in doubt.                *)
LEMMA OwedPage ==
    ASSUME PaidFor, TypeOK, repeats' = repeats + 1, heard = "firing", ~Settled, Loose' \subseteq Loose,
           Troubles' \in Nat, Troubles' >= Troubles, Settled' \/ Troubles' = Troubles + 1
    PROVE  PaidFor'
  <1>1. IsFiniteSet(Loose') /\ Cardinality(Loose') <= Cardinality(Loose)
        /\ Cardinality(Loose) \in Nat /\ Cardinality(Loose') \in Nat
    BY Stays DEF PaidFor
  <1> QED
    BY <1>1, TroublesGrow DEF PaidFor, Owed, TypeOK

LEMMA InitPInv == Init => PInv
  <1> SUFFICES ASSUME Init PROVE PInv
    OBVIOUS
  <1>1. Loose = {} /\ Owed = 0 /\ Transitions
    BY DEF Init, IdleRule, Loose, MayPage, MayClear, Owed, Transitions
  <1>2. Troubles = 0
    BY DEF Init, Troubles, Kinds
  <1>3. PaidFor
    BY <1>1, <1>2, FS_EmptySet DEF PaidFor, Init
  <1> QED
    BY <1>1, <1>3, InitTypes DEF PInv

(* Budgets, the operator and the world change nothing about pages sent.    *)
LEMMA OutsidePays ==
    ASSUME PInv, UNCHANGED <<lock, ruleEval, repeats>>, Troubles' \in Nat, Troubles' >= Troubles,
           \/ heard' = "quiet"
           \/ /\ UNCHANGED <<status, heard>>
              /\ rule # None /\ rule' # None => rule'.id = rule.id
              /\ rule = None <=> rule' = None
    PROVE  PaidFor'
  <1>1. Loose' = Loose
    BY DEF Loose, MayPage, MayClear
  <1>2. ASSUME UNCHANGED <<status, heard>>,
               rule # None /\ rule' # None => rule'.id = rule.id,
               rule = None <=> rule' = None
        PROVE  Settled' <=> Settled
    BY <1>2 DEF Settled, Settles, AtWork, SameRule
  <1>3. heard' = "firing" /\ ~Settled' => heard = "firing" /\ ~Settled
    BY <1>2
  <1> QED
    BY <1>1, <1>3, NoPage DEF PInv

LEMMA OutsideStep ==
    ASSUME PInv, Operator \/ NewMonth \/ MetricMoves \/ (\E s \in Sweep : EvaluateBudget(s))
    PROVE  PaidFor' /\ Transitions'
  <1> USE DEF PInv
  <1>1. UNCHANGED <<lock, ruleEval, repeats>>
    BY DEF Operator, CreateRule, UpdateRule, DeleteRule, SetBudget, DeleteBudget, NewMonth, MetricMoves,
           EvaluateBudget, ReadBudget, MeasureBudget, NotifyBudget, CommitBudget, ruleVars
  <1>2. UNCHANGED spent \/ \E kind \in Kinds : Spend(kind)
    <2>1. CASE Operator \/ NewMonth \/ MetricMoves
      BY <2>1 DEF Operator, CreateRule, UpdateRule, DeleteRule, SetBudget, DeleteBudget,
                  NewMonth, MetricMoves, Kinds
    <2>2. ASSUME NEW s \in Sweep, EvaluateBudget(s)
          PROVE  UNCHANGED spent \/ \E kind \in Kinds : Spend(kind)
      BY <2>2 DEF EvaluateBudget, ReadBudget, MeasureBudget, NotifyBudget, Posted, CommitBudget, Kinds
    <2> QED
      BY <2>1, <2>2
  <1>3. Troubles' \in Nat /\ Troubles' >= Troubles
    BY <1>2, TroublesGrow
  <1>4. \/ heard' = "quiet"
        \/ /\ UNCHANGED <<status, heard>>
           /\ rule # None /\ rule' # None => rule'.id = rule.id
           /\ rule = None <=> rule' = None
    <2>1. CASE CreateRule \/ DeleteRule
      BY <2>1 DEF CreateRule, DeleteRule
    <2>2. CASE UpdateRule
      <3>1. rule' # None /\ rule'.id = rule.id
        <4>1. /\ rule \in [id : Nat, channel : Channels, enabled : BOOLEAN]
              /\ \E channel \in Channels, enabled \in BOOLEAN :
                    rule' = [rule EXCEPT !.channel = channel, !.enabled = enabled]
          BY <2>2 DEF UpdateRule, TypeOK
        <4>2. rule' \in [id : Nat, channel : Channels, enabled : BOOLEAN] /\ rule'.id = rule.id
          BY <4>1
        <4> QED
          BY <4>2, AlertAssumption
      <3> QED
        BY <2>2, <3>1 DEF UpdateRule
    <2>3. CASE ~(CreateRule \/ DeleteRule \/ UpdateRule)
      BY <2>3 DEF Operator, SetBudget, DeleteBudget, NewMonth, MetricMoves,
           EvaluateBudget, ReadBudget, MeasureBudget, NotifyBudget, CommitBudget, ruleVars
    <2> QED
      BY <2>1, <2>2, <2>3
  <1>5. Transitions'
    BY <1>1 DEF Transitions
  <1> QED
    BY <1>1, <1>3, <1>4, <1>5, OutsidePays


(* The lock changes hands.                                                 *)
LEMMA Evaluates ==
    ASSUME TypeOK, NEW s \in Sweep, NEW new, ruleEval' = [ruleEval EXCEPT ![s] = new]
    PROVE  ruleEval'[s] = new /\ \A i \in Sweep \ {s} : ruleEval'[i] = ruleEval[i]
  BY DEF TypeOK

LEMMA StartPays ==
    ASSUME PInv, NEW s \in Sweep, Start(s)
    PROVE  PaidFor' /\ Transitions'
  <1> USE DEF PInv
  <1>0. /\ ruleEval[s].at = "idle"
        /\ ruleEval' = [ruleEval EXCEPT ![s].at = "read"]
        /\ UNCHANGED <<rule, status, heard, repeats>>
    BY DEF Start, Running, ruleVars
  <1>1. /\ ruleEval'[s].at = "read"
        /\ \A i \in Sweep \ {s} : ruleEval'[i] = ruleEval[i]
    BY <1>0 DEF TypeOK
  <1>2. Transitions'
    BY <1>1 DEF Transitions
  <1>3. CASE Acquires /\ lock' = s /\ UNCHANGED spent
    <2>1. Loose' \subseteq Loose
      BY <1>1, <1>3, AlertAssumption DEF Loose, MayPage, MayClear, Acquires
    <2>2. Settled' <=> Settled
      BY <1>0, <1>1, <1>3, AlertAssumption DEF Settled, AtWork, Acquires
    <2> QED
      BY <1>0, <1>2, <1>3, <2>1, <2>2, TroublesGrow, NoPage
  <1>4. CASE Spend("redis") /\ UNCHANGED lock
    <2>1. Loose' \subseteq Loose \union {s}
      BY <1>1, <1>4 DEF Loose, MayPage, MayClear
    <2>2. Settled' <=> Settled
      <3>1. CASE lock \in Sweep \ {s}
        BY <1>0, <1>1, <1>4, <3>1 DEF Settled, AtWork, SameRule, Settles
      <3>2. CASE lock \notin Sweep \ {s}
        BY <1>0, <1>1, <1>4, <3>2 DEF Settled, AtWork
      <3> QED
        BY <3>1, <3>2
    <2>3. Troubles' = Troubles + 1
      BY <1>4, TroublesGrow DEF Kinds, TroubleKinds
    <2> QED
      BY <1>0, <1>2, <2>1, <2>2, <2>3, OneLoose
  <1> QED
    BY <1>3, <1>4 DEF Start

(* A sweep that loses the lock is one loose sweep more, unless it was      *)
(* about to write down a page: then that page may be owed.                 *)
LEMMA LockLost ==
    ASSUME PInv, lock' = None, UNCHANGED <<rule, status, ruleEval, heard, repeats>>,
           Troubles' = Troubles + 1
    PROVE  PaidFor'
  <1> USE DEF PInv
  <1>1. CASE lock \in Sweep /\ (MayPage(lock) \/ MayClear(lock))
    <2>1. Loose' \subseteq Loose \union {lock}
      BY <1>1 DEF Loose, MayPage, MayClear
    <2>2. Settled => Settled'
      BY <1>1, AlertAssumption DEF Settled, Settles, AtWork, MayPage, MayClear
    <2> QED
      BY <2>1, <2>2, OneLoose
  <1>2. CASE ~(lock \in Sweep /\ (MayPage(lock) \/ MayClear(lock)))
    <2>1. Loose' \subseteq Loose
      BY <1>2 DEF Loose, MayPage, MayClear
    <2> QED
      BY <2>1, OnePage
  <1> QED
    BY <1>1, <1>2

(* The lock of a sweep that is not working on the rule matters to nobody.  *)
LEMMA LockFreed ==
    ASSUME PInv, lock \notin Sweep \/ ruleEval[lock].at \in {"idle", "done"},
           lock' = None, UNCHANGED <<rule, status, ruleEval, heard, repeats, spent>>
    PROVE  PaidFor'
  <1> USE DEF PInv
  <1>1. Loose' \subseteq Loose
    BY DEF Loose, MayPage, MayClear
  <1>2. Settled' <=> Settled
    BY AlertAssumption DEF Settled, AtWork
  <1> QED
    BY <1>1, <1>2, TroublesGrow, NoPage

LEMMA ExpiryPays ==
    ASSUME PInv, LockExpires
    PROVE  PaidFor' /\ Transitions'
  <1> USE DEF PInv
  <1>1. lock' = None /\ UNCHANGED <<rule, status, ruleEval, heard, repeats>>
    BY DEF LockExpires, ruleVars
  <1>2. Transitions'
    BY <1>1 DEF Transitions
  <1>3. CASE lock \in Running
    <2>1. Troubles' = Troubles + 1
      BY <1>3, TroublesGrow DEF LockExpires, Kinds, TroubleKinds
    <2> QED
      BY <1>1, <1>2, <2>1, LockLost
  <1>4. CASE lock \notin Running
    BY <1>1, <1>2, <1>4, LockFreed DEF LockExpires, Running
  <1> QED
    BY <1>3, <1>4

(* A sweep that ends, dies or cannot read its rows.                        *)
LEMMA IdleAt == IdleRule.at = "idle"
  BY DEF IdleRule

LEMMA FinishPays ==
    ASSUME PInv, NEW s \in Sweep, Finish(s)
    PROVE  PaidFor' /\ Transitions'
  <1> USE DEF PInv
  <1>1. /\ UNCHANGED <<rule, status, heard, repeats, spent>>
        /\ lock' = Released(s)
        /\ ruleEval[s].at = "done"
        /\ ruleEval'[s].at = "idle"
        /\ \A i \in Sweep \ {s} : ruleEval'[i] = ruleEval[i]
    BY Evaluates, IdleAt DEF Finish, ruleVars
  <1>2. Transitions'
    BY <1>1 DEF Transitions
  <1>3. Loose' \subseteq Loose
    BY <1>1 DEF Loose, MayPage, MayClear, Released
  <1>4. Settled' <=> Settled
    <2>1. CASE lock \in Sweep \ {s}
      BY <1>1, <2>1 DEF Settled, AtWork, SameRule, Settles, Released
    <2>2. CASE lock \notin Sweep \ {s}
      BY <1>1, <2>2, AlertAssumption DEF Settled, AtWork, Released
    <2> QED
      BY <2>1, <2>2
  <1> QED
    BY <1>1, <1>2, <1>3, <1>4, TroublesGrow, NoPage

LEMMA CrashPays ==
    ASSUME PInv, NEW s \in Sweep, Crash(s)
    PROVE  PaidFor' /\ Transitions'
  <1> USE DEF PInv
  <1>1. /\ UNCHANGED <<lock, repeats>>
        /\ ruleEval'[s].at = "idle"
        /\ \A i \in Sweep \ {s} : ruleEval'[i] = ruleEval[i]
    BY Evaluates, IdleAt DEF Crash, ruleVars
  <1>2. Transitions'
    BY <1>1 DEF Transitions
  <1>3. Loose' \subseteq Loose
    BY <1>1 DEF Loose, MayPage, MayClear
  <1>4. Troubles' = Troubles + 1
    BY TroublesGrow DEF Crash, Kinds, TroubleKinds
  <1> QED
    BY <1>1, <1>2, <1>3, <1>4, OnePage

LEMMA RejectPays ==
    ASSUME PInv, NEW s \in Sweep, Reject(s)
    PROVE  PaidFor' /\ Transitions'
  <1> USE DEF PInv
  <1>1. UNCHANGED <<rule, status, heard, repeats>> /\ lock' = Released(s)
    BY DEF Reject, ruleVars
  <1>2. Troubles' = Troubles + 1
    BY TroublesGrow DEF Reject, Kinds, TroubleKinds
  <1>3. CASE UNCHANGED ruleEval
    <2>1. Transitions'
      BY <1>3 DEF Transitions
    <2>2. CASE lock = s
      BY <1>1, <1>2, <1>3, <2>1, <2>2, LockLost DEF Released
    <2>3. CASE lock # s
      <3>1. Loose' \subseteq Loose
        BY <1>1, <1>3, <2>3 DEF Loose, MayPage, MayClear, Released
      <3> QED
        BY <1>1, <1>2, <2>1, <3>1, OnePage
    <2> QED
      BY <2>2, <2>3
  <1>4. CASE ruleEval' = [ruleEval EXCEPT ![s].at = "done"]
    <2>1. ruleEval'[s].at = "done" /\ \A i \in Sweep \ {s} : ruleEval'[i] = ruleEval[i]
      BY <1>4 DEF TypeOK
    <2>2. Transitions'
      BY <2>1 DEF Transitions
    <2>3. Loose' \subseteq Loose
      BY <1>1, <2>1 DEF Loose, MayPage, MayClear, Released
    <2> QED
      BY <1>1, <1>2, <2>2, <2>3, OnePage
  <1> QED
    BY <1>3, <1>4 DEF Reject


(* evaluateAllAlerts.                                                      *)
LEMMA ReadPays ==
    ASSUME PInv, NEW s \in Sweep, ReadRule(s)
    PROVE  PaidFor' /\ Transitions'
  <1> USE DEF PInv
  <1> DEFINE read == rule # None /\ rule.enabled
  <1>1. /\ UNCHANGED <<lock, rule, status, heard, repeats, spent>>
        /\ ruleEval[s].at = "read"
        /\ \A i \in Sweep \ {s} : ruleEval'[i] = ruleEval[i]
    BY DEF ReadRule, ruleVars, TypeOK
  <1>2. /\ read => /\ ruleEval'[s].at = "measure"
                   /\ ruleEval'[s].id = rule.id
                   /\ ruleEval'[s].firing = (status = "firing")
        /\ ~read => ruleEval'[s].at = "done"
    <2>1. ruleEval[s] \in RuleEvals
      BY Evals
    <2>2. ruleEval'[s] = IF rule # None /\ rule.enabled
             THEN [ruleEval[s] EXCEPT !.at = "measure", !.id = rule.id, !.channel = rule.channel,
                                      !.firing = (status = "firing")]
             ELSE [ruleEval[s] EXCEPT !.at = "done"]
      BY Evals DEF ReadRule
    <2> QED
      BY <2>1, <2>2 DEF RuleEvals
  <1>3. Transitions'
    BY <1>1, <1>2 DEF Transitions
  <1>4. Loose' \subseteq Loose
    BY <1>1, <1>2 DEF Loose, MayPage, MayClear
  <1>5. Settled' <=> Settled
    <2>1. CASE lock \in Sweep \ {s}
      BY <1>1, <2>1 DEF Settled, AtWork, SameRule, Settles
    <2>2. CASE lock \notin Sweep \ {s}
      BY <1>1, <1>2, <2>2 DEF Settled, AtWork, Settles
    <2> QED
      BY <2>1, <2>2
  <1> QED
    BY <1>1, <1>3, <1>4, <1>5, TroublesGrow, NoPage

LEMMA MeasurePays ==
    ASSUME PInv, NEW s \in Sweep, MeasureRule(s)
    PROVE  PaidFor' /\ Transitions'
  <1> USE DEF PInv
  <1>1. /\ UNCHANGED <<lock, rule, status, heard, repeats>>
        /\ ruleEval[s].at = "measure"
        /\ \A i \in Sweep \ {s} : ruleEval'[i] = ruleEval[i]
    BY DEF MeasureRule, ruleVars, TypeOK
  <1>2. /\ ruleEval'[s].at \in {"notify", "done"}
        /\ ruleEval'[s].id = ruleEval[s].id
        /\ ruleEval'[s].firing = ruleEval[s].firing
        /\ ruleEval'[s].at = "notify" => ruleEval'[s].breached # ruleEval'[s].firing
        /\ ruleEval'[s].breached \in BOOLEAN /\ ruleEval'[s].firing \in BOOLEAN
    <2>1. ruleEval[s] \in RuleEvals /\ breached \in BOOLEAN
      BY Evals DEF TypeOK
    <2>2. \/ ruleEval'[s] = [ruleEval[s] EXCEPT !.breached = breached,
                 !.at = IF breached # ruleEval[s].firing THEN "notify" ELSE "done"]
          \/ ruleEval'[s] = [ruleEval[s] EXCEPT !.at = "done"]
      BY Evals DEF MeasureRule
    <2> QED
      BY <2>1, <2>2 DEF RuleEvals
  <1>3. Transitions'
    BY <1>1, <1>2 DEF Transitions
  <1>4. Loose' \subseteq Loose
    BY <1>1, <1>2 DEF Loose, MayPage, MayClear
  <1>5. Settled => Settled'
    <2>1. CASE lock \in Sweep \ {s}
      BY <1>1, <2>1 DEF Settled, AtWork, SameRule, Settles
    <2>2. CASE lock \notin Sweep \ {s}
      BY <1>1, <1>2, <2>2 DEF Settled, AtWork, Settles, SameRule
    <2> QED
      BY <2>1, <2>2
  <1>6. Troubles' \in Nat /\ Troubles' >= Troubles
    BY TroublesGrow DEF MeasureRule, Kinds
  <1> QED
    BY <1>1, <1>3, <1>4, <1>5, <1>6, NoPage

(* The page of a sweep: of one without the lock it is the one it may send  *)
(* too many; of the one with the lock it is the one that was owed.         *)
LEMMA NotifyPays ==
    ASSUME PInv, NEW s \in Sweep, NotifyRule(s)
    PROVE  PaidFor' /\ Transitions'
  <1> USE DEF PInv
  <1> DEFINE here == ruleEval[s]
             news == IF here.breached THEN "firing" ELSE "quiet"
  <1>1. PICK taken \in BOOLEAN, delivered \in BOOLEAN :
            /\ IF NothingToSend(here.channel)
               THEN ~taken /\ delivered /\ UNCHANGED spent
               ELSE Posted(taken, delivered)
            /\ heard' = IF SameRule(s) /\ (taken \/ (news = "quiet" /\ NothingToSend(here.channel)))
                        THEN news ELSE heard
            /\ repeats' = IF taken /\ SameRule(s) /\ news = "firing" /\ heard = "firing"
                          THEN repeats + 1 ELSE repeats
            /\ ruleEval' = [ruleEval EXCEPT ![s].delivered = delivered, ![s].at = "commit"]
    BY DEF NotifyRule, News
  <1>2. /\ UNCHANGED <<lock, rule, status>>
        /\ here.at = "notify" /\ here.breached = ~here.firing
        /\ here.breached \in BOOLEAN /\ here.firing \in BOOLEAN
        /\ status \in {"ok", "firing", "resolved"}
    BY Evals DEF NotifyRule, Transitions, RuleEvals, TypeOK
  <1>3. /\ ruleEval'[s].at = "commit"
        /\ ruleEval'[s].delivered = delivered
        /\ ruleEval'[s].id = here.id
        /\ ruleEval'[s].firing = here.firing
        /\ ruleEval'[s].breached = here.breached
        /\ \A i \in Sweep \ {s} : ruleEval'[i] = ruleEval[i]
    BY <1>1, Evals DEF RuleEvals
  <1>4. Transitions'
    BY <1>3 DEF Transitions
  <1>5. /\ Troubles' \in Nat /\ Troubles' >= Troubles
        /\ taken # delivered /\ ~NothingToSend(here.channel) /\ (taken \/ delivered)
              => Troubles' = Troubles + 1
    <2>1. CASE NothingToSend(here.channel)
      BY <1>1, <2>1, TroublesGrow
    <2>2. CASE ~NothingToSend(here.channel)
      <3>1. \/ taken /\ delivered /\ UNCHANGED spent
            \/ ~taken /\ delivered /\ Spend("refusals")
            \/ ~taken /\ ~delivered /\ Spend("outages")
            \/ taken /\ ~delivered /\ Spend("doubts")
        BY <1>1, <2>2 DEF Posted
      <3> QED
        BY <2>2, <3>1, TroublesGrow DEF Kinds, TroubleKinds
    <2> QED
      BY <2>1, <2>2
  <1>6. repeats' \in Nat
    BY <1>1 DEF TypeOK
  <1>7. CASE s # lock
    <2>1. Settled' <=> Settled
      <3>1. CASE lock \in Sweep
        BY <1>2, <1>3, <1>7, <3>1 DEF Settled, AtWork, SameRule, Settles
      <3>2. CASE lock \notin Sweep
        BY <1>2, <3>2 DEF Settled
      <3> QED
        BY <3>1, <3>2
    <2>2. s \in Loose
      BY <1>2, <1>7 DEF Loose, MayPage
    <2>3. Loose' \subseteq Loose
      BY <1>2, <1>3, <2>2 DEF Loose, MayPage, MayClear
    <2>4. CASE news = "quiet"
      <3>1. repeats' = repeats /\ (heard' = "firing" => heard = "firing")
        BY <1>1, <2>4
      <3> QED
        BY <1>4, <1>5, <2>1, <2>3, <3>1, NoPage
    <2>5. CASE news = "firing"
      <3>1. Loose' \subseteq Loose \ {s}
        BY <1>2, <1>3, <2>5 DEF Loose, MayPage, MayClear
      <3>2. CASE taken /\ SameRule(s) /\ heard = "firing"
        <4>1. repeats' = repeats + 1
          BY <1>1, <2>5, <3>2
        <4> QED
          BY <1>4, <1>5, <1>6, <2>1, <2>2, <3>1, <3>2, <4>1, LooseEnds
      <3>3. CASE ~(taken /\ SameRule(s) /\ heard = "firing")
        <4>1. repeats' = repeats
          BY <1>1, <3>3
        <4> QED
          BY <1>4, <1>5, <1>6, <2>2, <3>1, <4>1, LooseEnds
      <3> QED
        BY <3>2, <3>3
    <2> QED
      BY <2>4, <2>5
  <1>8. CASE s = lock
    <2>1. Loose' \subseteq Loose
      BY <1>2, <1>3, <1>8 DEF Loose, MayPage, MayClear
    <2>2. SameRule(s)' <=> SameRule(s)
      BY <1>2, <1>3 DEF SameRule
    <2>3. CASE ~SameRule(s)
      <3>1. repeats' = repeats /\ heard' = heard
        BY <1>1, <2>3
      <3>2. Settled' <=> Settled
        BY <1>2, <1>8, <2>2, <2>3 DEF Settled, AtWork
      <3> QED
        BY <1>4, <1>5, <2>1, <3>1, <3>2, NoPage
    <2>4. CASE SameRule(s)
      <3>1. Settled <=> here.firing /\ status = "firing"
        BY <1>2, <1>8, <2>4 DEF Settled, AtWork, Settles
      <3>2. Settled' <=> IF delivered THEN here.breached ELSE status = "firing"
        BY <1>2, <1>3, <1>8, <2>2, <2>4 DEF Settled, AtWork, Settles
      <3>3. CASE news = "quiet"
        <4>1. repeats' = repeats
          BY <1>1, <3>3
        <4>2. CASE taken \/ NothingToSend(here.channel)
          <5>1. heard' = "quiet"
            BY <1>1, <2>4, <3>3, <4>2
          <5> QED
            BY <1>4, <1>5, <2>1, <4>1, <5>1, NoPage
        <4>3. CASE ~taken /\ ~NothingToSend(here.channel) /\ delivered
          BY <1>4, <1>5, <2>1, <4>1, <4>3, OnePage
        <4>4. CASE ~taken /\ ~NothingToSend(here.channel) /\ ~delivered
          <5>1. heard' = heard
            BY <1>1, <4>4
          <5>2. Settled => Settled'
            BY <3>1, <3>2, <4>4
          <5> QED
            BY <1>4, <1>5, <2>1, <4>1, <5>1, <5>2, NoPage
        <4> QED
          BY <4>2, <4>3, <4>4
      <3>4. CASE news = "firing"
        <4>1. here.breached /\ ~Settled
          BY <1>2, <3>1, <3>4
        <4>2. CASE delivered
          <5>1. Settled'
            BY <3>2, <4>1, <4>2
          <5>2. CASE repeats' = repeats
            BY <1>4, <1>5, <2>1, <5>1, <5>2, NoPage
          <5>3. CASE repeats' # repeats
            <6>1. repeats' = repeats + 1 /\ heard = "firing"
              BY <1>1, <5>3
            <6> QED
              BY <1>4, <1>5, <2>1, <4>1, <5>1, <6>1, OwedPage
          <5> QED
            BY <5>2, <5>3
        <4>3. CASE taken /\ ~delivered
          <5>1. Troubles' = Troubles + 1
            BY <1>1, <1>5, <4>3
          <5>2. CASE repeats' = repeats
            BY <1>4, <2>1, <5>1, <5>2, OnePage
          <5>3. CASE repeats' # repeats
            <6>1. repeats' = repeats + 1 /\ heard = "firing"
              BY <1>1, <5>3
            <6> QED
              BY <1>4, <1>5, <2>1, <4>1, <5>1, <6>1, OwedPage
          <5> QED
            BY <5>2, <5>3
        <4>4. CASE ~taken /\ ~delivered
          <5>1. repeats' = repeats /\ heard' = heard
            BY <1>1, <3>4, <4>4
          <5> QED
            BY <1>4, <1>5, <2>1, <4>1, <5>1, NoPage
        <4> QED
          BY <4>2, <4>3, <4>4
      <3> QED
        BY <3>3, <3>4
    <2> QED
      BY <2>3, <2>4
  <1> QED
    BY <1>7, <1>8

(* The write: one without the lock may be the write it may still spoil.    *)
LEMMA CommitPays ==
    ASSUME PInv, NEW s \in Sweep, CommitRule(s)
    PROVE  PaidFor' /\ Transitions'
  <1> USE DEF PInv
  <1> DEFINE here == ruleEval[s]
             writes == SameRule(s) /\ here.delivered
  <1>1. /\ UNCHANGED <<lock, rule, heard, repeats>>
        /\ here.at = "commit" /\ here.delivered \in BOOLEAN /\ here.breached \in BOOLEAN
        /\ \A i \in Sweep \ {s} : ruleEval'[i] = ruleEval[i]
    BY Evals DEF CommitRule, RuleEvals, TypeOK
  <1>2. ruleEval'[s].at = "done"
    BY Evals DEF CommitRule, RuleEvals
  <1>3. Transitions'
    BY <1>1, <1>2 DEF Transitions
  <1>4. Loose' \subseteq Loose \ {s}
    BY <1>1, <1>2 DEF Loose, MayPage, MayClear
  <1>5. CASE Spend("writes")
    <2>1. Troubles' = Troubles + 1
      BY <1>5, TroublesGrow DEF Kinds, TroubleKinds
    <2> QED
      BY <1>1, <1>3, <1>4, <2>1, OnePage
  <1>6. CASE /\ status' = (IF writes THEN IF here.breached THEN "firing" ELSE "resolved" ELSE status)
             /\ UNCHANGED spent
    <2>1. Troubles' = Troubles /\ Troubles \in Nat
      BY <1>6, TroublesGrow
    <2>2. CASE s \in Loose
      BY <1>1, <1>3, <1>4, <2>1, <2>2, LooseEnds DEF TypeOK
    <2>3. CASE s \notin Loose
      <3>1. Settled => Settled'
        <4>1. CASE s = lock
          BY <1>1, <1>2, <1>6, <4>1 DEF Settled, AtWork, Settles
        <4>2. CASE s # lock /\ lock \in Sweep
          <5>1. ~here.delivered \/ here.breached
            BY <1>1, <2>3, <4>2 DEF Loose, MayClear
          <5>2. status = "firing" => status' = "firing"
            BY <1>6, <5>1
          <5> QED
            BY <1>1, <4>2, <5>2 DEF Settled, AtWork, SameRule, Settles
        <4>3. CASE lock \notin Sweep
          <5>1. ~here.delivered \/ here.breached
            BY <1>1, <2>3, <4>3 DEF Loose, MayClear
          <5> QED
            BY <1>1, <1>6, <4>3, <5>1 DEF Settled
        <4> QED
          BY <4>1, <4>2, <4>3
      <3> QED
        BY <1>1, <1>3, <1>4, <2>1, <3>1, NoPage
    <2> QED
      BY <2>2, <2>3
  <1>7. CASE writes /\ status' = (IF here.breached THEN "firing" ELSE "resolved") /\ UNCHANGED spent
    BY <1>6, <1>7
  <1>8. CASE ~writes /\ UNCHANGED <<status, spent>>
    BY <1>6, <1>8
  <1> QED
    BY <1>5, <1>7, <1>8 DEF CommitRule, Commits

LEMMA NextPInv == PInv /\ [Next]_vars => PInv'
  <1> SUFFICES ASSUME PInv, [Next]_vars PROVE PaidFor' /\ Transitions'
    BY NextTypes DEF PInv
  <1>1. CASE Operator \/ NewMonth \/ MetricMoves \/ (\E s \in Sweep : EvaluateBudget(s))
    BY <1>1, OutsideStep
  <1>2. CASE LockExpires
    BY <1>2, ExpiryPays
  <1>3. ASSUME NEW s \in Sweep, Start(s) \/ Finish(s) \/ Reject(s) \/ Crash(s)
        PROVE  PaidFor' /\ Transitions'
    BY <1>3, StartPays, FinishPays, RejectPays, CrashPays
  <1>4. ASSUME NEW s \in Sweep, EvaluateRule(s)
        PROVE  PaidFor' /\ Transitions'
    BY <1>4, ReadPays, MeasurePays, NotifyPays, CommitPays DEF EvaluateRule
  <1>5. CASE UNCHANGED vars
    <2>1. UNCHANGED <<lock, rule, status, ruleEval, heard, repeats, spent>>
      BY <1>5 DEF vars, ruleVars
    <2>2. Loose' = Loose /\ Transitions' /\ (Settled' <=> Settled)
      BY <2>1 DEF PInv, Loose, MayPage, MayClear, Transitions, Settled, AtWork, SameRule, Settles
    <2> QED
      BY <2>1, <2>2, TroublesGrow, NoPage DEF PInv
  <1> QED
    BY <1>1, <1>2, <1>3, <1>4, <1>5 DEF Next

(* RepeatsExplained: however many sweeps run without the lock, and however *)
(* the operator edits the rule meanwhile.                                  *)
THEOREM PagedAgainOnlyAfterTrouble == Spec => []RepeatsExplained
  <1>1. Init => PInv
    BY InitPInv
  <1>2. PInv /\ [Next]_vars => PInv'
    BY NextPInv
  <1>3. PInv => RepeatsExplained
    <2> SUFFICES ASSUME PInv PROVE repeats <= Troubles
      BY DEF RepeatsExplained, Troubles
    <2>1. Cardinality(Loose) \in Nat /\ Troubles \in Nat
      BY FS_CardinalityType, TroublesGrow DEF PInv, PaidFor
    <2> QED
      BY <2>1 DEF PInv, PaidFor, Owed, TypeOK
  <1> QED
    BY <1>1, <1>2, <1>3, PTL DEF Spec


-----------------------------------------------------------------------------
(* Markers.  A sweep carries what it announced until it writes the marker: *)
(* Caught.  Revisions and months only go up, so what a sweep read before   *)
(* an edit or the turn of a month can never be current again; and one that *)
(* has read the current revision has its channel.                          *)
Caught(s) ==
    LET b == budgetEval[s]
    IN b.at = "commit" /\ b.delivered /\ Current(b) /\ ~NothingToSend(b.channel) => told >= b.step

Dated ==
    /\ budget # None => /\ budget.rev <= spent["budgets"] /\ budget.rev > 0
                        /\ budget.about[2] <= Month
    /\ \A s \in Sweep : budgetEval[s].rev <= spent["budgets"] /\ budgetEval[s].month <= Month

Knows(s) ==
    budget # None /\ budgetEval[s].rev = budget.rev => budgetEval[s].channel = budget.channel

MInv ==
    /\ TypeOK
    /\ Dated
    /\ MarkerTold
    /\ \A s \in Sweep : Knows(s)
    /\ spent["refusals"] = 0 => \A s \in Sweep : Caught(s)

LEMMA InitMInv == Init => MInv
  <1> SUFFICES ASSUME Init PROVE MInv
    OBVIOUS
  <1>1. \A s \in Sweep : /\ budgetEval[s].at = "idle" /\ budgetEval[s].rev = 0
                         /\ budgetEval[s].month = 0
    BY DEF Init, IdleBudget
  <1>2. \A k \in Kinds : spent[k] = 0
    BY DEF Init
  <1> QED
    BY <1>1, <1>2, InitTypes DEF MInv, Dated, MarkerTold, Audible, Knows, Caught, Month, Init, Kinds

(* Times and counts do not go back.                                        *)
LEMMA Onward ==
    ASSUME TypeOK, UNCHANGED spent \/ \E kind \in Kinds : Spend(kind)
    PROVE  \A k \in {"budgets", "months", "refusals"} :
              spent[k] \in Nat /\ spent'[k] \in Nat /\ spent[k] <= spent'[k]
  <1>1. \A k \in Kinds : spent[k] \in Nat
    BY DEF TypeOK
  <1> QED
    BY <1>1, Spends DEF Kinds

(* A step that leaves the budget and the month alone, and every evaluation *)
(* where it is or without a page to write down.                            *)
LEMMA NoNews ==
    ASSUME MInv, [Next]_vars, UNCHANGED <<budget, told>>,
           spent'["months"] = spent["months"],
           UNCHANGED spent \/ \E kind \in Kinds : Spend(kind),
           \A s \in Sweep :
              \/ budgetEval'[s] = budgetEval[s]
              \/ /\ \/ /\ budgetEval'[s].rev = budgetEval[s].rev
                       /\ budgetEval'[s].channel = budgetEval[s].channel
                    \/ budgetEval'[s].rev = 0
                    \/ /\ budget # None
                       /\ budgetEval'[s].rev = budget.rev
                       /\ budgetEval'[s].channel = budget.channel
                 /\ budgetEval'[s].month = budgetEval[s].month \/ budgetEval'[s].month <= Month
                 /\ budgetEval'[s].at = "commit" /\ budgetEval'[s].delivered => budgetEval'[s].step = 0
    PROVE  MInv'
  <1>0. TypeOK /\ TypeOK'
    BY NextTypes DEF MInv
  <1>1. \A k \in {"budgets", "months", "refusals"} :
            spent[k] \in Nat /\ spent'[k] \in Nat /\ spent[k] <= spent'[k]
    BY <1>0, Onward
  <1>2. Month' = Month
    BY DEF Month
  <1>3. /\ \A s \in Sweep : budgetEval[s].rev \in Nat /\ budgetEval'[s].rev \in Nat
        /\ budget # None => budget.rev \in Nat
        /\ told \in Nat
    BY <1>0 DEF TypeOK
  <1>8. \A s \in Sweep : Knows(s)'
    BY <1>3 DEF MInv, Dated, Knows
  <1>4. Dated'
    BY <1>1, <1>2, <1>3 DEF MInv, Dated
  <1>5. spent'["refusals"] = 0 => spent["refusals"] = 0
    BY <1>1
  <1>6. MarkerTold'
    BY <1>2, <1>5 DEF MInv, MarkerTold, Audible, Stale
  <1>7. ASSUME spent'["refusals"] = 0, NEW s \in Sweep PROVE Caught(s)'
    <2>1. CASE budgetEval'[s] = budgetEval[s]
      BY <1>2, <1>5, <1>7, <2>1 DEF MInv, Caught, Current
    <2>2. CASE budgetEval'[s].at = "commit" /\ budgetEval'[s].delivered => budgetEval'[s].step = 0
      BY <1>3, <2>2 DEF Caught
    <2> QED
      BY <2>1, <2>2
  <1> QED
    BY <1>0, <1>4, <1>6, <1>7, <1>8 DEF MInv

(* The rule, the lock and the world.                                       *)
LEMMA OthersKeep ==
    ASSUME MInv, [Next]_vars, UNCHANGED <<budget, told, budgetEval>>,
           UNCHANGED spent \/ \E kind \in Kinds \ {"months"} : Spend(kind)
    PROVE  MInv'
  <1>1. spent'["months"] = spent["months"]
    BY Spends DEF MInv, Kinds
  <1> QED
    BY <1>1, NextTypes, NoNews

LEMMA NextMInv == MInv /\ [Next]_vars => MInv'
  <1> SUFFICES ASSUME MInv, [Next]_vars PROVE MInv'
    OBVIOUS
  <1>0. TypeOK /\ TypeOK'
    BY NextTypes DEF MInv
  <1>1. CASE CreateRule \/ UpdateRule \/ DeleteRule \/ MetricMoves \/ LockExpires
    BY <1>1, OthersKeep
       DEF CreateRule, UpdateRule, DeleteRule, MetricMoves, LockExpires, budgetVars, Kinds
  <1>2. ASSUME NEW s \in Sweep, EvaluateRule(s) PROVE MInv'
    BY <1>2, OthersKeep
       DEF EvaluateRule, ReadRule, MeasureRule, NotifyRule, Posted, CommitRule, budgetVars, Kinds
  <1>3. ASSUME NEW s \in Sweep, Start(s) \/ Finish(s) \/ Reject(s) \/ Crash(s) PROVE MInv'
    <2>1. UNCHANGED <<budget, told>> /\ (UNCHANGED spent \/ \E kind \in Kinds \ {"months"} : Spend(kind))
      BY <1>3 DEF Start, Finish, Reject, Crash, budgetVars, Kinds
    <2>2. spent'["months"] = spent["months"]
      BY <1>0, <2>1, Spends DEF Kinds
    <2>3. \A i \in Sweep :
             \/ budgetEval'[i] = budgetEval[i]
             \/ /\ \/ /\ budgetEval'[i].rev = budgetEval[i].rev
                      /\ budgetEval'[i].channel = budgetEval[i].channel
                   \/ budgetEval'[i].rev = 0
                /\ budgetEval'[i].month = budgetEval[i].month \/ budgetEval'[i].month = 0
                /\ budgetEval'[i].at # "commit"
      <3>1. CASE Finish(s) \/ Crash(s)
        BY <1>0, <3>1 DEF Finish, Crash, IdleBudget, TypeOK
      <3>2. CASE Start(s) \/ Reject(s)
        BY <1>0, <3>2 DEF Start, Reject, TypeOK
      <3> QED
        BY <1>3, <3>1, <3>2
    <2>4. Month \in Nat /\ spent["budgets"] \in Nat
      BY <1>0 DEF Month, TypeOK, Kinds
    <2> QED
      BY <2>1, <2>2, <2>3, <2>4, NextTypes, NoNews
  <1>4. CASE SetBudget
    <2>1. Spend("budgets") /\ told' = 0 /\ UNCHANGED budgetEval
      BY <1>4 DEF SetBudget
    <2>2. /\ spent'["budgets"] = spent["budgets"] + 1
          /\ spent'["months"] = spent["months"]
          /\ spent["budgets"] \in Nat /\ spent["months"] \in Nat
      BY <1>0, <2>1, Spends DEF TypeOK, Kinds
    <2>3. /\ budget'.rev = spent'["budgets"]
          /\ budget'.notified = 0
          /\ budget'.about = <<spent'["budgets"], Month>>
      BY <1>4 DEF SetBudget
    <2>4. Dated'
      BY <1>0, <2>1, <2>2, <2>3 DEF MInv, Dated, Month, TypeOK
    <2>5. MarkerTold'
      BY <2>1, <2>3 DEF MarkerTold
    <2>6. ASSUME NEW s \in Sweep PROVE Caught(s)' /\ Knows(s)'
      <3>1. budgetEval'[s].rev < budget'.rev
        BY <1>0, <2>1, <2>2, <2>3 DEF MInv, Dated, TypeOK
      <3>2. budgetEval'[s].rev \in Nat
        BY <1>0 DEF TypeOK
      <3> QED
        BY <2>2, <2>3, <3>1, <3>2 DEF Caught, Current, Knows
    <2> QED
      BY <1>0, <2>4, <2>5, <2>6 DEF MInv
  <1>5. CASE DeleteBudget
    <2>1. Spend("budgets") /\ UNCHANGED <<told, budgetEval>> /\ budget' = None
      BY <1>5 DEF DeleteBudget
    <2>2. /\ spent'["budgets"] = spent["budgets"] + 1
          /\ spent'["months"] = spent["months"]
          /\ spent["budgets"] \in Nat /\ spent["months"] \in Nat
      BY <1>0, <2>1, Spends DEF TypeOK, Kinds
    <2>3. \A s \in Sweep : budgetEval[s].rev \in Nat
      BY <1>0 DEF TypeOK
    <2>4. Dated'
      BY <2>1, <2>2, <2>3 DEF MInv, Dated, Month
    <2> QED
      BY <1>0, <2>1, <2>4 DEF MInv, MarkerTold, Audible, Caught, Current, Knows
  <1>6. CASE NewMonth
    <2>1. Spend("months") /\ told' = 0 /\ UNCHANGED <<budget, budgetEval>>
      BY <1>6 DEF NewMonth
    <2>2. /\ spent'["months"] = spent["months"] + 1
          /\ spent'["budgets"] = spent["budgets"]
          /\ spent["budgets"] \in Nat /\ spent["months"] \in Nat
      BY <1>0, <2>1, Spends DEF TypeOK, Kinds
    <2>3. /\ \A s \in Sweep : budgetEval[s].month \in Nat
          /\ budget # None => budget.about \in Nat \X Nat /\ budget.notified \in Nat
      BY <1>0 DEF TypeOK
    <2>4. Dated'
      BY <2>1, <2>2, <2>3 DEF MInv, Dated, Month
    <2>5. MarkerTold'
      <3>1. budget # None => budget.about[2] < Month'
        BY <2>1, <2>2, <2>3 DEF MInv, Dated, Month
      <3>2. budget # None => budget.about # <<budget.rev, Month'>>
        BY <2>2, <2>3, <3>1 DEF Month
      <3> QED
        BY <2>1, <2>3, <3>2 DEF MarkerTold, Audible, Stale
    <2>6. ASSUME NEW s \in Sweep PROVE Caught(s)'
      <3>1. budgetEval[s].month < Month'
        BY <2>2, <2>3 DEF MInv, Dated, Month
      <3> QED
        BY <2>1, <2>2, <2>3, <3>1 DEF Caught, Current, Month
    <2>7. \A s \in Sweep : Knows(s)'
      BY <2>1 DEF MInv, Knows
    <2> QED
      BY <1>0, <2>4, <2>5, <2>6, <2>7 DEF MInv

  <1>7. ASSUME NEW s \in Sweep, ReadBudget(s) PROVE MInv'
    <2>1. UNCHANGED <<budget, told, spent>>
      BY <1>7 DEF ReadBudget, budgetVars
    <2>2. \A i \in Sweep \ {s} : budgetEval'[i] = budgetEval[i]
      BY <1>0, <1>7 DEF ReadBudget, TypeOK
    <2>3. /\ budgetEval'[s].at # "commit"
          /\ budgetEval'[s].month = budgetEval[s].month
          /\ \/ /\ budgetEval'[s].rev = budgetEval[s].rev
                /\ budgetEval'[s].channel = budgetEval[s].channel
             \/ /\ budget # None /\ budgetEval'[s].rev = budget.rev
                /\ budgetEval'[s].channel = budget.channel
      <3>1. budgetEval[s] \in BudgetEvals
        BY <1>0, Evals
      <3>2. budgetEval'[s] = IF budget # None
               THEN [budgetEval[s] EXCEPT !.at = "measure", !.id = budget.id, !.rev = budget.rev,
                                          !.limit = budget.limit, !.channel = budget.channel,
                                          !.notified = budget.notified]
               ELSE [budgetEval[s] EXCEPT !.at = "done"]
        BY <1>0, <1>7, Evals DEF ReadBudget
      <3> QED
        BY <3>1, <3>2 DEF BudgetEvals
    <2>4. budget # None => budget.rev <= spent["budgets"]
      BY DEF MInv, Dated
    <2> QED
      BY <2>1, <2>2, <2>3, <2>4, NoNews
  <1>8. ASSUME NEW s \in Sweep, MeasureBudget(s) PROVE MInv'
    <2>1. UNCHANGED <<budget, told>> /\ (UNCHANGED spent \/ \E kind \in Kinds \ {"months"} : Spend(kind))
      BY <1>8 DEF MeasureBudget, budgetVars, Kinds
    <2>2. spent'["months"] = spent["months"] /\ Month \in Nat
      BY <1>0, <2>1, Spends DEF Kinds, Month, TypeOK
    <2>3. \A i \in Sweep \ {s} : budgetEval'[i] = budgetEval[i]
      BY <1>0, <1>8 DEF MeasureBudget, TypeOK
    <2>4. /\ budgetEval'[s].at = "commit" => budgetEval'[s].step = 0
          /\ budgetEval'[s].month = budgetEval[s].month \/ budgetEval'[s].month = Month
          /\ budgetEval'[s].rev = budgetEval[s].rev
          /\ budgetEval'[s].channel = budgetEval[s].channel
      <3> DEFINE step == Crossed(budgetEval[s].limit)
                 place == CASE step > budgetEval[s].notified -> "notify"
                            [] step = 0 /\ budgetEval[s].notified > 0 -> "commit"
                            [] OTHER -> "done"
      <3>1. budgetEval[s] \in BudgetEvals
        BY <1>0, Evals
      <3>2. \/ budgetEval'[s] = [budgetEval[s] EXCEPT !.step = step, !.month = Month,
                                                     !.at = place, !.delivered = TRUE]
            \/ budgetEval'[s] = [budgetEval[s] EXCEPT !.at = "done"]
        BY <1>0, <1>8, Evals DEF MeasureBudget
      <3>3. place = "commit" => step = 0
        OBVIOUS
      <3> HIDE DEF step, place
      <3> QED
        BY <3>1, <3>2, <3>3 DEF BudgetEvals
    <2> QED
      BY <2>1, <2>2, <2>3, <2>4, NoNews
  <1>9. ASSUME NEW s \in Sweep, NotifyBudget(s) PROVE MInv'
    <2>1. PICK taken \in BOOLEAN, delivered \in BOOLEAN :
             /\ IF NothingToSend(budgetEval[s].channel)
                THEN ~taken /\ delivered /\ UNCHANGED spent
                ELSE Posted(taken, delivered)
             /\ told' = IF taken /\ Current(budgetEval[s]) /\ budgetEval[s].step > told
                        THEN budgetEval[s].step ELSE told
             /\ budgetEval' = [budgetEval EXCEPT ![s].delivered = delivered, ![s].at = "commit"]
      BY <1>9 DEF NotifyBudget
    <2>2. UNCHANGED budget /\ (UNCHANGED spent \/ \E kind \in Kinds \ {"months"} : Spend(kind))
      BY <1>9 DEF NotifyBudget, Posted, Kinds
    <2>3. /\ spent'["months"] = spent["months"]
          /\ \A k \in {"budgets", "refusals"} :
                spent[k] \in Nat /\ spent'[k] \in Nat /\ spent[k] <= spent'[k]
      BY <1>0, <2>2, Spends, Onward DEF Kinds
    <2>4. /\ budgetEval'[s].rev = budgetEval[s].rev
          /\ budgetEval'[s].channel = budgetEval[s].channel
          /\ budgetEval'[s].month = budgetEval[s].month
          /\ budgetEval'[s].step = budgetEval[s].step
          /\ budgetEval'[s].delivered = delivered
          /\ \A i \in Sweep \ {s} : budgetEval'[i] = budgetEval[i]
      BY <1>0, <2>1, Evals DEF BudgetEvals
    <2>5. /\ told \in Nat /\ told' \in Nat
          /\ \A i \in Sweep : budgetEval[i].step \in Nat /\ budgetEval[i].rev \in Nat
          /\ budget # None => budget.notified \in Nat /\ budget.rev \in Nat
      BY <1>0, AlertAssumption DEF TypeOK
    <2>6. told' >= told
      BY <2>1, <2>5
    <2>7. spent'["refusals"] = 0 =>
             spent["refusals"] = 0 /\ (delivered /\ ~NothingToSend(budgetEval[s].channel) => taken)
      <3>1. ~taken /\ delivered /\ ~NothingToSend(budgetEval[s].channel) => Spend("refusals")
        BY <2>1 DEF Posted
      <3>2. Spend("refusals") => spent'["refusals"] = spent["refusals"] + 1
        BY <1>0, Spends DEF Kinds
      <3> QED
        BY <2>3, <3>1, <3>2
    <2>8. Dated'
      BY <2>2, <2>3, <2>4, <2>5 DEF MInv, Dated, Month
    <2>9. MarkerTold'
      BY <2>2, <2>3, <2>5, <2>6, <2>7 DEF MInv, MarkerTold, Audible, Stale, Month
    <2>10. ASSUME spent'["refusals"] = 0, NEW i \in Sweep PROVE Caught(i)'
      <3>1. CASE i = s
        <4>1. Current(budgetEval[s])' <=> Current(budgetEval[s])
          BY <2>2, <2>3, <2>4 DEF Current, Month
        <4>2. CASE delivered /\ Current(budgetEval[s])
          BY <2>1, <2>4, <2>5, <2>7, <2>10, <3>1, <4>2 DEF Caught
        <4>3. CASE ~(delivered /\ Current(budgetEval[s]))
          BY <2>4, <3>1, <4>1, <4>3 DEF Caught
        <4> QED
          BY <4>2, <4>3
      <3>2. CASE i # s
        <4>1. Current(budgetEval[i])' <=> Current(budgetEval[i])
          BY <2>2, <2>3, <2>4, <3>2 DEF Current, Month
        <4>2. Caught(i)
          BY <2>7, <2>10 DEF MInv
        <4> QED
          BY <2>4, <2>5, <2>6, <3>2, <4>1, <4>2 DEF Caught
      <3> QED
        BY <3>1, <3>2
    <2>11. \A i \in Sweep : Knows(i)'
      BY <2>2, <2>4 DEF MInv, Knows
    <2> QED
      BY <1>0, <2>8, <2>9, <2>10, <2>11 DEF MInv
  <1>10. ASSUME NEW s \in Sweep, CommitBudget(s) PROVE MInv'
    <2> DEFINE here == budgetEval[s]
    <2>1. /\ here.at = "commit" /\ UNCHANGED told
          /\ UNCHANGED spent \/ \E kind \in Kinds \ {"months"} : Spend(kind)
      BY <1>10 DEF CommitBudget, Kinds
    <2>2. /\ spent'["months"] = spent["months"]
          /\ \A k \in {"budgets", "refusals"} :
                spent[k] \in Nat /\ spent'[k] \in Nat /\ spent[k] <= spent'[k]
      BY <1>0, <2>1, Spends, Onward DEF Kinds
    <2>3. /\ budgetEval'[s].at = "done"
          /\ budgetEval'[s].rev = here.rev
          /\ budgetEval'[s].channel = here.channel
          /\ budgetEval'[s].month = here.month
          /\ \A i \in Sweep \ {s} : budgetEval'[i] = budgetEval[i]
      BY <1>0, <1>10, Evals DEF CommitBudget, BudgetEvals
    <2>4. CASE UNCHANGED budget
      BY <2>1, <2>2, <2>3, <2>4, NoNews
    <2>5. CASE /\ budget # None /\ here.delivered
               /\ budget' = [budget EXCEPT !.notified = here.step, !.about = <<here.rev, here.month>>]
      <3>1. budget \in [id : Nat, rev : Nat, limit : Limits, channel : Channels,
                         notified : 0..Steps, about : Nat \X Nat]
        BY <1>0, <2>5 DEF TypeOK
      <3>2. /\ budget'.rev = budget.rev
            /\ budget'.channel = budget.channel
            /\ budget'.notified = here.step
            /\ budget'.about = <<here.rev, here.month>>
        BY <2>5, <3>1
      <3>3. /\ \A i \in Sweep : /\ budgetEval[i].rev \in Nat /\ budgetEval[i].month \in Nat
                                /\ budgetEval[i].step \in Nat
            /\ told \in Nat
        BY <1>0, AlertAssumption DEF TypeOK
      <3>4. Dated'
        BY <2>2, <2>3, <2>5, <3>1, <3>2, <3>3 DEF MInv, Dated, Month
      <3>5. ASSUME spent'["refusals"] = 0 PROVE spent["refusals"] = 0 /\ \A i \in Sweep : Caught(i)
        BY <2>2, <3>5 DEF MInv
      <3>6. MarkerTold'
        <4>1. SUFFICES ASSUME spent'["refusals"] = 0, here.step > 0, ~NothingToSend(budget.channel),
                              budget'.about = <<budget'.rev, Month'>>
                       PROVE  told' >= here.step
          BY <2>1, <3>2, <3>3 DEF MarkerTold, Audible, Stale
        <4>2. Current(here) /\ here.channel = budget.channel
          BY <2>2, <2>5, <3>2, <4>1 DEF Current, Month, MInv, Knows
        <4> QED
          BY <2>1, <2>5, <3>5, <4>1, <4>2 DEF Caught
      <3>7. ASSUME spent'["refusals"] = 0, NEW i \in Sweep PROVE Caught(i)'
        <4>1. CASE i = s
          BY <2>3, <4>1 DEF Caught
        <4>2. CASE i # s
          BY <2>1, <2>2, <2>3, <2>5, <3>2, <3>5, <3>7, <4>2 DEF Caught, Current, Month
        <4> QED
          BY <4>1, <4>2
      <3>8. \A i \in Sweep : Knows(i)'
        BY <2>3, <2>5, <3>2 DEF MInv, Knows
      <3> QED
        BY <1>0, <3>4, <3>6, <3>7, <3>8 DEF MInv
    <2> QED
      BY <1>10, <2>4, <2>5 DEF CommitBudget, Commits
  <1>11. CASE UNCHANGED vars
    BY <1>11, OthersKeep DEF vars, budgetVars
  <1> QED
    BY <1>1, <1>2, <1>3, <1>4, <1>5, <1>6, <1>7, <1>8, <1>9, <1>10, <1>11
       DEF Next, Operator, EvaluateBudget

(* Unless a channel refuses, the marker of a budget with a channel stands  *)
(* for an announcement of that step for this budget and this month, or is  *)
(* a stale one, for any number of edits, months and sweeps side by side    *)
(* (evaluateBudgets, setCostBudget).                                       *)
THEOREM MarkersAreTold == Spec => []MarkerTold
  <1>1. Init => MInv
    BY InitMInv
  <1>2. MInv /\ [Next]_vars => MInv'
    BY NextMInv
  <1>3. MInv => MarkerTold
    BY DEF MInv
  <1> QED
    BY <1>1, <1>2, <1>3, PTL DEF Spec
=============================================================================
