------------------------- MODULE IngestQueueProofs --------------------------
(***************************************************************************)
(* Proofs about IngestQueue, for any number of batches, workers, replaying *)
(* processes, attempts and failures: its types; that it implements the     *)
(* safety part of Delivery, unless a failed handler loses a dead letter;   *)
(* that a complete replay tries every letter in its scope; that one job,   *)
(* handler or letter at a time carries a batch; and that every effect of a *)
(* batch is paid for by a job, a stall or a crash.                         *)
(***************************************************************************)
EXTENDS IngestQueue, SequenceTheorems, FiniteSetTheorems, FunctionTheorems, TLAPS

-----------------------------------------------------------------------------
(* The inductive invariant.                                                *)

IsLive(j) == jobs[j].st \in Live
InHandler(j) == \E w \in Worker : j \in failing[w]
Has(queue, j) == \E i \in DOMAIN queue : queue[i] = j
IsLetter(j) == Has(dlq, j)
Carrier(j) == IsLive(j) \/ InHandler(j) \/ IsLetter(j)

\* Jobs still to be run have attempts and stalls left; only active ones have owners.
JobBounds ==
    \A j \in Ids : /\ IsLive(j) => jobs[j].made < MaxAttempts /\ jobs[j].stalls <= MaxStalled
                   /\ jobs[j].owner # None => jobs[j].st = "active"

\* A worker runs a job of the queue, and finishes only one that has landed.
RunBounds ==
    \A w \in Worker : ~At(w, "idle") =>
        /\ worker[w].job \in Ids
        /\ worker[w].made < MaxAttempts
        /\ worker[w].pc \in {"evals", "finish"} => BatchOf(w) \in landed

\* The newest job of a batch.
Newest(b, k) == /\ k \in Ids /\ jobs[k].batch = b
                /\ \A i \in Ids : jobs[i].batch = b => i <= k

Kept(b) == b \in landed \/ \E k \in Ids : Newest(b, k) /\ Carrier(k)

\* A newer job carries the batch of letter j on.
Outlived(j) == \E k \in Ids : k > j /\ jobs[k].batch = jobs[j].batch

\* The newest job of every batch is still there, unless the batch has landed: a
\* letter is only removed when a newer job has taken its place.
NoneForgotten ==
    /\ \A j \in Ids : Kept(jobs[j].batch)
    /\ \A r \in Replayer : HasLetter(r, "remove") => Outlived(Letter(r))

NothingDropped == spent["dropped"] = 0

IInv == /\ TypeOK
        /\ JobBounds
        /\ RunBounds
        /\ NothingDropped => NoneForgotten

-----------------------------------------------------------------------------
(* Sequences of jobs and of job ids.                                       *)

(* Removing an id closes the gap it leaves.                                *)
LEMMA WithoutShifts ==
    ASSUME NEW S, NEW s \in Seq(S), NEW j, Has(s, j)
    PROVE  /\ Without(s, j) \in Seq(S) /\ Len(Without(s, j)) = Len(s) - 1
           /\ \E at \in 1 .. Len(s) :
                 /\ s[at] = j
                 /\ \A i \in 1 .. Len(s) - 1 : Without(s, j)[i] = IF i < at THEN s[i] ELSE s[i + 1]
  <1> DEFINE at == CHOOSE k \in DOMAIN s : s[k] = j
             front == SubSeq(s, 1, at - 1)
             back == SubSeq(s, at + 1, Len(s))
             rest == front \o back
  <1>1. at \in 1 .. Len(s) /\ s[at] = j
    <2>1. \E k \in DOMAIN s : s[k] = j
      BY DEF Has
    <2> QED
      BY <2>1
  <1>2. Without(s, j) = rest
    BY DEF Without, Has
  <1> HIDE DEF at
  <1>3. /\ front \in Seq(S) /\ Len(front) = at - 1
        /\ \A i \in 1 .. at - 1 : front[i] = s[i]
    BY <1>1
  <1>4. /\ back \in Seq(S) /\ Len(back) = Len(s) - at
        /\ \A i \in 1 .. Len(s) - at : back[i] = s[i + at]
    BY <1>1
  <1> HIDE DEF front, back
  <1>5. /\ rest \in Seq(S) /\ Len(rest) = Len(front) + Len(back)
        /\ \A i \in 1 .. Len(front) + Len(back) :
              rest[i] = IF i <= Len(front) THEN front[i] ELSE back[i - Len(front)]
    <2>1. front \in Seq(S) /\ back \in Seq(S)
      BY <1>3, <1>4
    <2> QED
      BY <2>1, ConcatProperties
  <1> HIDE DEF rest
  <1>6. Len(rest) = Len(s) - 1
    BY <1>1, <1>3, <1>4, <1>5
  <1>7. ASSUME NEW i \in 1 .. Len(s) - 1, i < at PROVE rest[i] = s[i]
    <2>1. i \in 1 .. Len(front) + Len(back) /\ i \in 1 .. at - 1 /\ i <= Len(front)
      BY <1>1, <1>3, <1>4, <1>7
    <2> QED
      BY <1>3, <1>5, <2>1
  <1>8. ASSUME NEW i \in 1 .. Len(s) - 1, ~(i < at) PROVE rest[i] = s[i + 1]
    <2>1. i - (at - 1) \in 1 .. Len(s) - at
      BY <1>1, <1>8
    <2>2. rest[i] = back[i - (at - 1)]
      <3>1. i \in 1 .. Len(front) + Len(back) /\ ~(i <= Len(front)) /\ Len(front) = at - 1
        BY <1>1, <1>3, <1>4, <1>8
      <3> QED
        BY <1>5, <3>1
    <2>3. (i - (at - 1)) + at = i + 1
      BY <1>1
    <2> QED
      BY <1>4, <2>1, <2>2, <2>3
  <1> QED
    BY <1>1, <1>2, <1>5, <1>6, <1>7, <1>8

(* ... and takes no other one with it.                                     *)
LEMMA WithoutFacts ==
    ASSUME NEW S, NEW s \in Seq(S), NEW j
    PROVE  /\ Without(s, j) \in Seq(S)
           /\ \A k : k # j => (Has(Without(s, j), k) <=> Has(s, k))
  <1>1. CASE ~Has(s, j)
    BY <1>1 DEF Without, Has
  <1>2. CASE Has(s, j)
    <2> DEFINE rest == Without(s, j)
    <2>1. rest \in Seq(S) /\ Len(rest) = Len(s) - 1
      BY <1>2, WithoutShifts
    <2>2. PICK at \in 1 .. Len(s) :
             /\ s[at] = j
             /\ \A i \in 1 .. Len(s) - 1 : rest[i] = IF i < at THEN s[i] ELSE s[i + 1]
      BY <1>2, WithoutShifts
    <2> HIDE DEF rest
    <2>3. DOMAIN rest = 1 .. Len(s) - 1 /\ DOMAIN s = 1 .. Len(s)
      BY <2>1
    <2>4. ASSUME NEW i \in DOMAIN rest PROVE \E n \in DOMAIN s : s[n] = rest[i]
      <3>1. i \in 1 .. Len(s) /\ i + 1 \in 1 .. Len(s)
        BY <2>3
      <3> QED
        BY <2>2, <2>3, <3>1
    <2>5. ASSUME NEW i \in DOMAIN s, s[i] # j PROVE \E n \in DOMAIN rest : rest[n] = s[i]
      <3>1. CASE i < at
        <4>1. i \in 1 .. Len(s) - 1
          BY <2>2, <2>3, <3>1
        <4> QED
          BY <2>2, <2>3, <3>1, <4>1
      <3>2. CASE i > at
        <4>1. i - 1 \in 1 .. Len(s) - 1 /\ ~(i - 1 < at) /\ (i - 1) + 1 = i
          BY <2>2, <2>3, <3>2
        <4> QED
          BY <2>2, <2>3, <4>1
      <3> QED
        BY <2>2, <2>3, <2>5, <3>1, <3>2
    <2>6. ASSUME NEW k, k # j PROVE Has(rest, k) <=> Has(s, k)
      BY <2>4, <2>5, <2>6 DEF Has
    <2> QED
      BY <2>1, <2>6 DEF rest
  <1> QED
    BY <1>1, <1>2

(* A dead letter goes in front of the others.                              *)
InFront(j, queue) == <<j>> \o queue

LEMMA ConsFacts ==
    ASSUME NEW S, NEW s \in Seq(S), NEW j \in S, NEW t, t = InFront(j, s)
    PROVE  /\ t \in Seq(S)
           /\ \A k : Has(t, k) <=> (k = j \/ Has(s, k))
  <1>1. /\ t \in Seq(S) /\ Len(t) = Len(s) + 1
        /\ t[1] = j /\ \A i \in 1 .. Len(s) : t[i + 1] = s[i]
    BY DEF InFront
  <1>2. DOMAIN t = 1 .. Len(s) + 1 /\ DOMAIN s = 1 .. Len(s)
    BY <1>1
  <1>3. ASSUME NEW i \in DOMAIN t PROVE t[i] = j \/ \E n \in DOMAIN s : s[n] = t[i]
    <2>1. CASE i = 1
      BY <1>1, <2>1
    <2>2. CASE i # 1
      <3>1. i - 1 \in 1 .. Len(s) /\ (i - 1) + 1 = i
        BY <1>2, <2>2
      <3> QED
        BY <1>1, <1>2, <3>1
    <2> QED
      BY <2>1, <2>2
  <1>4. ASSUME NEW i \in DOMAIN s PROVE \E n \in DOMAIN t : t[n] = s[i]
    <2>1. i + 1 \in 1 .. Len(s) + 1
      BY <1>2
    <2> QED
      BY <1>1, <1>2, <2>1
  <1>5. Has(t, j)
    BY <1>1, <1>2 DEF Has
  <1>6. ASSUME NEW k PROVE Has(t, k) => (k = j \/ Has(s, k))
    BY <1>3 DEF Has
  <1>7. ASSUME NEW k PROVE Has(s, k) => Has(t, k)
    BY <1>4 DEF Has
  <1> QED
    BY <1>1, <1>5, <1>6, <1>7

LEMMA ListFacts ==
    ASSUME jobs \in Seq(JobSet)
    PROVE  Len(jobs) \in Nat /\ Ids = 1 .. Len(jobs) /\ \A j \in Ids : jobs[j] \in JobSet
  BY DEF Ids

(* A job changes, the others stay as they are.                             *)
LEMMA ChangeFacts ==
    ASSUME jobs \in Seq(JobSet), NEW j \in Ids, NEW job \in JobSet, jobs' = [jobs EXCEPT ![j] = job]
    PROVE  /\ jobs' \in Seq(JobSet) /\ Ids' = Ids
           /\ \A k \in Ids : jobs'[k] = IF k = j THEN job ELSE jobs[k]
  BY DEF Ids

(* A job is added at the end.                                              *)
LEMMA AddFacts ==
    ASSUME QueueAssumption, jobs \in Seq(JobSet),
           NEW b \in Batch, NEW replay \in BOOLEAN, Add(b, replay)
    PROVE  /\ jobs' \in Seq(JobSet) /\ Job(b, replay) \in JobSet
           /\ Ids' = Ids \union {Len(jobs) + 1} /\ Len(jobs) + 1 \notin Ids
           /\ \A k \in Ids : jobs'[k] = jobs[k]
           /\ jobs'[Len(jobs) + 1] = Job(b, replay)
  <1>1. Job(b, replay) \in JobSet
    BY DEF Job, JobSet, QueueAssumption, Live
  <1>2. Len(jobs) \in Nat /\ Ids = 1 .. Len(jobs)
    BY DEF Ids
  <1> DEFINE job == Job(b, replay)
  <1> HIDE DEF job
  <1>3. jobs' = Append(jobs, job)
    BY DEF Add, job
  <1>4. /\ jobs' \in Seq(JobSet) /\ Len(jobs') = Len(jobs) + 1
        /\ \A k \in 1 .. Len(jobs) : jobs'[k] = jobs[k]
        /\ jobs'[Len(jobs) + 1] = job
    BY <1>1, <1>3, AppendProperties DEF job
  <1>5. Ids' = 1 .. Len(jobs) + 1
    BY <1>4 DEF Ids
  <1> QED
    BY <1>1, <1>2, <1>4, <1>5 DEF job

-----------------------------------------------------------------------------
(* What the steps of the system have in common.                            *)

IBounds == TypeOK /\ JobBounds /\ RunBounds

\* Nothing happens to the jobs, or something to one of them: it is new, or it is
\* still carried or landed if it was carried before.
SameJobs == UNCHANGED <<jobs, failing, dlq, landed>>

OnlyChanges(x) ==
    /\ x \in Ids' /\ Ids \subseteq Ids' /\ Ids' \subseteq Ids \union {x}
    /\ \A k \in Ids : jobs'[k].batch = jobs[k].batch
    /\ \A k \in Ids \ {x} : /\ IsLive(k) <=> IsLive(k)'
                            /\ (InHandler(k) \/ IsLetter(k)) <=> (InHandler(k) \/ IsLetter(k))'
    /\ landed \subseteq landed' /\ landed' \subseteq landed \union {jobs'[x].batch}

Passes(x) ==
    /\ OnlyChanges(x)
    /\ x \in Ids => (Carrier(x) => Carrier(x)' \/ jobs[x].batch \in landed')
    /\ x \notin Ids => IsLive(x)' /\ landed' = landed

\* A letter about to be removed was about to be removed before the step.
OldLetters ==
    \A r \in Replayer : HasLetter(r, "remove")' => HasLetter(r, "remove") /\ Letter(r)' = Letter(r)

Steady == IBounds' /\ (NothingDropped' => NothingDropped)

Moves == SameJobs \/ \E x \in Ids' : Passes(x)

LEMMA KeptStays ==
    ASSUME jobs \in Seq(JobSet), jobs' \in Seq(JobSet), NEW x \in Ids', Passes(x), NEW b, Kept(b)
    PROVE  Kept(b)'
  <1>1. CASE b \in landed
    BY <1>1 DEF Passes, OnlyChanges, Kept
  <1>2. CASE b \notin landed
    <2>1. PICK k \in Ids : Newest(b, k) /\ Carrier(k)
      BY <1>2 DEF Kept
    <2>2. k \in Ids' /\ jobs'[k].batch = b
      BY <2>1 DEF Newest, Passes, OnlyChanges
    <2>3. CASE x \in Ids \/ jobs'[x].batch # b
      <3>1. Newest(b, k)'
        BY <2>1, <2>2, <2>3 DEF Newest, Passes, OnlyChanges
      <3>2. Carrier(k)' \/ b \in landed'
        BY <2>1 DEF Newest, Passes, OnlyChanges, Carrier
      <3> QED
        BY <2>2, <3>1, <3>2 DEF Kept
    <2>4. CASE x \notin Ids /\ jobs'[x].batch = b
      <3>1. \A i \in Ids' : i <= x
        <4>1. Ids = 1 .. Len(jobs) /\ Ids' = 1 .. Len(jobs')
              /\ Len(jobs) \in Nat /\ Len(jobs') \in Nat
          BY DEF Ids
        <4>2. \A i \in Ids : i < x
          BY <2>4, <4>1
        <4> QED
          BY <4>1, <4>2 DEF Passes, OnlyChanges
      <3>2. Newest(b, x)' /\ Carrier(x)'
        BY <2>4, <3>1 DEF Newest, Passes, Carrier
      <3> QED
        BY <3>2 DEF Kept
    <2> QED
      BY <2>3, <2>4
  <1> QED
    BY <1>1, <1>2

(* A batch of which nothing changes is kept as before.                     *)
LEMMA KeptSame ==
    ASSUME SameJobs, NEW b, Kept(b)
    PROVE  Kept(b)'
  BY DEF SameJobs, Kept, Newest, Carrier, IsLive, InHandler, IsLetter, Has, Ids

(* After such a step every batch that has a job is kept.                   *)
LEMMA JobsKept ==
    ASSUME jobs \in Seq(JobSet), jobs' \in Seq(JobSet), NoneForgotten, Moves
    PROVE  \A j \in Ids' : Kept(jobs[j].batch)'
  <1>1. CASE SameJobs
    <2>1. Ids' = Ids /\ jobs' = jobs
      BY <1>1 DEF SameJobs, Ids
    <2>2. ASSUME NEW j \in Ids' PROVE Kept(jobs[j].batch)'
      <3>1. PICK b : b = jobs[j].batch
        OBVIOUS
      <3>2. Kept(b)'
        BY <1>1, <2>1, <3>1, KeptSame DEF NoneForgotten
      <3> QED
        BY <2>1, <3>1, <3>2
    <2> QED
      BY <2>2
  <1>2. CASE \E x \in Ids' : Passes(x)
    <2>1. PICK x \in Ids' : Passes(x)
      BY <1>2
    <2>2. SUFFICES ASSUME NEW j \in Ids' PROVE Kept(jobs[j].batch)'
      OBVIOUS
    <2>3. CASE j \in Ids
      <3>1. PICK b : b = jobs[j].batch
        OBVIOUS
      <3>2. Kept(b)'
        BY <2>1, <2>3, <3>1, KeptStays DEF NoneForgotten
      <3>3. b = jobs'[j].batch
        BY <2>1, <2>3, <3>1 DEF Passes, OnlyChanges
      <3> QED
        BY <3>2, <3>3
    <2>4. CASE j \notin Ids
      <3>1. j = x /\ IsLive(x)'
        BY <2>1, <2>4 DEF Passes, OnlyChanges
      <3>2. \A i \in Ids' : i <= j
        <4>1. Ids = 1 .. Len(jobs) /\ Ids' = 1 .. Len(jobs')
              /\ Len(jobs) \in Nat /\ Len(jobs') \in Nat
          BY DEF Ids
        <4>2. \A i \in Ids : i < j
          BY <2>4, <4>1
        <4> QED
          BY <2>1, <3>1, <4>1, <4>2 DEF Passes, OnlyChanges
      <3>3. PICK b : b = jobs'[j].batch
        OBVIOUS
      <3>4. Newest(b, j)' /\ Carrier(j)'
        BY <3>1, <3>2, <3>3 DEF Newest, Carrier
      <3> QED
        BY <3>3, <3>4 DEF Kept
    <2> QED
      BY <2>3, <2>4
  <1> QED
    BY <1>1, <1>2 DEF Moves

\* What was outlived stays outlived: jobs are added, and keep their batch.
JobsStay == Ids \subseteq Ids' /\ \A k \in Ids : jobs'[k].batch = jobs[k].batch

LEMMA OutlivedStays ==
    ASSUME JobsStay, NEW j \in Ids, Outlived(j)
    PROVE  Outlived(j)'
  <1>1. PICK k \in Ids : k > j /\ jobs[k].batch = jobs[j].batch
    BY DEF Outlived
  <1>2. k \in Ids' /\ jobs'[k].batch = jobs'[j].batch
    BY <1>1 DEF JobsStay
  <1> QED
    BY <1>1, <1>2 DEF Outlived

(* The letters that were about to be removed are outlived as before.       *)
LEMMA OldOutlived ==
    ASSUME NoneForgotten, JobsStay, NEW r \in Replayer, HasLetter(r, "remove"), Letter(r) \in Ids,
           HasLetter(r, "remove")', Letter(r)' = Letter(r)
    PROVE  Outlived(Letter(r))'
  <1>1. PICK j \in Ids : j = Letter(r)
    OBVIOUS
  <1>2. Outlived(j)'
    BY <1>1, OutlivedStays DEF NoneForgotten
  <1>3. Letter(r)' = j
    BY <1>1
  <1> QED
    BY <1>2, <1>3 DEF Outlived

(* A step that puts no letter up for removal forgets no batch.             *)
LEMMA NoneForgottenStep ==
    ASSUME jobs \in Seq(JobSet), jobs' \in Seq(JobSet), NoneForgotten, Moves, OldLetters,
           \A r \in Replayer : HasLetter(r, "remove") => Letter(r) \in Ids
    PROVE  NoneForgotten'
  <1>1. JobsStay
    BY DEF Moves, SameJobs, Passes, OnlyChanges, JobsStay, Ids
  <1>2. ASSUME NEW r \in Replayer, HasLetter(r, "remove")' PROVE Outlived(Letter(r))'
    BY <1>1, <1>2, OldOutlived DEF OldLetters
  <1>3. \A j \in Ids' : Kept(jobs[j].batch)'
    BY JobsKept
  <1> QED
    BY <1>2, <1>3 DEF NoneForgotten

-----------------------------------------------------------------------------
(* More jobs: what named jobs before still names jobs.                     *)
LEMMA TypesGrow ==
    ASSUME Ids \subseteq Ids'
    PROVE  /\ RunSet \subseteq RunSet' /\ ReplaySet \subseteq ReplaySet'
           /\ Seq(Ids) \subseteq Seq(Ids')
           /\ failing \in [Worker -> SUBSET Ids] => failing \in [Worker -> SUBSET Ids']
           /\ worker \in [Worker -> RunSet] => worker \in [Worker -> RunSet']
           /\ replayer \in [Replayer -> ReplaySet] => replayer \in [Replayer -> ReplaySet']
  <1>1. Seq(Ids) \subseteq Seq(Ids')
    BY SeqMonotonic
  <1>2. RunSet \subseteq RunSet'
    BY DEF RunSet
  <1>3. ReplaySet \subseteq ReplaySet'
    BY <1>1 DEF ReplaySet
  <1> QED
    BY <1>1, <1>2, <1>3

LEMMA SpendFacts ==
    ASSUME spent \in [Kinds -> Nat], NEW kind \in Kinds, Spend(kind)
    PROVE  /\ spent' \in [Kinds -> Nat] /\ (NothingDropped' => NothingDropped)
           /\ kind = "dropped" => ~NothingDropped'
  <1>1. spent' = [spent EXCEPT ![kind] = @ + 1] /\ "dropped" \in Kinds
    BY DEF Spend, Kinds
  <1>2. spent' \in [Kinds -> Nat] /\ spent'[kind] = spent[kind] + 1
        /\ \A k \in Kinds : k # kind => spent'[k] = spent[k]
    BY <1>1
  <1> QED
    BY <1>1, <1>2 DEF NothingDropped

(* Steps that leave jobs, handlers, letters, workers and replays alone.    *)
LEMMA QuietBounds ==
    ASSUME IBounds, UNCHANGED <<jobs, worker, replayer, lock>>, landed \subseteq landed'
    PROVE  JobBounds' /\ RunBounds' /\ OldLetters
  BY DEF IBounds, JobBounds, RunBounds, OldLetters, IsLive, Ids, At, BatchOf, HasLetter, Now, Letter

(* A new job disturbs none of the others.                                  *)
LEMMA AddStep ==
    ASSUME QueueAssumption, IBounds, NEW b \in Batch, NEW replay \in BOOLEAN, Add(b, replay),
           UNCHANGED <<worker, failing, dlq, landed>>
    PROVE  /\ jobs' \in Seq(JobSet) /\ Ids \subseteq Ids'
           /\ JobBounds' /\ RunBounds'
           /\ \A k \in Ids : jobs'[k] = jobs[k]
           /\ \E x \in Ids' \ Ids : /\ jobs'[x].batch = b /\ jobs'[x].st = "wait"
                                   /\ Passes(x)
  <1>0. PICK x : x = Len(jobs) + 1
    OBVIOUS
  <1>1. /\ jobs' \in Seq(JobSet) /\ Job(b, replay) \in JobSet
        /\ Ids' = Ids \union {x} /\ x \notin Ids
        /\ \A k \in Ids : jobs'[k] = jobs[k]
        /\ jobs'[x] = Job(b, replay)
    BY <1>0, AddFacts DEF IBounds, TypeOK
  <1>3. /\ jobs'[x].st = "wait" /\ jobs'[x].made = 0 /\ jobs'[x].stalls = 0
        /\ jobs'[x].owner = None /\ jobs'[x].batch = b
    BY <1>1 DEF Job
  <1>4. IsLive(x)'
    BY <1>3 DEF IsLive, Live
  <1>5. JobBounds'
    <2>1. 0 < MaxAttempts /\ 0 <= MaxStalled
      BY DEF QueueAssumption
    <2> QED
      BY <1>1, <1>3, <2>1 DEF IBounds, JobBounds, IsLive
  <1>6. RunBounds'
    BY <1>1 DEF IBounds, RunBounds, At, BatchOf
  <1>7. Passes(x)
    BY <1>1, <1>4 DEF Passes, OnlyChanges, IsLive, InHandler, IsLetter
  <1> QED
    BY <1>1, <1>3, <1>5, <1>6, <1>7

(* One job changes within its bounds.                                      *)
LEMMA ChangeStep ==
    ASSUME IBounds, NEW j \in Ids, NEW job \in JobSet, jobs' = [jobs EXCEPT ![j] = job],
           job.batch = jobs[j].batch,
           job.st \in Live => job.made < MaxAttempts /\ job.stalls <= MaxStalled,
           job.owner # None => job.st = "active"
    PROVE  /\ jobs' \in Seq(JobSet) /\ Ids' = Ids /\ JobBounds'
           /\ \A k \in Ids : jobs'[k].batch = jobs[k].batch
           /\ \A k \in Ids \ {j} : IsLive(k) <=> IsLive(k)'
           /\ IsLive(j)' <=> job.st \in Live
  <1>1. /\ jobs' \in Seq(JobSet) /\ Ids' = Ids
        /\ \A k \in Ids : jobs'[k] = IF k = j THEN job ELSE jobs[k]
    BY ChangeFacts DEF IBounds, TypeOK
  <1> QED
    BY <1>1 DEF IBounds, JobBounds, IsLive

-----------------------------------------------------------------------------
(* Requests and rebuilds.                                                  *)

LEMMA Kinded == {"refusals", "unsure", "dropped", "stalls", "crashes", "aborts",
                 "replays", "leftovers", "vanished", "lapses", "rebuilds"} \subseteq Kinds
  BY DEF Kinds

(* Types after a step that touches jobs, api, blob and spent at most.      *)
LEMMA RequestTypes ==
    ASSUME IBounds, UNCHANGED <<worker, failing, dlq, replayVars, effects>>,
           jobs' \in Seq(JobSet), Ids \subseteq Ids', blob' \subseteq Batch,
           api' \in [Batch -> {"idle", "stored", "accepted", "cleanup", "refused"}],
           spent' \in [Kinds -> Nat]
    PROVE  TypeOK'
  <1>1. dlq' \in Seq(Ids') /\ failing' \in [Worker -> SUBSET Ids']
        /\ worker' \in [Worker -> RunSet'] /\ replayer' \in [Replayer -> ReplaySet']
    BY TypesGrow DEF IBounds, TypeOK, replayVars
  <1> QED
    BY <1>1 DEF IBounds, TypeOK, replayVars, effects

LEMMA SubmitStep ==
    ASSUME QueueAssumption, IBounds, NEW b \in Batch, Submit(b) \/ ReplayBlob(b)
    PROVE  Steady /\ Moves /\ OldLetters
  <1>1. /\ api \in [Batch -> {"idle", "stored", "accepted", "cleanup", "refused"}]
        /\ blob \subseteq Batch /\ spent \in [Kinds -> Nat] /\ jobs \in Seq(JobSet)
    BY DEF IBounds, TypeOK
  <1>2. ASSUME UNCHANGED <<jobs, worker, failing, dlq, replayVars, effects>>,
               blob' \subseteq Batch, spent' \in [Kinds -> Nat], NothingDropped' => NothingDropped,
               api' \in [Batch -> {"idle", "stored", "accepted", "cleanup", "refused"}]
        PROVE  Steady /\ Moves /\ OldLetters
    <2>1. Ids' = Ids /\ jobs' \in Seq(JobSet)
      BY <1>1, <1>2 DEF Ids
    <2>2. TypeOK'
      BY <1>2, <2>1, RequestTypes
    <2>3. JobBounds' /\ RunBounds' /\ OldLetters
      BY <1>2, QuietBounds DEF replayVars, effects
    <2>4. SameJobs
      BY <1>2 DEF SameJobs, effects
    <2> QED
      BY <1>2, <2>2, <2>3, <2>4 DEF Steady, IBounds, Moves
  <1>3. ASSUME NEW replay \in BOOLEAN, Add(b, replay), UNCHANGED <<worker, failing, dlq, replayVars, effects>>,
               blob' \subseteq Batch, spent' \in [Kinds -> Nat], NothingDropped' => NothingDropped,
               api' \in [Batch -> {"idle", "stored", "accepted", "cleanup", "refused"}]
        PROVE  Steady /\ Moves /\ OldLetters
    <2>1. /\ jobs' \in Seq(JobSet) /\ Ids \subseteq Ids' /\ JobBounds' /\ RunBounds'
          /\ \E x \in Ids' : Passes(x)
      BY <1>3, AddStep DEF effects
    <2>2. TypeOK'
      BY <1>3, <2>1, RequestTypes
    <2>3. OldLetters
      BY <1>3 DEF OldLetters, replayVars, HasLetter, Now, Letter
    <2> QED
      BY <1>3, <2>1, <2>2, <2>3 DEF Steady, IBounds, Moves
  <1>4. ASSUME NEW kind \in {"refusals", "unsure", "aborts", "rebuilds"}, Spend(kind)
        PROVE  spent' \in [Kinds -> Nat] /\ (NothingDropped' => NothingDropped)
    BY <1>1, <1>4, SpendFacts, Kinded
  <1>5. ASSUME UNCHANGED spent
        PROVE  spent' \in [Kinds -> Nat] /\ (NothingDropped' => NothingDropped)
    BY <1>1, <1>5 DEF NothingDropped
  <1>6. CASE PutBlob(b)
    <2>1. CASE UNCHANGED spent
      BY <1>1, <1>2, <1>5, <1>6, <2>1 DEF PutBlob
    <2>2. CASE Spend("refusals")
      BY <1>1, <1>2, <1>4, <1>6, <2>2 DEF PutBlob
    <2> QED
      BY <1>6, <2>1, <2>2 DEF PutBlob
  <1>7. CASE Enqueue(b)
    BY <1>1, <1>3, <1>5, <1>7 DEF Enqueue
  <1>8. CASE EnqueueThrows(b)
    <2>1. CASE Spend("refusals") /\ UNCHANGED jobs
      BY <1>1, <1>2, <1>4, <1>8, <2>1 DEF EnqueueThrows
    <2>2. CASE Spend("unsure") /\ Add(b, FALSE)
      BY <1>1, <1>3, <1>4, <1>8, <2>2 DEF EnqueueThrows
    <2> QED
      BY <1>8, <2>1, <2>2 DEF EnqueueThrows, AddThrows
  <1>9. CASE DropBlob(b)
    BY <1>1, <1>2, <1>5, <1>9 DEF DropBlob
  <1>10. CASE ApiCrash(b)
    BY <1>1, <1>2, <1>4, <1>10 DEF ApiCrash
  <1>11. CASE ReplayBlob(b)
    BY <1>1, <1>3, <1>4, <1>11 DEF ReplayBlob, apiVars
  <1> QED
    BY <1>6, <1>7, <1>8, <1>9, <1>10, <1>11 DEF Submit

-----------------------------------------------------------------------------
(* The worker.                                                             *)

(* Types after a step of the worker: it adds no job.                       *)
LEMMA WorkTypes ==
    ASSUME IBounds, UNCHANGED <<apiVars, replayVars>>, jobs' \in Seq(JobSet), Ids' = Ids,
           worker' \in [Worker -> RunSet], failing' \in [Worker -> SUBSET Ids], dlq' \in Seq(Ids),
           landed' \subseteq Batch, metered' \in [Batch -> Nat], evaluated' \in [Batch -> Nat],
           spent' \in [Kinds -> Nat]
    PROVE  TypeOK'
  <1>1. RunSet' = RunSet /\ ReplaySet' = ReplaySet
    BY DEF RunSet, ReplaySet
  <1> QED
    BY <1>1 DEF IBounds, TypeOK, apiVars, replayVars

(* One slot runs on, within its bounds; batches of jobs stay, landed grows. *)
LEMMA RunStep ==
    ASSUME IBounds, NEW w \in Worker, NEW run \in RunSet, worker' = [worker EXCEPT ![w] = run],
           Ids' = Ids, \A k \in Ids : jobs'[k].batch = jobs[k].batch, landed \subseteq landed',
           run.pc # "idle" => /\ run.job \in Ids /\ run.made < MaxAttempts
                              /\ run.pc \in {"evals", "finish"} => jobs[run.job].batch \in landed'
    PROVE  worker' \in [Worker -> RunSet] /\ RunBounds'
  <1>1. /\ worker' \in [Worker -> RunSet] /\ worker'[w] = run
        /\ \A v \in Worker \ {w} : worker'[v] = worker[v]
    BY DEF IBounds, TypeOK
  <1>2. ASSUME NEW v \in Worker, worker'[v].pc # "idle"
        PROVE  /\ worker'[v].job \in Ids /\ worker'[v].made < MaxAttempts
               /\ worker'[v].pc \in {"evals", "finish"} => jobs'[worker'[v].job].batch \in landed'
    <2>1. CASE v = w
      BY <1>1, <1>2, <2>1
    <2>2. CASE v # w
      BY <1>1, <1>2, <2>2 DEF IBounds, RunBounds, At, BatchOf
    <2> QED
      BY <2>1, <2>2
  <1> QED
    BY <1>1, <1>2 DEF RunBounds, At, BatchOf

(* The types a step of the worker starts from.                             *)
LEMMA WorkFacts ==
    ASSUME IBounds
    PROVE  /\ jobs \in Seq(JobSet) /\ worker \in [Worker -> RunSet]
           /\ failing \in [Worker -> SUBSET Ids] /\ dlq \in Seq(Ids) /\ landed \subseteq Batch
           /\ metered \in [Batch -> Nat] /\ evaluated \in [Batch -> Nat] /\ spent \in [Kinds -> Nat]
           /\ \A j \in Ids : jobs[j] \in JobSet /\ jobs[j].batch \in Batch
           /\ \A w \in Worker : worker[w] \in RunSet
  <1>1. jobs \in Seq(JobSet) /\ worker \in [Worker -> RunSet]
    BY DEF IBounds, TypeOK
  <1>2. \A j \in Ids : jobs[j] \in JobSet
    BY <1>1, ListFacts
  <1> QED
    BY <1>1, <1>2 DEF IBounds, TypeOK, JobSet

LEMMA ReplaysAlone ==
    ASSUME IBounds, UNCHANGED replayVars
    PROVE  OldLetters
  BY DEF OldLetters, replayVars, HasLetter, Now, Letter

LEMMA TakeStep ==
    ASSUME QueueAssumption, IBounds, NEW w \in Worker, NEW j \in Ids, Take(w, j)
    PROVE  Steady /\ Moves /\ OldLetters
  <1>1. /\ jobs[j] \in JobSet /\ jobs[j].st = "wait"
        /\ UNCHANGED <<apiVars, failing, dlq, replayVars, effects, spent>>
    BY WorkFacts DEF Take
  <1>2. IsLive(j) /\ jobs[j].made < MaxAttempts /\ jobs[j].stalls <= MaxStalled
    BY <1>1 DEF IBounds, JobBounds, IsLive, Live
  <1>3. PICK job : job = [jobs[j] EXCEPT !.st = "active", !.owner = w]
    OBVIOUS
  <1>4. jobs' = [jobs EXCEPT ![j] = job]
    BY <1>3 DEF Take
  <1>5. /\ job \in JobSet /\ job.batch = jobs[j].batch /\ job.st = "active"
        /\ job.made = jobs[j].made /\ job.stalls = jobs[j].stalls
    BY <1>1, <1>3 DEF JobSet, Live
  <1>6. /\ jobs' \in Seq(JobSet) /\ Ids' = Ids /\ JobBounds'
        /\ \A k \in Ids : jobs'[k].batch = jobs[k].batch
        /\ \A k \in Ids \ {j} : IsLive(k) <=> IsLive(k)'
        /\ IsLive(j)'
    BY <1>2, <1>4, <1>5, ChangeStep DEF Live
  <1>7. PICK run : run = [job |-> j, pc |-> "read", made |-> jobs[j].made]
    OBVIOUS
  <1>8. run \in RunSet /\ run.job \in Ids /\ run.made < MaxAttempts /\ run.pc = "read"
    BY <1>1, <1>2, <1>7 DEF RunSet, JobSet
  <1>9. worker' = [worker EXCEPT ![w] = run] /\ landed' = landed
    BY <1>1, <1>7 DEF Take, effects
  <1>10. worker' \in [Worker -> RunSet] /\ RunBounds'
    BY <1>6, <1>8, <1>9, RunStep
  <1>11. TypeOK'
    BY <1>1, <1>6, <1>10, WorkFacts, WorkTypes DEF effects
  <1>12. Passes(j)
    BY <1>1, <1>6 DEF Passes, OnlyChanges, InHandler, IsLetter, Carrier, effects
  <1>13. OldLetters /\ (NothingDropped' => NothingDropped)
    BY <1>1, ReplaysAlone DEF NothingDropped
  <1> QED
    BY <1>6, <1>10, <1>11, <1>12, <1>13 DEF Steady, IBounds, Moves

(* A job changes as BullMQ settles it: run again, or given up and handed   *)
(* to worker w's failed handler.                                           *)
LEMMA SettleStep ==
    ASSUME IBounds, NEW w \in Worker, NEW j \in Ids, NEW job \in JobSet, jobs' = [jobs EXCEPT ![j] = job],
           job.batch = jobs[j].batch, job.owner = None, UNCHANGED <<dlq, landed>>,
           job.st \in Live => job.made < MaxAttempts /\ job.stalls <= MaxStalled /\ failing' = failing,
           job.st \notin Live => failing' = [failing EXCEPT ![w] = @ \union {j}]
    PROVE  /\ jobs' \in Seq(JobSet) /\ Ids' = Ids /\ JobBounds'
           /\ failing' \in [Worker -> SUBSET Ids]
           /\ \A k \in Ids : jobs'[k].batch = jobs[k].batch
           /\ Passes(j)
  <1>1. /\ jobs' \in Seq(JobSet) /\ Ids' = Ids /\ JobBounds'
        /\ \A k \in Ids : jobs'[k].batch = jobs[k].batch
        /\ \A k \in Ids \ {j} : IsLive(k) <=> IsLive(k)'
        /\ IsLive(j)' <=> job.st \in Live
    BY ChangeStep
  <1>2. /\ failing' \in [Worker -> SUBSET Ids]
        /\ \A k \in Ids \ {j} : InHandler(k) <=> InHandler(k)'
        /\ job.st \notin Live => InHandler(j)'
    <2>1. failing \in [Worker -> SUBSET Ids]
      BY WorkFacts
    <2> QED
      BY <2>1 DEF InHandler
  <1>3. \A k : IsLetter(k) <=> IsLetter(k)'
    BY DEF IsLetter
  <1>4. Passes(j)
    BY <1>1, <1>2, <1>3 DEF Passes, OnlyChanges, Carrier
  <1> QED
    BY <1>1, <1>2, <1>4

(* A worker that holds no job any more.                                    *)
LEMMA FreeStep ==
    ASSUME QueueAssumption, IBounds, NEW w \in Worker, Free(w), Ids' = Ids,
           \A k \in Ids : jobs'[k].batch = jobs[k].batch, landed \subseteq landed'
    PROVE  worker' \in [Worker -> RunSet] /\ RunBounds'
  <1>1. PICK run : run = [job |-> 0, pc |-> "idle", made |-> 0]
    OBVIOUS
  <1>2. run \in RunSet /\ run.pc = "idle"
    BY <1>1 DEF RunSet, QueueAssumption
  <1>3. worker' = [worker EXCEPT ![w] = run]
    BY <1>1 DEF Free
  <1> QED
    BY <1>2, <1>3, RunStep

LEMMA FailStep ==
    ASSUME QueueAssumption, IBounds, NEW w \in Worker, ~At(w, "idle"),
           NEW why \in {"unrecoverable", "error"}, Fail(w, why)
    PROVE  Steady /\ Moves /\ OldLetters
  <1>1. PICK j : j = worker[w].job
    OBVIOUS
  <1>2. PICK made : made = worker[w].made + 1
    OBVIOUS
  <1>3. /\ Free(w) /\ UNCHANGED <<apiVars, dlq, replayVars, effects, spent>>
        /\ \/ jobs[j].owner # w /\ UNCHANGED <<jobs, failing>>
           \/ /\ jobs[j].owner = w
              /\ jobs' = [jobs EXCEPT ![j].st = IF Terminal(why, made) THEN "failed" ELSE "delayed",
                                      ![j].made = made, ![j].owner = None]
              /\ failing' = [failing EXCEPT ![w] =
                                IF ShouldDeadLetter(why, made) THEN @ \union {j} ELSE @]
    BY <1>1, <1>2 DEF Fail
  <1>4. /\ j \in Ids /\ jobs[j] \in JobSet
        /\ made \in 1 .. MaxAttempts
    <2>1. worker[w].made < MaxAttempts /\ worker[w].made \in Nat /\ j \in Ids
      BY <1>1, WorkFacts DEF IBounds, RunBounds, RunSet
    <2> QED
      BY <1>2, <2>1, WorkFacts DEF QueueAssumption
  <1>5. landed' = landed /\ metered' = metered /\ evaluated' = evaluated /\ spent' = spent
    BY <1>3 DEF effects
  <1>6. OldLetters /\ (NothingDropped' => NothingDropped)
    BY <1>3, ReplaysAlone DEF NothingDropped
  <1>7. CASE jobs[j].owner # w
    <2>1. UNCHANGED <<jobs, failing, dlq, landed>> /\ Ids' = Ids
      BY <1>3, <1>5, <1>7 DEF Ids
    <2>2. worker' \in [Worker -> RunSet] /\ RunBounds'
      BY <1>3, <2>1, FreeStep
    <2>3. JobBounds'
      BY <2>1 DEF IBounds, JobBounds, IsLive
    <2>4. TypeOK'
      BY <1>3, <1>5, <2>1, <2>2, WorkFacts, WorkTypes
    <2> QED
      BY <1>6, <2>1, <2>2, <2>3, <2>4 DEF Steady, IBounds, Moves, SameJobs
  <1>8. CASE jobs[j].owner = w
    <2>1. PICK job : job = [jobs[j] EXCEPT !.st = IF Terminal(why, made) THEN "failed" ELSE "delayed",
                                           !.made = made, !.owner = None]
      OBVIOUS
    <2>2. jobs' = [jobs EXCEPT ![j] = job]
      BY <1>3, <1>8, <2>1
    <2>3. /\ job.batch = jobs[j].batch /\ job.owner = None /\ job.made = made
          /\ job.stalls = jobs[j].stalls
          /\ job.st = IF Terminal(why, made) THEN "failed" ELSE "delayed"
      BY <1>4, <2>1 DEF JobSet
    <2>4. job \in JobSet
      <3>1. made \in 0 .. MaxAttempts
        BY <1>4
      <3> QED
        BY <1>4, <2>1, <3>1 DEF JobSet, Live
    <2>5. jobs[j].stalls <= MaxStalled
      BY <1>4, <1>8 DEF IBounds, JobBounds, IsLive, Live, QueueAssumption
    <2>6. job.st \in Live => job.made < MaxAttempts /\ job.stalls <= MaxStalled /\ failing' = failing
      <3>1. SUFFICES ASSUME job.st \in Live PROVE made < MaxAttempts /\ failing' = failing
        BY <2>3, <2>5
      <3>2. ~Terminal(why, made)
        BY <2>3, <3>1 DEF Live
      <3>3. ~(made >= MaxAttempts) /\ ~ShouldDeadLetter(why, made)
        BY <3>2 DEF Terminal, ShouldDeadLetter
      <3>4. failing' = failing
        <4>1. failing' = [failing EXCEPT ![w] = failing[w]]
          BY <1>3, <1>8, <3>3
        <4> QED
          BY <4>1, WorkFacts
      <3>5. made < MaxAttempts
        BY <1>4, <3>3 DEF QueueAssumption
      <3> QED
        BY <3>4, <3>5
    <2>7. job.st \notin Live => failing' = [failing EXCEPT ![w] = @ \union {j}]
      <3>1. SUFFICES ASSUME job.st \notin Live PROVE ShouldDeadLetter(why, made)
        BY <1>3, <1>8
      <3>2. Terminal(why, made)
        BY <2>3, <3>1 DEF Live
      <3> QED
        BY <3>2 DEF Terminal, ShouldDeadLetter
    <2>8. /\ jobs' \in Seq(JobSet) /\ Ids' = Ids /\ JobBounds'
          /\ failing' \in [Worker -> SUBSET Ids]
          /\ \A k \in Ids : jobs'[k].batch = jobs[k].batch
          /\ Passes(j)
      BY <1>3, <1>4, <1>5, <2>2, <2>3, <2>4, <2>6, <2>7, SettleStep
    <2>9. worker' \in [Worker -> RunSet] /\ RunBounds'
      BY <1>3, <1>5, <2>8, FreeStep
    <2>10. TypeOK'
      BY <1>3, <1>5, <2>8, <2>9, WorkFacts, WorkTypes
    <2> QED
      BY <1>4, <1>6, <2>8, <2>9, <2>10 DEF Steady, IBounds, Moves
  <1> QED
    BY <1>7, <1>8

LEMMA StallStep ==
    ASSUME QueueAssumption, IBounds, NEW w \in Worker, NEW j \in Ids, Recover(w, j) \/ Wedge(w, j)
    PROVE  Steady /\ Moves /\ OldLetters
  <1>1. Stall(w, j) /\ (UNCHANGED spent \/ Spend("stalls"))
    BY DEF Recover, Wedge
  <1>2. PICK over : over = (jobs[j].stalls >= MaxStalled)
    OBVIOUS
  <1>3. /\ jobs[j].st = "active"
        /\ jobs' = [jobs EXCEPT ![j].st = IF over THEN "failed" ELSE "wait",
                                ![j].stalls = @ + 1, ![j].owner = None]
        /\ failing' = [failing EXCEPT ![w] = IF over THEN @ \union {j} ELSE @]
        /\ UNCHANGED <<apiVars, worker, dlq, replayVars, effects>>
    BY <1>1, <1>2 DEF Stall, ShouldDeadLetter
  <1>4. jobs[j] \in JobSet /\ jobs[j].made < MaxAttempts /\ jobs[j].stalls <= MaxStalled
    BY <1>3, WorkFacts DEF IBounds, JobBounds, IsLive, Live
  <1>5. PICK job : job = [jobs[j] EXCEPT !.st = IF over THEN "failed" ELSE "wait",
                                         !.stalls = @ + 1, !.owner = None]
    OBVIOUS
  <1>6. jobs' = [jobs EXCEPT ![j] = job]
    BY <1>3, <1>5
  <1>7. /\ job.batch = jobs[j].batch /\ job.owner = None /\ job.made = jobs[j].made
        /\ job.stalls = jobs[j].stalls + 1 /\ job.st = IF over THEN "failed" ELSE "wait"
    BY <1>4, <1>5 DEF JobSet
  <1>8. jobs[j].stalls + 1 \in 0 .. MaxStalled + 1 /\ (~over => jobs[j].stalls + 1 <= MaxStalled)
    <2>1. jobs[j].stalls \in Nat /\ MaxStalled \in Nat
      BY <1>4 DEF JobSet, QueueAssumption
    <2>2. jobs[j].stalls + 1 \in 0 .. MaxStalled + 1
      BY <1>4, <2>1
    <2>3. ASSUME ~over PROVE jobs[j].stalls + 1 <= MaxStalled
      <3>1. ~(jobs[j].stalls >= MaxStalled)
        BY <1>2, <2>3
      <3> QED
        BY <2>1, <3>1
    <2> QED
      BY <2>2, <2>3
  <1>9. job \in JobSet
    BY <1>4, <1>5, <1>8 DEF JobSet, Live
  <1>10. /\ job.st \in Live => job.made < MaxAttempts /\ job.stalls <= MaxStalled /\ failing' = failing
         /\ job.st \notin Live => failing' = [failing EXCEPT ![w] = @ \union {j}]
    <2>1. CASE over
      BY <1>3, <1>7, <2>1 DEF Live
    <2>2. CASE ~over
      <3>1. failing' = failing
        BY <1>3, <2>2, WorkFacts
      <3> QED
        BY <1>4, <1>7, <1>8, <2>2, <3>1 DEF Live
    <2> QED
      BY <2>1, <2>2
  <1>11. landed' = landed /\ metered' = metered /\ evaluated' = evaluated /\ worker' = worker
    BY <1>3 DEF effects
  <1>12. /\ jobs' \in Seq(JobSet) /\ Ids' = Ids /\ JobBounds'
         /\ failing' \in [Worker -> SUBSET Ids]
         /\ \A k \in Ids : jobs'[k].batch = jobs[k].batch
         /\ Passes(j)
    BY <1>3, <1>6, <1>7, <1>9, <1>10, <1>11, SettleStep
  <1>13. RunBounds'
    BY <1>11, <1>12 DEF IBounds, RunBounds, At, BatchOf
  <1>14. spent' \in [Kinds -> Nat] /\ (NothingDropped' => NothingDropped)
    BY <1>1, WorkFacts, SpendFacts, Kinded DEF NothingDropped
  <1>15. TypeOK'
    BY <1>3, <1>11, <1>12, <1>14, WorkFacts, WorkTypes
  <1>16. OldLetters
    BY <1>3, ReplaysAlone
  <1> QED
    BY <1>12, <1>13, <1>14, <1>15, <1>16 DEF Steady, IBounds, Moves

(* The backoff delay of a job is over.                                     *)
LEMMA PromoteStep ==
    ASSUME QueueAssumption, IBounds, NEW j \in Ids, Promote(j)
    PROVE  Steady /\ Moves /\ OldLetters
  <1>1. /\ jobs[j] \in JobSet /\ jobs[j].st = "delayed"
        /\ UNCHANGED <<apiVars, worker, failing, dlq, replayVars, effects, spent>>
    BY WorkFacts DEF Promote
  <1>2. /\ jobs[j].made < MaxAttempts /\ jobs[j].stalls <= MaxStalled /\ jobs[j].owner = None
    BY <1>1 DEF IBounds, JobBounds, IsLive, Live
  <1>3. PICK job : job = [jobs[j] EXCEPT !.st = "wait"]
    OBVIOUS
  <1>4. jobs' = [jobs EXCEPT ![j] = job]
    BY <1>3 DEF Promote
  <1>5. /\ job \in JobSet /\ job.batch = jobs[j].batch /\ job.st = "wait"
        /\ job.made = jobs[j].made /\ job.stalls = jobs[j].stalls /\ job.owner = jobs[j].owner
    BY <1>1, <1>3 DEF JobSet, Live
  <1>6. /\ jobs' \in Seq(JobSet) /\ Ids' = Ids /\ JobBounds'
        /\ \A k \in Ids : jobs'[k].batch = jobs[k].batch
        /\ \A k \in Ids \ {j} : IsLive(k) <=> IsLive(k)'
        /\ IsLive(j)'
    BY <1>2, <1>4, <1>5, ChangeStep DEF Live
  <1>7. RunBounds'
    BY <1>1, <1>6 DEF IBounds, RunBounds, At, BatchOf, effects
  <1>8. TypeOK'
    BY <1>1, <1>6, WorkFacts, WorkTypes DEF effects
  <1>9. Passes(j)
    BY <1>1, <1>6 DEF Passes, OnlyChanges, InHandler, IsLetter, Carrier, effects
  <1>10. OldLetters /\ (NothingDropped' => NothingDropped)
    BY <1>1, ReplaysAlone DEF NothingDropped
  <1> QED
    BY <1>6, <1>7, <1>8, <1>9, <1>10 DEF Steady, IBounds, Moves

(* The steps of an attempt that leave the queue alone.                     *)
LEMMA QuietRun ==
    ASSUME QueueAssumption, IBounds, NEW w \in Worker, NEW run \in RunSet,
           worker' = [worker EXCEPT ![w] = run],
           UNCHANGED <<apiVars, jobs, failing, dlq, replayVars>>,
           run.pc # "idle" => /\ run.job \in Ids /\ run.made < MaxAttempts
                              /\ run.pc \in {"evals", "finish"} => jobs[run.job].batch \in landed',
           landed \subseteq landed', landed' \subseteq Batch, metered' \in [Batch -> Nat],
           evaluated' \in [Batch -> Nat], spent' \in [Kinds -> Nat], NothingDropped' => NothingDropped
    PROVE  Steady /\ OldLetters
  <1>1. Ids' = Ids /\ jobs' = jobs /\ jobs' \in Seq(JobSet)
    BY WorkFacts DEF Ids
  <1>2. worker' \in [Worker -> RunSet] /\ RunBounds'
    BY <1>1, RunStep
  <1>3. JobBounds'
    BY <1>1 DEF IBounds, JobBounds, IsLive
  <1>4. TypeOK'
    BY <1>1, <1>2, WorkFacts, WorkTypes
  <1> QED
    BY <1>2, <1>3, <1>4, ReplaysAlone DEF Steady, IBounds

LEMMA QuietAttempt ==
    ASSUME QueueAssumption, IBounds, NEW w \in Worker,
           ReadBlob(w) \/ Meter(w) \/ Evaluate(w) \/ WorkerCrash(w)
    PROVE  Steady /\ Moves /\ OldLetters
  <1>1. /\ UNCHANGED <<apiVars, jobs, failing, dlq, replayVars, landed>>
        /\ spent' \in [Kinds -> Nat] /\ (NothingDropped' => NothingDropped)
    <2>1. /\ UNCHANGED <<apiVars, jobs, failing, dlq, replayVars, landed>>
          /\ UNCHANGED spent \/ Spend("refusals") \/ Spend("crashes")
      BY DEF ReadBlob, Meter, Evaluate, WorkerCrash, effects
    <2> QED
      BY <2>1, WorkFacts, SpendFacts, Kinded DEF NothingDropped
  <1>2. Moves
    BY <1>1 DEF Moves, SameJobs
  <1>3. /\ worker[w] \in RunSet
        /\ ~At(w, "idle") => worker[w].job \in Ids /\ worker[w].made < MaxAttempts
        /\ At(w, "evals") => BatchOf(w) \in landed
    BY WorkFacts DEF IBounds, RunBounds, At
  <1>4. metered' \in [Batch -> Nat] /\ evaluated' \in [Batch -> Nat]
    <2>1. ASSUME NEW b \in Batch
          PROVE  /\ [metered EXCEPT ![b] = @ + 1] \in [Batch -> Nat]
                 /\ [evaluated EXCEPT ![b] = @ + 1] \in [Batch -> Nat]
                 /\ [evaluated EXCEPT ![b] = @] \in [Batch -> Nat]
      <3>1. ASSUME NEW f \in [Batch -> Nat]
            PROVE  [f EXCEPT ![b] = @ + 1] \in [Batch -> Nat] /\ [f EXCEPT ![b] = @] \in [Batch -> Nat]
        OBVIOUS
      <3>2. metered \in [Batch -> Nat] /\ evaluated \in [Batch -> Nat]
        BY WorkFacts
      <3> QED
        BY <3>1, <3>2
    <2>2. ~At(w, "idle") => BatchOf(w) \in Batch
      BY <1>3, WorkFacts DEF BatchOf
    <2>3. CASE ReadBlob(w) \/ WorkerCrash(w)
      BY <2>3, WorkFacts DEF ReadBlob, WorkerCrash, effects
    <2>4. CASE Meter(w)
      <3>1. BatchOf(w) \in Batch /\ UNCHANGED evaluated
        <4>1. ~At(w, "idle") /\ UNCHANGED evaluated
          BY <2>4 DEF Meter, At
        <4> QED
          BY <2>2, <4>1
      <3>2. metered' = metered \/ metered' = [metered EXCEPT ![BatchOf(w)] = @ + 1]
        BY <2>4 DEF Meter
      <3>3. metered \in [Batch -> Nat] /\ evaluated \in [Batch -> Nat]
        BY WorkFacts
      <3> QED
        BY <2>1, <3>1, <3>2, <3>3
    <2>5. CASE Evaluate(w)
      <3>1. BatchOf(w) \in Batch /\ UNCHANGED metered
        <4>1. ~At(w, "idle") /\ UNCHANGED metered
          BY <2>5 DEF Evaluate, At
        <4> QED
          BY <2>2, <4>1
      <3>2. \/ evaluated' = [evaluated EXCEPT ![BatchOf(w)] = @]
            \/ evaluated' = [evaluated EXCEPT ![BatchOf(w)] = @ + 1]
        BY <2>5 DEF Evaluate
      <3>3. metered \in [Batch -> Nat] /\ evaluated \in [Batch -> Nat]
        BY WorkFacts
      <3> QED
        BY <2>1, <3>1, <3>2, <3>3
    <2> QED
      BY <2>3, <2>4, <2>5
  <1>5. ASSUME NEW pc \in {"meter", "work", "finish"}, Goto(w, pc), ~At(w, "idle"),
               pc = "finish" => At(w, "evals")
        PROVE  Steady /\ OldLetters
    <2>1. PICK run : run = [worker[w] EXCEPT !.pc = pc]
      OBVIOUS
    <2>2. run \in RunSet /\ run.pc = pc /\ run.job = worker[w].job /\ run.made = worker[w].made
      BY <1>3, <2>1 DEF RunSet
    <2>3. worker' = [worker EXCEPT ![w] = run]
      BY <1>5, <2>1, WorkFacts DEF Goto
    <2>4. /\ run.job \in Ids /\ run.made < MaxAttempts
          /\ run.pc \in {"evals", "finish"} => jobs[run.job].batch \in landed
      BY <1>3, <1>5, <2>2 DEF BatchOf
    <2> QED
      BY <1>1, <1>4, <2>2, <2>3, <2>4, WorkFacts, QuietRun
  <1>6. CASE ReadBlob(w)
    <2>1. PICK pc \in {"meter", "work"} : Goto(w, pc)
      BY <1>6 DEF ReadBlob
    <2> QED
      BY <1>2, <1>5, <1>6, <2>1 DEF ReadBlob, At
  <1>7. CASE Meter(w)
    BY <1>2, <1>5, <1>7 DEF Meter, At
  <1>8. CASE Evaluate(w)
    BY <1>2, <1>5, <1>8 DEF Evaluate, At
  <1>9. CASE WorkerCrash(w)
    <2>1. PICK run : run = [job |-> 0, pc |-> "idle", made |-> 0]
      OBVIOUS
    <2>2. run \in RunSet /\ run.pc = "idle"
      BY <2>1 DEF RunSet, QueueAssumption
    <2>3. worker' = [worker EXCEPT ![w] = run]
      BY <1>9, <2>1 DEF WorkerCrash, Free
    <2> QED
      BY <1>1, <1>2, <1>4, <2>2, <2>3, WorkFacts, QuietRun
  <1> QED
    BY <1>6, <1>7, <1>8, <1>9

(* The batch of a running job reaches the stores.                          *)
LEMMA LandStep ==
    ASSUME QueueAssumption, IBounds, NEW w \in Worker, Land(w)
    PROVE  Steady /\ Moves /\ OldLetters
  <1>1. PICK j : j = worker[w].job
    OBVIOUS
  <1>2. /\ worker[w] \in RunSet /\ j \in Ids /\ worker[w].made < MaxAttempts
        /\ jobs[j].batch \in Batch
    BY <1>1, WorkFacts DEF Land, At, IBounds, RunBounds
  <1>3. /\ landed' = landed \union {jobs[j].batch}
        /\ UNCHANGED <<apiVars, jobs, failing, dlq, replayVars, metered, evaluated, spent>>
    BY <1>1 DEF Land, BatchOf
  <1>4. PICK run : run = [worker[w] EXCEPT !.pc = "evals"]
    OBVIOUS
  <1>5. run \in RunSet /\ run.pc = "evals" /\ run.job = j /\ run.made = worker[w].made
    BY <1>1, <1>2, <1>4 DEF RunSet
  <1>6. worker' = [worker EXCEPT ![w] = run]
    BY <1>4, WorkFacts DEF Land, Goto
  <1>7. Steady /\ OldLetters
    BY <1>2, <1>3, <1>5, <1>6, WorkFacts, QuietRun DEF NothingDropped
  <1>8. Passes(j)
    BY <1>2, <1>3 DEF Passes, OnlyChanges, IsLive, InHandler, IsLetter, Carrier, Ids
  <1> QED
    BY <1>2, <1>3, <1>7, <1>8 DEF Moves, Ids

(* A job is done only if its batch has landed.                             *)
LEMMA FinishStep ==
    ASSUME QueueAssumption, IBounds, NEW w \in Worker, Finish(w)
    PROVE  Steady /\ Moves /\ OldLetters
  <1>1. PICK j : j = worker[w].job
    OBVIOUS
  <1>2. j \in Ids /\ jobs[j] \in JobSet /\ jobs[j].batch \in landed
    BY <1>1, WorkFacts DEF Finish, At, IBounds, RunBounds, BatchOf
  <1>3. /\ Free(w) /\ UNCHANGED <<apiVars, failing, dlq, replayVars, effects, spent>>
        /\ jobs' = [jobs EXCEPT ![j] = IF @.owner = w THEN [@ EXCEPT !.st = "done", !.owner = None] ELSE @]
    BY <1>1 DEF Finish
  <1>4. PICK job : job = IF jobs[j].owner = w THEN [jobs[j] EXCEPT !.st = "done", !.owner = None]
                         ELSE jobs[j]
    OBVIOUS
  <1>5. jobs' = [jobs EXCEPT ![j] = job]
    BY <1>3, <1>4
  <1>6. /\ job \in JobSet /\ job.batch = jobs[j].batch
        /\ job.st \in Live => job.made < MaxAttempts /\ job.stalls <= MaxStalled
        /\ job.owner # None => job.st = "active"
    <2>1. CASE jobs[j].owner = w
      <3>1. job = [jobs[j] EXCEPT !.st = "done", !.owner = None]
        BY <1>4, <2>1
      <3>2. job \in JobSet /\ job.batch = jobs[j].batch /\ job.st = "done" /\ job.owner = None
        BY <1>2, <3>1 DEF JobSet
      <3> QED
        BY <3>2 DEF Live
    <2>2. CASE jobs[j].owner # w
      BY <1>2, <1>4, <2>2 DEF IBounds, JobBounds, IsLive
    <2> QED
      BY <2>1, <2>2
  <1>7. /\ jobs' \in Seq(JobSet) /\ Ids' = Ids /\ JobBounds'
        /\ \A k \in Ids : jobs'[k].batch = jobs[k].batch
        /\ \A k \in Ids \ {j} : IsLive(k) <=> IsLive(k)'
    BY <1>2, <1>5, <1>6, ChangeStep
  <1>8. worker' \in [Worker -> RunSet] /\ RunBounds'
    BY <1>3, <1>7, FreeStep DEF effects
  <1>9. TypeOK'
    BY <1>3, <1>7, <1>8, WorkFacts, WorkTypes DEF effects
  <1>10. Passes(j)
    BY <1>2, <1>3, <1>7 DEF Passes, OnlyChanges, InHandler, IsLetter, effects
  <1>11. OldLetters /\ (NothingDropped' => NothingDropped)
    BY <1>3, ReplaysAlone DEF NothingDropped
  <1> QED
    BY <1>2, <1>7, <1>8, <1>9, <1>10, <1>11 DEF Steady, IBounds, Moves

LEMMA AttemptStep ==
    ASSUME QueueAssumption, IBounds, NEW w \in Worker, Attempt(w) \/ Throw(w) \/ WorkerCrash(w)
    PROVE  Steady /\ Moves /\ OldLetters
  <1>1. CASE MissBlob(w)
    BY <1>1, FailStep DEF MissBlob, At
  <1>2. CASE Throw(w)
    BY <1>2, FailStep DEF Throw, At
  <1> QED
    BY <1>1, <1>2, TakeStep, QuietAttempt, LandStep, FinishStep DEF Attempt

(* The handler puts the job it holds in front of the dead letters.         *)
LEMMA DeadLetterStep ==
    ASSUME QueueAssumption, IBounds, NEW w \in Worker, NEW j \in Ids, DeadLetter(w, j)
    PROVE  Steady /\ Moves /\ OldLetters
  <1>1. /\ j \in failing[w] /\ dlq' = <<j>> \o dlq
        /\ failing' = [failing EXCEPT ![w] = @ \ {j}]
        /\ UNCHANGED <<apiVars, jobs, worker, replayVars, effects, spent>>
    BY DEF DeadLetter
  <1>2. Ids' = Ids /\ jobs' = jobs /\ worker' = worker /\ landed' = landed
    BY <1>1 DEF Ids, effects
  <1>3. dlq' \in Seq(Ids) /\ \A k : IsLetter(k)' <=> k = j \/ IsLetter(k)
    <2>1. dlq \in Seq(Ids)
      BY WorkFacts
    <2>2. PICK t : t = InFront(j, dlq)
      OBVIOUS
    <2>3. t \in Seq(Ids) /\ \A k : Has(t, k) <=> (k = j \/ Has(dlq, k))
      BY <2>1, <2>2, ConsFacts
    <2>4. dlq' = t
      BY <1>1, <2>2 DEF InFront
    <2> QED
      BY <2>3, <2>4 DEF IsLetter
  <1>4. failing' \in [Worker -> SUBSET Ids] /\ \A k : k # j => (InHandler(k)' <=> InHandler(k))
    <2>1. failing \in [Worker -> SUBSET Ids]
      BY WorkFacts
    <2>2. failing' \in [Worker -> SUBSET Ids]
      BY <1>1, <2>1
    <2>3. \A v \in Worker : \A k : k # j => (k \in failing'[v] <=> k \in failing[v])
      BY <1>1, <2>1
    <2> QED
      BY <2>2, <2>3 DEF InHandler
  <1>5. Passes(j)
    BY <1>2, <1>3, <1>4 DEF Passes, OnlyChanges, Carrier, IsLive
  <1>6. JobBounds' /\ RunBounds'
    BY <1>2 DEF IBounds, JobBounds, RunBounds, IsLive, At, BatchOf
  <1>7. TypeOK'
    BY <1>1, <1>2, <1>3, <1>4, WorkFacts, WorkTypes DEF effects
  <1>8. OldLetters /\ (NothingDropped' => NothingDropped)
    BY <1>1, ReplaysAlone DEF NothingDropped
  <1> QED
    BY <1>2, <1>5, <1>6, <1>7, <1>8 DEF Steady, IBounds, Moves

LEMMA DropStep ==
    ASSUME QueueAssumption, IBounds, NEW w \in Worker, NEW j \in Ids, DropDeadLetter(w, j)
    PROVE  IBounds' /\ ~NothingDropped'
  <1>1. /\ failing' = [failing EXCEPT ![w] = @ \ {j}] /\ Spend("dropped")
        /\ UNCHANGED <<apiVars, jobs, worker, dlq, replayVars, effects>>
    BY DEF DropDeadLetter
  <1>2. Ids' = Ids /\ jobs' = jobs /\ worker' = worker /\ landed' = landed
    BY <1>1 DEF Ids, effects
  <1>3. failing' \in [Worker -> SUBSET Ids]
    BY <1>1, WorkFacts
  <1>4. spent' \in [Kinds -> Nat] /\ ~NothingDropped'
    BY <1>1, WorkFacts, SpendFacts, Kinded
  <1>5. JobBounds' /\ RunBounds'
    BY <1>2 DEF IBounds, JobBounds, RunBounds, IsLive, At, BatchOf
  <1>6. TypeOK'
    BY <1>1, <1>2, <1>3, <1>4, WorkFacts, WorkTypes DEF effects
  <1> QED
    BY <1>1, <1>4, <1>5, <1>6, ReplaysAlone DEF IBounds

-----------------------------------------------------------------------------
(* Replays of the dead-letter queue.                                       *)

Replaying == {"page", "step", "remove"}

(* What a call of replayDlq holds.                                         *)
LEMMA ReplayFacts ==
    ASSUME IBounds, NEW r \in Replayer
    PROVE  /\ replayer \in [Replayer -> ReplaySet] /\ replayer[r] \in ReplaySet
           /\ replayer[r].page # <<>> => /\ Letter(r) \in Ids
                                         /\ Tail(replayer[r].page) \in Seq(Ids)
  <1>1. replayer \in [Replayer -> ReplaySet] /\ replayer[r] \in ReplaySet
    BY DEF IBounds, TypeOK
  <1>2. replayer[r].page \in Seq(Ids)
    BY <1>1 DEF ReplaySet
  <1>3. replayer[r].page # <<>> => Letter(r) \in Ids /\ Tail(replayer[r].page) \in Seq(Ids)
    BY <1>2, HeadTailProperties DEF Letter
  <1> QED
    BY <1>1, <1>3

(* One call goes on.                                                       *)
LEMMA CallStep ==
    ASSUME IBounds, NEW r \in Replayer, NEW call \in ReplaySet, replayer' = [replayer EXCEPT ![r] = call]
    PROVE  /\ replayer' \in [Replayer -> ReplaySet]
           /\ call.pc # "remove" => OldLetters
           /\ \A s \in Replayer \ {r} : /\ HasLetter(s, "remove")' <=> HasLetter(s, "remove")
                                       /\ Letter(s)' = Letter(s)
  <1>1. /\ replayer' \in [Replayer -> ReplaySet] /\ replayer'[r] = call
        /\ \A s \in Replayer \ {r} : replayer'[s] = replayer[s]
    BY ReplayFacts
  <1>2. call.pc # "remove" => OldLetters
    BY <1>1 DEF OldLetters, HasLetter, Now, Letter
  <1> QED
    BY <1>1, <1>2 DEF HasLetter, Now, Letter

(* Types after a step of a replay.                                         *)
LEMMA ReplayTypes ==
    ASSUME IBounds, UNCHANGED <<apiVars, worker, failing, effects>>,
           jobs' \in Seq(JobSet), Ids \subseteq Ids', dlq' \in Seq(Ids),
           replayer' \in [Replayer -> ReplaySet], lock' \in Replayer \union {None},
           spent' \in [Kinds -> Nat]
    PROVE  TypeOK'
  <1>1. dlq' \in Seq(Ids') /\ failing' \in [Worker -> SUBSET Ids']
        /\ worker' \in [Worker -> RunSet'] /\ replayer' \in [Replayer -> ReplaySet']
    BY TypesGrow DEF IBounds, TypeOK
  <1> QED
    BY <1>1 DEF IBounds, TypeOK, apiVars, effects

(* A step of a replay that leaves jobs and letters alone.                  *)
LEMMA QuietReplay ==
    ASSUME IBounds, NEW r \in Replayer, NEW call \in ReplaySet, replayer' = [replayer EXCEPT ![r] = call],
           lock' \in Replayer \union {None}, call.pc # "remove",
           UNCHANGED <<apiVars, jobs, worker, failing, dlq, effects>>,
           UNCHANGED spent \/ \E kind \in Kinds : Spend(kind)
    PROVE  Steady /\ Moves /\ OldLetters
  <1>1. replayer' \in [Replayer -> ReplaySet] /\ OldLetters
    BY CallStep
  <1>2. Ids' = Ids /\ jobs' = jobs /\ landed' = landed /\ dlq' \in Seq(Ids) /\ jobs' \in Seq(JobSet)
    BY WorkFacts DEF Ids, effects
  <1>3. spent' \in [Kinds -> Nat] /\ (NothingDropped' => NothingDropped)
    BY WorkFacts, SpendFacts DEF NothingDropped
  <1>4. TypeOK'
    BY <1>1, <1>2, <1>3, ReplayTypes
  <1>5. JobBounds' /\ RunBounds'
    BY <1>2 DEF IBounds, JobBounds, RunBounds, IsLive, At, BatchOf
  <1>6. Moves
    BY <1>2 DEF Moves, SameJobs
  <1> QED
    BY <1>1, <1>3, <1>4, <1>5, <1>6 DEF Steady, IBounds

LEMMA NoReplayType == QueueAssumption => NoReplay \in ReplaySet
  BY DEF NoReplay, ReplaySet

LEMMA EndStep ==
    ASSUME QueueAssumption, IBounds, NEW r \in Replayer, EndReplay(r),
           UNCHANGED <<apiVars, jobs, worker, failing, dlq, effects, spent>>
    PROVE  Steady /\ Moves /\ OldLetters
  <1>1. PICK call : call = [NoReplay EXCEPT !.pc = "done", !.gone = replayer[r].gone,
                              !.todo = IF replayer[r].replayed < ReplayLimit THEN replayer[r].todo ELSE {}]
    OBVIOUS
  <1>2. replayer[r].todo \in SUBSET Ids /\ replayer[r].gone \in Nat
    BY ReplayFacts DEF ReplaySet
  <1>3. call \in ReplaySet /\ call.pc = "done"
    BY <1>1, <1>2, NoReplayType DEF ReplaySet, NoReplay
  <1>4. replayer' = [replayer EXCEPT ![r] = call] /\ lock' = IF lock = r THEN None ELSE lock
    BY <1>1 DEF EndReplay
  <1>5. lock' \in Replayer \union {None}
    BY <1>4 DEF IBounds, TypeOK
  <1> QED
    BY <1>3, <1>4, <1>5, QuietReplay

(* A page is cut from the dead-letter queue.                               *)
LEMMA PageType ==
    ASSUME QueueAssumption, IBounds, NEW r \in Replayer
    PROVE  PageOf(r, Want(r)) \in Seq(Ids)
  <1>1. dlq \in Seq(Ids) /\ replayer[r].kept \in Nat /\ replayer[r].replayed \in Nat
    BY ReplayFacts, WorkFacts DEF ReplaySet
  <1>2. Want(r) \in Int
    BY <1>1 DEF Want, QueueAssumption
  <1>3. PICK from \in Nat : from = replayer[r].kept
    BY <1>1
  <1>4. PICK to \in Int : /\ to = IF from + Want(r) < Len(dlq) THEN from + Want(r) ELSE Len(dlq)
                          /\ to <= Len(dlq)
    <2>1. Len(dlq) \in Nat
      BY <1>1
    <2> QED
      BY <1>2, <1>3, <2>1
  <1>5. PageOf(r, Want(r)) = SubSeq(dlq, from + 1, to)
    BY <1>3, <1>4 DEF PageOf
  <1>6. \A i \in from + 1 .. to : dlq[i] \in Ids
    BY <1>1, <1>3, <1>4
  <1> QED
    BY <1>3, <1>4, <1>5, <1>6, SubSeqProperties

LEMMA MatchingType ==
    ASSUME IBounds, NEW scope
    PROVE  Matching(scope) \subseteq Ids
  BY WorkFacts DEF Matching

(* The call keeps the letter in hand and goes on to the next.              *)
LEMMA KeepType ==
    ASSUME IBounds, NEW r \in Replayer, NEW pc, HasLetter(r, pc), pc \in {"step", "remove"}, KeepLetter(r)
    PROVE  \E call \in ReplaySet : replayer' = [replayer EXCEPT ![r] = call] /\ call.pc = "step"
  <1>1. PICK call : call = [replayer[r] EXCEPT !.pc = "step", !.page = Tail(@),
                                               !.kept = @ + 1, !.todo = @ \ {Letter(r)}]
    OBVIOUS
  <1>2. replayer' = [replayer EXCEPT ![r] = call]
    BY <1>1 DEF KeepLetter
  <1>3. /\ replayer[r] \in ReplaySet /\ Tail(replayer[r].page) \in Seq(Ids)
        /\ replayer[r].kept + 1 \in Nat /\ replayer[r].todo \ {Letter(r)} \in SUBSET Ids
    <2>1. replayer[r] \in ReplaySet /\ Tail(replayer[r].page) \in Seq(Ids)
      BY ReplayFacts DEF HasLetter
    <2> QED
      BY <2>1 DEF ReplaySet
  <1>4. call \in ReplaySet /\ call.pc = "step"
    BY <1>1, <1>3 DEF ReplaySet
  <1> QED
    BY <1>2, <1>4

\* What a step of any kind does: it forgets no batch, and it touches one job.
KeepsAll == NoneForgotten => NoneForgotten'

Touches ==
    SameJobs \/ \E x \in Ids' : OnlyChanges(x) /\ (x \notin Ids => IsLive(x)' /\ landed' = landed)

LEMMA MovesKeepAll ==
    ASSUME IBounds, Steady, Moves, OldLetters
    PROVE  Touches /\ KeepsAll
  <1>1. Touches
    BY DEF Moves, Touches, Passes
  <1>2. \A r \in Replayer : HasLetter(r, "remove") => Letter(r) \in Ids
    BY ReplayFacts DEF HasLetter
  <1>3. jobs \in Seq(JobSet) /\ jobs' \in Seq(JobSet)
    BY DEF Steady, IBounds, TypeOK
  <1>4. NoneForgotten => NoneForgotten'
    BY <1>2, <1>3, NoneForgottenStep
  <1> QED
    BY <1>1, <1>4 DEF KeepsAll

(* The letter in hand is enqueued again: the new job carries its batch.    *)
LEMMA ReplayAddStep ==
    ASSUME QueueAssumption, IBounds, NEW r \in Replayer, ReplayAdd(r)
    PROVE  Steady /\ Touches /\ KeepsAll
  <1>1. PICK j, b : j = Letter(r) /\ b = jobs[j].batch
    OBVIOUS
  <1>2. /\ HasLetter(r, "step") /\ Add(b, FALSE)
        /\ replayer' = [replayer EXCEPT ![r].pc = "remove", ![r].todo = @ \ {j}]
        /\ UNCHANGED <<apiVars, worker, failing, dlq, lock, effects, spent>>
    BY <1>1 DEF ReplayAdd
  <1>3. /\ j \in Ids /\ b \in Batch /\ replayer[r] \in ReplaySet
        /\ replayer[r].pc = "step" /\ replayer[r].page # <<>>
    BY <1>1, <1>2, ReplayFacts, WorkFacts DEF HasLetter, Now
  <1>4. UNCHANGED <<worker, failing, dlq, landed, spent, lock>>
    BY <1>2 DEF effects
  <1>5. /\ jobs' \in Seq(JobSet) /\ Ids \subseteq Ids' /\ JobBounds' /\ RunBounds'
        /\ \A k \in Ids : jobs'[k] = jobs[k]
        /\ \E x \in Ids' \ Ids : jobs'[x].batch = b /\ jobs'[x].st = "wait" /\ Passes(x)
    BY <1>2, <1>3, <1>4, AddStep
  <1>6. PICK x \in Ids' \ Ids : jobs'[x].batch = b /\ jobs'[x].st = "wait" /\ Passes(x)
    BY <1>5
  <1>7. PICK call : call = [replayer[r] EXCEPT !.pc = "remove", !.todo = @ \ {j}]
    OBVIOUS
  <1>8. /\ call \in ReplaySet /\ call.pc = "remove" /\ call.page = replayer[r].page
        /\ replayer' = [replayer EXCEPT ![r] = call]
    <2>1. replayer[r].todo \ {j} \in SUBSET Ids
      BY <1>3 DEF ReplaySet
    <2>2. call \in ReplaySet
      BY <1>3, <1>7, <2>1 DEF ReplaySet
    <2>3. call.pc = "remove" /\ call.page = replayer[r].page
      BY <1>3, <1>7 DEF ReplaySet
    <2>4. replayer' = [replayer EXCEPT ![r] = call]
      BY <1>2, <1>7
    <2> QED
      BY <2>2, <2>3, <2>4
  <1>9. lock' \in Replayer \union {None}
    BY <1>4 DEF IBounds, TypeOK
  <1>10. /\ replayer' \in [Replayer -> ReplaySet]
         /\ \A s \in Replayer \ {r} : /\ HasLetter(s, "remove")' <=> HasLetter(s, "remove")
                                     /\ Letter(s)' = Letter(s)
    BY <1>8, CallStep
  <1>11. Steady
    <2>1. spent' \in [Kinds -> Nat] /\ (NothingDropped' => NothingDropped) /\ dlq' \in Seq(Ids)
      BY <1>4, WorkFacts DEF NothingDropped
    <2>2. TypeOK'
      BY <1>2, <1>5, <1>9, <1>10, <2>1, ReplayTypes
    <2> QED
      BY <1>5, <2>1, <2>2 DEF Steady, IBounds
  <1>12. Touches
    BY <1>6 DEF Touches, Passes
  <1>13. ASSUME NoneForgotten PROVE NoneForgotten'
    <2>1. \A i \in Ids' : Kept(jobs[i].batch)'
      BY <1>5, <1>6, <1>13, WorkFacts, JobsKept DEF Moves
    <2>2. Outlived(Letter(r))'
      <3>1. Letter(r)' = j
        BY <1>1, <1>3, <1>8, ReplayFacts DEF Letter
      <3>2. x > j
        <4>1. Ids = 1 .. Len(jobs) /\ Ids' = 1 .. Len(jobs')
              /\ Len(jobs) \in Nat /\ Len(jobs') \in Nat
          BY <1>5, WorkFacts DEF Ids
        <4> QED
          BY <1>3, <1>6, <4>1
      <3>3. jobs'[x].batch = jobs'[j].batch
        BY <1>1, <1>3, <1>5, <1>6
      <3> QED
        BY <1>6, <3>1, <3>2, <3>3 DEF Outlived
    <2>3. ASSUME NEW s \in Replayer \ {r}, HasLetter(s, "remove")' PROVE Outlived(Letter(s))'
      <3>1. JobsStay
        BY <1>5 DEF JobsStay
      <3>2. HasLetter(s, "remove") /\ Letter(s)' = Letter(s)
        BY <1>10, <2>3
      <3>3. Letter(s) \in Ids
        BY <3>2, ReplayFacts DEF HasLetter
      <3> QED
        BY <1>13, <2>3, <3>1, <3>2, <3>3, OldOutlived
    <2> QED
      BY <2>1, <2>2, <2>3 DEF NoneForgotten
  <1> QED
    BY <1>11, <1>12, <1>13 DEF KeepsAll

(* The add throws, but a job was added: the letter stays as well.          *)
LEMMA ReplayAddThrowsStep ==
    ASSUME QueueAssumption, IBounds, NEW r \in Replayer, ReplayAddThrows(r)
    PROVE  Steady /\ Touches /\ KeepsAll
  <1>1. PICK b : b = jobs[Letter(r)].batch
    OBVIOUS
  <1>2. /\ HasLetter(r, "step") /\ KeepLetter(r)
        /\ (Spend("refusals") /\ UNCHANGED jobs) \/ (Spend("unsure") /\ Add(b, FALSE))
        /\ UNCHANGED <<apiVars, worker, failing, dlq, lock, effects>>
    BY <1>1 DEF ReplayAddThrows, AddThrows
  <1>3. b \in Batch
    BY <1>1, <1>2, ReplayFacts, WorkFacts DEF HasLetter
  <1>4. PICK call \in ReplaySet : replayer' = [replayer EXCEPT ![r] = call] /\ call.pc = "step"
    BY <1>2, KeepType
  <1>5. lock' \in Replayer \union {None}
    BY <1>2 DEF IBounds, TypeOK
  <1>6. CASE UNCHANGED jobs
    BY <1>2, <1>4, <1>5, <1>6, QuietReplay, MovesKeepAll, Kinded
  <1>7. CASE Spend("unsure") /\ Add(b, FALSE)
    <2>1. UNCHANGED <<worker, failing, dlq, landed>>
      BY <1>2 DEF effects
    <2>2. /\ jobs' \in Seq(JobSet) /\ Ids \subseteq Ids' /\ JobBounds' /\ RunBounds'
          /\ \E x \in Ids' : Passes(x)
      BY <1>3, <1>7, <2>1, AddStep
    <2>3. replayer' \in [Replayer -> ReplaySet] /\ OldLetters
      BY <1>4, CallStep
    <2>4. spent' \in [Kinds -> Nat] /\ (NothingDropped' => NothingDropped) /\ dlq' \in Seq(Ids)
      BY <1>7, <2>1, WorkFacts, SpendFacts, Kinded
    <2>5. TypeOK'
      BY <1>2, <1>5, <2>2, <2>3, <2>4, ReplayTypes
    <2>6. Steady /\ Moves
      BY <2>2, <2>4, <2>5 DEF Steady, IBounds, Moves
    <2> QED
      BY <2>3, <2>6, MovesKeepAll
  <1> QED
    BY <1>2, <1>6, <1>7

\* The letter in hand is taken out of the queue, whatever the call hears of it.
TakesOut(r) ==
    /\ HasLetter(r, "remove") /\ dlq' = Without(dlq, Letter(r))
    /\ UNCHANGED <<apiVars, jobs, worker, failing, lock, effects>>
    /\ UNCHANGED spent \/ Spend("vanished")
    /\ \E call \in ReplaySet : replayer' = [replayer EXCEPT ![r] = call] /\ call.pc = "step"

LEMMA RemovesTakeOut ==
    ASSUME IBounds, NEW r \in Replayer, ReplayRemove(r) \/ ReplayRemoveVanishes(r)
    PROVE  TakesOut(r)
  <1>1. /\ HasLetter(r, "remove") /\ dlq' = Without(dlq, Letter(r))
        /\ UNCHANGED <<apiVars, jobs, worker, failing, lock, effects>>
        /\ UNCHANGED spent \/ Spend("vanished")
    BY DEF ReplayRemove, ReplayRemoveVanishes
  <1>2. /\ replayer[r] \in ReplaySet /\ Tail(replayer[r].page) \in Seq(Ids)
        /\ replayer[r].kept + 1 \in Nat /\ replayer[r].replayed + 1 \in Nat
        /\ replayer[r].gone + 1 \in Nat
    <2>1. replayer[r] \in ReplaySet /\ Tail(replayer[r].page) \in Seq(Ids)
      BY <1>1, ReplayFacts DEF HasLetter
    <2> QED
      BY <2>1 DEF ReplaySet
  <1>3. CASE ReplayRemove(r)
    <2>1. PICK call : call = [replayer[r] EXCEPT !.pc = "step", !.page = Tail(@), !.replayed = @ + 1]
      OBVIOUS
    <2>2. call \in ReplaySet /\ call.pc = "step"
      BY <1>2, <2>1 DEF ReplaySet
    <2>3. replayer' = [replayer EXCEPT ![r] = call]
      BY <1>3, <2>1 DEF ReplayRemove
    <2> QED
      BY <1>1, <2>2, <2>3 DEF TakesOut
  <1>4. CASE ReplayRemoveVanishes(r)
    <2>1. PICK call : call = [replayer[r] EXCEPT !.pc = "step", !.page = Tail(@),
                                                 !.kept = @ + 1, !.gone = @ + 1]
      OBVIOUS
    <2>2. call \in ReplaySet /\ call.pc = "step"
      BY <1>2, <2>1 DEF ReplaySet
    <2>3. replayer' = [replayer EXCEPT ![r] = call]
      BY <1>4, <2>1 DEF ReplayRemoveVanishes
    <2> QED
      BY <1>1, <2>2, <2>3 DEF TakesOut
  <1> QED
    BY <1>3, <1>4

(* A letter is removed after its batch was enqueued again.                 *)
LEMMA ReplayRemoveStep ==
    ASSUME QueueAssumption, IBounds, NEW r \in Replayer, TakesOut(r)
    PROVE  Steady /\ Touches /\ KeepsAll
  <1>1. PICK j : j = Letter(r)
    OBVIOUS
  <1>2. /\ HasLetter(r, "remove") /\ dlq' = Without(dlq, j)
        /\ UNCHANGED <<apiVars, jobs, worker, failing, lock, effects>>
        /\ UNCHANGED spent \/ Spend("vanished")
    BY <1>1 DEF TakesOut
  <1>3. j \in Ids
    BY <1>1, <1>2, ReplayFacts DEF HasLetter
  <1>4. PICK call \in ReplaySet : replayer' = [replayer EXCEPT ![r] = call] /\ call.pc = "step"
    BY DEF TakesOut
  <1>5. lock' \in Replayer \union {None}
    BY <1>2 DEF IBounds, TypeOK
  <1>6. replayer' \in [Replayer -> ReplaySet] /\ OldLetters
    BY <1>4, CallStep
  <1>7. /\ Ids' = Ids /\ jobs' = jobs /\ failing' = failing /\ landed' = landed /\ worker' = worker
    BY <1>2 DEF Ids, effects
  <1>8. dlq' \in Seq(Ids) /\ \A k : k # j => (IsLetter(k)' <=> IsLetter(k))
    <2>1. PICK t : t = Without(dlq, j)
      OBVIOUS
    <2>2. t \in Seq(Ids) /\ \A k : k # j => (Has(t, k) <=> Has(dlq, k))
      BY <2>1, WorkFacts, WithoutFacts
    <2> QED
      BY <1>2, <2>1, <2>2 DEF IsLetter
  <1>9. \A k \in Ids : k # j => (Carrier(k) => Carrier(k)')
    BY <1>7, <1>8 DEF Carrier, IsLive, InHandler
  <1>10. Steady
    <2>1. spent' \in [Kinds -> Nat] /\ (NothingDropped' => NothingDropped)
      BY <1>2, WorkFacts, SpendFacts, Kinded DEF NothingDropped
    <2>2. JobBounds' /\ RunBounds'
      BY <1>7 DEF IBounds, JobBounds, RunBounds, IsLive, At, BatchOf
    <2>3. jobs' \in Seq(JobSet)
      BY <1>7, WorkFacts
    <2>4. TypeOK'
      BY <1>2, <1>5, <1>6, <1>7, <1>8, <2>1, <2>3, ReplayTypes
    <2> QED
      BY <2>1, <2>2, <2>4 DEF Steady, IBounds
  <1>11. Touches
    <2>1. OnlyChanges(j)
      BY <1>3, <1>7, <1>8 DEF OnlyChanges, IsLive, InHandler
    <2> QED
      BY <1>3, <1>7, <2>1 DEF Touches
  <1>12. ASSUME NoneForgotten PROVE NoneForgotten'
    <2>1. Outlived(j) /\ Ids \subseteq Int
      BY <1>1, <1>2, <1>12, WorkFacts DEF NoneForgotten, Ids
    <2>2. ASSUME NEW b, Kept(b) PROVE Kept(b)'
      <3>1. CASE b \in landed
        BY <1>7, <3>1 DEF Kept
      <3>2. CASE b \notin landed
        <4>1. PICK k \in Ids : Newest(b, k) /\ Carrier(k)
          BY <2>2, <3>2 DEF Kept
        <4>2. k # j
          BY <1>3, <2>1, <4>1 DEF Newest, Outlived
        <4>3. Newest(b, k)' /\ Carrier(k)'
          BY <1>7, <1>9, <4>1, <4>2 DEF Newest
        <4> QED
          BY <1>7, <4>1, <4>3 DEF Kept
      <3> QED
        BY <3>1, <3>2
    <2>3. ASSUME NEW i \in Ids' PROVE Kept(jobs[i].batch)'
      <3>1. PICK b : b = jobs[i].batch
        OBVIOUS
      <3>2. Kept(b)'
        BY <1>7, <1>12, <2>2, <2>3, <3>1 DEF NoneForgotten
      <3> QED
        BY <1>7, <3>1, <3>2
    <2>4. ASSUME NEW s \in Replayer, HasLetter(s, "remove")' PROVE Outlived(Letter(s))'
      <3>1. JobsStay
        BY <1>7 DEF JobsStay
      <3>2. HasLetter(s, "remove") /\ Letter(s)' = Letter(s)
        BY <1>6, <2>4 DEF OldLetters
      <3>3. Letter(s) \in Ids
        BY <3>2, ReplayFacts DEF HasLetter
      <3> QED
        BY <1>12, <2>4, <3>1, <3>2, <3>3, OldOutlived
    <2> QED
      BY <2>3, <2>4 DEF NoneForgotten
  <1> QED
    BY <1>10, <1>11, <1>12 DEF KeepsAll

LEMMA ReplayStep ==
    ASSUME QueueAssumption, IBounds, NEW r \in Replayer, Replay(r)
    PROVE  Steady /\ Touches /\ KeepsAll
  <1>1. /\ None \notin Replayer /\ lock \in Replayer \union {None} /\ replayer[r] \in ReplaySet
    BY ReplayFacts DEF QueueAssumption, IBounds, TypeOK
  <1>2. ASSUME NEW scope \in Project \union {None}, ReplayStart(r, scope)
        PROVE  Steady /\ Moves /\ OldLetters
    <2>1. PICK call : call = [NoReplay EXCEPT !.pc = "page", !.scope = scope, !.todo = Matching(scope)]
      OBVIOUS
    <2>2. call \in ReplaySet /\ call.pc = "page"
      BY <2>1, NoReplayType, MatchingType DEF ReplaySet, NoReplay
    <2>3. /\ replayer' = [replayer EXCEPT ![r] = call] /\ lock' = r /\ Spend("replays")
          /\ UNCHANGED <<apiVars, jobs, worker, failing, dlq, effects>>
      BY <1>2, <2>1 DEF ReplayStart
    <2> QED
      BY <1>1, <2>2, <2>3, QuietReplay, Kinded
  <1>3. ASSUME lock' = lock, NEW call \in ReplaySet, replayer' = [replayer EXCEPT ![r] = call],
               call.pc # "remove",
               UNCHANGED <<apiVars, jobs, worker, failing, dlq, effects>>,
               UNCHANGED spent \/ \E kind \in Kinds : Spend(kind)
        PROVE  Steady /\ Moves /\ OldLetters
    BY <1>1, <1>3, QuietReplay
  <1>4. CASE ReplayPage(r)
    <2>1. UNCHANGED <<apiVars, jobs, worker, failing, dlq, effects, spent>>
      BY <1>4 DEF ReplayPage
    <2>2. PICK page : page = PageOf(r, Want(r))
      OBVIOUS
    <2>3. \/ EndReplay(r)
          \/ /\ replayer' = [replayer EXCEPT ![r].pc = "step", ![r].page = page,
                                             ![r].last = Len(page) < Want(r)]
             /\ lock' = lock
      BY <1>4, <2>2 DEF ReplayPage
    <2>4. CASE EndReplay(r)
      BY <2>1, <2>4, EndStep, MovesKeepAll
    <2>5. CASE ~EndReplay(r)
      <3>1. PICK last : last = (Len(page) < Want(r))
        OBVIOUS
      <3>2. last \in BOOLEAN
        BY <3>1
      <3>3. PICK call : call = [replayer[r] EXCEPT !.pc = "step", !.page = page, !.last = last]
        OBVIOUS
      <3>4. call \in ReplaySet /\ call.pc = "step"
        BY <1>1, <2>2, <3>2, <3>3, PageType DEF ReplaySet
      <3>5. replayer' = [replayer EXCEPT ![r] = call] /\ lock' = lock
        BY <2>3, <2>5, <3>1, <3>3
      <3> QED
        BY <1>3, <2>1, <3>4, <3>5, MovesKeepAll
    <2> QED
      BY <2>4, <2>5
  <1>5. CASE ReplayPageEnd(r)
    <2>1. UNCHANGED <<apiVars, jobs, worker, failing, dlq, effects, spent>>
      BY <1>5 DEF ReplayPageEnd
    <2>2. EndReplay(r) \/ (replayer' = [replayer EXCEPT ![r].pc = "page"] /\ lock' = lock)
      BY <1>5 DEF ReplayPageEnd
    <2>3. CASE EndReplay(r)
      BY <2>1, <2>3, EndStep, MovesKeepAll
    <2>4. CASE ~EndReplay(r)
      <3>1. PICK call : call = [replayer[r] EXCEPT !.pc = "page"]
        OBVIOUS
      <3>2. call \in ReplaySet /\ call.pc = "page"
        BY <1>1, <3>1 DEF ReplaySet
      <3>3. replayer' = [replayer EXCEPT ![r] = call] /\ lock' = lock
        BY <2>2, <2>4, <3>1, ReplayFacts
      <3> QED
        BY <1>3, <2>1, <3>2, <3>3, MovesKeepAll
    <2> QED
      BY <2>3, <2>4
  <1>6. CASE ReplaySkip(r)
    <2>1. PICK call \in ReplaySet : replayer' = [replayer EXCEPT ![r] = call] /\ call.pc = "step"
      BY <1>6, KeepType DEF ReplaySkip
    <2>2. lock' = lock /\ UNCHANGED <<apiVars, jobs, worker, failing, dlq, effects, spent>>
      BY <1>6 DEF ReplaySkip
    <2> QED
      BY <1>3, <2>1, <2>2, MovesKeepAll
  <1>7. CASE ReplayRemoveThrows(r)
    <2>1. PICK call \in ReplaySet : replayer' = [replayer EXCEPT ![r] = call] /\ call.pc = "step"
      BY <1>7, KeepType DEF ReplayRemoveThrows
    <2>2. /\ lock' = lock /\ Spend("leftovers")
          /\ UNCHANGED <<apiVars, jobs, worker, failing, dlq, effects>>
      BY <1>7 DEF ReplayRemoveThrows
    <2> QED
      BY <1>3, <2>1, <2>2, Kinded, MovesKeepAll
  <1>8. CASE ReplayCrash(r)
    <2>1. PICK call \in ReplaySet : call = NoReplay /\ call.pc = "idle"
      BY NoReplayType DEF NoReplay
    <2>2. /\ lock' = lock /\ (Spend("leftovers") \/ Spend("aborts"))
          /\ replayer' = [replayer EXCEPT ![r] = call]
          /\ UNCHANGED <<apiVars, jobs, worker, failing, dlq, effects>>
      BY <1>8, <2>1 DEF ReplayCrash
    <2>3. call.pc # "remove"
      BY <2>1
    <2> QED
      BY <1>3, <2>2, <2>3, Kinded, MovesKeepAll
  <1>9. CASE ReplayRemove(r) \/ ReplayRemoveVanishes(r)
    BY <1>9, RemovesTakeOut, ReplayRemoveStep
  <1> QED
    BY <1>2, <1>4, <1>5, <1>6, <1>7, <1>8, <1>9, MovesKeepAll,
       ReplayAddStep, ReplayAddThrowsStep DEF Replay

(* The lock of a replay runs out, whether the replay died or lives.        *)
LEMMA ExpireStep ==
    ASSUME QueueAssumption, IBounds, LockExpires \/ LockLapses
    PROVE  Steady /\ Moves /\ OldLetters
  <1>1. /\ lock' = None /\ UNCHANGED <<apiVars, jobs, worker, failing, dlq, replayer, effects>>
        /\ UNCHANGED spent \/ Spend("lapses")
    BY DEF LockExpires, LockLapses
  <1>2. OldLetters
    BY <1>1 DEF OldLetters, HasLetter, Now, Letter
  <1>3. Ids' = Ids /\ jobs' = jobs /\ worker' = worker /\ landed' = landed
    BY <1>1 DEF Ids, effects
  <1>4. spent' \in [Kinds -> Nat] /\ (NothingDropped' => NothingDropped)
    BY <1>1, WorkFacts, SpendFacts, Kinded DEF NothingDropped
  <1>5. JobBounds' /\ RunBounds'
    BY <1>1, <1>3 DEF IBounds, JobBounds, RunBounds, IsLive, At, BatchOf
  <1>6. TypeOK'
    BY <1>1, <1>3, <1>4, WorkFacts, ReplayTypes DEF IBounds, TypeOK
  <1>7. SameJobs
    BY <1>1, <1>3 DEF SameJobs
  <1> QED
    BY <1>2, <1>4, <1>5, <1>6, <1>7 DEF Steady, IBounds, Moves

LEMMA StutterStep ==
    ASSUME QueueAssumption, IBounds, UNCHANGED vars
    PROVE  Steady /\ Moves /\ OldLetters
  <1>1. UNCHANGED <<api, blob, jobs, worker, failing, dlq, replayer, lock,
                    landed, metered, evaluated, spent>>
    BY DEF vars
  <1>2. TypeOK'
    BY <1>1, WorkFacts, WorkTypes DEF apiVars, replayVars, Ids
  <1>3. JobBounds' /\ RunBounds' /\ OldLetters
    BY <1>1, QuietBounds
  <1> QED
    BY <1>1, <1>2, <1>3 DEF Steady, IBounds, Moves, SameJobs, NothingDropped

-----------------------------------------------------------------------------
(* All steps: the invariant.                                               *)

LEMMA NextStep ==
    ASSUME QueueAssumption, IBounds, [Next]_vars
    PROVE  /\ IBounds'
           /\ NothingDropped' => NothingDropped /\ Touches /\ KeepsAll
  <1>1. ASSUME Steady, Moves, OldLetters
        PROVE  IBounds' /\ (NothingDropped' => NothingDropped /\ Touches /\ KeepsAll)
    BY <1>1, MovesKeepAll DEF Steady
  <1>2. ASSUME NEW b \in Batch, Submit(b) \/ ReplayBlob(b) PROVE Steady /\ Moves /\ OldLetters
    BY <1>2, SubmitStep
  <1>3. ASSUME NEW w \in Worker, Attempt(w) \/ Throw(w) \/ WorkerCrash(w) PROVE Steady /\ Moves /\ OldLetters
    BY <1>3, AttemptStep
  <1>4. ASSUME NEW j \in Ids, Promote(j) PROVE Steady /\ Moves /\ OldLetters
    BY <1>4, PromoteStep
  <1>5. ASSUME NEW w \in Worker, NEW j \in Ids, Recover(w, j) \/ Wedge(w, j) \/ DeadLetter(w, j)
        PROVE  Steady /\ Moves /\ OldLetters
    BY <1>5, StallStep, DeadLetterStep
  <1>6. ASSUME NEW w \in Worker, NEW j \in Ids, DropDeadLetter(w, j) PROVE IBounds' /\ ~NothingDropped'
    BY <1>6, DropStep
  <1>7. ASSUME NEW r \in Replayer, Replay(r) PROVE Steady /\ Touches /\ KeepsAll
    BY <1>7, ReplayStep
  <1>8. CASE LockExpires \/ LockLapses
    BY <1>1, <1>8, ExpireStep
  <1>9. CASE Idle \/ UNCHANGED vars
    BY <1>1, <1>9, StutterStep DEF Idle
  <1> QED
    BY <1>1, <1>2, <1>3, <1>4, <1>5, <1>6, <1>7, <1>8, <1>9 DEF Next, Steady

LEMMA InitInvariant ==
    ASSUME QueueAssumption, Init
    PROVE  IInv
  <1>1. Ids = {} /\ jobs \in Seq(JobSet) /\ dlq \in Seq(Ids)
    BY DEF Init, Ids
  <1>2. \A w \in Worker : worker[w] = [job |-> 0, pc |-> "idle", made |-> 0]
    BY DEF Init
  <1>3. [job |-> 0, pc |-> "idle", made |-> 0] \in RunSet
    BY DEF RunSet, QueueAssumption
  <1>4. worker \in [Worker -> RunSet]
    BY <1>3 DEF Init
  <1>5. replayer \in [Replayer -> ReplaySet]
    BY NoReplayType DEF Init
  <1>6. TypeOK
    BY <1>1, <1>4, <1>5 DEF Init, TypeOK
  <1>7. JobBounds /\ RunBounds
    BY <1>1, <1>2 DEF JobBounds, RunBounds, At
  <1>8. \A r \in Replayer : ~HasLetter(r, "remove")
    BY DEF Init, NoReplay, HasLetter, Now
  <1> QED
    BY <1>1, <1>6, <1>7, <1>8 DEF IInv, NoneForgotten

LEMMA Inductive == Spec => []IInv
  <1>1. Init => IInv
    BY QueueAssumption, InitInvariant
  <1>2. IInv /\ [Next]_vars => IInv'
    BY QueueAssumption, NextStep DEF IInv, IBounds, KeepsAll
  <1> QED
    BY <1>1, <1>2, PTL DEF Spec

(* Every variable keeps its type: no attempt or stall is counted beyond    *)
(* its limit, and every id held anywhere is that of a job of the queue.    *)
THEOREM TypeCorrect == Spec => []TypeOK
  <1>1. IInv => TypeOK
    BY DEF IInv
  <1> QED
    BY <1>1, Inductive, PTL

-----------------------------------------------------------------------------
(* All steps: the promise of Delivery.                                     *)

Running(b) == \E k \in Ids : jobs[k].batch = b /\ IsLive(k)
Buried(b) == \E k \in Ids : jobs[k].batch = b /\ (InHandler(k) \/ IsLetter(k))

\* The fate of a batch in terms of its jobs.
FateByJobs ==
    \A b \in Batch : Fate(b) = IF b \in landed THEN "landed" ELSE IF Running(b) THEN "pending"
                               ELSE IF Buried(b) THEN "dead" ELSE "none"

LEMMA FateFacts == TypeOK => FateByJobs
  <1>1. SUFFICES ASSUME TypeOK, NEW b \in Batch
                 PROVE  /\ LiveJobs(b) # {} <=> Running(b)
                        /\ Letters(b) # {} \/ Handlers(b) # {} <=> Buried(b)
    BY DEF FateByJobs, Fate
  <1>2. LiveJobs(b) # {} <=> Running(b)
    BY DEF LiveJobs, Running, IsLive
  <1>3. Letters(b) # {} <=> \E k \in Ids : jobs[k].batch = b /\ IsLetter(k)
    <2>1. DOMAIN dlq = 1 .. Len(dlq) /\ \A i \in 1 .. Len(dlq) : dlq[i] \in Ids
      BY <1>1 DEF TypeOK
    <2> QED
      BY <2>1 DEF Letters, IsLetter, Has
  <1>4. Handlers(b) # {} <=> \E k \in Ids : jobs[k].batch = b /\ InHandler(k)
    <2>1. \A w \in Worker : failing[w] \subseteq Ids
      BY <1>1 DEF TypeOK
    <2> QED
      BY <2>1 DEF Handlers, InHandler
  <1> QED
    BY <1>2, <1>3, <1>4 DEF Buried

LEMMA FateFactsNext == TypeOK' => FateByJobs'
  BY FateFacts, PTL

(* A batch that has a job has a fate.                                      *)
LEMMA HasFate == IInv /\ NothingDropped => \A j \in Ids : Fate(jobs[j].batch) # "none"
  <1>1. SUFFICES ASSUME IInv, NothingDropped, NEW j \in Ids PROVE Fate(jobs[j].batch) # "none"
    OBVIOUS
  <1>2. PICK b \in Batch : b = jobs[j].batch
    BY <1>1, WorkFacts DEF IInv, IBounds
  <1>3. FateByJobs /\ Kept(b)
    BY <1>1, <1>2, FateFacts DEF IInv, NoneForgotten
  <1>4. b \in landed \/ Running(b) \/ Buried(b)
    BY <1>3 DEF Kept, Newest, Carrier, Running, Buried
  <1> QED
    BY <1>2, <1>3, <1>4 DEF FateByJobs

LEMMA HasFateNext == (IInv /\ NothingDropped)' => \A j \in Ids' : Fate(jobs[j].batch)' # "none"
  <1>1. (IInv /\ NothingDropped)' => (\A j \in Ids : Fate(jobs[j].batch) # "none")'
    BY HasFate, PTL
  <1> QED
    BY <1>1

(* The other batches keep their fate.                                      *)
LEMMA OthersKeepFate ==
    ASSUME IInv, IInv', NEW x \in Ids', OnlyChanges(x), NEW c \in Batch, c # jobs'[x].batch
    PROVE  Fate(c)' = Fate(c)
  <1>1. FateByJobs /\ FateByJobs'
    BY FateFacts, FateFactsNext DEF IInv
  <1>2. c \in landed' <=> c \in landed
    BY DEF OnlyChanges
  <1>3. ASSUME NEW k \in Ids', jobs'[k].batch = c
        PROVE  /\ k \in Ids /\ jobs[k].batch = c
               /\ IsLive(k) <=> IsLive(k)'
               /\ (InHandler(k) \/ IsLetter(k)) <=> (InHandler(k) \/ IsLetter(k))'
    BY <1>3 DEF OnlyChanges
  <1>4. ASSUME NEW k \in Ids, jobs[k].batch = c
        PROVE  /\ k \in Ids' /\ jobs'[k].batch = c
               /\ IsLive(k) <=> IsLive(k)'
               /\ (InHandler(k) \/ IsLetter(k)) <=> (InHandler(k) \/ IsLetter(k))'
    BY <1>4 DEF OnlyChanges
  <1>5. Running(c)' <=> Running(c)
    BY <1>3, <1>4 DEF Running
  <1>6. Buried(c)' <=> Buried(c)
    BY <1>3, <1>4 DEF Buried
  <1> QED
    BY <1>1, <1>2, <1>5, <1>6 DEF FateByJobs

Fates == [b \in Batch |-> Fate(b)]

LEMMA FateStep ==
    ASSUME IInv, IInv', NothingDropped, NothingDropped', [Next]_vars
    PROVE  [D!Next]_Fates
  <1>1. Touches
    BY QueueAssumption, NextStep DEF IInv, IBounds
  <1>2. Fates' = [b \in Batch |-> Fate(b)']
    BY DEF Fates
  <1>3. CASE SameJobs
    <2>1. \A b : (Running(b)' <=> Running(b)) /\ (Buried(b)' <=> Buried(b)) /\ landed' = landed
      BY <1>3 DEF SameJobs, Running, Buried, IsLive, InHandler, IsLetter, Has, Ids
    <2>2. \A b \in Batch : Fate(b)' = Fate(b)
      BY <2>1, FateFacts, FateFactsNext DEF IInv, FateByJobs
    <2> QED
      BY <1>2, <2>2 DEF Fates
  <1>4. ASSUME NEW x \in Ids', OnlyChanges(x), x \notin Ids => IsLive(x)' /\ landed' = landed
        PROVE  [D!Next]_Fates
    <2>1. PICK b \in Batch : b = jobs'[x].batch
      <3>1. jobs' \in Seq(JobSet)
        BY DEF IInv, TypeOK
      <3>2. jobs'[x] \in JobSet
        BY <1>4, <3>1 DEF Ids
      <3> QED
        BY <3>2 DEF JobSet
    <2>2. Fates' = [Fates EXCEPT ![b] = Fate(b)']
      <3>1. \A c \in Batch \ {b} : Fate(c)' = Fate(c)
        BY <1>4, <2>1, OthersKeepFate
      <3> QED
        BY <1>2, <3>1 DEF Fates
    <2>3. Fates[b] = Fate(b)
      BY DEF Fates
    <2>4. /\ Fate(b) \in {"none", "pending", "landed", "dead"}
          /\ Fate(b)' \in {"none", "pending", "landed", "dead"}
          /\ Fate(b) = "landed" <=> b \in landed
          /\ Fate(b)' = "landed" <=> b \in landed'
          /\ b \in landed => b \in landed'
      BY <1>4, FateFacts, FateFactsNext DEF IInv, FateByJobs, OnlyChanges
    <2>5. Fate(b)' # "none"
      BY <1>4, <2>1, HasFateNext
    <2>6. CASE x \in Ids
      <3>1. Fate(b) # "none"
        BY <1>4, <2>1, <2>6, HasFate DEF OnlyChanges
      <3>2. \/ Fate(b)' = Fate(b)
            \/ Fate(b) \in {"pending", "dead"} /\ Fate(b)' = "landed"
            \/ Fate(b) = "pending" /\ Fate(b)' = "dead"
            \/ Fate(b) = "dead" /\ Fate(b)' = "pending"
        BY <2>4, <2>5, <3>1
      <3>3. CASE Fate(b)' = Fate(b)
        BY <2>2, <2>3, <3>3 DEF Fates
      <3>4. CASE Fate(b)' # Fate(b)
        <4>1. D!Land(b) \/ D!Bury(b) \/ D!Revive(b)
          BY <2>2, <2>3, <3>2, <3>4 DEF D!Land, D!Bury, D!Revive, D!Move, Fates
        <4> QED
          BY <4>1 DEF D!Next
      <3> QED
        BY <3>3, <3>4
    <2>7. CASE x \notin Ids
      <3>1. Running(b)'
        BY <1>4, <2>1, <2>7 DEF Running
      <3>2. Fate(b)' = IF b \in landed THEN "landed" ELSE "pending"
        BY <1>4, <2>7, <3>1, FateFactsNext DEF IInv, FateByJobs
      <3>3. CASE Fate(b)' = Fate(b)
        BY <2>2, <2>3, <3>3 DEF Fates
      <3>4. CASE Fate(b)' # Fate(b)
        <4>1. Fate(b)' = "pending" /\ Fate(b) \in {"none", "dead"}
          BY <2>4, <3>2, <3>4
        <4>2. D!Accept(b) \/ D!Revive(b)
          BY <2>2, <2>3, <4>1 DEF D!Accept, D!Revive, D!Move, Fates
        <4> QED
          BY <4>2 DEF D!Next
      <3> QED
        BY <3>3, <3>4
    <2> QED
      BY <2>6, <2>7
  <1> QED
    BY <1>1, <1>3, <1>4 DEF Touches

LEMMA FateInit == Init => D!Init
  <1>1. SUFFICES ASSUME Init PROVE \A b \in Batch : Fate(b) = "none"
    BY DEF D!Init
  <1>2. landed = {} /\ dlq = <<>> /\ \A w \in Worker : failing[w] = {}
    BY <1>1 DEF Init
  <1>3. Ids = {} /\ 1 .. Len(dlq) = {}
    BY <1>1, <1>2 DEF Init, Ids
  <1>4. \A b \in Batch : LiveJobs(b) = {} /\ Letters(b) = {} /\ Handlers(b) = {}
    BY <1>2, <1>3 DEF LiveJobs, Letters, Handlers
  <1> QED
    BY <1>2, <1>4 DEF Fate

(* The queue implements the safety of Delivery, whatever retries, stalls,  *)
(* crashes of workers, requests and replays, failed removals and rebuilds  *)
(* do: as long as no failed handler loses its dead letter, a batch that    *)
(* was enqueued is never forgotten and one that landed stays landed        *)
(* (queue.ts, index.ts, dlq.ts, ingest-health.ts).                         *)
THEOREM NothingForgotten == Spec /\ [](spent["dropped"] = 0) => D!Spec
  <1>1. Init => D!Init
    BY FateInit
  <1>2. IInv /\ IInv' /\ NothingDropped /\ NothingDropped' /\ [Next]_vars
          => [D!Next]_([b \in Batch |-> Fate(b)])
    BY FateStep DEF Fates
  <1>3. NothingDropped <=> spent["dropped"] = 0
    BY DEF NothingDropped
  <1> QED
    BY <1>1, <1>2, <1>3, Inductive, PTL DEF Spec, D!Spec

-----------------------------------------------------------------------------
(* How many elements.                                                      *)

LEMMA NoMore ==
    ASSUME NEW A, IsFiniteSet(A), NEW B, B \subseteq A
    PROVE  /\ IsFiniteSet(B) /\ Cardinality(A) \in Nat /\ Cardinality(B) \in Nat
           /\ Cardinality(B) <= Cardinality(A)
  BY FS_Subset, FS_CardinalityType

LEMMA OneMore ==
    ASSUME NEW A, IsFiniteSet(A), NEW x, NEW B, B \subseteq A \union {x}
    PROVE  /\ IsFiniteSet(B) /\ Cardinality(A) \in Nat /\ Cardinality(B) \in Nat
           /\ Cardinality(B) <= Cardinality(A) + 1
  <1>1. /\ IsFiniteSet(A \union {x}) /\ Cardinality(A) \in Nat
        /\ Cardinality(A \union {x}) \in Nat /\ Cardinality(A \union {x}) <= Cardinality(A) + 1
    BY FS_AddElement, FS_CardinalityType
  <1>2. /\ IsFiniteSet(B) /\ Cardinality(B) \in Nat /\ Cardinality(B) <= Cardinality(A \union {x})
    BY <1>1, NoMore
  <1> QED
    BY <1>1, <1>2

LEMMA OneLess ==
    ASSUME NEW A, IsFiniteSet(A), NEW x \in A, NEW B, B \subseteq A \ {x}
    PROVE  /\ IsFiniteSet(B) /\ Cardinality(A) \in Nat /\ Cardinality(B) \in Nat
           /\ Cardinality(B) + 1 <= Cardinality(A)
  <1>1. /\ IsFiniteSet(A \ {x}) /\ Cardinality(A) \in Nat
        /\ Cardinality(A \ {x}) \in Nat /\ Cardinality(A \ {x}) = Cardinality(A) - 1
    BY FS_RemoveElement, FS_CardinalityType
  <1>2. /\ IsFiniteSet(B) /\ Cardinality(B) \in Nat /\ Cardinality(B) <= Cardinality(A \ {x})
    BY <1>1, NoMore
  <1> QED
    BY <1>1, <1>2

LEMMA OneForAnother ==
    ASSUME NEW A, IsFiniteSet(A), NEW j \in A, NEW x, NEW B, B \subseteq (A \ {j}) \union {x}
    PROVE  Cardinality(B) \in Nat /\ Cardinality(A) \in Nat /\ Cardinality(B) <= Cardinality(A)
  <1>1. /\ IsFiniteSet(A \ {j}) /\ Cardinality(A) \in Nat
        /\ Cardinality(A \ {j}) \in Nat /\ Cardinality(A \ {j}) + 1 <= Cardinality(A)
    BY OneLess
  <1>2. Cardinality(B) \in Nat /\ Cardinality(B) <= Cardinality(A \ {j}) + 1
    BY <1>1, OneMore
  <1> QED
    BY <1>1, <1>2

LEMMA DisjointCount ==
    ASSUME NEW A, IsFiniteSet(A), NEW B, IsFiniteSet(B), A \cap B = {}
    PROVE  /\ IsFiniteSet(A \union B)
           /\ Cardinality(A \union B) = Cardinality(A) + Cardinality(B)
  <1>1. /\ IsFiniteSet(A \union B)
        /\ Cardinality(A \union B) = Cardinality(A) + Cardinality(B) - Cardinality(A \cap B)
    BY FS_Union
  <1>2. Cardinality(A \cap B) = 0 /\ Cardinality(A) \in Nat /\ Cardinality(B) \in Nat
    BY FS_EmptySet, FS_CardinalityType
  <1> QED
    BY <1>1, <1>2

LEMMA InjectedCount ==
    ASSUME NEW S, NEW T, IsFiniteSet(T), NEW f \in [S -> T], \A a, b \in S : f[a] = f[b] => a = b
    PROVE  IsFiniteSet(S) /\ Cardinality(S) <= Cardinality(T)
  <1>1. f \in Injection(S, T)
    BY Fun_IsInj
  <1> QED
    BY <1>1, FS_Injection

LEMMA IdsFinite ==
    ASSUME jobs \in Seq(JobSet)
    PROVE  IsFiniteSet(Ids)
  <1>1. Ids = 1 .. Len(jobs) /\ Len(jobs) \in Int
    BY ListFacts
  <1>2. PICK n \in Int : Ids = 1 .. n
    BY <1>1
  <1> QED
    BY <1>2, FS_Interval

LEMMA ImageCount ==
    ASSUME NEW f, NEW a \in Nat, NEW b \in Nat, a <= b, NEW T, T = {f[i] : i \in a .. b}
    PROVE  /\ IsFiniteSet(T) /\ Cardinality(T) \in Nat /\ Cardinality(T) <= b - a + 1
  <1>1. IsFiniteSet(a .. b) /\ Cardinality(a .. b) = b - a + 1
    BY FS_Interval
  <1>2. PICK g : g = [i \in a .. b |-> f[i]]
    OBVIOUS
  <1>3. g \in Surjection(a .. b, T)
    BY <1>2 DEF Surjection
  <1>4. IsFiniteSet(T) /\ Cardinality(T) <= Cardinality(a .. b)
    BY <1>1, <1>3, FS_Surjection
  <1> QED
    BY <1>1, <1>4, FS_CardinalityType

LEMMA UnionCount ==
    ASSUME NEW A, IsFiniteSet(A), NEW B, IsFiniteSet(B)
    PROVE  /\ IsFiniteSet(A \union B) /\ Cardinality(A \union B) \in Nat
           /\ Cardinality(A) \in Nat /\ Cardinality(B) \in Nat
           /\ Cardinality(A \union B) <= Cardinality(A) + Cardinality(B)
  <1>1. /\ IsFiniteSet(A \union B)
        /\ Cardinality(A \union B) = Cardinality(A) + Cardinality(B) - Cardinality(A \cap B)
    BY FS_Union
  <1>2. IsFiniteSet(A \cap B) /\ Cardinality(A \cap B) \in Nat
    BY NoMore
  <1>3. Cardinality(A) \in Nat /\ Cardinality(B) \in Nat /\ Cardinality(A \union B) \in Nat
    BY <1>1, FS_CardinalityType
  <1> QED
    BY <1>1, <1>2, <1>3

-----------------------------------------------------------------------------
(* Replays miss no letter: how a call of replayDlq keeps its place in the  *)
(* dead-letter queue while letters are removed behind it and added in      *)
(* front of it.                                                            *)

NoTwice(queue) == \A i, k \in DOMAIN queue : queue[i] = queue[k] => i = k

\* The page in hand is what the queue holds from p on, behind the letters kept
\* and ahead of every letter still to be tried, but for those passed over: as
\* many as there were removals done though they threw, one for each letter by
\* which the offset is ahead of the page.
PagedFrom(queue, call, p, passed) ==
    /\ 1 <= p /\ p + Len(call.page) <= Len(queue) + 1
    /\ \A k \in 1 .. Len(call.page) : call.page[k] = queue[p + k - 1]
    /\ IsFiniteSet(passed) /\ Cardinality(passed) <= call.gone
    /\ call.kept + Cardinality(passed) < p + call.gone
    /\ \A i \in 1 .. Len(queue) : queue[i] \in call.todo \ passed => p <= i
    /\ call.pc = "remove" => call.page # <<>> /\ queue[p] \notin call.todo
    /\ call.pc # "page" /\ call.last => \A j \in call.todo \ passed : Has(call.page, j)

\* The letters still to be tried are in the queue, on the page in hand if it is the last.
Tracks(queue, call) ==
    /\ \E p \in Nat : \E passed : PagedFrom(queue, call, p, passed)
    /\ \A j \in call.todo : Has(queue, j)
    /\ call.pc = "page" => call.page = <<>>

\* What a call holds, over any set of job ids.
CallOver(S) == [pc: {"idle", "page", "step", "remove", "done"},
                scope: Project \union {None}, page: Seq(S), last: BOOLEAN,
                kept: Nat, replayed: Nat, todo: SUBSET S, gone: Nat]

(* A page without its first letter.                                        *)
LEMMA TailFacts ==
    ASSUME NEW S, NEW page \in Seq(S), page # <<>>
    PROVE  /\ Len(page) \in Nat \ {0} /\ Head(page) = page[1] /\ Head(page) \in S
           /\ Tail(page) \in Seq(S) /\ Len(Tail(page)) = Len(page) - 1
           /\ \A k \in 1 .. Len(page) - 1 : Tail(page)[k] = page[k + 1]
           /\ \A j : Has(page, j) /\ j # Head(page) => Has(Tail(page), j)
  <1>1. Len(page) \in Nat \ {0} /\ Head(page) = page[1] /\ Head(page) \in S
    BY HeadTailProperties, EmptySeq
  <1>2. Tail(page) \in Seq(S) /\ Len(Tail(page)) = Len(page) - 1
    BY HeadTailProperties
  <1>3. \A k \in 1 .. Len(page) - 1 : Tail(page)[k] = page[k + 1]
    BY <1>2, HeadTailProperties
  <1>4. ASSUME NEW j, Has(page, j), j # Head(page) PROVE Has(Tail(page), j)
    <2>1. PICK i \in DOMAIN page : page[i] = j
      BY <1>4 DEF Has
    <2>2. i - 1 \in 1 .. Len(page) - 1 /\ (i - 1) + 1 = i
      BY <1>1, <1>4, <2>1
    <2>3. Tail(page)[i - 1] = j /\ i - 1 \in DOMAIN Tail(page)
      BY <1>2, <1>3, <2>1, <2>2
    <2> QED
      BY <2>3 DEF Has
  <1> QED
    BY <1>1, <1>2, <1>3, <1>4

(* The call keeps the letter in hand: it stays behind the rest of the page. *)
LEMMA TracksKept ==
    ASSUME NEW S, NEW queue \in Seq(S), NEW call \in CallOver(S), Tracks(queue, call),
           call.pc \in {"step", "remove"}, call.page # <<>>,
           NEW after, after = [call EXCEPT !.pc = "step", !.page = Tail(@), !.kept = @ + 1,
                                           !.todo = @ \ {Head(call.page)}]
    PROVE  Tracks(queue, after)
  <1>1. PICK page \in Seq(S), kept \in Nat, gone \in Nat, todo \in SUBSET S :
           page = call.page /\ kept = call.kept /\ gone = call.gone /\ todo = call.todo
    BY DEF CallOver
  <1>2. PICK j : j = Head(page)
    OBVIOUS
  <1>3. /\ after.pc = "step" /\ after.page = Tail(page) /\ after.kept = kept + 1
        /\ after.todo = todo \ {j} /\ after.last = call.last /\ after.gone = gone
    BY <1>1, <1>2 DEF CallOver
  <1>4. /\ Len(page) \in Nat \ {0} /\ j = page[1] /\ Len(Tail(page)) = Len(page) - 1
        /\ \A k \in 1 .. Len(page) - 1 : Tail(page)[k] = page[k + 1]
        /\ \A k : Has(page, k) /\ k # j => Has(Tail(page), k)
    BY <1>1, <1>2, TailFacts
  <1>5. PICK p \in Nat : \E passed : PagedFrom(queue, call, p, passed)
    BY DEF Tracks
  <1>6. PICK passed : PagedFrom(queue, call, p, passed)
    BY <1>5
  <1>7. PICK many \in Nat : many = Cardinality(passed)
    BY <1>6, FS_CardinalityType DEF PagedFrom
  <1>8. /\ 1 <= p /\ p + Len(page) <= Len(queue) + 1 /\ Len(queue) \in Nat
        /\ \A k \in 1 .. Len(page) : page[k] = queue[p + k - 1]
        /\ IsFiniteSet(passed) /\ many <= gone /\ kept + many < p + gone
        /\ \A i \in 1 .. Len(queue) : queue[i] \in todo \ passed => p <= i
        /\ call.last => \A k \in todo \ passed : Has(page, k)
    BY <1>1, <1>6, <1>7 DEF PagedFrom
  <1>9. ASSUME NEW k \in 1 .. Len(page) - 1 PROVE Tail(page)[k] = queue[(p + 1) + k - 1]
    <2>1. k + 1 \in 1 .. Len(page) /\ p + (k + 1) - 1 = (p + 1) + k - 1
      BY <1>4
    <2> QED
      BY <1>4, <1>8, <2>1
  <1>10. ASSUME NEW i \in 1 .. Len(queue), queue[i] \in (todo \ {j}) \ passed PROVE p + 1 <= i
    <2>1. 1 \in 1 .. Len(page) /\ p + 1 - 1 = p
      BY <1>4
    <2>2. queue[p] = j
      BY <1>4, <1>8, <2>1
    <2>3. p <= i /\ i # p
      BY <1>8, <1>10, <2>2
    <2> QED
      BY <1>8, <2>3
  <1>11. call.last => \A k \in (todo \ {j}) \ passed : Has(Tail(page), k)
    BY <1>4, <1>8
  <1>12. PagedFrom(queue, after, p + 1, passed)
    <2>1. /\ 1 <= p + 1 /\ (p + 1) + (Len(page) - 1) <= Len(queue) + 1
          /\ (kept + 1) + many < (p + 1) + gone
      BY <1>4, <1>8
    <2> QED
      BY <1>3, <1>4, <1>7, <1>8, <1>9, <1>10, <1>11, <2>1 DEF PagedFrom
  <1>13. \A k \in todo \ {j} : Has(queue, k)
    BY <1>1 DEF Tracks
  <1>14. \E q \in Nat : \E gap : PagedFrom(queue, after, q, gap)
    <2>1. p + 1 \in Nat
      OBVIOUS
    <2> QED
      BY <1>12, <2>1
  <1> QED
    BY <1>3, <1>13, <1>14 DEF Tracks

(* The letter in hand was enqueued again: it is still there, and tried.    *)
LEMMA TracksTried ==
    ASSUME NEW S, NEW queue \in Seq(S), NEW call \in CallOver(S), Tracks(queue, call),
           call.pc = "step", call.page # <<>>,
           NEW after, after = [call EXCEPT !.pc = "remove", !.todo = @ \ {Head(call.page)}]
    PROVE  Tracks(queue, after)
  <1>1. PICK page \in Seq(S), todo \in SUBSET S, j \in S :
           page = call.page /\ todo = call.todo /\ j = Head(page)
    BY TailFacts DEF CallOver
  <1>2. /\ after.pc = "remove" /\ after.page = page /\ after.kept = call.kept
        /\ after.todo = todo \ {j} /\ after.last = call.last /\ after.gone = call.gone
    BY <1>1 DEF CallOver
  <1>3. PICK p \in Nat : \E passed : PagedFrom(queue, call, p, passed)
    BY DEF Tracks
  <1>4. PICK passed : PagedFrom(queue, call, p, passed)
    BY <1>3
  <1>5. queue[p] = j
    <2>1. Len(page) \in Nat \ {0} /\ j = page[1]
      BY <1>1, TailFacts
    <2>2. 1 \in 1 .. Len(page) /\ p + 1 - 1 = p
      BY <2>1
    <2> QED
      BY <1>1, <1>4, <2>1, <2>2 DEF PagedFrom
  <1>6. PagedFrom(queue, after, p, passed)
    BY <1>1, <1>2, <1>4, <1>5 DEF PagedFrom
  <1> QED
    BY <1>1, <1>2, <1>6 DEF Tracks

(* The letter in hand is removed: the rest of the page moves up to it, and *)
(* so does the offset if the letter is counted as kept.                    *)
LEMMA TracksRemoved ==
    ASSUME NEW S, NEW queue \in Seq(S), NoTwice(queue),
           NEW call \in CallOver(S), Tracks(queue, call), call.pc = "remove",
           NEW after, NEW n \in Nat,
           after.pc = "step", after.page = Tail(call.page), after.todo = call.todo, after.last = call.last,
           after.kept = call.kept + n, after.gone = call.gone + n
    PROVE  Tracks(Without(queue, Head(call.page)), after)
  <1>1. PICK page \in Seq(S), kept \in Nat, gone \in Nat, todo \in SUBSET S, j \in S :
           /\ page = call.page /\ kept = call.kept /\ gone = call.gone
           /\ todo = call.todo /\ j = Head(page)
    BY TailFacts DEF CallOver, Tracks, PagedFrom
  <1>2. /\ after.pc = "step" /\ after.page = Tail(page) /\ after.kept = kept + n
        /\ after.todo = todo /\ after.last = call.last /\ after.gone = gone + n
    BY <1>1
  <1>3. PICK p \in Nat : \E passed : PagedFrom(queue, call, p, passed)
    BY DEF Tracks
  <1>4. PICK passed : PagedFrom(queue, call, p, passed)
    BY <1>3
  <1>5. PICK many \in Nat : many = Cardinality(passed)
    BY <1>4, FS_CardinalityType DEF PagedFrom
  <1>6. /\ 1 <= p /\ p + Len(page) <= Len(queue) + 1 /\ Len(queue) \in Nat /\ page # <<>>
        /\ \A k \in 1 .. Len(page) : page[k] = queue[p + k - 1]
        /\ IsFiniteSet(passed) /\ many <= gone /\ kept + many < p + gone
        /\ \A i \in 1 .. Len(queue) : queue[i] \in todo \ passed => p <= i
        /\ queue[p] \notin todo
        /\ call.last => \A k \in todo \ passed : Has(page, k)
    <2>1. /\ page # <<>> /\ queue[p] \notin todo
          /\ call.last => \A k \in todo \ passed : Has(page, k)
      BY <1>1, <1>4 DEF PagedFrom
    <2>2. /\ 1 <= p /\ p + Len(page) <= Len(queue) + 1
          /\ \A k \in 1 .. Len(page) : page[k] = queue[p + k - 1]
          /\ \A i \in 1 .. Len(queue) : queue[i] \in todo \ passed => p <= i
      BY <1>1, <1>4 DEF PagedFrom
    <2>3. IsFiniteSet(passed) /\ many <= gone /\ kept + many < p + gone
      BY <1>1, <1>4, <1>5 DEF PagedFrom
    <2> QED
      BY <2>1, <2>2, <2>3
  <1>7. /\ Len(page) \in Nat \ {0} /\ j = page[1] /\ Len(Tail(page)) = Len(page) - 1
        /\ \A k \in 1 .. Len(page) - 1 : Tail(page)[k] = page[k + 1]
        /\ \A k : Has(page, k) /\ k # j => Has(Tail(page), k)
    <2>1. page \in Seq(S) /\ page # <<>> /\ j = Head(page)
      BY <1>1, <1>6
    <2>2. /\ Len(page) \in Nat \ {0} /\ Head(page) = page[1] /\ Len(Tail(page)) = Len(page) - 1
          /\ \A k \in 1 .. Len(page) - 1 : Tail(page)[k] = page[k + 1]
          /\ \A k : Has(page, k) /\ k # Head(page) => Has(Tail(page), k)
      BY <2>1, TailFacts
    <2> QED
      BY <2>1, <2>2
  <1>8. queue[p] = j /\ p \in 1 .. Len(queue)
    <2>1. 1 \in 1 .. Len(page) /\ p + 1 - 1 = p
      BY <1>7
    <2>2. queue[p] = page[1]
      BY <1>6, <2>1
    <2>3. p \in 1 .. Len(queue)
      BY <1>6, <1>7
    <2> QED
      BY <1>7, <2>2, <2>3
  <1>9. Has(queue, j)
    BY <1>8 DEF Has
  <1>10. PICK rest : rest = Without(queue, j)
    OBVIOUS
  <1>11. PICK at \in 1 .. Len(queue) :
           /\ queue[at] = j
           /\ \A i \in 1 .. Len(queue) - 1 : rest[i] = IF i < at THEN queue[i] ELSE queue[i + 1]
    BY <1>9, <1>10, WithoutShifts
  <1>12. at = p
    BY <1>8, <1>11 DEF NoTwice
  <1>13. rest \in Seq(S) /\ Len(rest) = Len(queue) - 1
    BY <1>9, <1>10, WithoutShifts
  <1>14. ASSUME NEW k \in 1 .. Len(page) - 1 PROVE Tail(page)[k] = rest[p + k - 1]
    <2>1. k + 1 \in 1 .. Len(page) /\ p + (k + 1) - 1 = p + k
      BY <1>7
    <2>2. Tail(page)[k] = queue[p + k]
      BY <1>6, <1>7, <2>1
    <2>3. PICK i \in 1 .. Len(queue) - 1 : i = p + k - 1 /\ i + 1 = p + k /\ ~(i < p)
      BY <1>6, <1>7
    <2>4. rest[i] = queue[i + 1]
      BY <1>11, <1>12, <2>3
    <2> QED
      BY <2>2, <2>3, <2>4
  <1>15. ASSUME NEW i \in 1 .. Len(queue) - 1, rest[i] \in todo \ passed PROVE p <= i
    <2>1. SUFFICES ASSUME i < p PROVE FALSE
      BY <1>6
    <2>2. rest[i] = queue[i] /\ i \in 1 .. Len(queue)
      BY <1>6, <1>11, <1>12, <2>1
    <2> QED
      BY <1>6, <1>15, <2>1, <2>2
  <1>16. j \notin todo
    BY <1>6, <1>8
  <1>17. call.last => \A k \in todo \ passed : Has(Tail(page), k)
    BY <1>6, <1>7, <1>16
  <1>18. PagedFrom(rest, after, p, passed)
    <2>1. /\ p + (Len(page) - 1) <= (Len(queue) - 1) + 1
          /\ many <= gone + n /\ (kept + n) + many < p + (gone + n)
      BY <1>6, <1>7
    <2>2. /\ p + Len(after.page) <= Len(rest) + 1
          /\ \A k \in 1 .. Len(after.page) : after.page[k] = rest[p + k - 1]
      BY <1>2, <1>7, <1>13, <1>14, <2>1
    <2>3. Cardinality(passed) <= after.gone /\ after.kept + Cardinality(passed) < p + after.gone
      BY <1>2, <1>5, <2>1
    <2>4. /\ \A i \in 1 .. Len(rest) : rest[i] \in after.todo \ passed => p <= i
          /\ after.pc # "page" /\ after.last => \A k \in after.todo \ passed : Has(after.page, k)
      BY <1>2, <1>13, <1>15, <1>17
    <2>5. 1 <= p /\ IsFiniteSet(passed) /\ after.pc # "remove"
      BY <1>2, <1>6
    <2> QED
      BY <2>2, <2>3, <2>4, <2>5 DEF PagedFrom
  <1>19. \A k \in todo : Has(rest, k)
    BY <1>1, <1>10, <1>16, WithoutFacts DEF Tracks
  <1> QED
    BY <1>1, <1>2, <1>10, <1>18, <1>19 DEF Tracks

(* A new letter goes in front: the page and the letters to try move back.  *)
LEMMA TracksBehind ==
    ASSUME NEW S, NEW queue \in Seq(S), NEW call \in CallOver(S), Tracks(queue, call),
           NEW j \in S, j \notin call.todo
    PROVE  Tracks(InFront(j, queue), call)
  <1>1. PICK page \in Seq(S), kept \in Nat, gone \in Nat, todo \in SUBSET S :
           page = call.page /\ kept = call.kept /\ gone = call.gone /\ todo = call.todo
    BY DEF CallOver
  <1>2. PICK t : t = InFront(j, queue)
    OBVIOUS
  <1>3. /\ t \in Seq(S) /\ Len(t) = Len(queue) + 1 /\ t[1] = j
        /\ \A i \in 1 .. Len(queue) : t[i + 1] = queue[i]
    BY <1>2 DEF InFront
  <1>4. PICK p \in Nat : \E passed : PagedFrom(queue, call, p, passed)
    BY DEF Tracks
  <1>5. PICK passed : PagedFrom(queue, call, p, passed)
    BY <1>4
  <1>6. PICK many \in Nat : many = Cardinality(passed)
    BY <1>5, FS_CardinalityType DEF PagedFrom
  <1>7. /\ 1 <= p /\ p + Len(page) <= Len(queue) + 1 /\ Len(queue) \in Nat /\ Len(page) \in Nat
        /\ \A k \in 1 .. Len(page) : page[k] = queue[p + k - 1]
        /\ IsFiniteSet(passed) /\ many <= gone /\ kept + many < p + gone
        /\ \A i \in 1 .. Len(queue) : queue[i] \in todo \ passed => p <= i
        /\ call.pc # "page" /\ call.last => \A k \in todo \ passed : Has(page, k)
    <2>1. Len(queue) \in Nat /\ Len(page) \in Nat
      BY <1>1
    <2>2. /\ 1 <= p /\ p + Len(page) <= Len(queue) + 1
          /\ \A k \in 1 .. Len(page) : page[k] = queue[p + k - 1]
          /\ \A i \in 1 .. Len(queue) : queue[i] \in todo \ passed => p <= i
      BY <1>1, <1>5 DEF PagedFrom
    <2>3. IsFiniteSet(passed) /\ many <= gone /\ kept + many < p + gone
      BY <1>1, <1>5, <1>6 DEF PagedFrom
    <2>4. call.pc # "page" /\ call.last => \A k \in todo \ passed : Has(page, k)
      BY <1>1, <1>5 DEF PagedFrom
    <2> QED
      BY <2>1, <2>2, <2>3, <2>4
  <1>8. ASSUME NEW k \in 1 .. Len(page) PROVE page[k] = t[(p + 1) + k - 1]
    <2>1. p + k - 1 \in 1 .. Len(queue) /\ (p + k - 1) + 1 = (p + 1) + k - 1
      BY <1>7
    <2> QED
      BY <1>3, <1>7, <2>1
  <1>9. ASSUME NEW i \in 1 .. Len(t), t[i] \in todo \ passed PROVE p + 1 <= i
    <2>1. i # 1
      BY <1>1, <1>3, <1>9
    <2>2. i - 1 \in 1 .. Len(queue) /\ (i - 1) + 1 = i
      BY <1>3, <1>7, <2>1
    <2>3. p <= i - 1
      BY <1>3, <1>7, <1>9, <2>2
    <2> QED
      BY <2>3
  <1>10. call.pc = "remove" => page # <<>> /\ t[p + 1] \notin todo
    <2>1. SUFFICES ASSUME call.pc = "remove" PROVE page # <<>> /\ t[p + 1] \notin todo
      OBVIOUS
    <2>2. page # <<>> /\ queue[p] \notin todo
      BY <1>1, <1>5, <2>1 DEF PagedFrom
    <2>3. Len(page) # 0
      BY <2>2, EmptySeq
    <2>4. p \in 1 .. Len(queue)
      BY <1>7, <2>3
    <2> QED
      BY <1>3, <2>2, <2>4
  <1>11. PagedFrom(t, call, p + 1, passed)
    <2>1. /\ 1 <= p + 1 /\ (p + 1) + Len(page) <= (Len(queue) + 1) + 1
          /\ kept + many < (p + 1) + gone
      BY <1>7
    <2> QED
      BY <1>1, <1>3, <1>6, <1>7, <1>8, <1>9, <1>10, <2>1 DEF PagedFrom
  <1>12. \A k \in todo : Has(t, k)
    BY <1>1, <1>2, ConsFacts DEF Tracks
  <1>13. \E q \in Nat : \E gap : PagedFrom(t, call, q, gap)
    <2>1. p + 1 \in Nat
      OBVIOUS
    <2> QED
      BY <1>11, <2>1
  <1> QED
    BY <1>1, <1>2, <1>12, <1>13 DEF Tracks

(* What a page cut from the queue holds.                                   *)
LEMMA CutFacts ==
    ASSUME NEW S, NEW queue \in Seq(S), NEW kept \in Nat, NEW to \in Int, to <= Len(queue),
           NEW page, page = SubSeq(queue, kept + 1, to)
    PROVE  /\ page \in Seq(S)
           /\ IF kept < to THEN Len(page) = to - kept ELSE page = <<>>
           /\ \A k \in 1 .. to - kept : page[k] = queue[kept + k]
  <1>1. \A i \in kept + 1 .. to : queue[i] \in S
    <2>1. Len(queue) \in Nat
      OBVIOUS
    <2>2. ASSUME NEW i \in kept + 1 .. to PROVE i \in 1 .. Len(queue)
      BY <2>1
    <2> QED
      BY <2>2, ElementOfSeq
  <1>2. PICK from \in Int : from = kept + 1
    OBVIOUS
  <1>3. /\ page \in Seq(S) /\ Len(page) = IF from <= to THEN to - from + 1 ELSE 0
        /\ \A k \in 1 .. to - from + 1 : page[k] = queue[from + k - 1]
    <2>1. page = SubSeq(queue, from, to) /\ \A i \in from .. to : queue[i] \in S
      BY <1>1, <1>2
    <2> QED
      BY <2>1, SubSeqProperties
  <1>4. to - from + 1 = to - kept /\ (from <= to <=> kept < to)
    BY <1>2
  <1>5. ASSUME NEW k \in 1 .. to - kept PROVE page[k] = queue[kept + k]
    <2>1. from + k - 1 = kept + k
      BY <1>2
    <2> QED
      BY <1>3, <1>4, <2>1
  <1>6. Len(page) = 0 => page = <<>>
    BY <1>3, EmptySeq
  <1> QED
    BY <1>3, <1>4, <1>5, <1>6

(* The letters between the page done and the next one are passed over: no  *)
(* more of them than the offset is ahead.                                  *)
LEMMA PassedOver ==
    ASSUME NEW S, NEW queue \in Seq(S), NEW call \in CallOver(S), Tracks(queue, call)
    PROVE  \E passed : /\ IsFiniteSet(passed) /\ Cardinality(passed) <= call.gone
                       /\ \A i \in 1 .. Len(queue) : queue[i] \in call.todo \ passed => call.kept < i
  <1>1. PICK kept \in Nat, gone \in Nat, todo \in SUBSET S :
           kept = call.kept /\ gone = call.gone /\ todo = call.todo
    BY DEF CallOver
  <1>2. PICK p \in Nat : \E before : PagedFrom(queue, call, p, before)
    BY DEF Tracks
  <1>3. PICK before : PagedFrom(queue, call, p, before)
    BY <1>2
  <1>4. PICK many \in Nat : many = Cardinality(before)
    BY <1>3, FS_CardinalityType DEF PagedFrom
  <1>5. /\ IsFiniteSet(before) /\ many <= gone /\ kept + many < p + gone
        /\ \A i \in 1 .. Len(queue) : queue[i] \in todo \ before => p <= i
    BY <1>1, <1>3, <1>4 DEF PagedFrom
  <1>6. CASE kept < p
    <2>1. ASSUME NEW i \in 1 .. Len(queue), queue[i] \in todo \ before PROVE kept < i
      BY <1>5, <1>6, <2>1
    <2> QED
      BY <1>1, <1>4, <1>5, <2>1
  <1>7. CASE p <= kept
    <2>1. PICK gap : gap = {queue[i] : i \in p .. kept}
      OBVIOUS
    <2>2. IsFiniteSet(gap) /\ Cardinality(gap) \in Nat /\ Cardinality(gap) <= kept - p + 1
      BY <1>7, <2>1, ImageCount
    <2>3. PICK passed : passed = before \union gap
      OBVIOUS
    <2>4. /\ IsFiniteSet(passed) /\ Cardinality(passed) \in Nat
          /\ Cardinality(passed) <= many + Cardinality(gap)
      BY <1>4, <1>5, <2>2, <2>3, UnionCount
    <2>5. Cardinality(passed) <= gone
      BY <1>5, <2>2, <2>4
    <2>6. ASSUME NEW i \in 1 .. Len(queue), queue[i] \in todo \ passed PROVE kept < i
      <3>1. p <= i
        BY <1>5, <2>3, <2>6
      <3>2. i \notin p .. kept
        BY <2>1, <2>3, <2>6
      <3> QED
        BY <3>1, <3>2
    <2> QED
      BY <1>1, <2>4, <2>5, <2>6
  <1> QED
    BY <1>6, <1>7

(* The next page: it starts behind the letters kept, and when it is short  *)
(* it reaches the end of the queue.                                        *)
LEMMA TracksPaged ==
    ASSUME NEW S, NEW queue \in Seq(S), NEW call \in CallOver(S), Tracks(queue, call), call.pc = "page",
           NEW want \in Int, NEW to \in Int, to <= Len(queue),
           to = call.kept + want \/ to = Len(queue),
           NEW page, page = SubSeq(queue, call.kept + 1, to),
           NEW after, after = [call EXCEPT !.pc = "step", !.page = page, !.last = Len(page) < want]
    PROVE  /\ page # <<>> => Tracks(queue, after)
           /\ page = <<>> /\ want > 0 => Cardinality(call.todo) <= call.gone
  <1>1. PICK kept \in Nat, gone \in Nat, todo \in SUBSET S :
           kept = call.kept /\ gone = call.gone /\ todo = call.todo
    BY DEF CallOver
  <1>2. /\ after.pc = "step" /\ after.page = page /\ after.kept = kept
        /\ after.todo = todo /\ after.last = (Len(page) < want) /\ after.gone = gone
    BY <1>1 DEF CallOver
  <1>3. PICK n \in Nat : n = Len(queue)
    OBVIOUS
  <1>4. to <= n /\ (to = kept + want \/ to = n)
    BY <1>1, <1>3
  <1>5. /\ IF kept < to THEN Len(page) = to - kept ELSE page = <<>>
        /\ \A k \in 1 .. to - kept : page[k] = queue[kept + k]
        /\ page \in Seq(S)
    <2>1. page = SubSeq(queue, kept + 1, to)
      BY <1>1
    <2> QED
      BY ONLY queue \in Seq(S), kept \in Nat, to \in Int, to <= Len(queue), <2>1, CutFacts
  <1>6. PICK passed : /\ IsFiniteSet(passed) /\ Cardinality(passed) <= gone
                      /\ \A i \in 1 .. n : queue[i] \in todo \ passed => kept < i
    BY <1>1, <1>3, PassedOver
  <1>7. Cardinality(passed) \in Nat
    BY <1>6, FS_CardinalityType
  <1>8. \A j \in todo : \E i \in 1 .. n : queue[i] = j
    BY <1>1, <1>3 DEF Tracks, Has
  <1>9. ASSUME page # <<>> PROVE Tracks(queue, after)
    <2>1. PICK size \in Nat : size = Len(page)
      BY <1>5
    <2>2. kept < to /\ size = to - kept
      BY <1>5, <1>9, <2>1
    <2>3. ASSUME NEW k \in 1 .. size PROVE page[k] = queue[(kept + 1) + k - 1]
      <3>1. (kept + 1) + k - 1 = kept + k /\ k \in 1 .. to - kept
        BY <2>2
      <3> QED
        BY <1>5, <3>1
    <2>4. \A i \in 1 .. n : queue[i] \in todo \ passed => kept + 1 <= i
      BY <1>6
    <2>5. /\ 1 <= kept + 1 /\ (kept + 1) + size <= n + 1
          /\ kept + Cardinality(passed) < (kept + 1) + gone
      BY <1>4, <1>6, <1>7, <2>2
    <2>6. ASSUME size < want, NEW j \in todo \ passed PROVE Has(page, j)
      <3>1. to = n
        BY <1>4, <2>2, <2>6
      <3>2. PICK i \in 1 .. n : queue[i] = j
        BY <1>8
      <3>3. kept < i
        BY <1>6, <3>2
      <3>4. PICK k \in 1 .. to - kept : kept + k = i /\ k \in 1 .. size
        <4>1. i - kept \in 1 .. to - kept /\ kept + (i - kept) = i /\ i - kept \in 1 .. size
          BY <2>2, <3>1, <3>3
        <4> QED
          BY <4>1
      <3>5. page[k] = j
        BY <1>5, <3>2, <3>4
      <3>6. k \in DOMAIN page
        BY <1>5, <2>1, <3>4
      <3> QED
        BY <3>5, <3>6 DEF Has
    <2>7. PagedFrom(queue, after, kept + 1, passed)
      <3>1. /\ after.pc # "remove" /\ 1 <= kept + 1 /\ (kept + 1) + Len(after.page) <= Len(queue) + 1
            /\ IsFiniteSet(passed) /\ Cardinality(passed) <= after.gone
            /\ after.kept + Cardinality(passed) < (kept + 1) + after.gone
        BY <1>2, <1>3, <1>6, <2>1, <2>5
      <3>2. \A k \in 1 .. Len(after.page) : after.page[k] = queue[(kept + 1) + k - 1]
        BY <1>2, <2>1, <2>3
      <3>3. \A i \in 1 .. Len(queue) : queue[i] \in after.todo \ passed => kept + 1 <= i
        BY <1>2, <1>3, <2>4
      <3>4. after.last => \A j \in after.todo \ passed : Has(after.page, j)
        BY <1>2, <2>1, <2>6
      <3> QED
        BY <3>1, <3>2, <3>3, <3>4 DEF PagedFrom
    <2>8. kept + 1 \in Nat
      OBVIOUS
    <2>9. \A j \in todo : Has(queue, j)
      BY <1>1 DEF Tracks
    <2> QED
      BY <1>2, <2>7, <2>8, <2>9 DEF Tracks
  <1>10. ASSUME page = <<>>, want > 0 PROVE Cardinality(todo) <= gone
    <2>1. ~(kept < to)
      <3>1. Len(page) = 0
        BY <1>10, EmptySeq
      <3> QED
        BY <1>5, <3>1
    <2>2. n <= kept
      BY <1>4, <1>10, <2>1
    <2>3. ASSUME NEW j \in todo PROVE j \in passed
      <3>1. PICK i \in 1 .. n : queue[i] = j
        BY <1>8
      <3>2. j \notin passed => kept < i
        BY <1>6, <3>1
      <3> QED
        BY <2>2, <3>2
    <2>4. Cardinality(todo) \in Nat /\ Cardinality(todo) <= Cardinality(passed)
      BY <1>6, <2>3, NoMore
    <2> QED
      BY <1>6, <1>7, <2>4
  <1> QED
    BY <1>1, <1>9, <1>10

(* A page is done: the call goes for the next, unless nothing is left but  *)
(* what was passed over.                                                   *)
LEMMA TracksDone ==
    ASSUME NEW S, NEW queue \in Seq(S), NEW call \in CallOver(S), Tracks(queue, call),
           call.pc = "step", call.page = <<>>
    PROVE  /\ call.last => Cardinality(call.todo) <= call.gone
           /\ Tracks(queue, [call EXCEPT !.pc = "page"])
  <1>1. PICK p \in Nat : \E passed : PagedFrom(queue, call, p, passed)
    BY DEF Tracks
  <1>2. PICK passed : PagedFrom(queue, call, p, passed)
    BY <1>1
  <1>3. ASSUME call.last PROVE Cardinality(call.todo) <= call.gone
    <2>1. ~ \E j : Has(<<>>, j)
      BY DEF Has
    <2>2. \A j \in call.todo \ passed : Has(<<>>, j)
      BY <1>2, <1>3 DEF PagedFrom
    <2>3. call.todo \subseteq passed /\ IsFiniteSet(passed) /\ Cardinality(passed) <= call.gone
      BY <1>2, <2>1, <2>2 DEF PagedFrom
    <2>4. /\ Cardinality(call.todo) \in Nat /\ Cardinality(passed) \in Nat
          /\ Cardinality(call.todo) <= Cardinality(passed)
      BY <2>3, NoMore
    <2>5. call.gone \in Nat
      BY DEF CallOver
    <2> QED
      BY <2>3, <2>4, <2>5
  <1>4. PICK after : after = [call EXCEPT !.pc = "page"]
    OBVIOUS
  <1>5. /\ after.pc = "page" /\ after.page = <<>> /\ after.kept = call.kept
        /\ after.todo = call.todo /\ after.last = call.last /\ after.gone = call.gone
    BY <1>4 DEF CallOver
  <1>6. PagedFrom(queue, after, p, passed)
    BY <1>2, <1>5 DEF PagedFrom
  <1>7. Tracks(queue, after)
    BY <1>5, <1>6 DEF Tracks
  <1> QED
    BY <1>3, <1>4, <1>7

(* A call begins at the head of the queue.                                 *)
LEMMA TracksBegun ==
    ASSUME NEW S, NEW queue \in Seq(S), NEW call, call.pc = "page", call.page = <<>>,
           call.kept = 0, call.gone = 0, \A j \in call.todo : Has(queue, j)
    PROVE  Tracks(queue, call)
  <1>1. Len(call.page) = 0 /\ Len(queue) \in Nat /\ 1 \in Nat
    OBVIOUS
  <1>2. IsFiniteSet({}) /\ Cardinality({}) = 0
    BY FS_EmptySet
  <1>3. PagedFrom(queue, call, 1, {})
    BY <1>1, <1>2 DEF PagedFrom
  <1> QED
    BY <1>1, <1>3 DEF Tracks

-----------------------------------------------------------------------------
(* Where jobs are: what a step does to the list of jobs and to the places  *)
(* that hold them.                                                         *)

\* A job is new at the end of the list, or one of the list is settled anew.
Added(x, b, replay) ==
    /\ x \notin Ids /\ x \in Nat /\ Ids' = Ids \union {x} /\ jobs'[x] = Job(b, replay)
    /\ \A k \in Ids : jobs'[k] = jobs[k]

Changed(j, job) ==
    /\ j \in Ids /\ job \in JobSet /\ Ids' = Ids /\ jobs'[j] = job
    /\ job.batch = jobs[j].batch /\ job.replay = jobs[j].replay
    /\ \A k \in Ids \ {j} : jobs'[k] = jobs[k]

LEMMA AddedFacts ==
    ASSUME QueueAssumption, IBounds, NEW b \in Batch, NEW replay \in BOOLEAN, Add(b, replay)
    PROVE  \E x : Added(x, b, replay)
  <1>1. PICK x : x = Len(jobs) + 1
    OBVIOUS
  <1>2. jobs \in Seq(JobSet) /\ x \in Nat
    BY <1>1, WorkFacts
  <1>3. /\ Ids' = Ids \union {x} /\ x \notin Ids /\ jobs'[x] = Job(b, replay)
        /\ \A k \in Ids : jobs'[k] = jobs[k]
    BY <1>1, <1>2, AddFacts
  <1> QED
    BY <1>2, <1>3 DEF Added

LEMMA ChangedFacts ==
    ASSUME IBounds, NEW j \in Ids, NEW job \in JobSet, jobs' = [jobs EXCEPT ![j] = job],
           job.batch = jobs[j].batch, job.replay = jobs[j].replay
    PROVE  Changed(j, job)
  <1>1. /\ Ids' = Ids /\ \A k \in Ids : jobs'[k] = IF k = j THEN job ELSE jobs[k]
    BY WorkFacts, ChangeFacts
  <1> QED
    BY <1>1 DEF Changed

LEMMA TakeJob ==
    ASSUME IBounds, NEW w \in Worker, NEW j \in Ids, Take(w, j)
    PROVE  \E job : /\ Changed(j, job) /\ jobs[j].st = "wait"
                    /\ job.st = "active" /\ job.owner = w /\ job.made = jobs[j].made
  <1>1. jobs[j] \in JobSet /\ jobs[j].st = "wait"
    BY WorkFacts DEF Take
  <1>2. PICK job : job = [jobs[j] EXCEPT !.st = "active", !.owner = w]
    OBVIOUS
  <1>3. jobs' = [jobs EXCEPT ![j] = job]
    BY <1>2 DEF Take
  <1>4. /\ job \in JobSet /\ job.batch = jobs[j].batch /\ job.replay = jobs[j].replay
        /\ job.st = "active" /\ job.owner = w /\ job.made = jobs[j].made
    BY <1>1, <1>2 DEF JobSet, Live
  <1>5. Changed(j, job)
    BY <1>3, <1>4, ChangedFacts
  <1> QED
    BY <1>1, <1>4, <1>5

LEMMA PromoteJob ==
    ASSUME IBounds, NEW j \in Ids, Promote(j)
    PROVE  \E job : /\ Changed(j, job) /\ jobs[j].st = "delayed"
                    /\ job.st = "wait" /\ job.owner = jobs[j].owner /\ job.made = jobs[j].made
  <1>1. jobs[j] \in JobSet /\ jobs[j].st = "delayed"
    BY WorkFacts DEF Promote
  <1>2. PICK job : job = [jobs[j] EXCEPT !.st = "wait"]
    OBVIOUS
  <1>3. jobs' = [jobs EXCEPT ![j] = job]
    BY <1>2 DEF Promote
  <1>4. /\ job \in JobSet /\ job.batch = jobs[j].batch /\ job.replay = jobs[j].replay
        /\ job.st = "wait" /\ job.owner = jobs[j].owner /\ job.made = jobs[j].made
    BY <1>1, <1>2 DEF JobSet, Live
  <1>5. Changed(j, job)
    BY <1>3, <1>4, ChangedFacts
  <1> QED
    BY <1>1, <1>4, <1>5

(* A run that fails settles its job, unless it was handed on.              *)
LEMMA FailJob ==
    ASSUME QueueAssumption, IBounds, NEW w \in Worker, ~At(w, "idle"),
           NEW why \in {"unrecoverable", "error"}, Fail(w, why)
    PROVE  \/ jobs[worker[w].job].owner # w /\ UNCHANGED <<jobs, failing>>
           \/ \E job : /\ Changed(worker[w].job, job) /\ IsLive(worker[w].job)
                       /\ jobs[worker[w].job].owner = w /\ job.owner = None /\ job.made > 0
                       /\ \/ job.st = "delayed" /\ failing' = failing
                          \/ /\ job.st = "failed"
                             /\ failing' = [failing EXCEPT ![w] = @ \union {worker[w].job}]
  <1>1. PICK j : j = worker[w].job
    OBVIOUS
  <1>2. PICK made : made = worker[w].made + 1
    OBVIOUS
  <1>3. \/ jobs[j].owner # w /\ UNCHANGED <<jobs, failing>>
        \/ /\ jobs[j].owner = w
           /\ jobs' = [jobs EXCEPT ![j].st = IF Terminal(why, made) THEN "failed" ELSE "delayed",
                                   ![j].made = made, ![j].owner = None]
           /\ failing' = [failing EXCEPT ![w] =
                             IF ShouldDeadLetter(why, made) THEN @ \union {j} ELSE @]
    BY <1>1, <1>2 DEF Fail
  <1>4. /\ j \in Ids /\ jobs[j] \in JobSet /\ made \in 0 .. MaxAttempts /\ made > 0
    <2>1. worker[w].made < MaxAttempts /\ worker[w].made \in Nat /\ j \in Ids
      BY <1>1, WorkFacts DEF IBounds, RunBounds, RunSet
    <2> QED
      BY <1>2, <2>1, WorkFacts DEF QueueAssumption
  <1>5. CASE jobs[j].owner # w
    BY <1>1, <1>3, <1>5
  <1>6. CASE jobs[j].owner = w
    <2>1. PICK st : st = IF Terminal(why, made) THEN "failed" ELSE "delayed"
      OBVIOUS
    <2>2. PICK job : job = [jobs[j] EXCEPT !.st = st, !.made = made, !.owner = None]
      OBVIOUS
    <2>3. jobs' = [jobs EXCEPT ![j] = job]
      BY <1>3, <1>6, <2>1, <2>2
    <2>4. /\ job \in JobSet /\ job.batch = jobs[j].batch /\ job.replay = jobs[j].replay
          /\ job.owner = None /\ job.made = made /\ job.st = st
      BY <1>4, <2>1, <2>2 DEF JobSet, Live
    <2>5. Changed(j, job)
      BY <1>4, <2>3, <2>4, ChangedFacts
    <2>6. IsLive(j)
      BY <1>4, <1>6 DEF IBounds, JobBounds, IsLive, Live, QueueAssumption
    <2>7. \/ st = "delayed" /\ failing' = failing
          \/ st = "failed" /\ failing' = [failing EXCEPT ![w] = @ \union {j}]
      <3>1. Terminal(why, made) <=> ShouldDeadLetter(why, made)
        BY DEF Terminal, ShouldDeadLetter
      <3>2. CASE Terminal(why, made)
        BY <1>3, <1>6, <2>1, <3>1, <3>2
      <3>3. CASE ~Terminal(why, made)
        <4>1. failing' = [failing EXCEPT ![w] = @] /\ st = "delayed"
          BY <1>3, <1>6, <2>1, <3>1, <3>3
        <4>2. failing \in [Worker -> SUBSET Ids]
          BY WorkFacts
        <4> QED
          BY <4>1, <4>2
      <3> QED
        BY <3>2, <3>3
    <2> QED
      BY <1>1, <1>4, <1>6, <2>4, <2>5, <2>6, <2>7
  <1> QED
    BY <1>5, <1>6

(* A stalled job is handed back, or given up to worker w's handler.        *)
LEMMA StallJob ==
    ASSUME QueueAssumption, IBounds, NEW w \in Worker, NEW j \in Ids, Stall(w, j)
    PROVE  \E job : /\ Changed(j, job) /\ IsLive(j) /\ jobs[j].st = "active"
                    /\ job.owner = None /\ job.made = jobs[j].made
                    /\ \/ job.st = "wait" /\ failing' = failing
                       \/ job.st = "failed" /\ failing' = [failing EXCEPT ![w] = @ \union {j}]
  <1>1. PICK over : over = (jobs[j].stalls >= MaxStalled)
    OBVIOUS
  <1>2. /\ jobs[j].st = "active"
        /\ jobs' = [jobs EXCEPT ![j].st = IF over THEN "failed" ELSE "wait",
                                ![j].stalls = @ + 1, ![j].owner = None]
        /\ failing' = [failing EXCEPT ![w] = IF over THEN @ \union {j} ELSE @]
    BY <1>1 DEF Stall, ShouldDeadLetter
  <1>3. jobs[j] \in JobSet /\ jobs[j].stalls <= MaxStalled /\ IsLive(j)
    BY <1>2, WorkFacts DEF IBounds, JobBounds, IsLive, Live
  <1>4. PICK stalls \in 0 .. MaxStalled + 1 : stalls = jobs[j].stalls + 1
    BY <1>3 DEF JobSet, QueueAssumption
  <1>5. PICK st : st = IF over THEN "failed" ELSE "wait"
    OBVIOUS
  <1>6. PICK job : job = [jobs[j] EXCEPT !.st = st, !.stalls = stalls, !.owner = None]
    OBVIOUS
  <1>7. jobs' = [jobs EXCEPT ![j] = job]
    BY <1>2, <1>4, <1>5, <1>6
  <1>8. /\ job \in JobSet /\ job.batch = jobs[j].batch /\ job.replay = jobs[j].replay
        /\ job.owner = None /\ job.made = jobs[j].made /\ job.st = st
    BY <1>3, <1>5, <1>6 DEF JobSet, Live
  <1>9. Changed(j, job)
    BY <1>7, <1>8, ChangedFacts
  <1>10. \/ st = "wait" /\ failing' = failing
         \/ st = "failed" /\ failing' = [failing EXCEPT ![w] = @ \union {j}]
    BY <1>2, <1>5, WorkFacts
  <1> QED
    BY <1>2, <1>3, <1>8, <1>9, <1>10

(* A finished run completes its job, unless it was handed on.              *)
LEMMA FinishJob ==
    ASSUME QueueAssumption, IBounds, NEW w \in Worker, Finish(w)
    PROVE  \/ jobs[worker[w].job].owner # w /\ UNCHANGED jobs
           \/ \E job : Changed(worker[w].job, job) /\ job.st = "done" /\ job.owner = None
  <1>1. PICK j : j = worker[w].job
    OBVIOUS
  <1>2. jobs' = [jobs EXCEPT ![j] = IF @.owner = w THEN [@ EXCEPT !.st = "done", !.owner = None] ELSE @]
    BY <1>1 DEF Finish
  <1>3. j \in Ids /\ jobs[j] \in JobSet
    <2>1. worker[w].pc # "idle"
      BY DEF Finish, At
    <2> QED
      BY <1>1, <2>1, WorkFacts DEF IBounds, RunBounds, At
  <1>4. CASE jobs[j].owner # w
    BY <1>1, <1>2, <1>4, WorkFacts
  <1>5. CASE jobs[j].owner = w
    <2>1. PICK job : job = [jobs[j] EXCEPT !.st = "done", !.owner = None]
      OBVIOUS
    <2>2. jobs' = [jobs EXCEPT ![j] = job]
      BY <1>2, <1>5, <2>1
    <2>3. /\ job \in JobSet /\ job.batch = jobs[j].batch /\ job.replay = jobs[j].replay
          /\ job.st = "done" /\ job.owner = None
      BY <1>3, <2>1 DEF JobSet, Live
    <2> QED
      BY <1>1, <1>3, <2>2, <2>3, ChangedFacts
  <1> QED
    BY <1>4, <1>5

-----------------------------------------------------------------------------
(* A job is in one place: in the queue, with one handler, or once among    *)
(* the dead letters.                                                       *)

OnePlace ==
    /\ \A j \in Ids : IsLive(j) => ~InHandler(j) /\ ~IsLetter(j)
    /\ \A j \in Ids : InHandler(j) => ~IsLetter(j)
    /\ \A v, w \in Worker : \A j : j \in failing[v] /\ j \in failing[w] => v = w
    /\ NoTwice(dlq)

\* No job of the list comes to life, and no batch changes.
NoneRevived ==
    /\ Ids \subseteq Ids'
    /\ \A k \in Ids : jobs'[k].batch = jobs[k].batch /\ (IsLive(k)' => IsLive(k))

StaysPut == NoneRevived /\ UNCHANGED <<failing, dlq>>

GivesUp(w, j) ==
    /\ NoneRevived /\ Ids' = Ids /\ IsLive(j) /\ ~IsLive(j)'
    /\ failing' = [failing EXCEPT ![w] = @ \union {j}] /\ dlq' = dlq

LEMMA AddStaysPut ==
    ASSUME QueueAssumption, IBounds, NEW b \in Batch, NEW replay \in BOOLEAN, Add(b, replay),
           UNCHANGED <<failing, dlq>>
    PROVE  StaysPut
  <1>1. PICK x : Added(x, b, replay)
    BY AddedFacts
  <1> QED
    BY <1>1 DEF Added, StaysPut, NoneRevived, IsLive

LEMMA ChangeStaysPut ==
    ASSUME NEW j, NEW job, Changed(j, job), UNCHANGED <<failing, dlq>>,
           job.st \in Live => IsLive(j)
    PROVE  StaysPut
  BY DEF Changed, StaysPut, NoneRevived, IsLive

LEMMA SameStaysPut ==
    ASSUME UNCHANGED <<jobs, failing, dlq>>
    PROVE  StaysPut
  BY DEF StaysPut, NoneRevived, IsLive, Ids

LEMMA ChangeGivesUp ==
    ASSUME NEW w \in Worker, NEW j, NEW job, Changed(j, job), IsLive(j), job.st = "failed",
           failing' = [failing EXCEPT ![w] = @ \union {j}], dlq' = dlq
    PROVE  GivesUp(w, j)
  <1>1. "failed" \notin Live
    BY DEF Live
  <1> QED
    BY <1>1 DEF Changed, GivesUp, NoneRevived, IsLive

\* Jobs stay where they are but for one that is given up.
Settles == StaysPut \/ \E w \in Worker, j \in Ids : GivesUp(w, j)

LEMMA SubmitPlaces ==
    ASSUME QueueAssumption, IBounds, NEW b \in Batch, Submit(b) \/ ReplayBlob(b)
    PROVE  StaysPut
  <1>1. UNCHANGED <<failing, dlq>>
    BY DEF Submit, PutBlob, Enqueue, EnqueueThrows, DropBlob, ApiCrash, ReplayBlob
  <1>2. CASE UNCHANGED jobs
    BY <1>1, <1>2, SameStaysPut
  <1>3. CASE jobs' # jobs
    <2>1. \E replay \in BOOLEAN : Add(b, replay)
      BY <1>3 DEF Submit, PutBlob, Enqueue, EnqueueThrows, AddThrows, DropBlob, ApiCrash, ReplayBlob
    <2> QED
      BY <1>1, <2>1, AddStaysPut
  <1> QED
    BY <1>2, <1>3

LEMMA FailPlaces ==
    ASSUME QueueAssumption, IBounds, NEW w \in Worker, ~At(w, "idle"),
           NEW why \in {"unrecoverable", "error"}, Fail(w, why)
    PROVE  Settles
  <1>1. PICK j : j = worker[w].job
    OBVIOUS
  <1>2. dlq' = dlq
    BY DEF Fail
  <1>3. CASE UNCHANGED <<jobs, failing>>
    BY <1>2, <1>3, SameStaysPut DEF Settles
  <1>4. ASSUME NEW job, Changed(j, job), IsLive(j), job.st = "delayed", failing' = failing
        PROVE  Settles
    BY <1>2, <1>4, ChangeStaysPut DEF Settles
  <1>5. ASSUME NEW job, Changed(j, job), IsLive(j), job.st = "failed",
               failing' = [failing EXCEPT ![w] = @ \union {j}]
        PROVE  Settles
    <2>1. GivesUp(w, j) /\ j \in Ids
      BY <1>2, <1>5, ChangeGivesUp DEF Changed
    <2> QED
      BY <2>1 DEF Settles
  <1> QED
    BY <1>1, <1>3, <1>4, <1>5, FailJob

LEMMA AttemptPlaces ==
    ASSUME QueueAssumption, IBounds, NEW w \in Worker, Attempt(w) \/ Throw(w) \/ WorkerCrash(w)
    PROVE  Settles
  <1>1. CASE UNCHANGED <<jobs, failing, dlq>>
    BY <1>1, SameStaysPut DEF Settles
  <1>2. ASSUME NEW j \in Ids, Take(w, j) PROVE Settles
    <2>1. PICK job : Changed(j, job) /\ jobs[j].st = "wait"
      BY <1>2, TakeJob
    <2>2. UNCHANGED <<failing, dlq>>
      BY <1>2 DEF Take
    <2>3. IsLive(j)
      BY <2>1 DEF IsLive, Live
    <2> QED
      BY <2>1, <2>2, <2>3, ChangeStaysPut DEF Settles
  <1>3. CASE Finish(w)
    <2>1. UNCHANGED <<failing, dlq>>
      BY <1>3 DEF Finish
    <2>2. CASE UNCHANGED jobs
      BY <1>1, <2>1, <2>2
    <2>3. CASE \E job : Changed(worker[w].job, job) /\ job.st = "done"
      <3>1. PICK job : Changed(worker[w].job, job) /\ job.st = "done"
        BY <2>3
      <3>2. job.st \notin Live
        BY <3>1 DEF Live
      <3> QED
        BY <2>1, <3>1, <3>2, ChangeStaysPut DEF Settles
    <2> QED
      BY <1>3, <2>2, <2>3, FinishJob
  <1>4. CASE MissBlob(w)
    <2>1. ~At(w, "idle") /\ Fail(w, "unrecoverable")
      BY <1>4 DEF MissBlob, At
    <2> QED
      BY <2>1, FailPlaces
  <1>5. CASE Throw(w)
    <2>1. ~At(w, "idle") /\ Fail(w, "error")
      BY <1>5 DEF Throw, At
    <2> QED
      BY <2>1, FailPlaces
  <1>6. CASE ReadBlob(w) \/ Meter(w) \/ Land(w) \/ Evaluate(w) \/ WorkerCrash(w)
    BY <1>1, <1>6 DEF ReadBlob, Meter, Land, Evaluate, WorkerCrash
  <1> QED
    BY <1>2, <1>3, <1>4, <1>5, <1>6 DEF Attempt

LEMMA StallPlaces ==
    ASSUME QueueAssumption, IBounds, NEW w \in Worker, NEW j \in Ids, Stall(w, j)
    PROVE  Settles
  <1>1. dlq' = dlq
    BY DEF Stall
  <1>2. PICK job : /\ Changed(j, job) /\ IsLive(j)
                   /\ \/ job.st = "wait" /\ failing' = failing
                      \/ job.st = "failed" /\ failing' = [failing EXCEPT ![w] = @ \union {j}]
    BY StallJob
  <1>3. CASE failing' = failing
    BY <1>1, <1>2, <1>3, ChangeStaysPut DEF Settles
  <1>4. CASE failing' # failing
    BY <1>1, <1>2, <1>4, ChangeGivesUp DEF Settles
  <1> QED
    BY <1>3, <1>4

LEMMA PromotePlaces ==
    ASSUME IBounds, NEW j \in Ids, Promote(j)
    PROVE  StaysPut
  <1>1. PICK job : Changed(j, job) /\ jobs[j].st = "delayed"
    BY PromoteJob
  <1>2. UNCHANGED <<failing, dlq>>
    BY DEF Promote
  <1>3. IsLive(j)
    BY <1>1 DEF IsLive, Live
  <1> QED
    BY <1>1, <1>2, <1>3, ChangeStaysPut

LEMMA ReplayPlaces ==
    ASSUME QueueAssumption, IBounds, NEW r \in Replayer, Replay(r)
    PROVE  StaysPut \/ TakesOut(r)
  <1>1. CASE UNCHANGED <<jobs, failing, dlq>>
    BY <1>1, SameStaysPut
  <1>2. ASSUME NEW pc, HasLetter(r, pc) PROVE jobs[Letter(r)].batch \in Batch
    BY <1>2, ReplayFacts, WorkFacts DEF HasLetter
  <1>3. ASSUME NEW pc, HasLetter(r, pc), Add(jobs[Letter(r)].batch, FALSE), UNCHANGED <<failing, dlq>>
        PROVE  StaysPut
    <2>1. PICK b : b = jobs[Letter(r)].batch
      OBVIOUS
    <2>2. b \in Batch /\ Add(b, FALSE)
      BY <1>2, <1>3, <2>1
    <2> QED
      BY <1>3, <2>2, AddStaysPut
  <1>4. CASE ReplayAdd(r)
    BY <1>3, <1>4 DEF ReplayAdd
  <1>5. CASE ReplayAddThrows(r)
    <2>1. HasLetter(r, "step") /\ UNCHANGED <<failing, dlq>> /\ AddThrows(jobs[Letter(r)].batch)
      BY <1>5 DEF ReplayAddThrows
    <2>2. UNCHANGED jobs \/ Add(jobs[Letter(r)].batch, FALSE)
      BY <2>1 DEF AddThrows
    <2> QED
      BY <1>1, <1>3, <2>1, <2>2
  <1>6. CASE ReplayPage(r) \/ ReplayPageEnd(r) \/ ReplaySkip(r) \/ ReplayRemoveThrows(r) \/ ReplayCrash(r)
    BY <1>1, <1>6 DEF ReplayPage, ReplayPageEnd, ReplaySkip, ReplayRemoveThrows, ReplayCrash
  <1>7. CASE \E scope \in Project \union {None} : ReplayStart(r, scope)
    BY <1>1, <1>7 DEF ReplayStart
  <1> QED
    BY <1>4, <1>5, <1>6, <1>7, RemovesTakeOut DEF Replay

(* Jobs change place in few ways.                                          *)
LEMMA StepPlaces ==
    ASSUME QueueAssumption, IBounds, [Next]_vars
    PROVE  \/ Settles
           \/ \E w \in Worker, j \in Ids : DeadLetter(w, j) \/ DropDeadLetter(w, j)
           \/ \E r \in Replayer : TakesOut(r)
  <1>1. CASE UNCHANGED vars
    BY <1>1, SameStaysPut DEF vars, Settles
  <1>2. ASSUME NEW b \in Batch, Submit(b) \/ ReplayBlob(b) PROVE Settles
    BY <1>2, SubmitPlaces DEF Settles
  <1>3. ASSUME NEW w \in Worker, Attempt(w) \/ Throw(w) \/ WorkerCrash(w) PROVE Settles
    BY <1>3, AttemptPlaces
  <1>4. ASSUME NEW j \in Ids, Promote(j) PROVE Settles
    BY <1>4, PromotePlaces DEF Settles
  <1>5. ASSUME NEW w \in Worker, NEW j \in Ids, Recover(w, j) \/ Wedge(w, j) PROVE Settles
    BY <1>5, StallPlaces DEF Recover, Wedge
  <1>6. ASSUME NEW r \in Replayer, Replay(r) PROVE Settles \/ TakesOut(r)
    BY <1>6, ReplayPlaces DEF Settles
  <1>7. CASE LockExpires \/ LockLapses
    BY <1>7, SameStaysPut DEF LockExpires, LockLapses, Settles
  <1>8. CASE Idle
    BY <1>1, <1>8 DEF Idle
  <1> QED
    BY <1>1, <1>2, <1>3, <1>4, <1>5, <1>6, <1>7, <1>8 DEF Next

(* Without a job, an id is nowhere.                                        *)
LEMMA NoJobNowhere ==
    ASSUME IBounds, NEW j, j \notin Ids
    PROVE  ~InHandler(j) /\ ~IsLetter(j)
  BY WorkFacts DEF InHandler, IsLetter, Has

LEMMA SettlesOnePlace ==
    ASSUME IBounds, OnePlace, Settles
    PROVE  OnePlace'
  <1>1. CASE StaysPut
    <2>1. \A k : (InHandler(k)' <=> InHandler(k)) /\ (IsLetter(k)' <=> IsLetter(k))
      BY <1>1 DEF StaysPut, InHandler, IsLetter
    <2>2. ASSUME NEW k \in Ids' PROVE /\ IsLive(k)' => ~InHandler(k)' /\ ~IsLetter(k)'
                                      /\ InHandler(k)' => ~IsLetter(k)'
      BY <1>1, <2>1, NoJobNowhere DEF StaysPut, NoneRevived, OnePlace
    <2> QED
      BY <1>1, <2>2 DEF StaysPut, OnePlace
  <1>2. ASSUME NEW w \in Worker, NEW j \in Ids, GivesUp(w, j) PROVE OnePlace'
    <2>1. /\ Ids' = Ids /\ dlq' = dlq /\ IsLive(j) /\ ~IsLive(j)'
          /\ \A k \in Ids : IsLive(k)' => IsLive(k)
      BY <1>2 DEF GivesUp, NoneRevived
    <2>2. \A k : IsLetter(k)' <=> IsLetter(k)
      BY <2>1 DEF IsLetter
    <2>3. /\ failing'[w] = failing[w] \union {j}
          /\ \A v \in Worker \ {w} : failing'[v] = failing[v]
      BY <1>2, WorkFacts DEF GivesUp
    <2>4. \A k : InHandler(k)' <=> InHandler(k) \/ k = j
      BY <2>3 DEF InHandler
    <2>5. ASSUME NEW k \in Ids' PROVE /\ IsLive(k)' => ~InHandler(k)' /\ ~IsLetter(k)'
                                      /\ InHandler(k)' => ~IsLetter(k)'
      BY <2>1, <2>2, <2>4 DEF OnePlace
    <2>6. ~InHandler(j)
      BY <2>1 DEF OnePlace
    <2>7. ASSUME NEW u \in Worker, NEW v \in Worker, NEW k, k \in failing'[u], k \in failing'[v]
          PROVE  u = v
      <3>1. CASE k = j
        BY <2>3, <2>6, <2>7, <3>1 DEF InHandler
      <3>2. CASE k # j
        BY <2>3, <2>7, <3>2 DEF OnePlace
      <3> QED
        BY <3>1, <3>2
    <2> QED
      BY <2>1, <2>5, <2>7 DEF OnePlace
  <1> QED
    BY <1>1, <1>2 DEF Settles

(* A handler's job becomes a letter or is lost.                            *)
LEMMA HandlerDone ==
    ASSUME IBounds, OnePlace, NEW w \in Worker, NEW j \in Ids, DeadLetter(w, j) \/ DropDeadLetter(w, j)
    PROVE  /\ jobs' = jobs /\ Ids' = Ids /\ InHandler(j) /\ ~InHandler(j)'
           /\ \A k : k # j => (InHandler(k)' <=> InHandler(k))
           /\ \A v \in Worker : failing'[v] \subseteq failing[v]
  <1>1. j \in failing[w] /\ failing' = [failing EXCEPT ![w] = @ \ {j}] /\ jobs' = jobs
    BY DEF DeadLetter, DropDeadLetter
  <1>2. /\ failing'[w] = failing[w] \ {j}
        /\ \A v \in Worker \ {w} : failing'[v] = failing[v]
    BY <1>1, WorkFacts
  <1>3. InHandler(j) /\ ~InHandler(j)'
    BY <1>1, <1>2 DEF OnePlace, InHandler
  <1>4. \A k : k # j => (InHandler(k)' <=> InHandler(k))
    BY <1>2 DEF InHandler
  <1> QED
    BY <1>1, <1>2, <1>3, <1>4 DEF Ids

LEMMA DropOnePlace ==
    ASSUME IBounds, OnePlace, NEW w \in Worker, NEW j \in Ids, DropDeadLetter(w, j)
    PROVE  OnePlace'
  <1>1. /\ jobs' = jobs /\ Ids' = Ids /\ \A k : InHandler(k)' => InHandler(k)
        /\ \A v \in Worker : failing'[v] \subseteq failing[v]
    BY HandlerDone
  <1>2. dlq' = dlq
    BY DEF DropDeadLetter
  <1> QED
    BY <1>1, <1>2 DEF OnePlace, IsLive, IsLetter

(* A letter of a job that has none comes first.                            *)
LEMMA InFrontOnce ==
    ASSUME NEW S, NEW queue \in Seq(S), NoTwice(queue), NEW j \in S, ~Has(queue, j)
    PROVE  NoTwice(InFront(j, queue))
  <1>1. PICK t : t = InFront(j, queue)
    OBVIOUS
  <1>2. /\ t \in Seq(S) /\ Len(t) = Len(queue) + 1 /\ t[1] = j
        /\ \A i \in 1 .. Len(queue) : t[i + 1] = queue[i]
    BY <1>1 DEF InFront
  <1>3. DOMAIN t = 1 .. Len(queue) + 1 /\ DOMAIN queue = 1 .. Len(queue) /\ Len(queue) \in Nat
    BY <1>2
  <1>4. ASSUME NEW i \in DOMAIN t, i # 1
        PROVE  i - 1 \in DOMAIN queue /\ t[i] = queue[i - 1] /\ t[i] # j
    <2>1. i - 1 \in 1 .. Len(queue) /\ (i - 1) + 1 = i
      BY <1>3, <1>4
    <2>2. t[i] = queue[i - 1] /\ i - 1 \in DOMAIN queue
      BY <1>2, <1>3, <2>1
    <2> QED
      BY <2>2 DEF Has
  <1>5. ASSUME NEW i \in DOMAIN t, NEW k \in DOMAIN t, t[i] = t[k] PROVE i = k
    <2>1. CASE i = 1 \/ k = 1
      BY <1>2, <1>4, <1>5, <2>1
    <2>2. CASE i # 1 /\ k # 1
      <3>1. i - 1 = k - 1
        BY <1>4, <1>5, <2>2 DEF NoTwice
      <3> QED
        BY <1>3, <3>1
    <2> QED
      BY <2>1, <2>2
  <1> QED
    BY <1>1, <1>5 DEF NoTwice

LEMMA LetterOnePlace ==
    ASSUME IBounds, OnePlace, NEW w \in Worker, NEW j \in Ids, DeadLetter(w, j)
    PROVE  OnePlace'
  <1>1. /\ jobs' = jobs /\ Ids' = Ids /\ InHandler(j) /\ ~InHandler(j)'
        /\ \A k : InHandler(k)' => InHandler(k)
        /\ \A v \in Worker : failing'[v] \subseteq failing[v]
    BY HandlerDone
  <1>2. dlq' = InFront(j, dlq) /\ dlq \in Seq(Ids)
    BY WorkFacts DEF DeadLetter, InFront
  <1>3. \A k : IsLetter(k)' <=> (k = j \/ IsLetter(k))
    BY <1>2, ConsFacts DEF IsLetter
  <1>4. ~IsLetter(j) /\ ~IsLive(j)
    BY <1>1 DEF OnePlace
  <1>5. NoTwice(dlq)'
    <2>1. NoTwice(InFront(j, dlq))
      BY <1>2, <1>4, InFrontOnce DEF OnePlace, IsLetter
    <2>2. PICK t : t = InFront(j, dlq)
      OBVIOUS
    <2> QED
      BY <1>2, <2>1, <2>2
  <1>6. \A k : IsLive(k)' <=> IsLive(k)
    BY <1>1 DEF IsLive
  <1>7. \A v, u \in Worker : \A k : k \in failing'[v] /\ k \in failing'[u] => v = u
    BY <1>1 DEF OnePlace
  <1>8. ASSUME NEW k \in Ids PROVE /\ IsLive(k)' => ~InHandler(k)' /\ ~IsLetter(k)'
                                   /\ InHandler(k)' => ~IsLetter(k)'
    BY <1>1, <1>3, <1>4, <1>6 DEF OnePlace
  <1> QED
    BY <1>1, <1>5, <1>7, <1>8 DEF OnePlace

(* A letter is taken out: none is there twice.                             *)
LEMMA WithoutOnce ==
    ASSUME NEW S, NEW queue \in Seq(S), NoTwice(queue), NEW j
    PROVE  /\ NoTwice(Without(queue, j)) /\ ~Has(Without(queue, j), j)
  <1>1. CASE ~Has(queue, j)
    BY <1>1 DEF Without, Has
  <1>2. CASE Has(queue, j)
    <2>1. PICK rest : rest = Without(queue, j)
      OBVIOUS
    <2>2. rest \in Seq(S) /\ Len(rest) = Len(queue) - 1 /\ Len(queue) \in Nat
      BY <1>2, <2>1, WithoutShifts
    <2>3. PICK at \in 1 .. Len(queue) :
             /\ queue[at] = j
             /\ \A i \in 1 .. Len(queue) - 1 : rest[i] = IF i < at THEN queue[i] ELSE queue[i + 1]
      BY <1>2, <2>1, WithoutShifts
    <2>4. DOMAIN rest = 1 .. Len(queue) - 1 /\ DOMAIN queue = 1 .. Len(queue)
      BY <2>2
    <2>5. ASSUME NEW i \in 1 .. Len(queue) - 1
          PROVE  \E m \in DOMAIN queue : /\ rest[i] = queue[m] /\ m # at
                                         /\ m = IF i < at THEN i ELSE i + 1
      <3>1. CASE i < at
        BY <2>2, <2>3, <2>4, <3>1
      <3>2. CASE ~(i < at)
        <4>1. i + 1 \in DOMAIN queue /\ i + 1 # at
          BY <2>2, <2>4, <3>2
        <4> QED
          BY <2>3, <3>2, <4>1
      <3> QED
        BY <3>1, <3>2
    <2>6. ASSUME NEW i \in DOMAIN rest PROVE rest[i] # j
      BY <2>3, <2>4, <2>5 DEF NoTwice
    <2>7. ASSUME NEW i \in DOMAIN rest, NEW k \in DOMAIN rest, rest[i] = rest[k] PROVE i = k
      <3>1. PICK m \in DOMAIN queue : rest[i] = queue[m] /\ m = IF i < at THEN i ELSE i + 1
        BY <2>4, <2>5
      <3>2. PICK n \in DOMAIN queue : rest[k] = queue[n] /\ n = IF k < at THEN k ELSE k + 1
        BY <2>4, <2>5
      <3>3. m = n
        BY <2>7, <3>1, <3>2 DEF NoTwice
      <3>4. i \in Int /\ k \in Int /\ at \in Int
        BY <2>3, <2>4
      <3> QED
        BY <3>1, <3>2, <3>3, <3>4
    <2> QED
      BY <2>1, <2>6, <2>7 DEF NoTwice, Has
  <1> QED
    BY <1>1, <1>2

LEMMA RemoveFacts ==
    ASSUME IBounds, OnePlace, NEW r \in Replayer, TakesOut(r), NEW j, j = Letter(r)
    PROVE  /\ UNCHANGED <<jobs, failing>> /\ Ids' = Ids
           /\ dlq' = Without(dlq, j) /\ ~IsLetter(j)' /\ NoTwice(dlq)'
           /\ \A k : k # j => (IsLetter(k)' <=> IsLetter(k))
  <1>1. PICK t : t = Without(dlq, j)
    OBVIOUS
  <1>2. dlq' = t /\ UNCHANGED <<jobs, failing>> /\ dlq \in Seq(Ids)
    BY <1>1, WorkFacts DEF TakesOut
  <1>3. /\ NoTwice(t) /\ ~Has(t, j)
        /\ \A k : k # j => (Has(t, k) <=> Has(dlq, k))
    BY <1>1, <1>2, WithoutOnce, WithoutFacts DEF OnePlace
  <1> QED
    BY <1>1, <1>2, <1>3 DEF IsLetter, Ids

LEMMA RemoveOnePlace ==
    ASSUME IBounds, OnePlace, NEW r \in Replayer, TakesOut(r)
    PROVE  OnePlace'
  <1>1. PICK j : j = Letter(r)
    OBVIOUS
  <1>2. /\ UNCHANGED <<jobs, failing>> /\ Ids' = Ids
        /\ ~IsLetter(j)' /\ NoTwice(dlq)'
        /\ \A k : k # j => (IsLetter(k)' <=> IsLetter(k))
    BY <1>1, RemoveFacts
  <1>3. \A k : (IsLive(k)' <=> IsLive(k)) /\ (InHandler(k)' <=> InHandler(k))
    BY <1>2 DEF IsLive, InHandler
  <1>4. \A v, u \in Worker : \A k : k \in failing'[v] /\ k \in failing'[u] => v = u
    BY <1>2 DEF OnePlace
  <1>5. ASSUME NEW k \in Ids PROVE /\ IsLive(k)' => ~InHandler(k)' /\ ~IsLetter(k)'
                                   /\ InHandler(k)' => ~IsLetter(k)'
    BY <1>2, <1>3 DEF OnePlace
  <1> QED
    BY <1>2, <1>4, <1>5 DEF OnePlace

LEMMA OnePlaceInductive ==
    ASSUME QueueAssumption, IBounds, OnePlace, [Next]_vars
    PROVE  OnePlace'
  BY StepPlaces, SettlesOnePlace, DropOnePlace, LetterOnePlace, RemoveOnePlace

-----------------------------------------------------------------------------
(* What a step leaves alone.                                               *)

\* Trouble is only ever counted up.
Counts == UNCHANGED spent \/ \E kind \in Kinds : Spend(kind)

LEMMA SpendGrows ==
    ASSUME spent \in [Kinds -> Nat], NEW kind \in Kinds, Spend(kind)
    PROVE  /\ spent' \in [Kinds -> Nat] /\ spent'[kind] = spent[kind] + 1
           /\ \A k \in Kinds : k # kind => spent'[k] = spent[k]
  BY DEF Spend

LEMMA CountsGrow ==
    ASSUME IBounds, Counts
    PROVE  \A k \in Kinds : spent[k] \in Nat /\ spent'[k] \in Nat /\ spent[k] <= spent'[k]
  <1>1. spent \in [Kinds -> Nat]
    BY WorkFacts
  <1>2. ASSUME NEW kind \in Kinds, Spend(kind)
        PROVE  \A k \in Kinds : spent'[k] \in Nat /\ spent[k] <= spent'[k]
    BY <1>1, <1>2, SpendGrows
  <1> QED
    BY <1>1, <1>2 DEF Counts

\* The steps that belong to no request and no replay.
Works ==
    \/ \E w \in Worker : Attempt(w) \/ Throw(w) \/ WorkerCrash(w)
    \/ \E j \in Ids : Promote(j)
    \/ \E w \in Worker, j \in Ids : Recover(w, j) \/ Wedge(w, j)
                                    \/ DeadLetter(w, j) \/ DropDeadLetter(w, j)
    \/ LockExpires \/ LockLapses \/ UNCHANGED vars

LEMMA NextCases ==
    ASSUME [Next]_vars
    PROVE  \/ \E b \in Batch : Submit(b) \/ ReplayBlob(b)
           \/ \E r \in Replayer : Replay(r)
           \/ Works
  <1>1. Idle => UNCHANGED vars
    BY DEF Idle
  <1> QED
    BY <1>1 DEF Next, Works

\* Nothing of a request or a replay changes, but for a lock that runs out.
Aside == /\ Ids' = Ids /\ UNCHANGED <<apiVars, replayer>> /\ Counts
         /\ UNCHANGED lock \/ LockExpires \/ LockLapses

LEMMA WorkQuiet ==
    ASSUME QueueAssumption, IBounds, Works
    PROVE  Aside
  <1>1. CASE UNCHANGED vars
    BY <1>1 DEF vars, Ids, apiVars, Counts, Aside
  <1>2. CASE LockExpires \/ LockLapses
    BY <1>2, Kinded DEF LockExpires, LockLapses, Ids, apiVars, Counts, Aside
  <1>3. ASSUME NEW j \in Ids, Promote(j) PROVE Aside
    <2>1. \E job : Changed(j, job)
      BY <1>3, PromoteJob
    <2> QED
      BY <1>3, <2>1 DEF Promote, replayVars, Changed, Counts, Aside
  <1>4. ASSUME NEW w \in Worker, NEW j \in Ids, Recover(w, j) \/ Wedge(w, j)
        PROVE  Aside
    <2>1. Stall(w, j) /\ Counts
      BY <1>4, Kinded DEF Recover, Wedge, Counts
    <2>2. \E job : Changed(j, job)
      BY <2>1, StallJob
    <2> QED
      BY <2>1, <2>2 DEF Stall, replayVars, Changed, Aside
  <1>5. ASSUME NEW w \in Worker, NEW j \in Ids, DeadLetter(w, j) \/ DropDeadLetter(w, j)
        PROVE  Aside
    BY <1>5, Kinded DEF DeadLetter, DropDeadLetter, Ids, replayVars, Counts, Aside
  <1>6. ASSUME NEW w \in Worker, NEW j \in Ids, Take(w, j)
        PROVE  Aside
    <2>1. \E job : Changed(j, job)
      BY <1>6, TakeJob
    <2> QED
      BY <1>6, <2>1 DEF Take, replayVars, Changed, Counts, Aside
  <1>7. ASSUME NEW w \in Worker, MissBlob(w) \/ Throw(w)
        PROVE  Aside
    <2>1. PICK why \in {"unrecoverable", "error"} : Fail(w, why) /\ ~At(w, "idle")
      BY <1>7 DEF MissBlob, Throw, At
    <2>2. UNCHANGED jobs \/ \E job : Changed(worker[w].job, job)
      BY <2>1, FailJob
    <2>3. Ids' = Ids
      BY <2>2 DEF Changed, Ids
    <2> QED
      BY <2>1, <2>3 DEF Fail, replayVars, Counts, Aside
  <1>8. ASSUME NEW w \in Worker, Finish(w)
        PROVE  Aside
    <2>1. UNCHANGED jobs \/ \E job : Changed(worker[w].job, job)
      BY <1>8, FinishJob
    <2>2. Ids' = Ids
      BY <2>1 DEF Changed, Ids
    <2> QED
      BY <1>8, <2>2 DEF Finish, replayVars, Counts, Aside
  <1>9. ASSUME NEW w \in Worker, ReadBlob(w) \/ Land(w) \/ Evaluate(w)
        PROVE  Aside
    BY <1>9 DEF ReadBlob, Land, Evaluate, Ids, replayVars, Counts, Aside
  <1>10. ASSUME NEW w \in Worker, Meter(w) \/ WorkerCrash(w)
         PROVE  Aside
    BY <1>10, Kinded DEF Meter, WorkerCrash, Ids, replayVars, Counts, Aside
  <1> QED
    BY <1>1, <1>2, <1>3, <1>4, <1>5, <1>6, <1>7, <1>8, <1>9, <1>10 DEF Works, Attempt

LEMMA SubmitCounts ==
    ASSUME NEW b \in Batch, Submit(b) \/ ReplayBlob(b)
    PROVE  Counts
  <1>1. CASE PutBlob(b) \/ ApiCrash(b) \/ ReplayBlob(b)
    BY <1>1, Kinded DEF PutBlob, ApiCrash, ReplayBlob, Counts
  <1>2. CASE Enqueue(b) \/ DropBlob(b)
    BY <1>2 DEF Enqueue, DropBlob, Counts
  <1>3. CASE EnqueueThrows(b)
    BY <1>3, Kinded DEF EnqueueThrows, AddThrows, Counts
  <1> QED
    BY <1>1, <1>2, <1>3 DEF Submit

LEMMA ReplayCounts ==
    ASSUME NEW r \in Replayer, Replay(r)
    PROVE  Counts
  <1>1. CASE ReplayPage(r) \/ ReplayPageEnd(r) \/ ReplaySkip(r) \/ ReplayAdd(r) \/ ReplayRemove(r)
    BY <1>1 DEF ReplayPage, ReplayPageEnd, ReplaySkip, ReplayAdd, ReplayRemove, Counts
  <1>2. CASE ReplayAddThrows(r)
    BY <1>2, Kinded DEF ReplayAddThrows, AddThrows, Counts
  <1>3. CASE ReplayRemoveThrows(r) \/ ReplayRemoveVanishes(r) \/ ReplayCrash(r)
    BY <1>3, Kinded DEF ReplayRemoveThrows, ReplayRemoveVanishes, ReplayCrash, Counts
  <1>4. CASE \E scope \in Project \union {None} : ReplayStart(r, scope)
    BY <1>4, Kinded DEF ReplayStart, Counts
  <1> QED
    BY <1>1, <1>2, <1>3, <1>4 DEF Replay

LEMMA StepCounts ==
    ASSUME QueueAssumption, IBounds, [Next]_vars
    PROVE  Counts
  <1>1. Works => Counts
    BY WorkQuiet DEF Aside
  <1> QED
    BY <1>1, NextCases, SubmitCounts, ReplayCounts

-----------------------------------------------------------------------------
(* One replay at a time, as long as no live one loses its lock.            *)

Serial == spent["lapses"] = 0

LockHeld == \A r \in Replayer : replayer[r].pc \in Replaying => lock = r

LEMMA SerialStays ==
    ASSUME QueueAssumption, IBounds, [Next]_vars, Serial'
    PROVE  Serial
  BY StepCounts, CountsGrow, Kinded DEF Serial

\* Call r goes on: it begins with a free lock, or it leaves the lock alone or ends.
Proceeds(r) ==
    /\ \A s \in Replayer \ {r} : replayer'[s] = replayer[s]
    /\ \/ lock = None /\ lock' = r
       \/ /\ replayer[r].pc \in Replaying
          /\ lock' = lock \/ replayer'[r].pc \notin Replaying

LEMMA EndProceeds ==
    ASSUME IBounds, NEW r \in Replayer, EndReplay(r), replayer[r].pc \in Replaying
    PROVE  Proceeds(r)
  <1>1. PICK call : call = [NoReplay EXCEPT !.pc = "done", !.gone = replayer[r].gone,
                              !.todo = IF replayer[r].replayed < ReplayLimit THEN replayer[r].todo ELSE {}]
    OBVIOUS
  <1>2. call.pc \notin Replaying
    BY <1>1 DEF NoReplay, Replaying
  <1>3. replayer' = [replayer EXCEPT ![r] = call]
    BY <1>1 DEF EndReplay
  <1>4. replayer'[r] = call /\ \A s \in Replayer \ {r} : replayer'[s] = replayer[s]
    BY <1>3, ReplayFacts
  <1> QED
    BY <1>2, <1>4 DEF Proceeds

LEMMA ReplayProceeds ==
    ASSUME IBounds, NEW r \in Replayer, Replay(r)
    PROVE  Proceeds(r)
  <1>1. ASSUME NEW call, replayer' = [replayer EXCEPT ![r] = call]
        PROVE  \A s \in Replayer \ {r} : replayer'[s] = replayer[s]
    BY <1>1, ReplayFacts
  <1>2. CASE ReplayPage(r) \/ ReplayPageEnd(r)
    <2>1. replayer[r].pc \in Replaying
      BY <1>2 DEF ReplayPage, ReplayPageEnd, Now, Replaying
    <2>2. \/ EndReplay(r)
          \/ lock' = lock /\ \E call : replayer' = [replayer EXCEPT ![r] = call]
      BY <1>2 DEF ReplayPage, ReplayPageEnd
    <2> QED
      BY <1>1, <2>1, <2>2, EndProceeds DEF Proceeds
  <1>3. CASE \/ ReplaySkip(r) \/ ReplayAdd(r) \/ ReplayAddThrows(r)
             \/ ReplayRemove(r) \/ ReplayRemoveThrows(r) \/ ReplayRemoveVanishes(r) \/ ReplayCrash(r)
    <2>1. replayer[r].pc \in Replaying /\ lock' = lock
      BY <1>3 DEF ReplaySkip, ReplayAdd, ReplayAddThrows, ReplayRemove, ReplayRemoveThrows,
                  ReplayRemoveVanishes, ReplayCrash, HasLetter, Now, Replaying
    <2>2. \E call : replayer' = [replayer EXCEPT ![r] = call]
      BY <1>3 DEF ReplaySkip, ReplayAdd, ReplayAddThrows, ReplayRemove, ReplayRemoveThrows,
                  ReplayRemoveVanishes, ReplayCrash, KeepLetter
    <2> QED
      BY <1>1, <2>1, <2>2 DEF Proceeds
  <1>4. ASSUME NEW scope, ReplayStart(r, scope) PROVE Proceeds(r)
    BY <1>1, <1>4 DEF ReplayStart, LockFree, Proceeds
  <1> QED
    BY <1>2, <1>3, <1>4 DEF Replay

(* Whoever replays holds the lock.                                         *)
LEMMA LockInductive ==
    ASSUME QueueAssumption, IBounds, LockHeld, [Next]_vars, Serial'
    PROVE  LockHeld'
  <1>1. CASE UNCHANGED replayVars
    BY <1>1 DEF replayVars, LockHeld
  <1>2. ASSUME NEW b \in Batch, Submit(b) \/ ReplayBlob(b) PROVE LockHeld'
    BY <1>1, <1>2 DEF Submit, PutBlob, Enqueue, EnqueueThrows, DropBlob, ApiCrash, ReplayBlob
  <1>3. CASE Works
    <2>1. CASE UNCHANGED lock
      BY <1>1, <1>3, <2>1, WorkQuiet DEF Aside, replayVars
    <2>2. CASE LockExpires
      BY <2>2 DEF LockExpires, LockHeld, Replaying
    <2>3. CASE LockLapses
      <3>1. spent'["lapses"] = spent["lapses"] + 1 /\ spent["lapses"] \in Nat
        BY <2>3, WorkFacts, SpendGrows, Kinded DEF LockLapses
      <3> QED
        BY <3>1 DEF Serial
    <2> QED
      BY <1>3, <2>1, <2>2, <2>3, WorkQuiet DEF Aside
  <1>4. ASSUME NEW r \in Replayer, Replay(r) PROVE LockHeld'
    BY <1>4, ReplayProceeds DEF Proceeds, LockHeld, QueueAssumption
  <1> QED
    BY <1>2, <1>3, <1>4, NextCases

-----------------------------------------------------------------------------
(* Every call of replayDlq under way keeps its place.                      *)

Paged == \A r \in Replayer : replayer[r].pc \in Replaying => Tracks(dlq, replayer[r])

MissesNone == \A r \in Replayer : Now(r, "done") => Cardinality(replayer[r].todo) <= replayer[r].gone

LEMMA CallTypes ==
    ASSUME IBounds, NEW r \in Replayer
    PROVE  replayer[r] \in CallOver(Ids) /\ dlq \in Seq(Ids)
  <1>1. ReplaySet = CallOver(Ids)
    BY DEF ReplaySet, CallOver
  <1> QED
    BY <1>1, ReplayFacts, WorkFacts

\* A call of r goes on, from the queue of letters as it was.
GoesOn(r, call) == replayer' = [replayer EXCEPT ![r] = call] /\ dlq' = dlq

(* The lock lets one call at a time be under way.                          *)
LEMMA OthersRest ==
    ASSUME IBounds, LockHeld, NEW r \in Replayer, lock = r \/ lock = None, None \notin Replayer
    PROVE  \A s \in Replayer \ {r} : replayer[s].pc \notin Replaying
  BY DEF LockHeld, Replaying

LEMMA GoesOnPaged ==
    ASSUME QueueAssumption, IBounds, LockHeld, NEW r \in Replayer, lock = r \/ lock = None,
           NEW call, replayer' = [replayer EXCEPT ![r] = call],
           call.pc \in Replaying => Tracks(dlq, call)'
    PROVE  Paged'
  <1>1. /\ replayer'[r] = call
        /\ \A s \in Replayer \ {r} : replayer'[s] = replayer[s]
    BY ReplayFacts
  <1>2. \A s \in Replayer \ {r} : replayer[s].pc \notin Replaying
    BY OthersRest DEF QueueAssumption
  <1> QED
    BY <1>1, <1>2 DEF Paged

LEMMA RestPaged ==
    ASSUME Paged, UNCHANGED <<replayer, dlq>>
    PROVE  Paged'
  BY DEF Paged

LEMMA LetterPaged ==
    ASSUME IBounds, OnePlace, Paged, NEW w \in Worker, NEW j \in Ids, DeadLetter(w, j)
    PROVE  Paged'
  <1>1. replayer' = replayer /\ dlq' = InFront(j, dlq) /\ InHandler(j)
    BY DEF DeadLetter, InFront, InHandler, replayVars
  <1>2. SUFFICES ASSUME NEW r \in Replayer, replayer[r].pc \in Replaying
                 PROVE  Tracks(dlq', replayer[r])
    BY <1>1 DEF Paged
  <1>3. PICK call : call = replayer[r]
    OBVIOUS
  <1>4. call \in CallOver(Ids) /\ dlq \in Seq(Ids) /\ Tracks(dlq, call)
    BY <1>2, <1>3, CallTypes DEF Paged
  <1>5. ~Has(dlq, j)
    BY <1>1 DEF OnePlace, IsLetter
  <1>6. j \notin call.todo
    BY <1>4, <1>5 DEF Tracks
  <1>7. Tracks(InFront(j, dlq), call)
    BY <1>4, <1>6, TracksBehind
  <1> QED
    BY <1>1, <1>3, <1>7

LEMMA RemovePaged ==
    ASSUME QueueAssumption, IBounds, LockHeld, OnePlace, Paged, NEW r \in Replayer,
           ReplayRemove(r) \/ ReplayRemoveVanishes(r)
    PROVE  Paged'
  <1>1. PICK call : call = replayer[r]
    OBVIOUS
  <1>2. HasLetter(r, "remove") /\ dlq' = Without(dlq, Head(call.page))
    BY <1>1 DEF ReplayRemove, ReplayRemoveVanishes, Letter
  <1>3. /\ call.pc = "remove" /\ call.page # <<>> /\ Letter(r) = Head(call.page)
        /\ call \in CallOver(Ids) /\ dlq \in Seq(Ids) /\ Tracks(dlq, call) /\ lock = r
    BY <1>1, <1>2, CallTypes DEF HasLetter, Now, Letter, Paged, Replaying, LockHeld
  <1>4. ASSUME NEW after, NEW n \in Nat, replayer' = [replayer EXCEPT ![r] = after],
               after.pc = "step", after.page = Tail(call.page), after.todo = call.todo,
               after.last = call.last, after.kept = call.kept + n, after.gone = call.gone + n
        PROVE  Paged'
    <2>1. Tracks(Without(dlq, Head(call.page)), after)
      BY <1>3, <1>4, TracksRemoved DEF OnePlace
    <2>2. Tracks(dlq, after)'
      BY <1>2, <2>1
    <2> QED
      BY <1>3, <1>4, <2>2, GoesOnPaged
  <1>5. CASE ReplayRemove(r)
    <2>1. PICK after : after = [call EXCEPT !.pc = "step", !.page = Tail(@), !.replayed = @ + 1]
      OBVIOUS
    <2>2. /\ after.pc = "step" /\ after.page = Tail(call.page) /\ after.todo = call.todo
          /\ after.last = call.last /\ after.kept = call.kept + 0 /\ after.gone = call.gone + 0
      BY <1>3, <2>1 DEF CallOver
    <2>3. replayer' = [replayer EXCEPT ![r] = after]
      BY <1>1, <1>5, <2>1 DEF ReplayRemove
    <2> QED
      BY <1>4, <2>2, <2>3
  <1>6. CASE ReplayRemoveVanishes(r)
    <2>1. PICK after : after = [call EXCEPT !.pc = "step", !.page = Tail(@),
                                            !.kept = @ + 1, !.gone = @ + 1]
      OBVIOUS
    <2>2. /\ after.pc = "step" /\ after.page = Tail(call.page) /\ after.todo = call.todo
          /\ after.last = call.last /\ after.kept = call.kept + 1 /\ after.gone = call.gone + 1
      BY <1>3, <2>1 DEF CallOver
    <2>3. replayer' = [replayer EXCEPT ![r] = after]
      BY <1>1, <1>6, <2>1 DEF ReplayRemoveVanishes
    <2> QED
      BY <1>4, <2>2, <2>3
  <1> QED
    BY <1>5, <1>6

LEMMA KeepPaged ==
    ASSUME QueueAssumption, IBounds, LockHeld, Paged, NEW r \in Replayer,
           NEW pc, HasLetter(r, pc), pc \in {"step", "remove"}, KeepLetter(r), dlq' = dlq
    PROVE  Paged'
  <1>1. PICK call : call = replayer[r]
    OBVIOUS
  <1>2. /\ call.pc \in {"step", "remove"} /\ call.page # <<>> /\ Letter(r) = Head(call.page)
        /\ call \in CallOver(Ids) /\ dlq \in Seq(Ids) /\ Tracks(dlq, call) /\ lock = r
    BY <1>1, CallTypes, ReplayFacts DEF HasLetter, Now, Letter, Paged, Replaying, LockHeld
  <1>3. PICK after : after = [call EXCEPT !.pc = "step", !.page = Tail(@), !.kept = @ + 1,
                                          !.todo = @ \ {Head(call.page)}]
    OBVIOUS
  <1>4. replayer' = [replayer EXCEPT ![r] = after]
    BY <1>1, <1>2, <1>3 DEF KeepLetter
  <1>5. Tracks(dlq, after)
    BY <1>2, <1>3, TracksKept
  <1>6. Tracks(dlq, after)'
    BY <1>5
  <1> QED
    BY <1>2, <1>4, <1>6, GoesOnPaged

LEMMA AddPaged ==
    ASSUME QueueAssumption, IBounds, LockHeld, Paged, NEW r \in Replayer, ReplayAdd(r)
    PROVE  Paged'
  <1>1. PICK call : call = replayer[r]
    OBVIOUS
  <1>2. /\ call.pc = "step" /\ call.page # <<>> /\ Letter(r) = Head(call.page)
        /\ call \in CallOver(Ids) /\ dlq \in Seq(Ids) /\ Tracks(dlq, call) /\ lock = r
    BY <1>1, CallTypes, ReplayFacts DEF ReplayAdd, HasLetter, Now, Letter, Paged, Replaying, LockHeld
  <1>3. PICK after : after = [call EXCEPT !.pc = "remove", !.todo = @ \ {Head(call.page)}]
    OBVIOUS
  <1>4. replayer' = [replayer EXCEPT ![r] = after] /\ dlq' = dlq
    BY <1>1, <1>2, <1>3 DEF ReplayAdd
  <1>5. Tracks(dlq, after)
    BY <1>2, <1>3, TracksTried
  <1>6. Tracks(dlq, after)'
    BY <1>4, <1>5
  <1> QED
    BY <1>2, <1>4, <1>6, GoesOnPaged

(* A call that ends has tried every letter but those it passed over, or as *)
(* many as it was to.                                                      *)
LEMMA EndPaged ==
    ASSUME QueueAssumption, IBounds, LockHeld, Paged, MissesNone, NEW r \in Replayer, EndReplay(r),
           dlq' = dlq, lock = r,
           replayer[r].replayed < ReplayLimit => Cardinality(replayer[r].todo) <= replayer[r].gone
    PROVE  Paged' /\ MissesNone'
  <1>1. PICK gone \in Nat : gone = replayer[r].gone
    BY ReplayFacts DEF ReplaySet
  <1>2. PICK todo : todo = IF replayer[r].replayed < ReplayLimit THEN replayer[r].todo ELSE {}
    OBVIOUS
  <1>3. Cardinality(todo) <= gone
    BY <1>1, <1>2, FS_EmptySet
  <1>4. PICK call : call = [NoReplay EXCEPT !.pc = "done", !.gone = gone, !.todo = todo]
    OBVIOUS
  <1>5. call.pc = "done" /\ call.todo = todo /\ call.gone = gone /\ call.pc \notin Replaying
    BY <1>4 DEF NoReplay, Replaying
  <1>6. replayer' = [replayer EXCEPT ![r] = call]
    BY <1>1, <1>2, <1>4 DEF EndReplay
  <1>7. Paged'
    BY <1>5, <1>6, GoesOnPaged
  <1>8. /\ replayer'[r] = call
        /\ \A s \in Replayer \ {r} : replayer'[s] = replayer[s]
    BY <1>6, ReplayFacts
  <1>9. MissesNone'
    BY <1>3, <1>5, <1>8 DEF MissesNone, Now
  <1> QED
    BY <1>7, <1>9

LEMMA PagePaged ==
    ASSUME QueueAssumption, IBounds, LockHeld, Paged, MissesNone, NEW r \in Replayer, ReplayPage(r)
    PROVE  Paged' /\ MissesNone'
  <1>1. PICK call : call = replayer[r]
    OBVIOUS
  <1>2. /\ call.pc = "page" /\ call \in CallOver(Ids) /\ dlq \in Seq(Ids) /\ Tracks(dlq, call)
        /\ lock = r /\ dlq' = dlq
    BY <1>1, CallTypes, ReplayFacts DEF ReplayPage, Now, Paged, Replaying, LockHeld
  <1>3. PICK want \in Int : /\ want = Want(r)
                            /\ call.replayed < ReplayLimit => want > 0
    <2>1. call.replayed \in Nat
      BY <1>2 DEF CallOver
    <2> QED
      BY <1>1, <2>1 DEF Want, QueueAssumption
  <1>4. PICK kept \in Nat, n \in Nat : kept = call.kept /\ n = Len(dlq)
    <2>1. call.kept \in Nat /\ Len(dlq) \in Nat
      BY <1>2 DEF CallOver
    <2> QED
      BY <2>1
  <1>5. PICK to \in Int : /\ to = IF kept + want < n THEN kept + want ELSE n
                          /\ to <= n /\ (to = kept + want \/ to = n)
    OBVIOUS
  <1>6. PICK page : page = SubSeq(dlq, kept + 1, to)
    OBVIOUS
  <1>7. page = PageOf(r, Want(r))
    BY <1>1, <1>3, <1>4, <1>5, <1>6 DEF PageOf
  <1>8. PICK after : after = [call EXCEPT !.pc = "step", !.page = page, !.last = Len(page) < want]
    OBVIOUS
  <1>9. /\ page # <<>> => Tracks(dlq, after)
        /\ page = <<>> /\ want > 0 => Cardinality(call.todo) <= call.gone
    BY <1>2, <1>4, <1>5, <1>6, <1>8, TracksPaged
  <1>10. CASE page = <<>>
    <2>1. EndReplay(r)
      BY <1>7, <1>10 DEF ReplayPage
    <2>2. replayer[r].replayed < ReplayLimit => Cardinality(replayer[r].todo) <= replayer[r].gone
      BY <1>1, <1>3, <1>9, <1>10
    <2> QED
      BY <1>2, <2>1, <2>2, EndPaged
  <1>11. CASE page # <<>>
    <2>1. replayer' = [replayer EXCEPT ![r] = after]
      BY <1>1, <1>3, <1>7, <1>8, <1>11 DEF ReplayPage
    <2>2. Tracks(dlq, after)'
      BY <1>2, <1>9, <1>11
    <2>3. Paged'
      BY <1>2, <2>1, <2>2, GoesOnPaged
    <2>4. after.pc = "step"
      BY <1>2, <1>8 DEF CallOver
    <2> QED
      BY <2>1, <2>3, <2>4, ReplayFacts DEF MissesNone, Now
  <1> QED
    BY <1>10, <1>11

LEMMA PageEndPaged ==
    ASSUME QueueAssumption, IBounds, LockHeld, Paged, MissesNone, NEW r \in Replayer, ReplayPageEnd(r)
    PROVE  Paged' /\ MissesNone'
  <1>1. PICK call : call = replayer[r]
    OBVIOUS
  <1>2. /\ call.pc = "step" /\ call.page = <<>> /\ call \in CallOver(Ids) /\ dlq \in Seq(Ids)
        /\ Tracks(dlq, call) /\ lock = r /\ dlq' = dlq
    BY <1>1, CallTypes, ReplayFacts DEF ReplayPageEnd, Now, Paged, Replaying, LockHeld
  <1>3. PICK after : after = [call EXCEPT !.pc = "page"]
    OBVIOUS
  <1>4. (call.last => Cardinality(call.todo) <= call.gone) /\ Tracks(dlq, after)
    BY <1>2, <1>3, TracksDone
  <1>5. CASE call.last
    <2>1. EndReplay(r)
      BY <1>1, <1>5 DEF ReplayPageEnd
    <2> QED
      BY <1>1, <1>2, <1>4, <1>5, <2>1, EndPaged
  <1>6. CASE ~call.last
    <2>1. replayer' = [replayer EXCEPT ![r] = after]
      BY <1>1, <1>3, <1>6 DEF ReplayPageEnd
    <2>2. Tracks(dlq, after)'
      BY <1>2, <1>4
    <2>3. Paged'
      BY <1>2, <2>1, <2>2, GoesOnPaged
    <2>4. after.pc = "page"
      BY <1>2, <1>3 DEF CallOver
    <2> QED
      BY <2>1, <2>3, <2>4, ReplayFacts DEF MissesNone, Now
  <1> QED
    BY <1>5, <1>6

LEMMA StartPaged ==
    ASSUME QueueAssumption, IBounds, LockHeld, Paged, MissesNone,
           NEW r \in Replayer, NEW scope, ReplayStart(r, scope)
    PROVE  Paged' /\ MissesNone'
  <1>1. PICK todo : todo = Matching(scope)
    OBVIOUS
  <1>2. PICK call : call = [NoReplay EXCEPT !.pc = "page", !.scope = scope, !.todo = todo]
    OBVIOUS
  <1>3. call.pc = "page" /\ call.page = <<>> /\ call.kept = 0 /\ call.gone = 0 /\ call.todo = todo
    BY <1>2 DEF NoReplay
  <1>4. replayer' = [replayer EXCEPT ![r] = call] /\ lock = None /\ dlq' = dlq /\ dlq \in Seq(Ids)
    BY <1>1, <1>2, WorkFacts DEF ReplayStart, LockFree
  <1>5. \A j \in todo : Has(dlq, j)
    <2>1. DOMAIN dlq = 1 .. Len(dlq)
      BY <1>4
    <2> QED
      BY <1>1, <2>1 DEF Matching, Has
  <1>6. Tracks(dlq, call)
    BY <1>3, <1>4, <1>5, TracksBegun
  <1>7. Tracks(dlq, call)'
    BY <1>4, <1>6
  <1>8. Paged'
    BY <1>4, <1>7, GoesOnPaged
  <1> QED
    BY <1>3, <1>4, <1>8, ReplayFacts DEF MissesNone, Now

LEMMA ReplayPaged ==
    ASSUME QueueAssumption, IBounds, LockHeld, OnePlace, Paged, MissesNone, NEW r \in Replayer, Replay(r)
    PROVE  Paged' /\ MissesNone'
  <1>1. ASSUME NEW call, replayer' = [replayer EXCEPT ![r] = call], call.pc # "done"
        PROVE  MissesNone'
    BY <1>1, ReplayFacts DEF MissesNone, Now
  <1>2. ASSUME NEW pc \in {"step", "remove"}, HasLetter(r, pc), KeepLetter(r)
        PROVE  MissesNone'
    <2>1. PICK call \in ReplaySet : replayer' = [replayer EXCEPT ![r] = call] /\ call.pc = "step"
      BY <1>2, KeepType
    <2> QED
      BY <1>1, <2>1
  <1>3. CASE ReplaySkip(r)
    BY <1>2, <1>3, KeepPaged DEF ReplaySkip
  <1>4. CASE ReplayAddThrows(r)
    BY <1>2, <1>4, KeepPaged DEF ReplayAddThrows
  <1>5. CASE ReplayRemoveThrows(r)
    BY <1>2, <1>5, KeepPaged DEF ReplayRemoveThrows
  <1>6. CASE ReplayAdd(r)
    <2>1. PICK call : call = [replayer[r] EXCEPT !.pc = "remove", !.todo = @ \ {Letter(r)}]
      OBVIOUS
    <2>2. call.pc = "remove"
      BY <2>1, ReplayFacts DEF ReplaySet
    <2>3. replayer' = [replayer EXCEPT ![r] = call]
      BY <1>6, <2>1 DEF ReplayAdd
    <2> QED
      BY <1>1, <1>6, <2>2, <2>3, AddPaged
  <1>7. CASE ReplayRemove(r)
    <2>1. PICK call : call = [replayer[r] EXCEPT !.pc = "step", !.page = Tail(@), !.replayed = @ + 1]
      OBVIOUS
    <2>2. call.pc = "step"
      BY <2>1, ReplayFacts DEF ReplaySet
    <2>3. replayer' = [replayer EXCEPT ![r] = call]
      BY <1>7, <2>1 DEF ReplayRemove
    <2> QED
      BY <1>1, <1>7, <2>2, <2>3, RemovePaged
  <1>8. CASE ReplayRemoveVanishes(r)
    <2>1. PICK call : call = [replayer[r] EXCEPT !.pc = "step", !.page = Tail(@),
                                                 !.kept = @ + 1, !.gone = @ + 1]
      OBVIOUS
    <2>2. call.pc = "step"
      BY <2>1, ReplayFacts DEF ReplaySet
    <2>3. replayer' = [replayer EXCEPT ![r] = call]
      BY <1>8, <2>1 DEF ReplayRemoveVanishes
    <2> QED
      BY <1>1, <1>8, <2>2, <2>3, RemovePaged
  <1>9. CASE ReplayCrash(r)
    <2>1. NoReplay.pc = "idle" /\ "idle" \notin Replaying
      BY DEF NoReplay, Replaying
    <2>2. replayer' = [replayer EXCEPT ![r] = NoReplay]
      BY <1>9 DEF ReplayCrash
    <2>3. lock = r
      BY <1>9 DEF ReplayCrash, Replaying, LockHeld
    <2> QED
      BY <1>1, <2>1, <2>2, <2>3, GoesOnPaged
  <1>10. ASSUME NEW scope, ReplayStart(r, scope) PROVE Paged' /\ MissesNone'
    BY <1>10, StartPaged
  <1> QED
    BY <1>3, <1>4, <1>5, <1>6, <1>7, <1>8, <1>9, <1>10, PagePaged, PageEndPaged DEF Replay

LEMMA PagedInductive ==
    ASSUME QueueAssumption, IBounds, LockHeld, OnePlace, Paged, MissesNone, [Next]_vars
    PROVE  Paged' /\ MissesNone'
  <1>1. CASE \E r \in Replayer : Replay(r)
    BY <1>1, ReplayPaged
  <1>2. CASE ~ \E r \in Replayer : Replay(r)
    <2>1. replayer' = replayer
      <3>1. \A b \in Batch : Submit(b) \/ ReplayBlob(b) => replayer' = replayer
        BY DEF Submit, PutBlob, Enqueue, EnqueueThrows, DropBlob, ApiCrash, ReplayBlob, replayVars
      <3> QED
        BY <1>2, <3>1, NextCases, WorkQuiet DEF Aside
    <2>2. MissesNone'
      BY <2>1 DEF MissesNone, Now
    <2>3. CASE dlq' = dlq
      BY <2>1, <2>2, <2>3, RestPaged
    <2>4. CASE \E w \in Worker, j \in Ids : DeadLetter(w, j)
      BY <2>2, <2>4, LetterPaged
    <2>5. CASE \E w \in Worker, j \in Ids : DropDeadLetter(w, j)
      BY <2>3, <2>5 DEF DropDeadLetter
    <2>6. CASE \E r \in Replayer : TakesOut(r)
      <3>1. PICK r \in Replayer, call \in ReplaySet :
              HasLetter(r, "remove") /\ replayer' = [replayer EXCEPT ![r] = call] /\ call.pc = "step"
        BY <2>6 DEF TakesOut
      <3>2. replayer'[r].pc = "step" /\ replayer[r].pc = "remove"
        BY <3>1, ReplayFacts DEF HasLetter, Now
      <3> QED
        BY <2>1, <3>2
    <2>7. CASE Settles
      BY <2>3, <2>7 DEF Settles, StaysPut, GivesUp
    <2> QED
      BY <2>4, <2>5, <2>6, <2>7, StepPlaces
  <1> QED
    BY <1>1, <1>2

LEMMA InitPlaces ==
    ASSUME QueueAssumption, Init
    PROVE  OnePlace /\ LockHeld /\ Paged /\ MissesNone
  <1>1. /\ Ids = {} /\ dlq = <<>> /\ \A w \in Worker : failing[w] = {}
        /\ \A r \in Replayer : replayer[r].pc = "idle"
    BY DEF Init, Ids, NoReplay
  <1> QED
    BY <1>1 DEF OnePlace, NoTwice, LockHeld, Paged, MissesNone, Now, Replaying

Places == OnePlace /\ (Serial => LockHeld /\ Paged /\ MissesNone)

LEMMA PlacesInductive == Spec => [](IInv /\ Places)
  <1>1. Init => Places
    BY QueueAssumption, InitPlaces DEF Places
  <1>2. IInv /\ Places /\ [Next]_vars => Places'
    BY QueueAssumption, SerialStays, LockInductive, OnePlaceInductive, PagedInductive
       DEF IInv, IBounds, Places
  <1> QED
    BY <1>1, <1>2, Inductive, PTL DEF Spec

(* A replay that ran to its end without reaching its limit, no live replay *)
(* having lost its lock, has tried every dead letter in its scope that was *)
(* there when it began, whatever letters arrive, whatever fails, and       *)
(* however removals shift the pages under it: all but at most one for each *)
(* of its removals that threw though it was done (replayDlq, the kept      *)
(* offset; ingest-health.ts).                                              *)
THEOREM ReplayTriesAll == Spec => []ReplayMissesNone
  <1>1. IInv /\ Places => ReplayMissesNone
    BY DEF Places, Serial, MissesNone, ReplayMissesNone
  <1> QED
    BY <1>1, PlacesInductive, PTL

-----------------------------------------------------------------------------
(* One carrier: what the steps of the system do to the places of a batch.  *)

\* No job of the list is carried anew.
NoneBorn ==
    /\ Ids \subseteq Ids'
    /\ \A k \in Ids : jobs'[k].batch = jobs[k].batch /\ (Carrier(k)' => Carrier(k))

LEMMA StepCarriers ==
    ASSUME QueueAssumption, IBounds, OnePlace, [Next]_vars
    PROVE  NoneBorn
  <1>1. CASE StaysPut
    <2>1. \A k : (InHandler(k)' <=> InHandler(k)) /\ (IsLetter(k)' <=> IsLetter(k))
      BY <1>1 DEF StaysPut, InHandler, IsLetter
    <2> QED
      BY <1>1, <2>1 DEF StaysPut, NoneRevived, NoneBorn, Carrier
  <1>2. ASSUME NEW w \in Worker, NEW j \in Ids, GivesUp(w, j) PROVE NoneBorn
    <2>1. \A v \in Worker : failing'[v] \subseteq failing[v] \union {j}
      BY <1>2, WorkFacts DEF GivesUp
    <2>2. \A k : InHandler(k)' => InHandler(k) \/ k = j
      BY <2>1 DEF InHandler
    <2>3. dlq' = dlq /\ NoneRevived /\ IsLive(j)
      BY <1>2 DEF GivesUp
    <2> QED
      BY <2>2, <2>3 DEF NoneRevived, NoneBorn, Carrier, IsLetter
  <1>3. ASSUME NEW w \in Worker, NEW j \in Ids, DeadLetter(w, j) \/ DropDeadLetter(w, j) PROVE NoneBorn
    <2>1. /\ jobs' = jobs /\ Ids' = Ids /\ InHandler(j)
          /\ \A k : InHandler(k)' => InHandler(k)
      BY <1>3, HandlerDone
    <2>2. \A k : IsLetter(k)' => k = j \/ IsLetter(k)
      <3>1. CASE DeadLetter(w, j)
        <4>1. dlq' = InFront(j, dlq) /\ dlq \in Seq(Ids)
          BY <3>1, WorkFacts DEF DeadLetter, InFront
        <4> QED
          BY <4>1, ConsFacts DEF IsLetter
      <3>2. CASE DropDeadLetter(w, j)
        BY <3>2 DEF DropDeadLetter, IsLetter
      <3> QED
        BY <1>3, <3>1, <3>2
    <2>3. \A k : IsLive(k)' <=> IsLive(k)
      BY <2>1 DEF IsLive
    <2> QED
      BY <2>1, <2>2, <2>3 DEF NoneBorn, Carrier
  <1>4. ASSUME NEW r \in Replayer, TakesOut(r) PROVE NoneBorn
    <2>1. PICK j : j = Letter(r)
      OBVIOUS
    <2>2. /\ UNCHANGED <<jobs, failing>> /\ Ids' = Ids /\ ~IsLetter(j)'
          /\ \A k : k # j => (IsLetter(k)' <=> IsLetter(k))
      BY <1>4, <2>1, RemoveFacts
    <2>3. \A k : (IsLive(k)' <=> IsLive(k)) /\ (InHandler(k)' <=> InHandler(k))
      BY <2>2 DEF IsLive, InHandler
    <2> QED
      BY <2>2, <2>3 DEF NoneBorn, Carrier
  <1> QED
    BY <1>1, <1>2, <1>3, <1>4, StepPlaces DEF Settles

\* A job that a replay has enqueued again, and whose letter it is about to remove.
Leaving(j) == \E r \in Replayer : HasLetter(r, "remove") /\ Letter(r) = j

\* The jobs that carry a batch for good, the request that is still to enqueue it,
\* and how many carriers the failures so far account for.
Carried(b) == {j \in Ids : jobs[j].batch = b /\ Carrier(j) /\ ~Leaving(j)}
Awaited(b) == IF api[b] \in {"idle", "stored"} THEN 1 ELSE 0
Allowed == 1 + spent["leftovers"] + spent["unsure"] + spent["rebuilds"]

CarriedOnce == \A b \in Batch : Cardinality(Carried(b)) + Awaited(b) <= Allowed

\* A letter about to be removed stays so as long as it is there.
LeavingStays == \A j \in Ids : Leaving(j) /\ Carrier(j)' => Leaving(j)'

LEMMA AllowedGrows ==
    ASSUME IBounds, Counts
    PROVE  /\ Allowed \in Nat /\ Allowed' \in Nat /\ Allowed <= Allowed'
           /\ \A kind \in {"leftovers", "unsure", "rebuilds"} : Spend(kind) => Allowed + 1 <= Allowed'
  <1>1. /\ \A k \in {"leftovers", "unsure", "rebuilds"} :
              spent[k] \in Nat /\ spent'[k] \in Nat /\ spent[k] <= spent'[k]
    BY CountsGrow, Kinded
  <1>2. ASSUME NEW kind \in {"leftovers", "unsure", "rebuilds"}, Spend(kind) PROVE spent'[kind] = spent[kind] + 1
    BY <1>2, SpendGrows, WorkFacts, Kinded
  <1>3. Allowed \in Nat /\ Allowed' \in Nat /\ Allowed <= Allowed'
    BY <1>1 DEF Allowed
  <1>4. ASSUME NEW kind \in {"leftovers", "unsure", "rebuilds"}, Spend(kind) PROVE Allowed + 1 <= Allowed'
    <2>1. spent'[kind] = spent[kind] + 1
      BY <1>2, <1>4
    <2> QED
      BY <1>1, <2>1 DEF Allowed
  <1> QED
    BY <1>3, <1>4

LEMMA CarriedFinite ==
    ASSUME IBounds, NEW b
    PROVE  IsFiniteSet(Carried(b)) /\ Cardinality(Carried(b)) \in Nat
  <1>1. IsFiniteSet(Ids)
    BY WorkFacts, IdsFinite
  <1>2. Carried(b) \subseteq Ids
    BY DEF Carried
  <1> QED
    BY <1>1, <1>2, NoMore

LEMMA AwaitedFacts == \A b : Awaited(b) \in {0, 1} /\ Awaited(b)' \in {0, 1}
  BY DEF Awaited

(* No job is added, and no letter is left behind.                          *)
LEMMA CarriedQuiet ==
    ASSUME IBounds, CarriedOnce, NoneBorn, Ids' = Ids, LeavingStays, Counts,
           \A b \in Batch : Awaited(b)' <= Awaited(b)
    PROVE  CarriedOnce'
  <1>1. SUFFICES ASSUME NEW b \in Batch PROVE Cardinality(Carried(b)') + Awaited(b)' <= Allowed'
    BY DEF CarriedOnce
  <1>2. PICK A, B : A = Carried(b) /\ B = Carried(b)'
    OBVIOUS
  <1>3. B \subseteq A
    BY <1>2 DEF Carried, NoneBorn, LeavingStays
  <1>4. Cardinality(A) \in Nat /\ Cardinality(B) \in Nat /\ Cardinality(B) <= Cardinality(A)
    BY <1>2, <1>3, CarriedFinite, NoMore
  <1>5. Cardinality(A) + Awaited(b) <= Allowed
    BY <1>2 DEF CarriedOnce
  <1>6. Allowed \in Nat /\ Allowed' \in Nat /\ Allowed <= Allowed'
    BY AllowedGrows
  <1>7. Cardinality(B) + Awaited(b)' <= Cardinality(A) + Awaited(b)
    BY <1>4, AwaitedFacts
  <1>8. Cardinality(B) + Awaited(b)' <= Allowed'
    BY <1>4, <1>5, <1>6, <1>7, AwaitedFacts
  <1> QED
    BY <1>2, <1>8

(* A batch c gets one more carrier, which its request or a failure pays.   *)
LEMMA CarriedMore ==
    ASSUME IBounds, CarriedOnce, Counts, NEW c, NEW x,
           \A b : Carried(b)' \subseteq Carried(b) \union {x},
           \A b : b # c => Carried(b)' \subseteq Carried(b),
           \A b \in Batch : Awaited(b)' <= Awaited(b),
           \/ c \in Batch => Awaited(c)' + 1 <= Awaited(c)
           \/ Allowed + 1 <= Allowed'
    PROVE  CarriedOnce'
  <1>1. SUFFICES ASSUME NEW b \in Batch PROVE Cardinality(Carried(b)') + Awaited(b)' <= Allowed'
    BY DEF CarriedOnce
  <1>2. PICK A, B : A = Carried(b) /\ B = Carried(b)'
    OBVIOUS
  <1>3. Cardinality(A) + Awaited(b) <= Allowed
    BY <1>2 DEF CarriedOnce
  <1>4. Allowed \in Nat /\ Allowed' \in Nat /\ Allowed <= Allowed'
    BY AllowedGrows
  <1>5. Awaited(b) \in Nat /\ Awaited(b)' \in Nat /\ Awaited(b)' <= Awaited(b)
    BY AwaitedFacts
  <1>6. IsFiniteSet(A) /\ Cardinality(A) \in Nat
    BY <1>2, CarriedFinite
  <1>7. Cardinality(B) \in Nat /\ Cardinality(B) <= Cardinality(A) + 1
    BY <1>2, <1>6, OneMore
  <1>8. b # c => Cardinality(B) <= Cardinality(A)
    BY <1>2, <1>6, NoMore
  <1>9. Cardinality(B) + Awaited(b)' <= Allowed'
    <2>1. CASE b # c
      BY <1>3, <1>4, <1>5, <1>6, <1>7, <1>8, <2>1
    <2>2. CASE Allowed + 1 <= Allowed'
      BY <1>3, <1>4, <1>5, <1>6, <1>7, <2>2
    <2>3. CASE b = c /\ ~(Allowed + 1 <= Allowed')
      <3>1. Awaited(b)' + 1 <= Awaited(b)
        BY <2>3
      <3> QED
        BY <1>3, <1>4, <1>5, <1>6, <1>7, <3>1
    <2> QED
      BY <2>1, <2>2, <2>3
  <1> QED
    BY <1>2, <1>9

(* A new job carries a batch.                                              *)
LEMMA CarriedAdded ==
    ASSUME NoneBorn, LeavingStays, NEW x, NEW c, NEW replay, Added(x, c, replay), NEW b
    PROVE  Carried(b)' \subseteq Carried(b) \union {x} /\ (b # c => Carried(b)' \subseteq Carried(b))
  <1>1. /\ Ids' = Ids \union {x} /\ jobs'[x].batch = c
        /\ \A k \in Ids : jobs'[k].batch = jobs[k].batch /\ (Carrier(k)' => Carrier(k))
    BY DEF Added, Job, NoneBorn
  <1>2. ASSUME NEW k \in Carried(b)', k # x PROVE k \in Carried(b)
    <2>1. k \in Ids /\ jobs[k].batch = b /\ Carrier(k)' /\ ~Leaving(k)'
      BY <1>1, <1>2 DEF Carried
    <2> QED
      BY <1>1, <2>1 DEF Carried, LeavingStays
  <1>3. x \in Carried(b)' => b = c
    BY <1>1 DEF Carried
  <1> QED
    BY <1>2, <1>3

(* Requests and rebuilds.                                                  *)
LEMMA LeavingSame ==
    ASSUME UNCHANGED replayer
    PROVE  LeavingStays
  BY DEF LeavingStays, Leaving, HasLetter, Now, Letter

LEMMA SameAwaited ==
    ASSUME UNCHANGED api
    PROVE  \A b \in Batch : Awaited(b)' <= Awaited(b)
  BY DEF Awaited

LEMMA ApiGoesOn ==
    ASSUME IBounds, NEW b \in Batch, NEW to, api' = [api EXCEPT ![b] = to],
           to \in {"idle", "stored"} => api[b] \in {"idle", "stored"}
    PROVE  /\ \A c \in Batch : Awaited(c)' <= Awaited(c)
           /\ api[b] = "stored" /\ to \notin {"idle", "stored"} => Awaited(b)' + 1 <= Awaited(b)
  <1>1. /\ api'[b] = to
        /\ \A c \in Batch \ {b} : api'[c] = api[c]
    BY DEF IBounds, TypeOK
  <1>2. Awaited(b)' = IF to \in {"idle", "stored"} THEN 1 ELSE 0
    BY <1>1 DEF Awaited
  <1>3. Awaited(b) = IF api[b] \in {"idle", "stored"} THEN 1 ELSE 0
    BY DEF Awaited
  <1>4. \A c \in Batch \ {b} : Awaited(c)' = Awaited(c)
    BY <1>1 DEF Awaited
  <1>5. ASSUME NEW c \in Batch PROVE Awaited(c)' <= Awaited(c)
    <2>1. CASE c = b
      BY <1>2, <1>3, <2>1
    <2>2. CASE c # b
      BY <1>4, <2>2, AwaitedFacts
    <2> QED
      BY <2>1, <2>2
  <1> QED
    BY <1>2, <1>3, <1>5

LEMMA EnqueuedOnce ==
    ASSUME QueueAssumption, IBounds, CarriedOnce, NoneBorn, Counts, UNCHANGED replayer,
           NEW b \in Batch, NEW replay \in BOOLEAN, Add(b, replay),
           \A c \in Batch : Awaited(c)' <= Awaited(c),
           Awaited(b)' + 1 <= Awaited(b) \/ Allowed + 1 <= Allowed'
    PROVE  CarriedOnce'
  <1>1. PICK x : Added(x, b, replay)
    BY AddedFacts
  <1>2. /\ \A c : Carried(c)' \subseteq Carried(c) \union {x}
        /\ \A c : c # b => Carried(c)' \subseteq Carried(c)
    BY <1>1, LeavingSame, CarriedAdded
  <1> QED
    BY <1>2, CarriedMore

LEMMA SubmitCarried ==
    ASSUME QueueAssumption, IBounds, CarriedOnce, NoneBorn, NEW b \in Batch, Submit(b) \/ ReplayBlob(b)
    PROVE  CarriedOnce'
  <1>1. ASSUME UNCHANGED <<jobs, replayer>>, Counts, \A c \in Batch : Awaited(c)' <= Awaited(c)
        PROVE  CarriedOnce'
    BY <1>1, LeavingSame, CarriedQuiet DEF Ids
  <1>2. CASE PutBlob(b)
    <2>1. UNCHANGED <<jobs, replayer>> /\ Counts
      BY <1>2, Kinded DEF PutBlob, replayVars, Counts
    <2>2. PICK to \in {"stored", "refused"} : api' = [api EXCEPT ![b] = to] /\ api[b] = "idle"
      BY <1>2 DEF PutBlob
    <2>3. \A c \in Batch : Awaited(c)' <= Awaited(c)
      BY <2>2, ApiGoesOn
    <2> QED
      BY <1>1, <2>1, <2>3
  <1>3. CASE Enqueue(b)
    <2>1. Add(b, FALSE) /\ UNCHANGED replayer /\ Counts
      BY <1>3 DEF Enqueue, replayVars, Counts
    <2>2. PICK to : /\ to \notin {"idle", "stored"} /\ api[b] = "stored"
                    /\ api' = [api EXCEPT ![b] = to]
      BY <1>3 DEF Enqueue
    <2>3. (\A c \in Batch : Awaited(c)' <= Awaited(c)) /\ Awaited(b)' + 1 <= Awaited(b)
      BY <2>2, ApiGoesOn
    <2> QED
      BY <2>1, <2>3, EnqueuedOnce
  <1>4. CASE EnqueueThrows(b)
    <2>1. /\ UNCHANGED jobs \/ Add(b, FALSE)
          /\ UNCHANGED replayer /\ Counts
      BY <1>4, Kinded DEF EnqueueThrows, AddThrows, replayVars, Counts
    <2>2. PICK to : /\ to \notin {"idle", "stored"} /\ api[b] = "stored"
                    /\ api' = [api EXCEPT ![b] = to]
      BY <1>4 DEF EnqueueThrows
    <2>3. (\A c \in Batch : Awaited(c)' <= Awaited(c)) /\ Awaited(b)' + 1 <= Awaited(b)
      BY <2>2, ApiGoesOn
    <2> QED
      BY <1>1, <2>1, <2>3, EnqueuedOnce
  <1>5. CASE DropBlob(b) \/ ApiCrash(b)
    <2>1. UNCHANGED <<jobs, replayer>> /\ Counts
      BY <1>5, Kinded DEF DropBlob, ApiCrash, replayVars, Counts
    <2>2. api' = [api EXCEPT ![b] = "refused"]
      BY <1>5 DEF DropBlob, ApiCrash
    <2>3. \A c \in Batch : Awaited(c)' <= Awaited(c)
      BY <2>2, ApiGoesOn
    <2> QED
      BY <1>1, <2>1, <2>3
  <1>6. CASE ReplayBlob(b)
    <2>1. Add(b, TRUE) /\ UNCHANGED <<replayer, api>> /\ Spend("rebuilds") /\ Counts
      BY <1>6, Kinded DEF ReplayBlob, apiVars, replayVars, Counts
    <2>2. Allowed + 1 <= Allowed'
      BY <2>1, AllowedGrows
    <2> QED
      BY <2>1, <2>2, SameAwaited, EnqueuedOnce
  <1> QED
    BY <1>2, <1>3, <1>4, <1>5, <1>6 DEF Submit

(* Replays.                                                                *)
LEMMA NoneLeaving ==
    ASSUME QueueAssumption, IBounds, LockHeld, NEW r \in Replayer, lock = r \/ lock = None, replayer[r].pc # "remove"
    PROVE  \A j : ~Leaving(j)
  <1>1. \A s \in Replayer \ {r} : replayer[s].pc \notin Replaying
    BY OthersRest DEF QueueAssumption
  <1> QED
    BY <1>1 DEF Leaving, HasLetter, Now, Replaying

LEMMA OneLeaving ==
    ASSUME QueueAssumption, IBounds, LockHeld, NEW r \in Replayer, HasLetter(r, "remove")
    PROVE  \A j : Leaving(j) => j = Letter(r)
  <1>1. lock = r
    BY DEF HasLetter, Now, Replaying, LockHeld
  <1>2. \A s \in Replayer \ {r} : replayer[s].pc \notin Replaying
    BY <1>1, OthersRest DEF QueueAssumption
  <1> QED
    BY <1>2 DEF Leaving, HasLetter, Now, Replaying

LEMMA LetterIsThere ==
    ASSUME IBounds, Paged, NEW r \in Replayer, NEW pc \in {"step", "remove"}, HasLetter(r, pc)
    PROVE  IsLetter(Letter(r))
  <1>1. PICK call : call = replayer[r]
    OBVIOUS
  <1>2. /\ call.page # <<>> /\ Letter(r) = Head(call.page)
        /\ call \in CallOver(Ids) /\ dlq \in Seq(Ids) /\ Tracks(dlq, call)
    BY <1>1, CallTypes DEF HasLetter, Now, Letter, Paged, Replaying
  <1>3. PICK p \in Nat : \E passed : PagedFrom(dlq, call, p, passed)
    BY <1>2 DEF Tracks
  <1>4. Len(call.page) \in Nat \ {0} /\ Letter(r) = call.page[1]
    <2>1. call.page \in Seq(Ids)
      BY <1>2 DEF CallOver
    <2> QED
      BY <1>2, <2>1, TailFacts
  <1>5. Letter(r) = dlq[p] /\ p \in 1 .. Len(dlq)
    <2>1. 1 \in 1 .. Len(call.page) /\ p + 1 - 1 = p
      BY <1>4
    <2>2. call.kept \in Nat /\ Len(dlq) \in Nat
      BY <1>2 DEF CallOver
    <2>3. p \in 1 .. Len(dlq)
      BY <1>3, <1>4, <2>2 DEF PagedFrom
    <2>4. Letter(r) = dlq[p]
      BY <1>3, <1>4, <2>1 DEF PagedFrom
    <2> QED
      BY <2>3, <2>4
  <1> QED
    BY <1>2, <1>5 DEF IsLetter, Has

LEMMA ReplayQuiet ==
    ASSUME QueueAssumption, IBounds, CarriedOnce, NoneBorn, LeavingStays, Counts,
           UNCHANGED <<api, jobs>>
    PROVE  CarriedOnce'
  BY SameAwaited, CarriedQuiet DEF Ids

(* The letter in hand stays, though its batch was enqueued again.          *)
LEMMA LeftBehind ==
    ASSUME QueueAssumption, IBounds, LockHeld, CarriedOnce, NoneBorn, NEW r \in Replayer, HasLetter(r, "remove"),
           Spend("leftovers"), UNCHANGED <<api, jobs>>
    PROVE  CarriedOnce'
  <1>1. PICK j, c : j = Letter(r) /\ c = jobs[j].batch
    OBVIOUS
  <1>2. j \in Ids /\ Counts /\ Ids' = Ids /\ jobs' = jobs
    BY <1>1, ReplayFacts, Kinded DEF HasLetter, Counts, Ids
  <1>3. \A k : Leaving(k) => k = j
    BY <1>1, OneLeaving
  <1>4. ASSUME NEW b, NEW k \in Carried(b)', k \notin Carried(b) PROVE k = j /\ b = c
    <2>1. k \in Ids /\ jobs[k].batch = b /\ Carrier(k)
      BY <1>2, <1>4 DEF Carried, NoneBorn
    <2>2. Leaving(k)
      BY <1>4, <2>1 DEF Carried
    <2> QED
      BY <1>1, <1>3, <2>1, <2>2
  <1>5. /\ \A b : Carried(b)' \subseteq Carried(b) \union {j}
        /\ \A b : b # c => Carried(b)' \subseteq Carried(b)
    BY <1>4
  <1>6. Allowed + 1 <= Allowed'
    BY <1>2, AllowedGrows
  <1> QED
    BY <1>2, <1>5, <1>6, SameAwaited, CarriedMore

(* The letter in hand is enqueued again: the new job takes its place.      *)
LEMMA ReplayAddCarried ==
    ASSUME QueueAssumption, IBounds, LockHeld, Paged, CarriedOnce, NoneBorn, NEW r \in Replayer, ReplayAdd(r)
    PROVE  CarriedOnce'
  <1>1. PICK j, c : j = Letter(r) /\ c = jobs[j].batch
    OBVIOUS
  <1>2. /\ HasLetter(r, "step") /\ Add(c, FALSE) /\ UNCHANGED <<apiVars, spent>> /\ lock = r
        /\ replayer' = [replayer EXCEPT ![r].pc = "remove", ![r].todo = @ \ {j}]
    BY <1>1 DEF ReplayAdd, HasLetter, Now, Replaying, LockHeld
  <1>3. j \in Ids /\ c \in Batch /\ IsLetter(j)
    BY <1>1, <1>2, ReplayFacts, WorkFacts, LetterIsThere DEF HasLetter
  <1>4. \A k : ~Leaving(k)
    BY <1>2, NoneLeaving DEF HasLetter, Now
  <1>5. Leaving(j)'
    <2>1. replayer \in [Replayer -> ReplaySet] /\ replayer[r] \in ReplaySet
      BY ReplayFacts
    <2>2. replayer'[r].pc = "remove" /\ replayer'[r].page = replayer[r].page
      BY <1>2, <2>1 DEF ReplaySet
    <2> QED
      BY <1>1, <1>2, <2>2 DEF Leaving, HasLetter, Now, Letter
  <1>6. PICK x : Added(x, c, FALSE)
    BY <1>2, <1>3, AddedFacts
  <1>7. j \in Carried(c)
    BY <1>1, <1>3, <1>4 DEF Carried, Carrier
  <1>8. LeavingStays
    BY <1>4 DEF LeavingStays
  <1>9. /\ \A b : Carried(b)' \subseteq Carried(b) \union {x}
        /\ \A b : b # c => Carried(b)' \subseteq Carried(b)
    BY <1>6, <1>8, CarriedAdded
  <1>10. j \notin Carried(c)'
    BY <1>5 DEF Carried
  <1>11. SUFFICES ASSUME NEW b \in Batch PROVE Cardinality(Carried(b)') + Awaited(b)' <= Allowed'
    BY DEF CarriedOnce
  <1>12. PICK A, B : A = Carried(b) /\ B = Carried(b)'
    OBVIOUS
  <1>13. IsFiniteSet(A) /\ Cardinality(A) \in Nat /\ Cardinality(A) + Awaited(b) <= Allowed
    BY <1>12, CarriedFinite DEF CarriedOnce
  <1>14. Cardinality(B) \in Nat /\ Cardinality(B) <= Cardinality(A)
    <2>1. CASE b = c
      <3>1. B \subseteq (A \ {j}) \union {x} /\ j \in A
        BY <1>7, <1>9, <1>10, <1>12, <2>1
      <3> QED
        BY <1>13, <3>1, OneForAnother
    <2>2. CASE b # c
      <3>1. B \subseteq A
        BY <1>9, <1>12, <2>2
      <3> QED
        BY <1>13, <3>1, NoMore
    <2> QED
      BY <2>1, <2>2
  <1>15. Awaited(b)' = Awaited(b) /\ Allowed' = Allowed /\ Allowed \in Nat /\ Awaited(b) \in Nat
    <2>1. Counts
      BY <1>2 DEF Counts
    <2> QED
      BY <1>2, <2>1, AllowedGrows, AwaitedFacts DEF Awaited, Allowed, apiVars
  <1>16. Cardinality(B) + Awaited(b)' <= Allowed'
    BY <1>13, <1>14, <1>15
  <1> QED
    BY <1>12, <1>16

LEMMA ReplayAddThrowsCarried ==
    ASSUME QueueAssumption, IBounds, LockHeld, CarriedOnce, NoneBorn, NEW r \in Replayer, ReplayAddThrows(r)
    PROVE  CarriedOnce'
  <1>1. PICK c : c = jobs[Letter(r)].batch
    OBVIOUS
  <1>2. /\ HasLetter(r, "step") /\ UNCHANGED apiVars /\ lock = r
        /\ (Spend("refusals") /\ UNCHANGED jobs) \/ (Spend("unsure") /\ Add(c, FALSE))
    BY <1>1 DEF ReplayAddThrows, AddThrows, HasLetter, Now, Replaying, LockHeld
  <1>3. c \in Batch /\ Counts
    BY <1>1, <1>2, ReplayFacts, WorkFacts, Kinded DEF HasLetter, Counts
  <1>4. LeavingStays
    BY <1>2, NoneLeaving DEF HasLetter, Now, LeavingStays
  <1>5. CASE UNCHANGED jobs
    BY <1>2, <1>3, <1>4, <1>5, ReplayQuiet DEF apiVars
  <1>6. CASE Spend("unsure") /\ Add(c, FALSE)
    <2>1. PICK x : Added(x, c, FALSE)
      BY <1>3, <1>6, AddedFacts
    <2>2. /\ \A b : Carried(b)' \subseteq Carried(b) \union {x}
          /\ \A b : b # c => Carried(b)' \subseteq Carried(b)
      BY <1>4, <2>1, CarriedAdded
    <2>3. Allowed + 1 <= Allowed'
      BY <1>3, <1>6, AllowedGrows
    <2>4. \A b \in Batch : Awaited(b)' <= Awaited(b)
      BY <1>2, SameAwaited DEF apiVars
    <2> QED
      BY <1>3, <2>2, <2>3, <2>4, CarriedMore
  <1> QED
    BY <1>2, <1>5, <1>6

LEMMA ReplayCarried ==
    ASSUME QueueAssumption, IBounds, LockHeld, OnePlace, Paged, CarriedOnce, NoneBorn, NEW r \in Replayer, Replay(r)
    PROVE  CarriedOnce'
  <1>1. ASSUME lock = r \/ lock = None, replayer[r].pc # "remove", UNCHANGED <<apiVars, jobs>>, Counts
        PROVE  CarriedOnce'
    <2>1. LeavingStays
      BY <1>1, NoneLeaving DEF LeavingStays
    <2> QED
      BY <1>1, <2>1, ReplayQuiet DEF apiVars
  <1>2. ASSUME NEW scope, ReplayStart(r, scope) PROVE CarriedOnce'
    <2>1. lock = None /\ replayer[r].pc # "remove" /\ UNCHANGED <<apiVars, jobs>> /\ Counts
      BY <1>2, Kinded DEF ReplayStart, LockFree, Counts
    <2> QED
      BY <1>1, <2>1
  <1>3. CASE ReplayPage(r) \/ ReplayPageEnd(r) \/ ReplaySkip(r)
    <2>1. /\ replayer[r].pc \in {"page", "step"} /\ UNCHANGED <<apiVars, jobs>> /\ Counts
      BY <1>3 DEF ReplayPage, ReplayPageEnd, ReplaySkip, HasLetter, Now, Counts
    <2>2. lock = r
      BY <2>1 DEF Replaying, LockHeld
    <2> QED
      BY <1>1, <2>1, <2>2
  <1>4. CASE TakesOut(r)
    <2>1. PICK j : j = Letter(r)
      OBVIOUS
    <2>2. /\ UNCHANGED <<jobs, failing>> /\ ~IsLetter(j)'
      BY <1>4, <2>1, RemoveFacts
    <2>3. HasLetter(r, "remove") /\ UNCHANGED apiVars /\ Counts /\ j \in Ids
      BY <1>4, <2>1, ReplayFacts, Kinded DEF TakesOut, HasLetter, Counts
    <2>4. IsLetter(j)
      BY <2>1, <2>3, LetterIsThere
    <2>5. ~Carrier(j)'
      <3>1. ~IsLive(j) /\ ~InHandler(j)
        BY <2>3, <2>4 DEF OnePlace
      <3> QED
        BY <2>2, <3>1 DEF Carrier, IsLive, InHandler
    <2>6. LeavingStays
      BY <2>1, <2>3, <2>5, OneLeaving DEF LeavingStays
    <2> QED
      BY <2>2, <2>3, <2>6, ReplayQuiet DEF apiVars
  <1>5. CASE ReplayRemoveThrows(r)
    BY <1>5, LeftBehind DEF ReplayRemoveThrows, apiVars
  <1>6. CASE ReplayCrash(r)
    <2>1. UNCHANGED <<apiVars, jobs>> /\ replayer[r].pc \in Replaying
      BY <1>6 DEF ReplayCrash, Replaying
    <2>2. CASE replayer[r].pc # "remove"
      <3>1. lock = r /\ Counts
        BY <1>6, <2>1, <2>2, Kinded DEF ReplayCrash, Now, Counts, LockHeld
      <3> QED
        BY <1>1, <2>1, <2>2, <3>1
    <2>3. CASE replayer[r].pc = "remove"
      <3>1. Spend("leftovers") /\ UNCHANGED <<api, jobs>>
        BY <1>6, <2>1, <2>3 DEF ReplayCrash, Now, apiVars
      <3>2. HasLetter(r, "remove")
        BY <2>1, <2>3 DEF Paged, Tracks, PagedFrom, HasLetter, Now
      <3> QED
        BY <3>1, <3>2, LeftBehind
    <2> QED
      BY <2>2, <2>3
  <1> QED
    BY <1>2, <1>3, <1>4, <1>5, <1>6, RemovesTakeOut, ReplayAddCarried, ReplayAddThrowsCarried DEF Replay

LEMMA CarriedInductive ==
    ASSUME QueueAssumption, IBounds, LockHeld, OnePlace, Paged, CarriedOnce, [Next]_vars
    PROVE  CarriedOnce'
  <1>1. NoneBorn
    BY StepCarriers
  <1>2. CASE Works
    <2>1. Ids' = Ids /\ UNCHANGED <<apiVars, replayer>> /\ Counts
      BY <1>2, WorkQuiet DEF Aside
    <2> QED
      BY <1>1, <2>1, LeavingSame, SameAwaited, CarriedQuiet DEF apiVars
  <1>3. ASSUME NEW b \in Batch, Submit(b) \/ ReplayBlob(b) PROVE CarriedOnce'
    BY <1>1, <1>3, SubmitCarried
  <1>4. ASSUME NEW r \in Replayer, Replay(r) PROVE CarriedOnce'
    BY <1>1, <1>4, ReplayCarried
  <1> QED
    BY <1>2, <1>3, <1>4, NextCases

LEMMA InitCarried ==
    ASSUME Init
    PROVE  CarriedOnce
  <1>1. Ids = {} /\ \A b \in Batch : api[b] = "idle"
    BY DEF Init, Ids
  <1>2. Allowed = 1
    <2>1. \A k \in {"leftovers", "unsure", "rebuilds"} : spent[k] = 0
      BY Kinded DEF Init
    <2> QED
      BY <2>1 DEF Allowed
  <1>3. ASSUME NEW b \in Batch PROVE Cardinality(Carried(b)) + Awaited(b) <= Allowed
    <2>1. Carried(b) = {} /\ Awaited(b) = 1
      BY <1>1 DEF Carried, Awaited
    <2>2. Cardinality(Carried(b)) = 0
      BY <2>1, FS_EmptySet
    <2> QED
      BY <1>2, <2>1, <2>2
  <1> QED
    BY <1>3 DEF CarriedOnce

(* From jobs to what holds them.                                           *)
DeadJobs(b) == {j \in Ids : jobs[j].batch = b /\ IsLetter(j)}
HandledJobs(b) == {j \in Ids : jobs[j].batch = b /\ InHandler(j)}
Removers(b) == {r \in Replayer : HasLetter(r, "remove") /\ jobs[Letter(r)].batch = b}

LEMMA LettersCount ==
    ASSUME IBounds, OnePlace, NEW b
    PROVE  IsFiniteSet(Letters(b)) /\ Cardinality(Letters(b)) <= Cardinality(DeadJobs(b))
  <1>1. dlq \in Seq(Ids) /\ DOMAIN dlq = 1 .. Len(dlq) /\ NoTwice(dlq)
    BY WorkFacts DEF OnePlace
  <1>2. IsFiniteSet(DeadJobs(b))
    BY WorkFacts, IdsFinite, NoMore DEF DeadJobs
  <1>3. PICK f : f = [i \in Letters(b) |-> dlq[i]]
    OBVIOUS
  <1>4. f \in [Letters(b) -> DeadJobs(b)]
    <2>1. \A i \in Letters(b) : dlq[i] \in DeadJobs(b)
      BY <1>1 DEF Letters, DeadJobs, IsLetter, Has
    <2> QED
      BY <1>3, <2>1
  <1>5. \A i, k \in Letters(b) : f[i] = f[k] => i = k
    BY <1>1, <1>3 DEF Letters, NoTwice
  <1> QED
    BY <1>2, <1>4, <1>5, InjectedCount

LEMMA HandlersCount ==
    ASSUME IBounds, OnePlace, NEW b
    PROVE  IsFiniteSet(Handlers(b)) /\ Cardinality(Handlers(b)) <= Cardinality(HandledJobs(b))
  <1>1. IsFiniteSet(HandledJobs(b))
    BY WorkFacts, IdsFinite, NoMore DEF HandledJobs
  <1>2. PICK f : f = [w \in Handlers(b) |-> CHOOSE j \in failing[w] : jobs[j].batch = b]
    OBVIOUS
  <1>3. ASSUME NEW w \in Handlers(b)
        PROVE  w \in Worker /\ f[w] \in failing[w] /\ jobs[f[w]].batch = b
    <2>1. w \in Worker /\ \E j \in failing[w] : jobs[j].batch = b
      BY DEF Handlers
    <2> QED
      BY <1>2, <2>1
  <1>4. f \in [Handlers(b) -> HandledJobs(b)]
    <2>1. \A w \in Handlers(b) : f[w] \in HandledJobs(b)
      BY <1>3, WorkFacts DEF HandledJobs, InHandler
    <2> QED
      BY <1>2, <2>1
  <1>5. \A v, w \in Handlers(b) : f[v] = f[w] => v = w
    BY <1>3 DEF OnePlace
  <1> QED
    BY <1>1, <1>4, <1>5, InjectedCount

(* The jobs of a batch in any place are the carriers, and one being removed. *)
LEMMA PlacesCount ==
    ASSUME QueueAssumption, IBounds, LockHeld, NEW b, NEW U,
           U = {j \in Ids : jobs[j].batch = b /\ Carrier(j)}
    PROVE  /\ Cardinality(Removers(b)) \in Nat
           /\ Cardinality(U) <= Cardinality(Carried(b)) + Cardinality(Removers(b))
  <1>1. IsFiniteSet(Carried(b)) /\ Cardinality(Carried(b)) \in Nat
    BY CarriedFinite
  <1>2. CASE Removers(b) = {}
    <2>1. ASSUME NEW j \in U PROVE j \in Carried(b)
      <3>1. SUFFICES ASSUME Leaving(j) PROVE FALSE
        BY DEF Carried
      <3>2. PICK r \in Replayer : HasLetter(r, "remove") /\ Letter(r) = j
        BY <3>1 DEF Leaving
      <3>3. r \in Removers(b)
        BY <3>2 DEF Removers
      <3> QED
        BY <1>2, <3>3
    <2>2. Cardinality(U) \in Nat /\ Cardinality(U) <= Cardinality(Carried(b))
      BY <1>1, <2>1, NoMore
    <2> QED
      BY <1>1, <1>2, <2>2, FS_EmptySet
  <1>3. CASE Removers(b) # {}
    <2>1. PICK r \in Replayer : HasLetter(r, "remove") /\ jobs[Letter(r)].batch = b
      BY <1>3 DEF Removers
    <2>2. PICK j : j = Letter(r)
      OBVIOUS
    <2>3. \A k : Leaving(k) => k = j
      BY <2>1, <2>2, OneLeaving
    <2>4. U \subseteq Carried(b) \union {j}
      BY <2>3 DEF Carried
    <2>5. Cardinality(U) \in Nat /\ Cardinality(U) <= Cardinality(Carried(b)) + 1
      BY <1>1, <2>4, OneMore
    <2>6. Removers(b) = {r}
      <3>1. lock = r
        BY <2>1 DEF HasLetter, Now, Replaying, LockHeld
      <3>2. \A s \in Replayer : HasLetter(s, "remove") => s = r
        BY <3>1 DEF HasLetter, Now, Replaying, LockHeld
      <3> QED
        BY <2>1, <3>2 DEF Removers
    <2>7. Cardinality(Removers(b)) = 1
      BY <2>6, FS_Singleton
    <2> QED
      BY <1>1, <2>5, <2>7
  <1> QED
    BY <1>2, <1>3

LEMMA CarriersBounded ==
    ASSUME QueueAssumption, IBounds, LockHeld, OnePlace, CarriedOnce
    PROVE  OneCarrier
  <1>1. SUFFICES ASSUME NEW b \in Batch
                 PROVE  Cardinality(LiveJobs(b)) + Cardinality(Letters(b)) + Cardinality(Handlers(b))
                        - Cardinality(Removers(b)) <= Allowed
    BY DEF OneCarrier, Removers, Allowed
  <1>2. PICK live, dead, held : live = LiveJobs(b) /\ dead = DeadJobs(b) /\ held = HandledJobs(b)
    OBVIOUS
  <1>3. /\ IsFiniteSet(live) /\ IsFiniteSet(dead) /\ IsFiniteSet(held)
        /\ Cardinality(live) \in Nat /\ Cardinality(dead) \in Nat /\ Cardinality(held) \in Nat
    BY <1>2, WorkFacts, IdsFinite, NoMore DEF LiveJobs, DeadJobs, HandledJobs
  <1>4. live \cap dead = {} /\ (live \union dead) \cap held = {}
    BY <1>2 DEF LiveJobs, DeadJobs, HandledJobs, OnePlace, IsLive
  <1>5. PICK U : U = (live \union dead) \union held
    OBVIOUS
  <1>6. Cardinality(U) = Cardinality(live) + Cardinality(dead) + Cardinality(held)
    <2>1. /\ IsFiniteSet(live \union dead)
          /\ Cardinality(live \union dead) = Cardinality(live) + Cardinality(dead)
      BY <1>3, <1>4, DisjointCount
    <2>2. Cardinality(U) = Cardinality(live \union dead) + Cardinality(held)
      BY <1>3, <1>4, <1>5, <2>1, DisjointCount
    <2> QED
      BY <1>3, <2>1, <2>2
  <1>7. U = {j \in Ids : jobs[j].batch = b /\ Carrier(j)}
    BY <1>2, <1>5 DEF LiveJobs, DeadJobs, HandledJobs, Carrier, IsLive
  <1>8. /\ Cardinality(Removers(b)) \in Nat
        /\ Cardinality(U) <= Cardinality(Carried(b)) + Cardinality(Removers(b))
    BY <1>7, PlacesCount
  <1>9. /\ Cardinality(Letters(b)) \in Nat /\ Cardinality(Letters(b)) <= Cardinality(dead)
        /\ Cardinality(Handlers(b)) \in Nat /\ Cardinality(Handlers(b)) <= Cardinality(held)
    BY <1>2, LettersCount, HandlersCount, FS_CardinalityType
  <1>10. Cardinality(Carried(b)) \in Nat /\ Cardinality(Carried(b)) + Awaited(b) <= Allowed
    BY CarriedFinite DEF CarriedOnce
  <1>11. Awaited(b) \in Nat
    BY AwaitedFacts
  <1>12. Allowed \in Nat
    <2>1. \A k \in {"leftovers", "unsure", "rebuilds"} : spent[k] \in Nat
      BY WorkFacts, Kinded
    <2> QED
      BY <2>1 DEF Allowed
  <1> QED
    BY <1>2, <1>3, <1>6, <1>8, <1>9, <1>10, <1>11, <1>12

(* Serialised replays never put a batch in the queue twice: as long as no  *)
(* live replay loses its lock, one job, one handler or one dead letter     *)
(* carries a batch, but for a letter that has been enqueued again and is   *)
(* about to be removed, failed removals, uncertain adds and rebuilds       *)
(* (replayDlq, withLock, index.ts, queue.ts).                              *)
THEOREM CarriersExplained == Spec => []OneCarrier
  <1>1. Init => (Serial => CarriedOnce)
    BY InitCarried
  <1>2. IInv /\ Places /\ (Serial => CarriedOnce) /\ [Next]_vars => (Serial => CarriedOnce)'
    BY QueueAssumption, SerialStays, CarriedInductive DEF IInv, IBounds, Places
  <1>3. IInv /\ Places /\ (Serial => CarriedOnce) => OneCarrier
    <2>1. Serial \/ OneCarrier
      BY DEF Serial, OneCarrier
    <2> QED
      BY <2>1, QueueAssumption, CarriersBounded DEF IInv, IBounds, Places
  <1> QED
    BY <1>1, <1>2, <1>3, PlacesInductive, PTL DEF Spec

-----------------------------------------------------------------------------
(* Effects paid for.  Each job may meter its batch once and evaluate it    *)
(* once: the right to do so lies with the job while it waits or is         *)
(* orphaned, and with the worker while one runs it.  A job added, a stall  *)
(* or a crash buys one more.                                               *)

Paid(times, due, runs, budget) ==
    /\ IsFiniteSet(due) /\ IsFiniteSet(runs)
    /\ times + Cardinality(due) + Cardinality(runs) <= budget

LEMMA PaidStill ==
    ASSUME NEW times \in Nat, NEW due, NEW runs, NEW budget \in Nat, Paid(times, due, runs, budget),
           NEW due1, due1 \subseteq due, NEW runs1, runs1 \subseteq runs,
           NEW budget1 \in Nat, budget <= budget1
    PROVE  Paid(times, due1, runs1, budget1)
  <1>1. /\ IsFiniteSet(due1) /\ Cardinality(due) \in Nat /\ Cardinality(due1) \in Nat
        /\ Cardinality(due1) <= Cardinality(due)
    BY NoMore DEF Paid
  <1>2. /\ IsFiniteSet(runs1) /\ Cardinality(runs) \in Nat /\ Cardinality(runs1) \in Nat
        /\ Cardinality(runs1) <= Cardinality(runs)
    BY NoMore DEF Paid
  <1>3. times + Cardinality(due) + Cardinality(runs) <= budget
    BY DEF Paid
  <1>4. times + Cardinality(due1) + Cardinality(runs1) <= budget1
    BY <1>1, <1>2, <1>3
  <1> QED
    BY <1>1, <1>2, <1>4 DEF Paid

LEMMA PaidBought ==
    ASSUME NEW times \in Nat, NEW due, NEW runs, NEW budget \in Nat, Paid(times, due, runs, budget),
           NEW x, NEW due1, due1 \subseteq due \union {x}, NEW runs1, runs1 \subseteq runs,
           NEW budget1 \in Nat, budget + 1 <= budget1
    PROVE  Paid(times, due1, runs1, budget1)
  <1>1. /\ IsFiniteSet(due1) /\ Cardinality(due) \in Nat /\ Cardinality(due1) \in Nat
        /\ Cardinality(due1) <= Cardinality(due) + 1
    BY OneMore DEF Paid
  <1>2. /\ IsFiniteSet(runs1) /\ Cardinality(runs) \in Nat /\ Cardinality(runs1) \in Nat
        /\ Cardinality(runs1) <= Cardinality(runs)
    BY NoMore DEF Paid
  <1>3. times + Cardinality(due) + Cardinality(runs) <= budget
    BY DEF Paid
  <1>4. times + Cardinality(due1) + Cardinality(runs1) <= budget1
    BY <1>1, <1>2, <1>3
  <1> QED
    BY <1>1, <1>2, <1>4 DEF Paid

\* A worker takes the right of a job over.
LEMMA PaidTaken ==
    ASSUME NEW times \in Nat, NEW due, NEW runs, NEW budget \in Nat, Paid(times, due, runs, budget),
           NEW j \in due, NEW due1, due1 \subseteq due \ {j}, NEW w, NEW runs1, runs1 \subseteq runs \union {w},
           NEW budget1 \in Nat, budget <= budget1
    PROVE  Paid(times, due1, runs1, budget1)
  <1>1. /\ IsFiniteSet(due1) /\ Cardinality(due) \in Nat /\ Cardinality(due1) \in Nat
        /\ Cardinality(due1) + 1 <= Cardinality(due)
    BY OneLess DEF Paid
  <1>2. /\ IsFiniteSet(runs1) /\ Cardinality(runs) \in Nat /\ Cardinality(runs1) \in Nat
        /\ Cardinality(runs1) <= Cardinality(runs) + 1
    BY OneMore DEF Paid
  <1>3. times + Cardinality(due) + Cardinality(runs) <= budget
    BY DEF Paid
  <1>4. times + Cardinality(due1) + Cardinality(runs1) <= budget1
    BY <1>1, <1>2, <1>3
  <1> QED
    BY <1>1, <1>2, <1>4 DEF Paid

\* A worker hands the right back.
LEMMA PaidBack ==
    ASSUME NEW times \in Nat, NEW due, NEW runs, NEW budget \in Nat, Paid(times, due, runs, budget),
           NEW w \in runs, NEW runs1, runs1 \subseteq runs \ {w}, NEW j, NEW due1, due1 \subseteq due \union {j},
           NEW budget1 \in Nat, budget <= budget1
    PROVE  Paid(times, due1, runs1, budget1)
  <1>1. /\ IsFiniteSet(due1) /\ Cardinality(due) \in Nat /\ Cardinality(due1) \in Nat
        /\ Cardinality(due1) <= Cardinality(due) + 1
    BY OneMore DEF Paid
  <1>2. /\ IsFiniteSet(runs1) /\ Cardinality(runs) \in Nat /\ Cardinality(runs1) \in Nat
        /\ Cardinality(runs1) + 1 <= Cardinality(runs)
    BY OneLess DEF Paid
  <1>3. times + Cardinality(due) + Cardinality(runs) <= budget
    BY DEF Paid
  <1>4. times + Cardinality(due1) + Cardinality(runs1) <= budget1
    BY <1>1, <1>2, <1>3
  <1> QED
    BY <1>1, <1>2, <1>4 DEF Paid

\* A worker uses its right up.
LEMMA PaidUsed ==
    ASSUME NEW times \in Nat, NEW due, NEW runs, NEW budget \in Nat, Paid(times, due, runs, budget),
           NEW w \in runs, NEW runs1, runs1 \subseteq runs \ {w}, NEW due1, due1 \subseteq due,
           NEW times1 \in Nat, times1 <= times + 1, NEW budget1 \in Nat, budget <= budget1
    PROVE  Paid(times1, due1, runs1, budget1)
  <1>1. /\ IsFiniteSet(due1) /\ Cardinality(due) \in Nat /\ Cardinality(due1) \in Nat
        /\ Cardinality(due1) <= Cardinality(due)
    BY NoMore DEF Paid
  <1>2. /\ IsFiniteSet(runs1) /\ Cardinality(runs) \in Nat /\ Cardinality(runs1) \in Nat
        /\ Cardinality(runs1) + 1 <= Cardinality(runs)
    BY OneLess DEF Paid
  <1>3. times + Cardinality(due) + Cardinality(runs) <= budget
    BY DEF Paid
  <1>4. times1 + Cardinality(due1) + Cardinality(runs1) <= budget1
    BY <1>1, <1>2, <1>3
  <1> QED
    BY <1>1, <1>2, <1>4 DEF Paid

\* An active job has an owner, an idle worker no job, and a run about to
\* meter is a first attempt.
OwnersRun ==
    /\ \A j \in Ids : jobs[j].st = "active" => jobs[j].owner \in Worker
    /\ \A w \in Worker : At(w, "idle") => worker[w].job = 0
    /\ \A w \in Worker : At(w, "meter") => Meters(w)

\* What holds the right to an effect: metering, which only a first attempt
\* does (`once'), or evaluating.
Again(j) == jobs[j].st \in {"wait", "delayed"} \/ Orphaned(j)
Ahead(once) == IF once THEN {"read", "meter"} ELSE {"read", "meter", "work", "evals"}
StillDue(b, once) ==
    {j \in Ids : jobs[j].batch = b /\ ~jobs[j].replay /\ Again(j) /\ (once => jobs[j].made = 0)}
UnderWay(b, once) ==
    {w \in Worker : /\ worker[w].pc \in Ahead(once) /\ BatchOf(w) = b
                    /\ ~jobs[worker[w].job].replay /\ (once => worker[w].made = 0)}
Times(b, once) == IF once THEN metered[b] ELSE evaluated[b]
JobsOf(b) == {j \in Ids : jobs[j].batch = b}
Budget(b) == Cardinality(JobsOf(b)) + spent["stalls"] + spent["crashes"]

Owed(b, once) == Paid(Times(b, once), StillDue(b, once), UnderWay(b, once), Budget(b))
EffectsPaid == \A b \in Batch : \A once \in BOOLEAN : Owed(b, once)

\* Jobs keep their batch and their replay flag.
Named ==
    /\ Ids \subseteq Ids'
    /\ \A k \in Ids : jobs'[k].batch = jobs[k].batch /\ jobs'[k].replay = jobs[k].replay

LEMMA NamedJobs ==
    /\ UNCHANGED jobs => Named /\ Ids' = Ids
    /\ \A j, job : Changed(j, job) => Named /\ Ids' = Ids
    /\ \A x, b, replay : Added(x, b, replay) => Named
  <1>1. UNCHANGED jobs => Named /\ Ids' = Ids
    BY DEF Named, Ids
  <1>2. ASSUME NEW j, NEW job, Changed(j, job) PROVE Named /\ Ids' = Ids
    BY <1>2 DEF Named, Changed
  <1>3. ASSUME NEW x, NEW b, NEW replay, Added(x, b, replay) PROVE Named
    BY <1>3 DEF Named, Added
  <1> QED
    BY <1>1, <1>2, <1>3

LEMMA TimesTypes ==
    ASSUME IBounds, NEW b \in Batch, NEW once \in BOOLEAN
    PROVE  Times(b, once) \in Nat
  BY WorkFacts DEF Times

(* What is allowed never shrinks, and a job, a stall or a crash adds one.  *)
LEMMA BudgetGrows ==
    ASSUME IBounds, Counts, Named, Ids' = Ids \/ \E x : Ids' = Ids \union {x}, NEW b
    PROVE  /\ Budget(b) \in Nat /\ Budget(b)' \in Nat /\ Budget(b) <= Budget(b)'
           /\ \A x : x \in Ids' \ Ids /\ jobs'[x].batch = b => Budget(b) + 1 <= Budget(b)'
           /\ Spend("stalls") \/ Spend("crashes") => Budget(b) + 1 <= Budget(b)'
  <1>1. PICK A, B : A = JobsOf(b) /\ B = JobsOf(b)'
    OBVIOUS
  <1>2. IsFiniteSet(Ids) /\ IsFiniteSet(Ids')
    <2>1. IsFiniteSet(Ids)
      BY WorkFacts, IdsFinite
    <2> QED
      BY <2>1, FS_AddElement
  <1>3. A \subseteq B /\ A \subseteq Ids /\ B \subseteq Ids'
    BY <1>1 DEF JobsOf, Named
  <1>4. /\ IsFiniteSet(B) /\ Cardinality(A) \in Nat /\ Cardinality(B) \in Nat
        /\ Cardinality(A) <= Cardinality(B)
    BY <1>2, <1>3, NoMore
  <1>5. PICK stalls \in Nat, crashes \in Nat : stalls = spent["stalls"] /\ crashes = spent["crashes"]
    BY WorkFacts, Kinded
  <1>6. PICK stalls1 \in Nat, crashes1 \in Nat :
            /\ stalls1 = spent'["stalls"] /\ crashes1 = spent'["crashes"]
            /\ stalls <= stalls1 /\ crashes <= crashes1
    BY <1>5, Kinded, CountsGrow
  <1>7. Budget(b) = Cardinality(A) + stalls + crashes /\ Budget(b)' = Cardinality(B) + stalls1 + crashes1
    BY <1>1, <1>5, <1>6 DEF Budget
  <1>8. Budget(b) \in Nat /\ Budget(b)' \in Nat /\ Budget(b) <= Budget(b)'
    BY <1>4, <1>6, <1>7
  <1>9. ASSUME NEW x \in Ids' \ Ids, jobs'[x].batch = b PROVE Budget(b) + 1 <= Budget(b)'
    <2>1. x \in B /\ A \subseteq B \ {x}
      BY <1>1, <1>3, <1>9 DEF JobsOf
    <2>2. Cardinality(A) + 1 <= Cardinality(B)
      BY <1>4, <2>1, OneLess
    <2> QED
      BY <1>4, <1>6, <1>7, <2>2
  <1>10. ASSUME Spend("stalls") \/ Spend("crashes") PROVE Budget(b) + 1 <= Budget(b)'
    <2>1. stalls1 = stalls + 1 \/ crashes1 = crashes + 1
      BY <1>5, <1>6, <1>10, WorkFacts, Kinded, SpendGrows
    <2> QED
      BY <1>4, <1>6, <1>7, <2>1
  <1> QED
    BY <1>8, <1>9, <1>10

(* The other workers and the other jobs keep what they hold.               *)
LEMMA OthersUnderWay ==
    ASSUME IBounds, Named, NEW w, \A v \in Worker \ {w} : worker'[v] = worker[v],
           NEW b, NEW once \in BOOLEAN
    PROVE  UnderWay(b, once)' \ {w} \subseteq UnderWay(b, once)
  <1>1. SUFFICES ASSUME NEW v \in UnderWay(b, once)', v # w PROVE v \in UnderWay(b, once)
    OBVIOUS
  <1>2. /\ v \in Worker /\ worker'[v] = worker[v] /\ worker[v].pc \in Ahead(once)
        /\ jobs'[worker[v].job].batch = b /\ ~jobs'[worker[v].job].replay
        /\ once => worker[v].made = 0
    BY <1>1 DEF UnderWay, BatchOf, Ahead
  <1>3. worker[v].job \in Ids
    BY <1>2 DEF IBounds, RunBounds, At, Ahead
  <1> QED
    BY <1>2, <1>3 DEF UnderWay, BatchOf, Named

LEMMA OthersDue ==
    ASSUME IBounds, OwnersRun, NEW j, \A v \in Worker : worker[v].job \in {0, j} \/ worker'[v].job = worker[v].job,
           \A k \in Ids \ {j} : jobs'[k] = jobs[k], NEW b, NEW once \in BOOLEAN
    PROVE  \A k \in Ids \ {j} : k \in StillDue(b, once)' => k \in StillDue(b, once)
  <1>1. SUFFICES ASSUME NEW k \in Ids \ {j}, k \in StillDue(b, once)' PROVE k \in StillDue(b, once)
    OBVIOUS
  <1>2. /\ jobs'[k] = jobs[k] /\ jobs[k].batch = b /\ ~jobs[k].replay /\ Again(k)'
        /\ once => jobs[k].made = 0
    BY <1>1 DEF StillDue
  <1>3. k # 0
    BY WorkFacts, ListFacts
  <1>4. Again(k)
    <2>1. CASE jobs[k].st = "active"
      <3>1. PICK v \in Worker : v = jobs[k].owner
        BY <2>1 DEF OwnersRun
      <3>2. worker'[v].job # k
        BY <1>2, <2>1, <3>1 DEF Again, Orphaned
      <3>3. worker[v].job # k
        BY <1>1, <1>3, <3>2
      <3> QED
        BY <2>1, <3>1, <3>3 DEF Again, Orphaned
    <2>2. CASE jobs[k].st # "active"
      BY <1>2, <2>2 DEF Again, Orphaned
    <2> QED
      BY <2>1, <2>2
  <1> QED
    BY <1>2, <1>4 DEF StillDue

(* What a worker goes on with stays in order.                              *)
LEMMA OwnersKept ==
    ASSUME IBounds, OwnersRun, Named,
           \A k \in Ids' : \/ k \in Ids /\ jobs'[k] = jobs[k]
                           \/ jobs'[k].st = "active" => jobs'[k].owner \in Worker,
           \A v \in Worker : \/ worker'[v] = worker[v]
                             \/ worker'[v].pc = "idle" /\ worker'[v].job = 0
                             \/ worker'[v].pc \notin {"idle", "meter"}
                             \/ worker'[v].pc = "meter" /\ Meters(v)'
    PROVE  OwnersRun'
  <1>1. ASSUME NEW k \in Ids', jobs'[k].st = "active" PROVE jobs'[k].owner \in Worker
    BY <1>1 DEF OwnersRun
  <1>2. ASSUME NEW v \in Worker, At(v, "idle")' PROVE worker'[v].job = 0
    BY <1>2 DEF OwnersRun, At
  <1>3. ASSUME NEW v \in Worker, At(v, "meter")' PROVE Meters(v)'
    <2>1. CASE worker'[v] = worker[v]
      <3>1. Meters(v) /\ worker[v].job \in Ids
        BY <1>3, <2>1 DEF OwnersRun, At, IBounds, RunBounds
      <3> QED
        BY <2>1, <3>1 DEF Meters, Named
    <2>2. CASE worker'[v] # worker[v]
      BY <1>3, <2>2 DEF At
    <2> QED
      BY <2>1, <2>2
  <1> QED
    BY <1>1, <1>2, <1>3 DEF OwnersRun

(* From one right to all of them.                                          *)
LEMMA OwedStill ==
    ASSUME IBounds, NEW b \in Batch, NEW once \in BOOLEAN, Owed(b, once),
           Times(b, once)' = Times(b, once), StillDue(b, once)' \subseteq StillDue(b, once),
           UnderWay(b, once)' \subseteq UnderWay(b, once),
           Budget(b) \in Nat, Budget(b)' \in Nat, Budget(b) <= Budget(b)'
    PROVE  Owed(b, once)'
  <1>1. PICK due, runs, due1, runs1 :
            /\ due = StillDue(b, once) /\ runs = UnderWay(b, once)
            /\ due1 = StillDue(b, once)' /\ runs1 = UnderWay(b, once)'
    OBVIOUS
  <1>2. PICK times \in Nat, budget \in Nat, budget1 \in Nat :
            times = Times(b, once) /\ budget = Budget(b) /\ budget1 = Budget(b)'
    BY TimesTypes
  <1>3. Paid(times, due, runs, budget)
    BY <1>1, <1>2 DEF Owed
  <1>4. Paid(times, due1, runs1, budget1)
    BY <1>1, <1>2, <1>3, PaidStill
  <1> QED
    BY <1>1, <1>2, <1>4 DEF Owed

LEMMA OwedBought ==
    ASSUME IBounds, NEW b \in Batch, NEW once \in BOOLEAN, Owed(b, once), NEW x,
           Times(b, once)' = Times(b, once), StillDue(b, once)' \subseteq StillDue(b, once) \union {x},
           UnderWay(b, once)' \subseteq UnderWay(b, once),
           Budget(b) \in Nat, Budget(b)' \in Nat, Budget(b) + 1 <= Budget(b)'
    PROVE  Owed(b, once)'
  <1>1. PICK due, runs, due1, runs1 :
            /\ due = StillDue(b, once) /\ runs = UnderWay(b, once)
            /\ due1 = StillDue(b, once)' /\ runs1 = UnderWay(b, once)'
    OBVIOUS
  <1>2. PICK times \in Nat, budget \in Nat, budget1 \in Nat :
            times = Times(b, once) /\ budget = Budget(b) /\ budget1 = Budget(b)'
    BY TimesTypes
  <1>3. Paid(times, due, runs, budget)
    BY <1>1, <1>2 DEF Owed
  <1>4. Paid(times, due1, runs1, budget1)
    BY <1>1, <1>2, <1>3, PaidBought
  <1> QED
    BY <1>1, <1>2, <1>4 DEF Owed

(* Steps that touch no run: at most a job is added.                        *)
LEMMA AddedEffects ==
    ASSUME QueueAssumption, IBounds, OwnersRun, EffectsPaid, UNCHANGED <<worker, metered, evaluated>>, Counts,
           \/ UNCHANGED jobs
           \/ \E c \in Batch : \E replay \in BOOLEAN : Add(c, replay)
    PROVE  OwnersRun' /\ EffectsPaid'
  <1>1. ASSUME NEW b \in Batch, NEW once \in BOOLEAN, Named
        PROVE  /\ UnderWay(b, once)' \subseteq UnderWay(b, once)
               /\ Times(b, once)' = Times(b, once) /\ Owed(b, once)
    <2>1. UnderWay(b, once)' \ {None} \subseteq UnderWay(b, once)
      BY <1>1, OthersUnderWay
    <2>2. None \notin UnderWay(b, once)'
      BY DEF UnderWay, QueueAssumption
    <2> QED
      BY <2>1, <2>2 DEF Times, EffectsPaid
  <1>2. CASE UNCHANGED jobs
    <2>1. Named /\ Ids' = Ids
      BY <1>2, NamedJobs
    <2>2. OwnersRun'
      BY <1>2, <2>1, OwnersKept
    <2>3. ASSUME NEW b \in Batch, NEW once \in BOOLEAN PROVE Owed(b, once)'
      <3>1. StillDue(b, once)' \subseteq StillDue(b, once)
        BY <1>2, <2>1 DEF StillDue, Again, Orphaned
      <3>2. Budget(b) \in Nat /\ Budget(b)' \in Nat /\ Budget(b) <= Budget(b)'
        BY <2>1, BudgetGrows
      <3> QED
        BY <1>1, <2>1, <3>1, <3>2, OwedStill
    <2> QED
      BY <2>2, <2>3 DEF EffectsPaid
  <1>3. ASSUME NEW c \in Batch, NEW replay \in BOOLEAN, Add(c, replay)
        PROVE  OwnersRun' /\ EffectsPaid'
    <2>1. PICK x : Added(x, c, replay)
      BY <1>3, AddedFacts
    <2>2. /\ Named /\ Ids' = Ids \union {x} /\ x \notin Ids /\ jobs'[x].batch = c /\ jobs'[x].st = "wait"
          /\ \A k \in Ids : jobs'[k] = jobs[k]
      BY <2>1, NamedJobs DEF Added, Job
    <2>3. OwnersRun'
      BY <2>2, OwnersKept
    <2>4. ASSUME NEW b \in Batch, NEW once \in BOOLEAN PROVE Owed(b, once)'
      <3>1. \A k \in Ids \ {x} : k \in StillDue(b, once)' => k \in StillDue(b, once)
        BY <2>2, OthersDue
      <3>2. /\ StillDue(b, once)' \subseteq StillDue(b, once) \union {x}
            /\ x \in StillDue(b, once)' => b = c
        BY <2>2, <3>1 DEF StillDue
      <3>3. /\ Budget(b) \in Nat /\ Budget(b)' \in Nat /\ Budget(b) <= Budget(b)'
            /\ b = c => Budget(b) + 1 <= Budget(b)'
        BY <2>2, BudgetGrows
      <3>4. CASE b = c
        BY <1>1, <2>2, <3>2, <3>3, <3>4, OwedBought
      <3>5. CASE b # c
        BY <1>1, <2>2, <3>2, <3>3, <3>5, OwedStill
      <3> QED
        BY <3>4, <3>5
    <2> QED
      BY <2>3, <2>4 DEF EffectsPaid
  <1> QED
    BY <1>2, <1>3

(* A worker takes a job and its rights with it.                            *)
LEMMA TakeEffects ==
    ASSUME QueueAssumption, IBounds, OwnersRun, EffectsPaid,
           NEW w \in Worker, NEW j \in Ids, Take(w, j)
    PROVE  OwnersRun' /\ EffectsPaid'
  <1>1. PICK job : /\ Changed(j, job) /\ jobs[j].st = "wait"
                   /\ job.st = "active" /\ job.owner = w /\ job.made = jobs[j].made
    BY TakeJob
  <1>2. /\ Named /\ Ids' = Ids /\ jobs'[j] = job /\ \A k \in Ids \ {j} : jobs'[k] = jobs[k]
    BY <1>1, NamedJobs DEF Changed
  <1>3. /\ worker'[w].job = j /\ worker'[w].pc = "read" /\ worker'[w].made = jobs[j].made
        /\ \A v \in Worker \ {w} : worker'[v] = worker[v]
        /\ UNCHANGED <<metered, evaluated>> /\ Counts
    BY WorkFacts DEF Take, effects, Counts
  <1>4. worker[w].job = 0
    BY DEF Take, OwnersRun
  <1>5. OwnersRun'
    BY <1>1, <1>2, <1>3, OwnersKept
  <1>6. ASSUME NEW b \in Batch, NEW once \in BOOLEAN PROVE Owed(b, once)'
    <2>1. \A k \in Ids \ {j} : k \in StillDue(b, once)' => k \in StillDue(b, once)
      BY <1>2, <1>3, <1>4, OthersDue
    <2>2. j \notin StillDue(b, once)'
      BY <1>1, <1>2, <1>3 DEF StillDue, Again, Orphaned
    <2>3. StillDue(b, once)' \subseteq StillDue(b, once) \ {j}
      BY <1>2, <2>1, <2>2 DEF StillDue
    <2>4. UnderWay(b, once)' \ {w} \subseteq UnderWay(b, once)
      BY <1>2, <1>3, OthersUnderWay
    <2>5. w \in UnderWay(b, once)' => j \in StillDue(b, once)
      BY <1>1, <1>2, <1>3 DEF UnderWay, BatchOf, Named, StillDue, Again
    <2>6. Times(b, once)' = Times(b, once) /\ Owed(b, once)
      BY <1>3 DEF Times, EffectsPaid
    <2>7. Budget(b) \in Nat /\ Budget(b)' \in Nat /\ Budget(b) <= Budget(b)'
      BY <1>2, <1>3, BudgetGrows
    <2>8. CASE j \in StillDue(b, once)
      <3>1. PICK due, runs, due1, runs1 :
                /\ due = StillDue(b, once) /\ runs = UnderWay(b, once)
                /\ due1 = StillDue(b, once)' /\ runs1 = UnderWay(b, once)'
        OBVIOUS
      <3>2. PICK times \in Nat, budget \in Nat, budget1 \in Nat :
                times = Times(b, once) /\ budget = Budget(b) /\ budget1 = Budget(b)'
        BY <2>7, TimesTypes
      <3>3. Paid(times, due, runs, budget)
        BY <2>6, <3>1, <3>2 DEF Owed
      <3>4. Paid(times, due1, runs1, budget1)
        BY <2>3, <2>4, <2>7, <2>8, <3>1, <3>2, <3>3, PaidTaken
      <3> QED
        BY <2>6, <3>1, <3>2, <3>4 DEF Owed
    <2>9. CASE j \notin StillDue(b, once)
      BY <2>3, <2>4, <2>5, <2>6, <2>7, <2>9, OwedStill
    <2> QED
      BY <2>8, <2>9
  <1> QED
    BY <1>5, <1>6 DEF EffectsPaid

(* A run that ends: a failed one hands its right back with its job, a      *)
(* finished one has used it, and what a crash leaves behind is paid for.   *)
LEMMA FreeFacts ==
    ASSUME IBounds, NEW w \in Worker, Free(w)
    PROVE  /\ worker'[w].job = 0 /\ worker'[w].pc = "idle"
           /\ \A v \in Worker \ {w} : worker'[v] = worker[v]
           /\ \A b, once : w \notin UnderWay(b, once)'
  <1>1. /\ worker'[w].job = 0 /\ worker'[w].pc = "idle"
        /\ \A v \in Worker \ {w} : worker'[v] = worker[v]
    BY WorkFacts DEF Free
  <1> QED
    BY <1>1 DEF UnderWay, Ahead

\* Of a run that ends only its own job may become due again.
LEMMA FreedEffects ==
    ASSUME QueueAssumption, IBounds, OwnersRun, EffectsPaid, NEW w \in Worker, ~At(w, "idle"), Free(w),
           Named, Ids' = Ids, UNCHANGED <<metered, evaluated>>, Counts,
           \A k \in Ids \ {worker[w].job} : jobs'[k] = jobs[k],
           \A k \in Ids : jobs'[k] = jobs[k] \/ (jobs'[k].st = "active" => jobs'[k].owner \in Worker),
           \A b \in Batch : \A once \in BOOLEAN :
              \/ worker[w].job \in StillDue(b, once)' => worker[w].job \in StillDue(b, once)
              \/ w \in UnderWay(b, once)
              \/ Spend("crashes")
    PROVE  OwnersRun' /\ EffectsPaid'
  <1>1. PICK j \in Ids : j = worker[w].job
    BY DEF IBounds, RunBounds
  <1>2. OwnersRun'
    BY FreeFacts, OwnersKept
  <1>3. ASSUME NEW b \in Batch, NEW once \in BOOLEAN PROVE Owed(b, once)'
    <2>1. \A k \in Ids \ {j} : k \in StillDue(b, once)' => k \in StillDue(b, once)
      BY <1>1, FreeFacts, OthersDue
    <2>2. StillDue(b, once)' \subseteq StillDue(b, once) \union {j}
      BY <2>1 DEF StillDue
    <2>3. UnderWay(b, once)' \subseteq UnderWay(b, once) \ {w}
      <3>1. w \notin UnderWay(b, once)' /\ \A v \in Worker \ {w} : worker'[v] = worker[v]
        BY FreeFacts
      <3>2. UnderWay(b, once)' \ {w} \subseteq UnderWay(b, once)
        BY <3>1, OthersUnderWay
      <3> QED
        BY <3>1, <3>2
    <2>4. Times(b, once)' = Times(b, once) /\ Owed(b, once)
      BY DEF Times, EffectsPaid
    <2>5. /\ Budget(b) \in Nat /\ Budget(b)' \in Nat /\ Budget(b) <= Budget(b)'
          /\ Spend("crashes") => Budget(b) + 1 <= Budget(b)'
      BY BudgetGrows
    <2>6. CASE Spend("crashes")
      BY <2>2, <2>3, <2>4, <2>5, <2>6, OwedBought
    <2>7. CASE w \in UnderWay(b, once)
      <3>1. PICK due, runs, due1, runs1 :
                /\ due = StillDue(b, once) /\ runs = UnderWay(b, once)
                /\ due1 = StillDue(b, once)' /\ runs1 = UnderWay(b, once)'
        OBVIOUS
      <3>2. PICK times \in Nat, budget \in Nat, budget1 \in Nat :
                times = Times(b, once) /\ budget = Budget(b) /\ budget1 = Budget(b)'
        BY <2>5, TimesTypes
      <3>3. Paid(times, due, runs, budget)
        BY <2>4, <3>1, <3>2 DEF Owed
      <3>4. Paid(times, due1, runs1, budget1)
        BY <2>2, <2>3, <2>5, <2>7, <3>1, <3>2, <3>3, PaidBack
      <3> QED
        BY <2>4, <3>1, <3>2, <3>4 DEF Owed
    <2>8. CASE j \in StillDue(b, once)' => j \in StillDue(b, once)
      BY <2>2, <2>3, <2>4, <2>5, <2>8, OwedStill
    <2> QED
      BY <1>1, <2>6, <2>7, <2>8
  <1> QED
    BY <1>2, <1>3 DEF EffectsPaid

(* The job of a run that lost its lock is not the run's to give back.      *)
LEMMA LostJobDue ==
    ASSUME IBounds, OwnersRun, NEW w \in Worker, NEW j \in Ids, jobs[j].owner # w, UNCHANGED jobs,
           \A v \in Worker \ {w} : worker'[v] = worker[v], NEW b, NEW once, j \in StillDue(b, once)'
    PROVE  j \in StillDue(b, once)
  <1>1. /\ jobs'[j] = jobs[j] /\ jobs[j].batch = b /\ ~jobs[j].replay /\ Again(j)'
        /\ once => jobs[j].made = 0
    BY DEF StillDue
  <1>2. CASE jobs[j].st = "active"
    <2>1. PICK v \in Worker \ {w} : v = jobs[j].owner
      BY <1>2 DEF OwnersRun
    <2>2. worker[v].job # j
      BY <1>1, <1>2, <2>1 DEF Again, Orphaned
    <2> QED
      BY <1>1, <1>2, <2>1, <2>2 DEF StillDue, Again, Orphaned
  <1>3. CASE jobs[j].st # "active"
    BY <1>1, <1>3 DEF StillDue, Again, Orphaned
  <1> QED
    BY <1>2, <1>3

LEMMA FailEffects ==
    ASSUME QueueAssumption, IBounds, OwnersRun, EffectsPaid, NEW w \in Worker,
           worker[w].pc \in {"read", "work"}, NEW why \in {"unrecoverable", "error"}, Fail(w, why)
    PROVE  OwnersRun' /\ EffectsPaid'
  <1>1. ~At(w, "idle")
    BY DEF At
  <1>2. PICK j \in Ids : j = worker[w].job
    BY <1>1 DEF IBounds, RunBounds
  <1>3. Free(w) /\ UNCHANGED <<metered, evaluated>> /\ Counts
    BY DEF Fail, effects, Counts
  <1>4. CASE jobs[j].owner # w /\ UNCHANGED jobs
    <2>1. Named /\ Ids' = Ids
      BY <1>4, NamedJobs
    <2>2. \A v \in Worker \ {w} : worker'[v] = worker[v]
      BY <1>3, FreeFacts
    <2>3. \A b \in Batch : \A once \in BOOLEAN : j \in StillDue(b, once)' => j \in StillDue(b, once)
      BY <1>4, <2>2, LostJobDue
    <2> QED
      BY <1>1, <1>2, <1>3, <1>4, <2>1, <2>3, FreedEffects
  <1>5. ASSUME NEW job, Changed(j, job), job.owner = None, job.made > 0, job.st \in {"delayed", "failed"}
        PROVE  OwnersRun' /\ EffectsPaid'
    <2>1. /\ Named /\ Ids' = Ids /\ jobs'[j] = job /\ \A k \in Ids \ {j} : jobs'[k] = jobs[k]
      BY <1>5, NamedJobs DEF Changed
    <2>2. ASSUME NEW b \in Batch, NEW once \in BOOLEAN, j \in StillDue(b, once)'
          PROVE  w \in UnderWay(b, once)
      <3>1. /\ jobs[j].batch = b /\ ~jobs[j].replay /\ ~once
        BY <1>5, <2>1, <2>2 DEF StillDue, Named
      <3> QED
        BY <1>2, <3>1 DEF UnderWay, BatchOf, Ahead
    <2>3. \A k \in Ids : jobs'[k] = jobs[k] \/ jobs'[k].st # "active"
      BY <1>5, <2>1
    <2> QED
      BY <1>1, <1>2, <1>3, <2>1, <2>2, <2>3, FreedEffects
  <1> QED
    BY <1>1, <1>2, <1>4, <1>5, FailJob

LEMMA FinishEffects ==
    ASSUME QueueAssumption, IBounds, OwnersRun, EffectsPaid, NEW w \in Worker, Finish(w)
    PROVE  OwnersRun' /\ EffectsPaid'
  <1>1. ~At(w, "idle") /\ Free(w) /\ UNCHANGED <<metered, evaluated>> /\ Counts
    BY DEF Finish, At, effects, Counts
  <1>2. PICK j \in Ids : j = worker[w].job
    BY <1>1 DEF IBounds, RunBounds
  <1>3. CASE jobs[j].owner # w /\ UNCHANGED jobs
    <2>1. Named /\ Ids' = Ids
      BY <1>3, NamedJobs
    <2>2. \A v \in Worker \ {w} : worker'[v] = worker[v]
      BY <1>1, FreeFacts
    <2>3. \A b \in Batch : \A once \in BOOLEAN : j \in StillDue(b, once)' => j \in StillDue(b, once)
      BY <1>3, <2>2, LostJobDue
    <2> QED
      BY <1>1, <1>2, <1>3, <2>1, <2>3, FreedEffects
  <1>4. ASSUME NEW job, Changed(j, job), job.st = "done"
        PROVE  OwnersRun' /\ EffectsPaid'
    <2>1. /\ Named /\ Ids' = Ids /\ jobs'[j] = job /\ \A k \in Ids \ {j} : jobs'[k] = jobs[k]
      BY <1>4, NamedJobs DEF Changed
    <2>2. \A b \in Batch : \A once \in BOOLEAN : j \notin StillDue(b, once)'
      BY <1>4, <2>1 DEF StillDue, Again, Orphaned
    <2>3. \A k \in Ids : jobs'[k] = jobs[k] \/ jobs'[k].st # "active"
      BY <1>4, <2>1
    <2> QED
      BY <1>1, <1>2, <2>1, <2>2, <2>3, FreedEffects
  <1> QED
    BY <1>2, <1>3, <1>4, FinishJob

LEMMA CrashEffects ==
    ASSUME QueueAssumption, IBounds, OwnersRun, EffectsPaid, NEW w \in Worker, WorkerCrash(w)
    PROVE  OwnersRun' /\ EffectsPaid'
  <1>1. /\ ~At(w, "idle") /\ Free(w) /\ UNCHANGED <<jobs, metered, evaluated>> /\ Spend("crashes")
    BY DEF WorkerCrash, effects
  <1>2. Named /\ Ids' = Ids /\ Counts
    BY <1>1, NamedJobs, Kinded DEF Counts
  <1> QED
    BY <1>1, <1>2, FreedEffects

(* A run that goes on uses its rights once each.                           *)
LEMMA RunsOn ==
    ASSUME IBounds, OwnersRun, NEW w \in Worker, NEW to, Goto(w, to), UNCHANGED jobs,
           NEW b, NEW once \in BOOLEAN
    PROVE  /\ worker'[w].pc = to /\ worker'[w].job = worker[w].job /\ worker'[w].made = worker[w].made
           /\ \A v \in Worker \ {w} : worker'[v] = worker[v]
           /\ StillDue(b, once)' \subseteq StillDue(b, once)
           /\ UnderWay(b, once)' \ {w} \subseteq UnderWay(b, once)
           /\ w \in UnderWay(b, once)' =>
                 /\ to \in Ahead(once) /\ BatchOf(w) = b /\ ~jobs[worker[w].job].replay
                 /\ once => worker[w].made = 0
  <1>1. /\ worker'[w].pc = to /\ worker'[w].job = worker[w].job /\ worker'[w].made = worker[w].made
        /\ \A v \in Worker \ {w} : worker'[v] = worker[v]
    BY WorkFacts DEF Goto, RunSet
  <1>2. Named /\ Ids' = Ids
    BY NamedJobs
  <1>3. \A k \in Ids \ {0} : k \in StillDue(b, once)' => k \in StillDue(b, once)
    BY <1>1, OthersDue
  <1>4. 0 \notin Ids
    BY WorkFacts, ListFacts
  <1>5. StillDue(b, once)' \subseteq StillDue(b, once)
    BY <1>2, <1>3, <1>4 DEF StillDue
  <1>6. UnderWay(b, once)' \ {w} \subseteq UnderWay(b, once)
    BY <1>1, <1>2, OthersUnderWay
  <1>7. w \in UnderWay(b, once)' =>
           /\ to \in Ahead(once) /\ BatchOf(w) = b /\ ~jobs[worker[w].job].replay
           /\ once => worker[w].made = 0
    BY <1>1 DEF UnderWay, BatchOf, Ahead
  <1> QED
    BY <1>1, <1>5, <1>6, <1>7

LEMMA UsedUp ==
    ASSUME IBounds, NEW b \in Batch, NEW once \in BOOLEAN, Owed(b, once),
           NEW w \in UnderWay(b, once), UnderWay(b, once)' \subseteq UnderWay(b, once) \ {w},
           StillDue(b, once)' \subseteq StillDue(b, once),
           Times(b, once)' \in Nat, Times(b, once)' <= Times(b, once) + 1,
           Budget(b) \in Nat, Budget(b)' \in Nat, Budget(b) <= Budget(b)'
    PROVE  Owed(b, once)'
  <1>1. PICK due, runs, due1, runs1 :
            /\ due = StillDue(b, once) /\ runs = UnderWay(b, once)
            /\ due1 = StillDue(b, once)' /\ runs1 = UnderWay(b, once)'
    OBVIOUS
  <1>2. PICK times \in Nat, times1 \in Nat, budget \in Nat, budget1 \in Nat :
            /\ times = Times(b, once) /\ times1 = Times(b, once)'
            /\ budget = Budget(b) /\ budget1 = Budget(b)'
    BY TimesTypes
  <1>3. Paid(times, due, runs, budget)
    BY <1>1, <1>2 DEF Owed
  <1>4. Paid(times1, due1, runs1, budget1)
    BY <1>1, <1>2, <1>3, PaidUsed
  <1> QED
    BY <1>1, <1>2, <1>4 DEF Owed

LEMMA RunEffects ==
    ASSUME QueueAssumption, IBounds, OwnersRun, EffectsPaid, NEW w \in Worker,
           NEW to \in {"meter", "work", "evals", "finish"}, Goto(w, to), UNCHANGED jobs, Counts,
           to = "meter" => Meters(w),
           \A b \in Batch : \A once \in BOOLEAN :
              \/ /\ Times(b, once)' = Times(b, once)
                 /\ to \in Ahead(once) => worker[w].pc \in Ahead(once)
              \/ /\ w \in UnderWay(b, once) /\ to \notin Ahead(once)
                 /\ Times(b, once)' \in Nat /\ Times(b, once)' <= Times(b, once) + 1
    PROVE  OwnersRun' /\ EffectsPaid'
  <1>1. Named /\ Ids' = Ids
    BY NamedJobs
  <1>2. OwnersRun'
    <2>1. /\ worker'[w].pc = to /\ worker'[w].job = worker[w].job /\ worker'[w].made = worker[w].made
          /\ \A v \in Worker \ {w} : worker'[v] = worker[v]
      BY RunsOn
    <2>2. to = "meter" => Meters(w)'
      BY <2>1 DEF Meters
    <2>3. \A v \in Worker : \/ worker'[v] = worker[v]
                            \/ worker'[v].pc \notin {"idle", "meter"}
                            \/ worker'[v].pc = "meter" /\ Meters(v)'
      BY <2>1, <2>2
    <2> QED
      BY <1>1, <2>3, OwnersKept
  <1>3. ASSUME NEW b \in Batch, NEW once \in BOOLEAN PROVE Owed(b, once)'
    <2>1. /\ StillDue(b, once)' \subseteq StillDue(b, once)
          /\ UnderWay(b, once)' \ {w} \subseteq UnderWay(b, once)
          /\ w \in UnderWay(b, once)' =>
                /\ to \in Ahead(once) /\ BatchOf(w) = b /\ ~jobs[worker[w].job].replay
                /\ once => worker[w].made = 0
      BY RunsOn
    <2>2. Budget(b) \in Nat /\ Budget(b)' \in Nat /\ Budget(b) <= Budget(b)'
      BY <1>1, BudgetGrows
    <2>3. Owed(b, once)
      BY DEF EffectsPaid
    <2>4. CASE /\ Times(b, once)' = Times(b, once)
               /\ to \in Ahead(once) => worker[w].pc \in Ahead(once)
      <3>1. w \in UnderWay(b, once)' => w \in UnderWay(b, once)
        BY <2>1, <2>4 DEF UnderWay
      <3>2. UnderWay(b, once)' \subseteq UnderWay(b, once)
        BY <2>1, <3>1
      <3> QED
        BY <2>1, <2>2, <2>3, <2>4, <3>2, OwedStill
    <2>5. CASE /\ w \in UnderWay(b, once) /\ to \notin Ahead(once)
               /\ Times(b, once)' \in Nat /\ Times(b, once)' <= Times(b, once) + 1
      <3>1. UnderWay(b, once)' \subseteq UnderWay(b, once) \ {w}
        BY <2>1, <2>5
      <3> QED
        BY <2>1, <2>2, <2>3, <2>5, <3>1, UsedUp
    <2> QED
      BY <2>4, <2>5
  <1> QED
    BY <1>2, <1>3 DEF EffectsPaid

\* One of the counters of a batch goes up by one at most.
LEMMA CountedOnce ==
    ASSUME NEW counter \in [Batch -> Nat], NEW counter1, NEW c \in Batch, NEW replay \in BOOLEAN,
           counter1 = [counter EXCEPT ![c] = IF replay THEN @ ELSE @ + 1]
    PROVE  /\ counter1 \in [Batch -> Nat]
           /\ \A b \in Batch : \/ counter1[b] = counter[b]
                               \/ b = c /\ ~replay /\ counter1[b] <= counter[b] + 1
  OBVIOUS

LEMMA MeterEffects ==
    ASSUME QueueAssumption, IBounds, OwnersRun, EffectsPaid, NEW w \in Worker, Meter(w)
    PROVE  OwnersRun' /\ EffectsPaid'
  <1>1. At(w, "meter") /\ Goto(w, "work") /\ UNCHANGED <<jobs, evaluated>>
    BY DEF Meter
  <1>2. Counts
    BY Kinded DEF Meter, Counts
  <1>3. Meters(w)
    BY <1>1 DEF OwnersRun
  <1>4. PICK c : c = BatchOf(w)
    OBVIOUS
  <1>5. c \in Batch
    BY <1>1, <1>4, WorkFacts DEF IBounds, RunBounds, BatchOf, At
  <1>6. /\ metered' \in [Batch -> Nat]
        /\ \A b \in Batch : \/ metered'[b] = metered[b]
                            \/ b = c /\ metered'[b] <= metered[b] + 1
    <2>1. metered' = [metered EXCEPT ![c] = @ + 1] \/ metered' = metered
      BY <1>4 DEF Meter
    <2>2. CASE metered' = metered
      BY <2>2, WorkFacts
    <2>3. CASE metered' = [metered EXCEPT ![c] = @ + 1]
      <3>1. metered \in [Batch -> Nat] /\ metered[c] \in Nat
        BY <1>5, WorkFacts
      <3>2. PICK n \in Nat : n = metered[c] + 1
        BY <3>1
      <3>3. metered' = [metered EXCEPT ![c] = n]
        BY <2>3, <3>2
      <3> QED
        BY <1>5, <3>1, <3>2, <3>3
    <2> QED
      BY <2>1, <2>2, <2>3
  <1>7. ASSUME NEW b \in Batch, NEW once \in BOOLEAN
        PROVE  \/ /\ Times(b, once)' = Times(b, once)
                  /\ "work" \in Ahead(once) => worker[w].pc \in Ahead(once)
               \/ /\ w \in UnderWay(b, once) /\ "work" \notin Ahead(once)
                  /\ Times(b, once)' \in Nat /\ Times(b, once)' <= Times(b, once) + 1
    <2>1. worker[w].pc \in Ahead(once)
      BY <1>1 DEF At, Ahead
    <2>2. CASE ~once
      BY <1>1, <2>1, <2>2 DEF Times
    <2>3. CASE once
      <3>1. "work" \notin Ahead(once) /\ Times(b, once) = metered[b] /\ Times(b, once)' = metered'[b]
        BY <2>3 DEF Ahead, Times
      <3>2. CASE metered'[b] = metered[b]
        BY <2>1, <3>1, <3>2
      <3>3. CASE b = c /\ metered'[b] <= metered[b] + 1
        <4>1. w \in UnderWay(b, once)
          BY <1>3, <1>4, <2>1, <3>3 DEF UnderWay, Meters
        <4> QED
          BY <1>6, <3>1, <3>3, <4>1
      <3> QED
        BY <1>6, <3>2, <3>3
    <2> QED
      BY <2>2, <2>3
  <1> QED
    BY <1>1, <1>2, <1>7, RunEffects

LEMMA EvaluateEffects ==
    ASSUME QueueAssumption, IBounds, OwnersRun, EffectsPaid, NEW w \in Worker, Evaluate(w)
    PROVE  OwnersRun' /\ EffectsPaid'
  <1>1. At(w, "evals") /\ Goto(w, "finish") /\ UNCHANGED <<jobs, metered>> /\ Counts
    BY DEF Evaluate, Counts
  <1>2. PICK c, replay : c = BatchOf(w) /\ replay = jobs[worker[w].job].replay
    OBVIOUS
  <1>3. c \in Batch /\ replay \in BOOLEAN
    BY <1>1, <1>2, WorkFacts DEF IBounds, RunBounds, BatchOf, At, JobSet
  <1>4. evaluated' = [evaluated EXCEPT ![c] = IF replay THEN @ ELSE @ + 1]
    BY <1>2 DEF Evaluate
  <1>5. /\ evaluated' \in [Batch -> Nat]
        /\ \A b \in Batch : \/ evaluated'[b] = evaluated[b]
                            \/ b = c /\ ~replay /\ evaluated'[b] <= evaluated[b] + 1
    BY <1>3, <1>4, WorkFacts, CountedOnce
  <1>6. ASSUME NEW b \in Batch, NEW once \in BOOLEAN
        PROVE  \/ /\ Times(b, once)' = Times(b, once)
                  /\ "finish" \in Ahead(once) => worker[w].pc \in Ahead(once)
               \/ /\ w \in UnderWay(b, once) /\ "finish" \notin Ahead(once)
                  /\ Times(b, once)' \in Nat /\ Times(b, once)' <= Times(b, once) + 1
    <2>1. "finish" \notin Ahead(once)
      BY DEF Ahead
    <2>2. CASE once
      BY <1>1, <2>1, <2>2 DEF Times
    <2>3. CASE ~once
      <3>1. Times(b, once) = evaluated[b] /\ Times(b, once)' = evaluated'[b]
        BY <2>3 DEF Times
      <3>2. CASE evaluated'[b] = evaluated[b]
        BY <2>1, <3>1, <3>2
      <3>3. CASE b = c /\ ~replay /\ evaluated'[b] <= evaluated[b] + 1
        <4>1. w \in UnderWay(b, once)
          BY <1>1, <1>2, <2>3, <3>3 DEF UnderWay, At, Ahead
        <4> QED
          BY <1>5, <2>1, <3>1, <3>3, <4>1
      <3> QED
        BY <1>5, <3>2, <3>3
    <2> QED
      BY <2>2, <2>3
  <1> QED
    BY <1>1, <1>6, RunEffects

LEMMA ReadEffects ==
    ASSUME QueueAssumption, IBounds, OwnersRun, EffectsPaid, NEW w \in Worker, ReadBlob(w) \/ Land(w)
    PROVE  OwnersRun' /\ EffectsPaid'
  <1>1. UNCHANGED <<jobs, metered, evaluated>> /\ Counts
    BY DEF ReadBlob, Land, effects, Counts
  <1>2. \A b \in Batch : \A once \in BOOLEAN : Times(b, once)' = Times(b, once)
    BY <1>1 DEF Times
  <1>3. CASE ReadBlob(w)
    <2>1. PICK to \in {"meter", "work"} : Goto(w, to) /\ (to = "meter" => Meters(w))
      BY <1>3 DEF ReadBlob
    <2>2. \A once \in BOOLEAN : worker[w].pc \in Ahead(once)
      BY <1>3 DEF ReadBlob, At, Ahead
    <2> QED
      BY <1>1, <1>2, <2>1, <2>2, RunEffects
  <1>4. CASE Land(w)
    <2>1. Goto(w, "evals") /\ worker[w].pc = "work"
      BY <1>4 DEF Land, At
    <2>2. \A once \in BOOLEAN : "evals" \in Ahead(once) => worker[w].pc \in Ahead(once)
      BY <2>1 DEF Ahead
    <2> QED
      BY <1>1, <1>2, <2>1, <2>2, RunEffects
  <1> QED
    BY <1>3, <1>4

(* A job that is handed back was due already, or a stall pays for it.      *)
LEMMA HandedBackEffects ==
    ASSUME QueueAssumption, IBounds, OwnersRun, EffectsPaid, UNCHANGED <<worker, metered, evaluated>>, Counts,
           NEW j \in Ids, NEW job, Changed(j, job), job.st # "active", job.made = jobs[j].made,
           Again(j) \/ Spend("stalls")
    PROVE  OwnersRun' /\ EffectsPaid'
  <1>1. /\ Named /\ Ids' = Ids /\ jobs'[j] = job /\ \A k \in Ids \ {j} : jobs'[k] = jobs[k]
    BY NamedJobs DEF Changed
  <1>2. OwnersRun'
    <2>1. \A k \in Ids' : (k \in Ids /\ jobs'[k] = jobs[k]) \/ jobs'[k].st # "active"
      BY <1>1
    <2> QED
      BY <1>1, <2>1, OwnersKept
  <1>3. ASSUME NEW b \in Batch, NEW once \in BOOLEAN PROVE Owed(b, once)'
    <2>1. \A k \in Ids \ {j} : k \in StillDue(b, once)' => k \in StillDue(b, once)
      BY <1>1, OthersDue
    <2>2. StillDue(b, once)' \subseteq StillDue(b, once) \union {j}
      BY <1>1, <2>1 DEF StillDue
    <2>3. UnderWay(b, once)' \subseteq UnderWay(b, once)
      <3>1. UnderWay(b, once)' \ {None} \subseteq UnderWay(b, once)
        BY <1>1, OthersUnderWay
      <3> QED
        BY <3>1 DEF UnderWay, QueueAssumption
    <2>4. Times(b, once)' = Times(b, once) /\ Owed(b, once)
      BY DEF Times, EffectsPaid
    <2>5. /\ Budget(b) \in Nat /\ Budget(b)' \in Nat /\ Budget(b) <= Budget(b)'
          /\ Spend("stalls") => Budget(b) + 1 <= Budget(b)'
      BY <1>1, BudgetGrows
    <2>6. CASE Spend("stalls")
      BY <2>2, <2>3, <2>4, <2>5, <2>6, OwedBought
    <2>7. CASE Again(j)
      <3>1. j \in StillDue(b, once)' => j \in StillDue(b, once)
        BY <1>1, <2>7 DEF StillDue, Named
      <3>2. StillDue(b, once)' \subseteq StillDue(b, once)
        BY <2>2, <3>1
      <3> QED
        BY <2>3, <2>4, <2>5, <3>2, OwedStill
    <2> QED
      BY <2>6, <2>7
  <1> QED
    BY <1>2, <1>3 DEF EffectsPaid

LEMMA StallEffects ==
    ASSUME QueueAssumption, IBounds, OwnersRun, EffectsPaid,
           NEW w \in Worker, NEW j \in Ids, Recover(w, j) \/ Wedge(w, j)
    PROVE  OwnersRun' /\ EffectsPaid'
  <1>1. /\ Stall(w, j) /\ UNCHANGED <<worker, metered, evaluated>>
        /\ (Orphaned(j) /\ UNCHANGED spent) \/ Spend("stalls")
    BY DEF Recover, Wedge, Stall, effects
  <1>2. Counts /\ (Again(j) \/ Spend("stalls"))
    BY <1>1, Kinded DEF Counts, Again
  <1>3. PICK job : Changed(j, job) /\ job.st # "active" /\ job.made = jobs[j].made
    BY <1>1, StallJob
  <1> QED
    BY <1>1, <1>2, <1>3, HandedBackEffects

LEMMA PromoteEffects ==
    ASSUME QueueAssumption, IBounds, OwnersRun, EffectsPaid, NEW j \in Ids, Promote(j)
    PROVE  OwnersRun' /\ EffectsPaid'
  <1>1. UNCHANGED <<worker, metered, evaluated>> /\ Counts /\ Again(j)
    BY DEF Promote, effects, Counts, Again
  <1>2. PICK job : Changed(j, job) /\ job.st # "active" /\ job.made = jobs[j].made
    BY PromoteJob
  <1> QED
    BY <1>1, <1>2, HandedBackEffects

(* Requests, rebuilds and replays at most add a job.                       *)
LEMMA SubmitEffects ==
    ASSUME QueueAssumption, IBounds, OwnersRun, EffectsPaid, NEW b \in Batch, Submit(b) \/ ReplayBlob(b)
    PROVE  OwnersRun' /\ EffectsPaid'
  <1>1. UNCHANGED <<worker, metered, evaluated>>
    BY DEF Submit, PutBlob, Enqueue, EnqueueThrows, DropBlob, ApiCrash, ReplayBlob, effects
  <1>2. Counts
    BY SubmitCounts
  <1>3. UNCHANGED jobs \/ \E replay \in BOOLEAN : Add(b, replay)
    <2>1. CASE PutBlob(b) \/ ApiCrash(b) \/ DropBlob(b)
      BY <2>1 DEF PutBlob, ApiCrash, DropBlob
    <2>2. CASE Enqueue(b) \/ EnqueueThrows(b) \/ ReplayBlob(b)
      BY <2>2 DEF Enqueue, EnqueueThrows, AddThrows, ReplayBlob
    <2> QED
      BY <2>1, <2>2 DEF Submit
  <1> QED
    BY <1>1, <1>2, <1>3, AddedEffects

LEMMA ReplayEffects ==
    ASSUME QueueAssumption, IBounds, OwnersRun, EffectsPaid, NEW r \in Replayer, Replay(r)
    PROVE  OwnersRun' /\ EffectsPaid'
  <1>1. CASE ReplayAdd(r) \/ ReplayAddThrows(r)
    <2>1. Letter(r) \in Ids
      BY <1>1, ReplayFacts DEF ReplayAdd, ReplayAddThrows, HasLetter
    <2>2. PICK c \in Batch : c = jobs[Letter(r)].batch
      BY <2>1, WorkFacts
    <2>3. UNCHANGED <<worker, metered, evaluated>>
      BY <1>1 DEF ReplayAdd, ReplayAddThrows, effects
    <2>4. UNCHANGED jobs \/ Add(c, FALSE)
      BY <1>1, <2>2 DEF ReplayAdd, ReplayAddThrows, AddThrows
    <2> QED
      BY <2>3, <2>4, ReplayCounts, AddedEffects
  <1>2. CASE \/ ReplayRemove(r) \/ ReplayRemoveThrows(r) \/ ReplayRemoveVanishes(r)
             \/ ReplayCrash(r) \/ ReplaySkip(r)
    <2>1. UNCHANGED <<worker, jobs, metered, evaluated>>
      BY <1>2 DEF ReplayRemove, ReplayRemoveThrows, ReplayRemoveVanishes, ReplayCrash, ReplaySkip, effects
    <2> QED
      BY <2>1, ReplayCounts, AddedEffects
  <1>3. CASE ReplayPage(r) \/ ReplayPageEnd(r)
    <2>1. UNCHANGED <<worker, jobs, metered, evaluated>>
      BY <1>3 DEF ReplayPage, ReplayPageEnd, effects
    <2> QED
      BY <2>1, ReplayCounts, AddedEffects
  <1>4. ASSUME NEW scope, ReplayStart(r, scope) PROVE OwnersRun' /\ EffectsPaid'
    <2>1. UNCHANGED <<worker, jobs, metered, evaluated>>
      BY <1>4 DEF ReplayStart, effects
    <2> QED
      BY <2>1, ReplayCounts, AddedEffects
  <1> QED
    BY <1>1, <1>2, <1>3, <1>4 DEF Replay

LEMMA QuietEffects ==
    ASSUME QueueAssumption, IBounds, OwnersRun, EffectsPaid,
           \/ LockExpires \/ LockLapses \/ UNCHANGED vars
           \/ \E w \in Worker, j \in Ids : DeadLetter(w, j) \/ DropDeadLetter(w, j)
    PROVE  OwnersRun' /\ EffectsPaid'
  <1>1. UNCHANGED <<worker, jobs, metered, evaluated>>
    BY DEF LockExpires, LockLapses, DeadLetter, DropDeadLetter, vars, effects
  <1>2. Counts
    BY Kinded DEF LockExpires, LockLapses, DeadLetter, DropDeadLetter, vars, Counts
  <1> QED
    BY <1>1, <1>2, AddedEffects

LEMMA EffectsInductive ==
    ASSUME QueueAssumption, IBounds, OwnersRun, EffectsPaid, [Next]_vars
    PROVE  OwnersRun' /\ EffectsPaid'
  <1>1. ASSUME NEW w \in Worker, Attempt(w) \/ Throw(w) \/ WorkerCrash(w)
        PROVE  OwnersRun' /\ EffectsPaid'
    <2>1. ASSUME NEW j \in Ids, Take(w, j) PROVE OwnersRun' /\ EffectsPaid'
      BY <2>1, TakeEffects
    <2>2. CASE MissBlob(w) \/ Throw(w)
      <3>1. PICK why \in {"unrecoverable", "error"} : Fail(w, why) /\ worker[w].pc \in {"read", "work"}
        BY <2>2 DEF MissBlob, Throw, At
      <3> QED
        BY <3>1, FailEffects
    <2> QED
      BY <1>1, <2>1, <2>2, ReadEffects, MeterEffects, EvaluateEffects, FinishEffects, CrashEffects
         DEF Attempt
  <1>2. CASE Works
    BY <1>1, <1>2, PromoteEffects, StallEffects, QuietEffects DEF Works
  <1> QED
    BY <1>2, NextCases, SubmitEffects, ReplayEffects

LEMMA InitEffects ==
    ASSUME Init
    PROVE  OwnersRun /\ EffectsPaid
  <1>1. /\ Ids = {} /\ \A w \in Worker : worker[w] = [job |-> 0, pc |-> "idle", made |-> 0]
        /\ \A b \in Batch : metered[b] = 0 /\ evaluated[b] = 0
        /\ spent["stalls"] = 0 /\ spent["crashes"] = 0
    BY Kinded DEF Init, Ids
  <1>2. OwnersRun
    BY <1>1 DEF OwnersRun, At
  <1>3. ASSUME NEW b \in Batch, NEW once \in BOOLEAN PROVE Owed(b, once)
    <2>1. StillDue(b, once) = {} /\ UnderWay(b, once) = {} /\ JobsOf(b) = {} /\ Times(b, once) = 0
      BY <1>1 DEF StillDue, UnderWay, Ahead, JobsOf, Times
    <2>2. IsFiniteSet({}) /\ Cardinality({}) = 0
      BY FS_EmptySet
    <2>3. Budget(b) = 0
      BY <1>1, <2>1, <2>2 DEF Budget
    <2> QED
      BY <2>1, <2>2, <2>3 DEF Owed, Paid
  <1> QED
    BY <1>2, <1>3 DEF EffectsPaid

LEMMA EffectsBounded ==
    ASSUME IBounds, EffectsPaid
    PROVE  EffectsExplained
  <1>1. SUFFICES ASSUME NEW b \in Batch
                 PROVE  /\ metered[b] <= 1 + (Cardinality({j \in Ids : jobs[j].batch = b}) - 1
                                              + spent["stalls"] + spent["crashes"])
                        /\ evaluated[b] <= 1 + (Cardinality({j \in Ids : jobs[j].batch = b}) - 1
                                                + spent["stalls"] + spent["crashes"])
    BY DEF EffectsExplained
  <1>2. PICK stalls \in Nat, crashes \in Nat : stalls = spent["stalls"] /\ crashes = spent["crashes"]
    BY WorkFacts, Kinded
  <1>3. PICK n \in Nat : n = Cardinality(JobsOf(b))
    BY WorkFacts, IdsFinite, NoMore DEF JobsOf
  <1>4. Budget(b) = n + stalls + crashes
    BY <1>2, <1>3 DEF Budget
  <1>5. ASSUME NEW once \in BOOLEAN PROVE Times(b, once) <= n + stalls + crashes
    <2>1. Owed(b, once)
      BY DEF EffectsPaid
    <2>2. PICK due, runs : due = StillDue(b, once) /\ runs = UnderWay(b, once)
      OBVIOUS
    <2>3. /\ Cardinality(due) \in Nat /\ Cardinality(runs) \in Nat
          /\ Times(b, once) + Cardinality(due) + Cardinality(runs) <= n + stalls + crashes
      BY <1>4, <2>1, <2>2, FS_CardinalityType DEF Owed, Paid
    <2> QED
      BY <2>3, TimesTypes
  <1>6. metered[b] <= n + stalls + crashes /\ evaluated[b] <= n + stalls + crashes
    <2>1. Times(b, TRUE) <= n + stalls + crashes /\ Times(b, FALSE) <= n + stalls + crashes
      BY <1>5
    <2> QED
      BY <2>1 DEF Times
  <1>7. n = Cardinality({j \in Ids : jobs[j].batch = b})
    BY <1>3 DEF JobsOf
  <1>8. metered[b] \in Nat /\ evaluated[b] \in Nat
    BY WorkFacts
  <1> QED
    BY <1>2, <1>6, <1>7, <1>8

(* Retries neither bill a batch twice nor score it twice: a second time is *)
(* always the price of a stall, a dead worker, a replay or an uncertain    *)
(* enqueue (processIngest, first-attempt gate, evaluators after commit).   *)
THEOREM EffectsAccounted == Spec => []EffectsExplained
  <1>1. Init => OwnersRun /\ EffectsPaid
    BY InitEffects
  <1>2. IInv /\ OwnersRun /\ EffectsPaid /\ [Next]_vars => OwnersRun' /\ EffectsPaid'
    BY QueueAssumption, EffectsInductive DEF IInv, IBounds
  <1>3. IInv /\ EffectsPaid => EffectsExplained
    BY EffectsBounded DEF IInv, IBounds
  <1> QED
    BY <1>1, <1>2, <1>3, Inductive, PTL DEF Spec

=============================================================================
