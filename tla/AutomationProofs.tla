-------------------------- MODULE AutomationProofs --------------------------
(***************************************************************************)
(* Proofs about AutomationQueue for any workers, attempts and budgets:     *)
(* type correctness, one active job of a kind, success only with a result, *)
(* and finished jobs that stay finished.                                   *)
(***************************************************************************)
EXTENDS AutomationQueue, FiniteSums, SequenceTheorems

(* The parts of TypeOK. *)
RowsOK ==
  /\ jobs \in Seq(Row)
  /\ next \in Seq(Nat)
  /\ Len(next) = Len(jobs)
  /\ \A j \in DOMAIN jobs :
       /\ next[j] \in 0..Len(jobs)
       /\ jobs[j].attempts <= jobs[j].max
       /\ (jobs[j].status \in Held) = (jobs[j].owner # NoWorker)
       /\ (jobs[j].status \in Held) = (jobs[j].lease # "none")
       /\ (jobs[j].status \in Held) => (<<j, jobs[j].owner>> \in open)
  /\ open \subseteq (DOMAIN jobs) \X Workers

SecretsOK ==
  /\ linked \cup written \cup retried \subseteq DOMAIN jobs
  /\ hasToken \in BOOLEAN

WorkersOK ==
  /\ worker \in [Workers -> [pc : Places, job : Nat, list : SUBSET Nat]]
  /\ \A w \in Workers :
       /\ worker[w].list \subseteq DOMAIN jobs
       /\ worker[w].job \in {0} \cup DOMAIN jobs
       /\ (worker[w].job = 0) = (worker[w].pc \in {"idle", "claim"})

BudgetOK ==
  budget \in [workers : SUBSET Workers, events : Nat, orders : Nat,
              crashes : Nat, errors : Nat]

LEMMA TypeOKParts == TypeOK <=> RowsOK /\ SecretsOK /\ WorkersOK /\ BudgetOK
BY DEF TypeOK, RowsOK, SecretsOK, WorkersOK, BudgetOK

LEMMA TypeOKPartsNext == RowsOK' /\ SecretsOK' /\ WorkersOK' /\ BudgetOK' => TypeOK'
BY DEF TypeOK, RowsOK, SecretsOK, WorkersOK, BudgetOK
-----------------------------------------------------------------------------
(* The operators. *)

(* A bounded set of positive numbers that is not empty has a greatest one. *)
LEMMA GreatestExists ==
  ASSUME NEW n \in Nat, NEW S \in SUBSET (1..n), S # {}
  PROVE  \E m \in S : \A k \in S : k <= m
<1> DEFINE D == 1..n
           Good == {T \in SUBSET D : T # {} => \E m \in T : \A k \in T : k <= m}
<1>1. ASSUME NEW T \in SUBSET D, \A U \in SUBSET T : U # T => U \in Good
      PROVE  T \in Good
  <2> SUFFICES ASSUME T # {} PROVE \E m \in T : \A k \in T : k <= m
    OBVIOUS
  <2>1. PICK a \in T : TRUE
    OBVIOUS
  <2>2. CASE T \ {a} = {}
    <3>1. \A k \in T : k = a BY <2>2
    <3> QED BY <3>1
  <2>3. CASE T \ {a} # {}
    <3>1. T \ {a} \in Good
      BY <1>1
    <3>2. PICK b \in T \ {a} : \A k \in T \ {a} : k <= b
      BY <2>3, <3>1
    <3>3. CASE a <= b
      BY <3>2, <3>3
    <3>4. CASE ~(a <= b)
      <4>1. \A k \in T : k <= a
        BY <3>2, <3>4
      <4> QED BY <4>1
    <3> QED BY <3>3, <3>4
  <2> QED BY <2>2, <2>3
<1> HIDE DEF Good
<1>2. IsFiniteSet(D)
  BY FS_Interval
<1>3. \A T \in SUBSET D : T \in Good
  <2> HIDE DEF D
  <2> QED BY <1>1, <1>2, SubsetInduction
<1> QED BY <1>3 DEF Good

LEMMA RowDomain ==
  ASSUME NEW rows \in Seq(Row)
  PROVE  /\ Len(rows) \in Nat
         /\ DOMAIN rows = 1..Len(rows)
         /\ \A j \in DOMAIN rows : rows[j] \in Row
BY LenProperties, ElementOfSeq

(* The job CreateJob answers with is an active one of its kind, or new. *)
LEMMA CreateJobIdIs ==
  ASSUME jobs \in Seq(Row), NEW kind, NEW key
  PROVE  /\ CreateJobId(kind, key) \in Nat \ {0}
         /\ IF FindActive(kind, key) = {}
            THEN CreateJobId(kind, key) = Len(jobs) + 1 /\ CreateJobId(kind, key) \notin DOMAIN jobs
            ELSE CreateJobId(kind, key) \in FindActive(kind, key)
         /\ FindActive(kind, key) \subseteq DOMAIN jobs
<1>1. Len(jobs) \in Nat /\ DOMAIN jobs = 1..Len(jobs)
  BY RowDomain
<1>2. FindActive(kind, key) \in SUBSET (1..Len(jobs))
  BY <1>1 DEF FindActive
<1>3. CASE FindActive(kind, key) = {}
  BY <1>1, <1>2, <1>3 DEF CreateJobId
<1>4. CASE FindActive(kind, key) # {}
  <2>1. \E m \in FindActive(kind, key) : \A k \in FindActive(kind, key) : k <= m
    BY <1>1, <1>2, <1>4, GreatestExists
  <2>2. CreateJobId(kind, key) \in FindActive(kind, key)
    BY <1>4, <2>1 DEF CreateJobId
  <2> QED BY <1>1, <1>2, <1>4, <2>2
<1> QED BY <1>3, <1>4

(* Replacing a row. *)
LEMMA RowReplaced ==
  ASSUME NEW rows \in Seq(Row), NEW j \in DOMAIN rows, NEW new \in Row,
         NEW res, res = [rows EXCEPT ![j] = new]
  PROVE  /\ res \in Seq(Row)
         /\ Len(res) = Len(rows)
         /\ DOMAIN res = DOMAIN rows
         /\ res[j] = new
         /\ \A k \in DOMAIN rows : k # j => res[k] = rows[k]
<1>1. /\ res \in Seq(Row)
      /\ Len(res) = Len(rows)
      /\ \A k \in 1..Len(rows) : res[k] = IF k = j THEN new ELSE rows[k]
  <2>1. j \in 1..Len(rows) BY RowDomain
  <2> QED BY <2>1, ExceptSeq
<1> QED BY <1>1, RowDomain

(* Adding a row. *)
LEMMA RowAdded ==
  ASSUME NEW rows \in Seq(Row), NEW new \in Row, NEW res, res = Append(rows, new)
  PROVE  /\ res \in Seq(Row)
         /\ Len(res) = Len(rows) + 1
         /\ DOMAIN rows \subseteq DOMAIN res
         /\ DOMAIN res = DOMAIN rows \cup {Len(rows) + 1}
         /\ Len(rows) + 1 \notin DOMAIN rows
         /\ res[Len(rows) + 1] = new
         /\ \A k \in DOMAIN rows : res[k] = rows[k]
<1>1. /\ res \in Seq(Row)
      /\ Len(res) = Len(rows) + 1
      /\ \A k \in 1..Len(rows) : res[k] = rows[k]
      /\ res[Len(rows) + 1] = new
  BY AppendProperties
<1> QED BY <1>1, RowDomain

LEMMA NewJobIsRow ==
  ASSUME NEW kind \in Kinds, NEW key \in Keys, NEW tries \in Nat
  PROVE  LET new == NewJob(kind, key, tries)
         IN  /\ new \in Row
             /\ new.kind = kind /\ new.key = key /\ new.status = "PENDING"
             /\ new.attempts <= new.max
             /\ new.owner = NoWorker /\ new.lease = "none"
BY DEF NewJob, Row, ActiveStatuses, Held

LEMMA TriesIsNat == ASSUME NEW kind PROVE Tries(kind) \in Nat
BY QueueAssumption DEF Tries

LEMMA ReleasedIsRow ==
  ASSUME NEW job \in Row, NEW status \in ActiveStatuses \cup TerminalStatus
  PROVE  LET new == Released(job, status)
         IN  /\ new \in Row
             /\ new.kind = job.kind /\ new.key = job.key
             /\ new.attempts = job.attempts /\ new.max = job.max
             /\ new.status = status /\ new.owner = NoWorker /\ new.lease = "none"
BY DEF Released, Row
-----------------------------------------------------------------------------
(* Type correctness. *)

LEMMA TypeOKInit == Init => TypeOK
<1> SUFFICES ASSUME Init PROVE TypeOK
  OBVIOUS
<1>1. RowsOK
  BY EmptySeq DEF Init, RowsOK
<1>2. SecretsOK
  BY DEF Init, SecretsOK
<1>3. WorkersOK
  BY DEF Init, WorkersOK, Idle, Places
<1>4. BudgetOK
  BY QueueAssumption DEF Init, BudgetOK, Workers
<1> QED BY <1>1, <1>2, <1>3, <1>4, TypeOKParts

(* A row that is replaced by a consistent one, whose attempt is open. *)
LEMMA RowsOKReplace ==
  ASSUME RowsOK, NEW j \in DOMAIN jobs, NEW new \in Row,
         jobs' = [jobs EXCEPT ![j] = new], next' = next,
         new.attempts <= new.max,
         (new.status \in Held) = (new.owner # NoWorker),
         (new.status \in Held) = (new.lease # "none"),
         (new.status \in Held) => <<j, new.owner>> \in open',
         open' \subseteq (DOMAIN jobs) \X Workers,
         \A k \in DOMAIN jobs, w \in Workers :
           k # j /\ <<k, w>> \in open => <<k, w>> \in open'
  PROVE  RowsOK' /\ DOMAIN jobs' = DOMAIN jobs
<1>1. /\ jobs' \in Seq(Row)
      /\ Len(jobs') = Len(jobs)
      /\ DOMAIN jobs' = DOMAIN jobs
      /\ jobs'[j] = new
      /\ \A k \in DOMAIN jobs : k # j => jobs'[k] = jobs[k]
  BY RowReplaced DEF RowsOK
<1>2. ASSUME NEW k \in DOMAIN jobs
      PROVE  /\ next'[k] \in 0..Len(jobs')
             /\ jobs'[k].attempts <= jobs'[k].max
             /\ (jobs'[k].status \in Held) = (jobs'[k].owner # NoWorker)
             /\ (jobs'[k].status \in Held) = (jobs'[k].lease # "none")
             /\ (jobs'[k].status \in Held) => (<<k, jobs'[k].owner>> \in open')
  <2>1. CASE k = j
    BY <1>1, <2>1 DEF RowsOK
  <2>2. CASE k # j
    <3>1. jobs'[k] = jobs[k] BY <1>1, <2>2
    <3>2. jobs[k].status \in Held => jobs[k].owner \in Workers
      BY RowDomain DEF RowsOK, Row
    <3> QED BY <1>1, <2>2, <3>1, <3>2 DEF RowsOK
  <2> QED BY <2>1, <2>2
<1> QED BY <1>1, <1>2 DEF RowsOK

(* The hand-over column of a new row, and of a job that was handed over. *)
LEMMA NextAppended ==
  ASSUME RowsOK
  PROVE  LET rows == Append(next, 0)
         IN  /\ rows \in Seq(Nat)
             /\ Len(rows) = Len(jobs) + 1
             /\ \A k \in DOMAIN jobs : rows[k] = next[k]
             /\ \A k \in 1..(Len(jobs) + 1) : rows[k] \in 0..(Len(jobs) + 1)
<1> DEFINE rows == Append(next, 0)
<1>1. /\ rows \in Seq(Nat)
      /\ Len(rows) = Len(next) + 1
      /\ \A k \in 1..Len(next) : rows[k] = next[k]
      /\ rows[Len(next) + 1] = 0
  BY AppendProperties DEF RowsOK
<1>2. DOMAIN jobs = 1..Len(jobs) /\ Len(jobs) \in Nat /\ Len(next) = Len(jobs)
  BY RowDomain DEF RowsOK
<1> HIDE DEF rows
<1>3. ASSUME NEW k \in 1..(Len(jobs) + 1) PROVE rows[k] \in 0..(Len(jobs) + 1)
  <2>1. CASE k = Len(jobs) + 1
    BY <1>1, <1>2, <2>1
  <2>2. CASE k \in 1..Len(jobs)
    <3>1. next[k] \in 0..Len(jobs) BY <1>2, <2>2 DEF RowsOK
    <3>2. 0..Len(jobs) \subseteq 0..(Len(jobs) + 1) BY <1>2
    <3> QED BY <1>1, <1>2, <2>2, <3>1, <3>2
  <2> QED BY <1>2, <2>1, <2>2
<1> QED BY <1>1, <1>2, <1>3 DEF rows

LEMMA NextHandedOver ==
  ASSUME NEW rows \in Seq(Nat), NEW n \in Nat, Len(rows) = n,
         \A k \in 1..n : rows[k] \in 0..n, NEW j \in 1..n, NEW child \in 1..n
  PROVE  LET handed == [rows EXCEPT ![j] = child]
         IN  /\ handed \in Seq(Nat)
             /\ Len(handed) = n
             /\ \A k \in 1..n : handed[k] \in 0..n
             /\ \A k \in 1..n : handed[k] = IF k = j THEN child ELSE rows[k]
<1> DEFINE handed == [rows EXCEPT ![j] = child]
<1>1. /\ handed \in Seq(Nat)
      /\ Len(handed) = Len(rows)
      /\ \A k \in 1..n : handed[k] = IF k = j THEN child ELSE rows[k]
  BY ExceptSeq
<1> HIDE DEF handed
<1>2. child \in 0..n
  OBVIOUS
<1>3. \A k \in 1..n : handed[k] \in 0..n
  BY <1>1, <1>2
<1> QED BY <1>1, <1>3 DEF handed

(* A new row. *)
LEMMA RowsOKAdd ==
  ASSUME RowsOK, NEW new \in Row, new.status = "PENDING", new.attempts <= new.max,
         new.owner = NoWorker, new.lease = "none",
         jobs' = Append(jobs, new), open' = open,
         next' \in Seq(Nat), Len(next') = Len(jobs) + 1,
         \A k \in 1..(Len(jobs) + 1) : next'[k] \in 0..(Len(jobs) + 1)
  PROVE  RowsOK' /\ DOMAIN jobs \subseteq DOMAIN jobs'
<1>1. /\ jobs' \in Seq(Row)
      /\ Len(jobs') = Len(jobs) + 1
      /\ DOMAIN jobs' = DOMAIN jobs \cup {Len(jobs) + 1}
      /\ Len(jobs) + 1 \notin DOMAIN jobs
      /\ jobs'[Len(jobs) + 1] = new
      /\ \A k \in DOMAIN jobs : jobs'[k] = jobs[k]
  BY RowAdded DEF RowsOK
<1>2. ASSUME NEW k \in DOMAIN jobs'
      PROVE  next'[k] \in 0..Len(jobs')
  BY <1>1, RowDomain
<1>3. ASSUME NEW k \in DOMAIN jobs'
      PROVE  /\ jobs'[k].attempts <= jobs'[k].max
             /\ (jobs'[k].status \in Held) = (jobs'[k].owner # NoWorker)
             /\ (jobs'[k].status \in Held) = (jobs'[k].lease # "none")
             /\ (jobs'[k].status \in Held) => (<<k, jobs'[k].owner>> \in open')
  <2>1. CASE k = Len(jobs) + 1
    <3>1. jobs'[k] = new BY <1>1, <2>1
    <3>2. jobs'[k].status \notin Held BY <3>1 DEF Held
    <3>3. jobs'[k].attempts <= jobs'[k].max BY <3>1
    <3>4. jobs'[k].owner = NoWorker /\ jobs'[k].lease = "none" BY <3>1
    <3>5. (jobs'[k].status \in Held) = (jobs'[k].owner # NoWorker) BY <3>2, <3>4
    <3>6. (jobs'[k].status \in Held) = (jobs'[k].lease # "none") BY <3>2, <3>4
    <3> QED BY <3>2, <3>3, <3>5, <3>6
  <2>2. CASE k \in DOMAIN jobs
    <3>1. jobs'[k] = jobs[k] BY <1>1, <2>2
    <3> QED BY <2>2, <3>1 DEF RowsOK
  <2> QED BY <1>1, <2>1, <2>2
<1>4. open' \subseteq (DOMAIN jobs') \X Workers
  BY <1>1 DEF RowsOK
<1> QED BY <1>1, <1>2, <1>3, <1>4 DEF RowsOK

LEMMA RowsOKKept ==
  ASSUME RowsOK, jobs' = jobs, next' = next, open' = open
  PROVE  RowsOK' /\ DOMAIN jobs' = DOMAIN jobs
BY DEF RowsOK

(* A worker that goes on with its job, takes a rest, or does nothing. *)
LEMMA GotoOK ==
  ASSUME WorkersOK, NEW w \in Workers, NEW place \in Places,
         worker[w].pc \notin {"idle", "claim"}, place \notin {"idle", "claim"},
         Goto(w, place), DOMAIN jobs \subseteq DOMAIN jobs'
  PROVE  WorkersOK'
BY DEF WorkersOK, Goto

LEMMA RestOK ==
  ASSUME WorkersOK, NEW w \in Workers, Rest(w), DOMAIN jobs \subseteq DOMAIN jobs'
  PROVE  WorkersOK'
BY DEF WorkersOK, Rest, Idle, Places

LEMMA WorkersKept ==
  ASSUME WorkersOK, worker' = worker, DOMAIN jobs \subseteq DOMAIN jobs'
  PROVE  WorkersOK'
BY DEF WorkersOK

LEMMA SecretsKept ==
  ASSUME SecretsOK, UNCHANGED <<secrets, retried>>, DOMAIN jobs \subseteq DOMAIN jobs'
  PROVE  SecretsOK'
BY DEF SecretsOK, secrets

LEMMA SpendOK ==
  ASSUME BudgetOK, NEW what \in {"events", "orders", "crashes", "errors"}, Spend(what)
  PROVE  /\ BudgetOK'
         /\ budget'.workers = budget.workers
         /\ (what = "orders") => (budget'.orders < budget.orders)
BY DEF BudgetOK, Spend

LEMMA BudgetKept == BudgetOK /\ UNCHANGED budget => BudgetOK'
BY DEF BudgetOK
-----------------------------------------------------------------------------
(* What a step does to the rows: it leaves them alone, adds one for which no *)
(* active job is found, or replaces one. A row that is replaced keeps its    *)
(* kind and its key; a finished one is replaced by an operator's Retry only. *)
Consistent(j, new) ==
  /\ new \in Row
  /\ new.attempts <= new.max
  /\ (new.status \in Held) = (new.owner # NoWorker)
  /\ (new.status \in Held) = (new.lease # "none")
  /\ (new.status \in Held) => <<j, new.owner>> \in open'

Retried(j, new) ==
  /\ new.status = "PENDING"
  /\ new.attempts = 0
  /\ j \in retried'
  /\ budget'.orders < budget.orders

Succeeds(j) ==
  \E w \in Workers : worker[w].pc = "succeed" /\ worker[w].job = j

RowMove(j, new) ==
  /\ jobs' = [jobs EXCEPT ![j] = new]
  /\ Consistent(j, new)
  /\ new.kind = jobs[j].kind /\ new.key = jobs[j].key
  /\ jobs[j].status \in ActiveStatuses \/ Retried(j, new)
  /\ new.status = "SUCCESS" => Succeeds(j)

Fresh(new) ==
  /\ new.status = "PENDING" /\ new.attempts <= new.max
  /\ new.owner = NoWorker /\ new.lease = "none"
  /\ FindActive(new.kind, new.key) = {}

JobsMove ==
  \/ jobs' = jobs
  \/ \E new \in Row : Fresh(new) /\ jobs' = Append(jobs, new)
  \/ \E j \in DOMAIN jobs, new \in Row : RowMove(j, new)

(* A step that replaces a row keeps the rows well-formed. *)
LEMMA RowMoveOK ==
  ASSUME RowsOK, NEW j \in DOMAIN jobs, NEW new, RowMove(j, new), next' = next,
         open' \subseteq (DOMAIN jobs) \X Workers,
         \A k \in DOMAIN jobs, w \in Workers :
           k # j /\ <<k, w>> \in open => <<k, w>> \in open'
  PROVE  RowsOK' /\ DOMAIN jobs' = DOMAIN jobs /\ JobsMove
<1>1. new \in Row
  BY DEF RowMove, Consistent
<1>2. JobsMove
  BY <1>1 DEF JobsMove
<1>3. RowsOK' /\ DOMAIN jobs' = DOMAIN jobs
  BY <1>1, RowsOKReplace DEF RowMove, Consistent
<1> QED BY <1>2, <1>3

(* What TypeOK says of one row, and of a worker that has a job. *)
LEMMA RowFacts ==
  ASSUME RowsOK, NEW j \in DOMAIN jobs
  PROVE  /\ jobs[j] \in Row
         /\ jobs[j].attempts \in Nat /\ jobs[j].max \in Nat
         /\ jobs[j].attempts <= jobs[j].max
         /\ (jobs[j].status \in Held) = (jobs[j].owner # NoWorker)
         /\ (jobs[j].status \in Held) = (jobs[j].lease # "none")
         /\ (jobs[j].status \in Held) => <<j, jobs[j].owner>> \in open
<1>1. jobs[j] \in Row
  BY RowDomain DEF RowsOK
<1> QED BY <1>1 DEF RowsOK, Row

LEMMA WorkerFacts ==
  ASSUME WorkersOK, NEW w \in Workers, worker[w].pc \notin {"idle", "claim"}
  PROVE  worker[w].job \in DOMAIN jobs
BY DEF WorkersOK

LEMMA WorkersAreSomebody == NoWorker \notin Workers
BY QueueAssumption DEF NoWorker, Workers

(* The release of a held or waiting job. *)
LEMMA ReleaseOK ==
  ASSUME RowsOK, NEW j \in DOMAIN jobs, NEW status \in (ActiveStatuses \cup TerminalStatus) \ Held,
         jobs' = [jobs EXCEPT ![j] = Released(jobs[j], status)],
         jobs[j].status \in ActiveStatuses,
         status = "SUCCESS" => Succeeds(j)
  PROVE  RowMove(j, Released(jobs[j], status))
<1> DEFINE new == Released(jobs[j], status)
<1>1. jobs[j] \in Row /\ jobs[j].attempts <= jobs[j].max
  BY RowFacts
<1>2. /\ new \in Row
      /\ new.kind = jobs[j].kind /\ new.key = jobs[j].key
      /\ new.attempts = jobs[j].attempts /\ new.max = jobs[j].max
      /\ new.status = status /\ new.owner = NoWorker /\ new.lease = "none"
  BY <1>1, ReleasedIsRow
<1> HIDE DEF new
<1>3. Consistent(j, new)
  BY <1>1, <1>2 DEF Consistent
<1> QED BY <1>2, <1>3 DEF RowMove, new
-----------------------------------------------------------------------------
(* One lemma per action: it keeps TypeOK and moves the rows as JobsMove says. *)

LEMMA CreateJobStep ==
  ASSUME TypeOK, NEW kind \in Kinds, NEW key \in Keys, NEW tries \in Nat,
         NEW what \in {"events", "orders"}, Spend(what),
         CreateJob(kind, key, tries), UNCHANGED <<open, secrets, worker, retried>>
  PROVE  TypeOK' /\ JobsMove
<1>1. RowsOK /\ SecretsOK /\ WorkersOK /\ BudgetOK
  BY TypeOKParts
<1>2. RowsOK' /\ DOMAIN jobs \subseteq DOMAIN jobs' /\ JobsMove
  <2>1. CASE CreateJobId(kind, key) \in DOMAIN jobs
    BY <1>1, <2>1, RowsOKKept DEF CreateJob, JobsMove
  <2>2. CASE CreateJobId(kind, key) \notin DOMAIN jobs
    <3> DEFINE new == NewJob(kind, key, tries)
    <3>1. jobs' = Append(jobs, new) /\ next' = Append(next, 0)
      BY <2>2 DEF CreateJob
    <3>2. FindActive(kind, key) = {}
      BY <1>1, <2>2, CreateJobIdIs DEF RowsOK
    <3>3. /\ new \in Row /\ new.kind = kind /\ new.key = key
          /\ new.status = "PENDING" /\ new.attempts <= new.max
          /\ new.owner = NoWorker /\ new.lease = "none"
      BY NewJobIsRow
    <3> HIDE DEF new
    <3>4. JobsMove
      BY <3>1, <3>2, <3>3 DEF JobsMove, Fresh
    <3> QED BY <1>1, <3>1, <3>3, <3>4, RowsOKAdd, NextAppended
  <2> QED BY <2>1, <2>2
<1>3. SecretsOK' /\ WorkersOK'
  BY <1>1, <1>2, SecretsKept, WorkersKept
<1>4. BudgetOK'
  BY <1>1, SpendOK
<1> QED BY <1>2, <1>3, <1>4, TypeOKPartsNext

LEMMA EnqueueStep == TypeOK /\ EnqueueAuthInvalid => TypeOK' /\ JobsMove
<1> SUFFICES ASSUME TypeOK, EnqueueAuthInvalid PROVE TypeOK' /\ JobsMove
  OBVIOUS
<1>1. "auth_recover" \in Kinds /\ "account" \in Keys /\ Tries("auth_recover") \in Nat
  BY TriesIsNat DEF Kinds, Keys
<1> QED BY <1>1, CreateJobStep DEF EnqueueAuthInvalid

LEMMA PostStep ==
  ASSUME TypeOK, NEW kind \in Kinds, NEW key \in Keys, NEW tries \in PostTries,
         PostJob(kind, key, tries)
  PROVE  TypeOK' /\ JobsMove
<1>1. tries \in Nat
  BY QueueAssumption
<1> QED BY <1>1, CreateJobStep DEF PostJob

(* Actions of a worker that leave the rows alone. *)
LEMMA QuietStep ==
  ASSUME TypeOK, jobs' = jobs, next' = next, open' = open, WorkersOK', SecretsOK', BudgetOK'
  PROVE  TypeOK' /\ JobsMove
<1>1. RowsOK'
  BY RowsOKKept, TypeOKParts
<1> QED BY <1>1, TypeOKPartsNext DEF JobsMove

LEMMA ClaimStep == 
  ASSUME TypeOK, NEW w \in Workers, Claim(w)
  PROVE  TypeOK' /\ JobsMove
<1>1. RowsOK /\ SecretsOK /\ WorkersOK /\ BudgetOK
  BY TypeOKParts
<1>2. SecretsOK'
  BY <1>1, SecretsKept DEF Claim
<1>3. BudgetOK'
  BY <1>1, BudgetKept DEF Claim
<1>4. WorkersOK'
  <2> DEFINE found == {j \in DOMAIN jobs : Claimable(j, w)}
  <2>1. found \subseteq DOMAIN jobs /\ DOMAIN jobs \subseteq Nat
    BY <1>1, RowDomain DEF RowsOK
  <2>2. worker' = [worker EXCEPT ![w] = [pc |-> "claim", job |-> 0, list |-> found]]
    BY DEF Claim
  <2>3. jobs' = jobs
    BY DEF Claim
  <2> HIDE DEF found
  <2> QED BY <1>1, <2>1, <2>2, <2>3 DEF WorkersOK, Places
<1> QED BY <1>2, <1>3, <1>4, QuietStep DEF Claim

(* The moves of a worker between two places of its handler. *)
LEMMA GotoStep ==
  ASSUME TypeOK, NEW w \in Workers, NEW place \in Places \ {"idle", "claim"},
         worker[w].pc \notin {"idle", "claim"}, Goto(w, place),
         UNCHANGED <<jobs, open, next>>, SecretsOK', BudgetOK'
  PROVE  TypeOK' /\ JobsMove
<1>1. WorkersOK'
  BY GotoOK, TypeOKParts
<1> QED BY <1>1, QuietStep

LEMMA HandlerSteps ==
  ASSUME TypeOK, NEW w \in Workers,
         Lookup(w) \/ Refresh(w) \/ Login(w)
  PROVE  TypeOK' /\ JobsMove
<1>1. SecretsOK' /\ BudgetOK'
  BY SecretsKept, BudgetKept, TypeOKParts DEF Lookup, Refresh, Login
<1>2. CASE Lookup(w)
  <2>1. LookupTarget(w) \in Places \ {"idle", "claim"}
    BY DEF LookupTarget, Places
  <2> QED BY <1>1, <1>2, <2>1, GotoStep DEF Lookup
<1>3. CASE Refresh(w)
  <2>1. PICK place \in {"vault", "fallback", "fail"} : Goto(w, place)
    BY <1>3 DEF Refresh
  <2>2. place \in Places \ {"idle", "claim"}
    BY DEF Places
  <2> QED BY <1>1, <1>3, <2>1, <2>2, GotoStep DEF Refresh
<1>4. CASE Login(w)
  <2>1. PICK place \in {"received", "human", "fail"} : Goto(w, place)
    BY <1>4 DEF Login
  <2>2. place \in Places \ {"idle", "claim"}
    BY DEF Places
  <2> QED BY <1>1, <1>4, <2>1, <2>2, GotoStep DEF Login
<1> QED BY <1>2, <1>3, <1>4

LEMMA SecretSteps ==
  ASSUME TypeOK, NEW w \in Workers,
         StoreSecret(w) \/ LinkJobSecret(w) \/ WriteCredential(w)
  PROVE  TypeOK' /\ JobsMove
<1>1. BudgetOK'
  BY BudgetKept, TypeOKParts DEF StoreSecret, LinkJobSecret, WriteCredential
<1>2. SecretsOK /\ WorkersOK
  BY TypeOKParts
<1>3. CASE StoreSecret(w)
  <2>1. SecretsOK'
    BY <1>2, <1>3 DEF StoreSecret, SecretsOK
  <2>2. "link" \in Places \ {"idle", "claim"}
    BY DEF Places
  <2> QED BY <1>1, <1>3, <2>1, <2>2, GotoStep DEF StoreSecret
<1>4. CASE LinkJobSecret(w)
  <2>1. worker[w].job \in DOMAIN jobs
    BY <1>2, <1>4, WorkerFacts DEF LinkJobSecret
  <2>2. SecretsOK'
    BY <1>2, <1>4, <2>1 DEF LinkJobSecret, SecretsOK
  <2>3. "write" \in Places \ {"idle", "claim"}
    BY DEF Places
  <2> QED BY <1>1, <1>4, <2>2, <2>3, GotoStep DEF LinkJobSecret
<1>5. CASE WriteCredential(w)
  <2>1. worker[w].job \in DOMAIN jobs
    BY <1>2, <1>5, WorkerFacts DEF WriteCredential
  <2>2. SecretsOK'
    BY <1>2, <1>5, <2>1 DEF WriteCredential, SecretsOK
  <2>3. PICK place \in {"succeed", "fail"} : Goto(w, place)
    BY <1>5 DEF WriteCredential, WriteFailed
  <2>4. place \in Places \ {"idle", "claim"}
    BY DEF Places
  <2> QED BY <1>1, <1>5, <2>2, <2>3, <2>4, GotoStep DEF WriteCredential
<1> QED BY <1>3, <1>4, <1>5

(* A lost process and a failed store access. *)
LEMMA FaultSteps ==
  ASSUME TypeOK, NEW w \in Workers, Crash(w) \/ StoreError(w)
  PROVE  TypeOK' /\ JobsMove
<1>1. SecretsOK' /\ BudgetOK'
  BY SecretsKept, SpendOK, TypeOKParts DEF Crash, StoreError
<1>2. CASE Rest(w)
  <2>1. WorkersOK'
    BY <1>2, RestOK, TypeOKParts DEF Crash, StoreError
  <2> QED BY <1>1, <2>1, QuietStep DEF Crash, StoreError
<1>3. CASE ~Rest(w)
  <2>1. PICK place \in AfterStoreError(w) :
          StoreError(w) /\ place # "idle" /\ Goto(w, place)
    BY <1>3 DEF Crash, StoreError
  <2>2. place \in {"write", "fallback", "refresh", "fail"} /\ worker[w].pc # "claim"
    BY <2>1 DEF AfterStoreError
  <2>3. place \in Places \ {"idle", "claim"}
    BY <2>2 DEF Places
  <2> QED BY <1>1, <2>1, <2>2, <2>3, GotoStep DEF StoreError
<1> QED BY <1>2, <1>3

(* A stage report replaces the row by one that is RUNNING. *)
LEMMA ReportStageStep ==
  ASSUME TypeOK, NEW w \in Workers, NEW then \in Places \ {"idle", "claim"},
         NEW lost \in Places \ {"claim"},
         worker[w].pc \notin {"idle", "claim", "succeed"}, ReportStage(w, then, lost),
         UNCHANGED <<open, secrets, next, retried, budget>>
  PROVE  TypeOK' /\ JobsMove
<1>1. RowsOK /\ WorkersOK
  BY TypeOKParts
<1>2. (SecretsOK' /\ BudgetOK') \/ DOMAIN jobs' # DOMAIN jobs
  BY SecretsKept, BudgetKept, TypeOKParts
<1> DEFINE j == worker[w].job
<1>3. j \in DOMAIN jobs
  BY <1>1, WorkerFacts
<1>4. CASE Holds(w)
  <2> DEFINE new == [jobs[j] EXCEPT !.status = "RUNNING"]
  <2>1. jobs' = [jobs EXCEPT ![j] = new] /\ Goto(w, then)
    BY <1>4 DEF ReportStage
  <2>2. jobs[j].owner = w /\ jobs[j].status \in Held
    BY <1>4 DEF Holds
  <2>3. /\ jobs[j] \in Row
        /\ jobs[j].attempts <= jobs[j].max
        /\ (jobs[j].status \in Held) = (jobs[j].lease # "none")
        /\ (jobs[j].status \in Held) => <<j, jobs[j].owner>> \in open
    BY <1>1, <1>3, RowFacts
  <2>4. /\ new \in Row /\ new.kind = jobs[j].kind /\ new.key = jobs[j].key /\ new.status = "RUNNING"
        /\ new.owner = w /\ new.lease = jobs[j].lease
        /\ new.attempts = jobs[j].attempts /\ new.max = jobs[j].max
    BY <2>2, <2>3 DEF Row, ActiveStatuses, Held
  <2> HIDE DEF new
  <2>5. new.status \in Held /\ new.owner # NoWorker /\ new.lease # "none"
        /\ <<j, new.owner>> \in open'
    BY <2>2, <2>3, <2>4, WorkersAreSomebody DEF Held
  <2>6. Consistent(j, new)
    BY <2>3, <2>4, <2>5 DEF Consistent
  <2>7. RowMove(j, new)
    BY <2>1, <2>2, <2>4, <2>6 DEF RowMove, ActiveStatuses
  <2>8. RowsOK' /\ DOMAIN jobs' = DOMAIN jobs /\ JobsMove
    BY <1>1, <1>3, <2>7, RowMoveOK DEF RowsOK
  <2>9. WorkersOK'
    BY <1>1, <2>1, <2>8, GotoOK
  <2> QED BY <1>2, <2>8, <2>9, TypeOKPartsNext
<1>5. CASE ~Holds(w)
  <2>1. jobs' = jobs
    BY <1>5 DEF ReportStage
  <2>2. CASE lost = "idle"
    <3>1. WorkersOK'
      BY <1>1, <1>5, <2>1, <2>2, RestOK DEF ReportStage
    <3> QED BY <1>2, <2>1, <3>1, QuietStep
  <2>3. CASE lost # "idle"
    <3>1. Goto(w, lost)
      BY <1>5, <2>3 DEF ReportStage
    <3> QED BY <1>2, <2>1, <2>3, <3>1, GotoStep
  <2> QED BY <2>2, <2>3
<1> QED BY <1>4, <1>5

LEMMA StageSteps ==
  ASSUME TypeOK, NEW w \in Workers, Stage(w) \/ Opened(w) \/ Received(w)
  PROVE  TypeOK' /\ JobsMove
<1>1. {"child", "opened", "login", "vault"} \subseteq Places \ {"idle", "claim"}
      /\ {"idle", "fail"} \subseteq Places \ {"claim"}
  BY DEF Places
<1>2. CASE Stage(w)
  BY <1>1, <1>2, ReportStageStep DEF Stage
<1>3. CASE Opened(w)
  BY <1>1, <1>3, ReportStageStep DEF Opened
<1>4. CASE Received(w)
  BY <1>1, <1>4, ReportStageStep DEF Received
<1> QED BY <1>2, <1>3, <1>4

(* The worker that releases its job closes its own attempt. *)
LEMMA ReleaseStep ==
  ASSUME TypeOK, NEW w \in Workers, NEW status \in (ActiveStatuses \cup TerminalStatus) \ Held,
         worker[w].pc \notin {"idle", "claim"},
         status = "SUCCESS" => worker[w].pc = "succeed",
         jobs[worker[w].job].owner = w,
         jobs' = [jobs EXCEPT ![worker[w].job] = Released(jobs[worker[w].job], status)],
         CloseAttempts(w), Rest(w),
         UNCHANGED <<secrets, next, retried, budget>>
  PROVE  TypeOK' /\ JobsMove
<1>1. RowsOK /\ WorkersOK /\ SecretsOK /\ BudgetOK
  BY TypeOKParts
<1> DEFINE j == worker[w].job
<1>2. j \in DOMAIN jobs
  BY <1>1, WorkerFacts
<1>3. jobs[j].status \in ActiveStatuses
  BY <1>1, <1>2, RowFacts, WorkersAreSomebody DEF ActiveStatuses
<1>4. status = "SUCCESS" => Succeeds(j)
  BY DEF Succeeds
<1>5. RowMove(j, Released(jobs[j], status))
  BY <1>1, <1>2, <1>3, <1>4, ReleaseOK
<1>6. open' \subseteq (DOMAIN jobs) \X Workers
  BY <1>1 DEF RowsOK, CloseAttempts
<1>7. \A k \in DOMAIN jobs, v \in Workers : k # j /\ <<k, v>> \in open => <<k, v>> \in open'
  BY DEF CloseAttempts
<1>8. RowsOK' /\ DOMAIN jobs' = DOMAIN jobs /\ JobsMove
  BY <1>1, <1>2, <1>5, <1>6, <1>7, RowMoveOK
<1>9. WorkersOK' /\ SecretsOK' /\ BudgetOK'
  BY <1>1, <1>8, RestOK, SecretsKept, BudgetKept
<1> QED BY <1>8, <1>9, TypeOKPartsNext

LEMMA FinishSteps ==
  ASSUME TypeOK, NEW w \in Workers, Succeed(w) \/ Fail(w) \/ WaitingHuman(w)
  PROVE  TypeOK' /\ JobsMove
<1> DEFINE j == worker[w].job
<1>1. {"SUCCESS", "PENDING", "FAILED", "WAITING_HUMAN"}
        \subseteq (ActiveStatuses \cup TerminalStatus) \ Held
  BY DEF ActiveStatuses, TerminalStatus, Held
<1>2. ASSUME UNCHANGED <<jobs, open, next, secrets, retried, budget>>, Rest(w)
      PROVE  TypeOK' /\ JobsMove
  BY <1>2, RestOK, SecretsKept, BudgetKept, TypeOKParts, QuietStep
<1>3. CASE Succeed(w)
  <2>1. CASE Holds(w)
    <3>1. jobs' = [jobs EXCEPT ![j] = Released(jobs[j], "SUCCESS")]
      BY <1>3, <2>1 DEF Succeed
    <3>2. jobs[j].owner = w
      BY <2>1 DEF Holds
    <3> QED BY <1>1, <1>3, <2>1, <3>1, <3>2, ReleaseStep DEF Succeed
  <2>2. CASE ~Holds(w) /\ w \in Browsers
    <3>1. Goto(w, "fail") /\ "fail" \in Places \ {"idle", "claim"}
      BY <1>3, <2>2 DEF Succeed, Places
    <3>2. SecretsOK' /\ BudgetOK'
      BY <1>3, <2>2, SecretsKept, BudgetKept, TypeOKParts DEF Succeed
    <3> QED BY <1>3, <2>2, <3>1, <3>2, GotoStep DEF Succeed
  <2>3. CASE ~Holds(w) /\ w \notin Browsers
    BY <1>2, <1>3, <2>3 DEF Succeed
  <2> QED BY <2>1, <2>2, <2>3
<1>4. CASE Fail(w)
  <2>1. CASE FoundByOwner(w)
    <3> DEFINE status == IF jobs[j].attempts < jobs[j].max THEN "PENDING" ELSE "FAILED"
    <3>1. jobs' = [jobs EXCEPT ![j] = Released(jobs[j], status)]
      BY <1>4, <2>1 DEF Fail
    <3>2. status \in (ActiveStatuses \cup TerminalStatus) \ Held /\ status # "SUCCESS"
      BY <1>1
    <3> HIDE DEF status
    <3> QED BY <1>4, <2>1, <3>1, <3>2, ReleaseStep DEF Fail, FoundByOwner
  <2>2. CASE ~FoundByOwner(w)
    BY <1>2, <1>4, <2>2 DEF Fail
  <2> QED BY <2>1, <2>2
<1>5. CASE WaitingHuman(w)
  <2>1. CASE Holds(w)
    <3>1. jobs' = [jobs EXCEPT ![j] = Released(jobs[j], "WAITING_HUMAN")]
      BY <1>5, <2>1 DEF WaitingHuman
    <3>2. jobs[j].owner = w
      BY <2>1 DEF Holds
    <3> QED BY <1>1, <1>5, <2>1, <3>1, <3>2, ReleaseStep DEF WaitingHuman
  <2>2. CASE ~Holds(w)
    BY <1>2, <1>5, <2>2 DEF WaitingHuman
  <2> QED BY <2>1, <2>2
<1> QED BY <1>3, <1>4, <1>5

LEMMA HandlerFacts ==
  ASSUME NEW kind
  PROVE  Handler(kind) \in Places \ {"idle", "claim"}
BY DEF Handler, Places

(* The claim: the row is leased to the worker, whose attempt is opened. *)
LEMMA ClaimCandidateStep ==
  ASSUME TypeOK, NEW w \in Workers, ClaimCandidate(w)
  PROVE  TypeOK' /\ JobsMove
<1>1. RowsOK /\ WorkersOK /\ SecretsOK /\ BudgetOK
  BY TypeOKParts
<1>2. PICK j \in worker[w].list :
        IF StillClaimable(j, w)
        THEN /\ jobs' = [jobs EXCEPT ![j].status = "LEASED", ![j].owner = w,
                                     ![j].lease = "live", ![j].attempts = @ + 1]
             /\ open' = open \cup {<<j, w>>}
             /\ worker' = [worker EXCEPT ![w] = [pc |-> Handler(jobs[j].kind),
                                                 job |-> j, list |-> {}]]
        ELSE /\ worker' = [worker EXCEPT ![w] =
                             IF worker[w].list = {j} THEN Idle
                             ELSE [worker[w] EXCEPT !.list = @ \ {j}]]
             /\ UNCHANGED <<jobs, open>>
  BY DEF ClaimCandidate
<1>3. j \in DOMAIN jobs /\ j # 0 /\ j \in Nat
  BY <1>1, RowDomain DEF WorkersOK, RowsOK
<1>4. worker[w].pc = "claim" /\ UNCHANGED <<secrets, next, retried, budget>>
  BY DEF ClaimCandidate
<1>5. CASE StillClaimable(j, w)
  <2> DEFINE new == [jobs[j] EXCEPT !.status = "LEASED", !.owner = w, !.lease = "live",
                                    !.attempts = @ + 1]
  <2>1. jobs' = [jobs EXCEPT ![j] = new]
    BY <1>2, <1>5
  <2>2. jobs[j] \in Row /\ jobs[j].attempts \in Nat /\ jobs[j].max \in Nat
    BY <1>1, <1>3, RowFacts
  <2>3. /\ new.kind = jobs[j].kind /\ new.key = jobs[j].key /\ new.status = "LEASED"
        /\ new.owner = w /\ new.lease = "live"
        /\ new.attempts = jobs[j].attempts + 1 /\ new.max = jobs[j].max
    BY <2>2 DEF Row
  <2>4. new \in Row
    <3>1. jobs[j].attempts + 1 \in Nat BY <2>2
    <3>2. "LEASED" \in ActiveStatuses \cup TerminalStatus BY DEF ActiveStatuses, Held
    <3> QED BY <2>2, <3>1, <3>2 DEF Row
  <2> HIDE DEF new
  <2>5. jobs[j].attempts < jobs[j].max /\ jobs[j].status \in ActiveStatuses
    BY <1>5 DEF StillClaimable, Claimable, ActiveStatuses
  <2>6. new.attempts <= new.max
    BY <2>2, <2>3, <2>5
  <2>7. new.status \in Held /\ new.owner # NoWorker /\ new.lease # "none"
        /\ <<j, new.owner>> \in open' /\ new.status # "SUCCESS"
    BY <1>2, <1>5, <2>3, WorkersAreSomebody DEF Held
  <2>8. Consistent(j, new)
    BY <2>4, <2>6, <2>7 DEF Consistent
  <2>9. RowMove(j, new)
    BY <2>1, <2>3, <2>5, <2>7, <2>8 DEF RowMove
  <2>10. open' \subseteq (DOMAIN jobs) \X Workers
    BY <1>1, <1>2, <1>3, <1>5 DEF RowsOK
  <2>11. \A k \in DOMAIN jobs, v \in Workers : <<k, v>> \in open => <<k, v>> \in open'
    BY <1>2, <1>5
  <2>12. RowsOK' /\ DOMAIN jobs' = DOMAIN jobs /\ JobsMove
    BY <1>1, <1>3, <1>4, <2>9, <2>10, <2>11, RowMoveOK
  <2>13. WorkersOK'
    <3>1. worker' = [worker EXCEPT ![w] = [pc |-> Handler(jobs[j].kind), job |-> j, list |-> {}]]
      BY <1>2, <1>5
    <3>2. Handler(jobs[j].kind) \in Places \ {"idle", "claim"}
      BY HandlerFacts
    <3> QED BY <1>1, <1>3, <2>12, <3>1, <3>2 DEF WorkersOK
  <2>14. SecretsOK' /\ BudgetOK'
    BY <1>1, <1>4, <2>12, SecretsKept, BudgetKept
  <2> QED BY <2>12, <2>13, <2>14, TypeOKPartsNext
<1>6. CASE ~StillClaimable(j, w)
  <2>1. WorkersOK'
    <3>1. CASE worker[w].list = {j}
      BY <1>1, <1>2, <1>6, <3>1, RestOK DEF Rest
    <3>2. CASE worker[w].list # {j}
      <4> DEFINE shorter == [worker[w] EXCEPT !.list = @ \ {j}]
      <4>1. worker' = [worker EXCEPT ![w] = shorter]
        <5> DEFINE rest == IF worker[w].list = {j} THEN Idle ELSE shorter
        <5>1. rest = shorter BY <3>2
        <5>2. worker' = [worker EXCEPT ![w] = rest] BY <1>2, <1>6
        <5> HIDE DEF rest, shorter
        <5> QED BY <5>1, <5>2
      <4>2. jobs' = jobs
        BY <1>2, <1>6
      <4> QED BY <1>1, <4>1, <4>2 DEF WorkersOK
    <3> QED BY <3>1, <3>2
  <2>2. SecretsOK' /\ BudgetOK'
    BY <1>1, <1>2, <1>4, <1>6, SecretsKept, BudgetKept
  <2> QED BY <1>2, <1>4, <1>6, <2>1, <2>2, QuietStep
<1> QED BY <1>5, <1>6

(* A held job's lease runs out or is prolonged. *)
LEMMA LeaseStep ==
  ASSUME TypeOK, NEW j \in DOMAIN jobs, NEW lease \in {"live", "past"},
         jobs[j].lease # "none",
         jobs' = [jobs EXCEPT ![j].lease = lease],
         UNCHANGED <<open, secrets, next, worker, retried, budget>>
  PROVE  TypeOK' /\ JobsMove
<1>1. RowsOK /\ WorkersOK /\ SecretsOK /\ BudgetOK
  BY TypeOKParts
<1> DEFINE new == [jobs[j] EXCEPT !.lease = lease]
<1>2. jobs' = [jobs EXCEPT ![j] = new]
  OBVIOUS
<1>3. /\ jobs[j] \in Row /\ jobs[j].attempts <= jobs[j].max
      /\ (jobs[j].status \in Held) = (jobs[j].owner # NoWorker)
      /\ (jobs[j].status \in Held) = (jobs[j].lease # "none")
      /\ (jobs[j].status \in Held) => <<j, jobs[j].owner>> \in open
  BY <1>1, RowFacts
<1>4. /\ new \in Row /\ new.kind = jobs[j].kind /\ new.key = jobs[j].key /\ new.status = jobs[j].status
      /\ new.owner = jobs[j].owner /\ new.lease = lease
      /\ new.attempts = jobs[j].attempts /\ new.max = jobs[j].max
  BY <1>3 DEF Row
<1> HIDE DEF new
<1>5. new.status \in Held /\ new.owner # NoWorker /\ new.lease # "none"
      /\ <<j, new.owner>> \in open' /\ new.status # "SUCCESS"
  BY <1>3, <1>4 DEF Held
<1>6. Consistent(j, new)
  BY <1>3, <1>4, <1>5 DEF Consistent
<1>7. RowMove(j, new)
  BY <1>2, <1>4, <1>5, <1>6 DEF RowMove, ActiveStatuses
<1>8. RowsOK' /\ DOMAIN jobs' = DOMAIN jobs /\ JobsMove
  BY <1>1, <1>7, RowMoveOK DEF RowsOK
<1>9. WorkersOK' /\ SecretsOK' /\ BudgetOK'
  BY <1>1, <1>8, WorkersKept, SecretsKept, BudgetKept
<1> QED BY <1>8, <1>9, TypeOKPartsNext

LEMMA LeaseSteps ==
  ASSUME TypeOK,
         \/ \E w \in Workers : Heartbeat(w)
         \/ \E j \in DOMAIN jobs : LeaseRunsOut(j)
  PROVE  TypeOK' /\ JobsMove
<1>1. ASSUME NEW w \in Workers, Heartbeat(w) PROVE TypeOK' /\ JobsMove
  <2>1. worker[w].job \in DOMAIN jobs
    BY <1>1, TypeOKParts DEF WorkersOK, Heartbeat
  <2> QED BY <1>1, <2>1, LeaseStep DEF Heartbeat
<1>2. ASSUME NEW j \in DOMAIN jobs, LeaseRunsOut(j) PROVE TypeOK' /\ JobsMove
  BY <1>2, LeaseStep DEF LeaseRunsOut
<1> QED BY <1>1, <1>2

LEMMA OperatorSteps ==
  ASSUME TypeOK, NEW j \in DOMAIN jobs, Operator(j)
  PROVE  TypeOK' /\ JobsMove
<1>1. RowsOK /\ WorkersOK /\ SecretsOK /\ BudgetOK
  BY TypeOKParts
<1>2. BudgetOK' /\ budget'.orders < budget.orders
  BY <1>1, SpendOK DEF Operator, Cancel, Retry, ResumeWaitingHuman
<1>3. UNCHANGED <<open, secrets, next, worker>>
  BY DEF Operator, Cancel, Retry, ResumeWaitingHuman
<1>4. open' \subseteq (DOMAIN jobs) \X Workers
  BY <1>1, <1>3 DEF RowsOK
<1>5. /\ jobs[j] \in Row /\ jobs[j].attempts \in Nat /\ jobs[j].max \in Nat
      /\ jobs[j].attempts <= jobs[j].max
  BY <1>1, RowFacts
<1> DEFINE freed == Released(jobs[j], "PENDING")
<1>6. /\ freed \in Row
      /\ freed.kind = jobs[j].kind /\ freed.key = jobs[j].key /\ freed.attempts = jobs[j].attempts
      /\ freed.max = jobs[j].max
      /\ freed.status = "PENDING" /\ freed.owner = NoWorker /\ freed.lease = "none"
  BY <1>5, ReleasedIsRow DEF ActiveStatuses
<1> HIDE DEF freed
<1>7. ASSUME NEW new, RowMove(j, new), SecretsOK' \/ DOMAIN jobs' # DOMAIN jobs
      PROVE  TypeOK' /\ JobsMove
  <2>1. RowsOK' /\ DOMAIN jobs' = DOMAIN jobs /\ JobsMove
    BY <1>1, <1>3, <1>4, <1>7, RowMoveOK
  <2>2. WorkersOK'
    BY <1>1, <1>3, <2>1, WorkersKept
  <2> QED BY <1>2, <1>7, <2>1, <2>2, TypeOKPartsNext
<1>8. ASSUME NEW new \in Row, new.attempts <= new.max, new.status = "PENDING",
             new.owner = NoWorker, new.lease = "none"
      PROVE  Consistent(j, new) /\ new.status # "SUCCESS"
  <2>1. new.status \notin Held
    BY <1>8 DEF Held
  <2> QED BY <1>8, <2>1 DEF Consistent
<1>9. CASE Cancel(j)
  <2>1. jobs' = [jobs EXCEPT ![j] = Released(jobs[j], "CANCELED")]
    BY <1>9 DEF Cancel
  <2>2. "CANCELED" \in (ActiveStatuses \cup TerminalStatus) \ Held
    BY DEF ActiveStatuses, TerminalStatus, Held
  <2>3. RowMove(j, Released(jobs[j], "CANCELED"))
    BY <1>1, <1>9, <2>1, <2>2, ReleaseOK DEF Cancel
  <2>4. SecretsOK' \/ DOMAIN jobs' # DOMAIN jobs
    BY <1>1, <1>3, <1>9, SecretsKept DEF Cancel
  <2> QED BY <1>7, <2>3, <2>4
<1>10. CASE Retry(j)
  <2> DEFINE new == [freed EXCEPT !.attempts = 0]
  <2>1. jobs' = [jobs EXCEPT ![j] = new]
    BY <1>10 DEF Retry, freed
  <2>2. /\ new \in Row /\ new.kind = jobs[j].kind /\ new.key = jobs[j].key /\ new.status = "PENDING"
        /\ new.owner = NoWorker /\ new.lease = "none" /\ new.attempts = 0
        /\ new.max = jobs[j].max
    BY <1>6 DEF Row
  <2> HIDE DEF new
  <2>3. Consistent(j, new) /\ new.status # "SUCCESS"
    BY <1>5, <1>8, <2>2
  <2>4. Retried(j, new)
    BY <1>2, <1>10, <2>2 DEF Retried, Retry
  <2>5. RowMove(j, new)
    BY <2>1, <2>2, <2>3, <2>4 DEF RowMove
  <2>6. SecretsOK' \/ DOMAIN jobs' # DOMAIN jobs
    BY <1>1, <1>10 DEF SecretsOK, Retry, secrets
  <2> QED BY <1>7, <2>5, <2>6
<1>11. CASE ResumeWaitingHuman(j)
  <2> DEFINE new == [freed EXCEPT !.max = ResumeMax(jobs[j])]
  <2>1. jobs' = [jobs EXCEPT ![j] = new]
    BY <1>11 DEF ResumeWaitingHuman, freed
  <2>2. ResumeMax(jobs[j]) \in Nat /\ jobs[j].attempts <= ResumeMax(jobs[j])
    BY <1>5 DEF ResumeMax
  <2>3. /\ new \in Row /\ new.kind = jobs[j].kind /\ new.key = jobs[j].key /\ new.status = "PENDING"
        /\ new.owner = NoWorker /\ new.lease = "none"
        /\ new.attempts = jobs[j].attempts /\ new.max = ResumeMax(jobs[j])
    BY <1>6, <2>2 DEF Row
  <2> HIDE DEF new
  <2>4. Consistent(j, new) /\ new.status # "SUCCESS"
    BY <1>8, <2>2, <2>3
  <2>5. RowMove(j, new)
    BY <1>11, <2>1, <2>3, <2>4 DEF RowMove, ResumeWaitingHuman, ActiveStatuses
  <2>6. SecretsOK' \/ DOMAIN jobs' # DOMAIN jobs
    BY <1>1, <1>3, <1>11, SecretsKept DEF ResumeWaitingHuman
  <2> QED BY <1>7, <2>5, <2>6
<1> QED BY <1>9, <1>10, <1>11 DEF Operator

(* A job that is handed over: the successor is an active job or a new one. *)
LEMMA HandOverStep ==
  ASSUME TypeOK, NEW w \in Workers, HandOver(w)
  PROVE  /\ TypeOK' /\ JobsMove
         /\ worker[w].job \in DOMAIN jobs
         /\ next'[worker[w].job] # 0
         /\ \A k \in DOMAIN jobs : k # worker[w].job => next'[k] = next[k]
<1>1. RowsOK /\ WorkersOK /\ SecretsOK /\ BudgetOK
  BY TypeOKParts
<1> DEFINE kind == Successor(worker[w].pc)
           child == CreateJobId(kind, "account")
           new == NewJob(kind, "account", Tries(kind))
           rows  == IF child \in DOMAIN jobs THEN next ELSE Append(next, 0)
           j == worker[w].job
<1>2. /\ jobs' = IF child \in DOMAIN jobs THEN jobs ELSE Append(jobs, new)
      /\ next' = [rows EXCEPT ![j] = child]
      /\ worker[w].pc \in {"child", "fallback"}
      /\ Goto(w, "succeed")
      /\ UNCHANGED <<open, secrets, retried, budget>>
  BY DEF HandOver
<1>3. /\ new \in Row /\ new.kind = kind /\ new.key = "account"
      /\ new.status = "PENDING" /\ new.attempts <= new.max
      /\ new.owner = NoWorker /\ new.lease = "none"
  <2>1. kind \in Kinds /\ "account" \in Keys /\ Tries(kind) \in Nat
    BY TriesIsNat DEF Successor, Kinds, Keys
  <2> QED BY <2>1, NewJobIsRow
<1>4. /\ child \in Nat \ {0}
      /\ child \notin DOMAIN jobs => FindActive(kind, "account") = {} /\ child = Len(jobs) + 1
  BY <1>1, CreateJobIdIs DEF RowsOK
<1>5. j \in DOMAIN jobs
  BY <1>1, <1>2, WorkerFacts
<1>6. DOMAIN jobs = 1..Len(jobs) /\ Len(jobs) \in Nat
  BY <1>1, RowDomain DEF RowsOK
<1> HIDE DEF kind, child, new, j
<1>7. /\ RowsOK' /\ DOMAIN jobs \subseteq DOMAIN jobs' /\ JobsMove
      /\ next'[j] = child
      /\ \A k \in DOMAIN jobs : k # j => next'[k] = next[k]
  <2>1. CASE child \in DOMAIN jobs
    <3>1. jobs' = jobs /\ next' = [next EXCEPT ![j] = child] /\ open' = open
      BY <1>2, <2>1
    <3>2. next \in Seq(Nat) /\ Len(next) = Len(jobs)
          /\ \A k \in 1..Len(jobs) : next[k] \in 0..Len(jobs)
      BY <1>1, <1>6 DEF RowsOK
    <3>3. /\ next' \in Seq(Nat) /\ Len(next') = Len(jobs)
          /\ \A k \in 1..Len(jobs) : next'[k] \in 0..Len(jobs)
          /\ \A k \in 1..Len(jobs) : next'[k] = IF k = j THEN child ELSE next[k]
      BY <1>5, <1>6, <2>1, <3>1, <3>2, NextHandedOver
    <3>4. RowsOK'
      BY <1>1, <1>6, <3>1, <3>3 DEF RowsOK
    <3> QED BY <1>5, <1>6, <3>1, <3>3, <3>4 DEF JobsMove
  <2>2. CASE child \notin DOMAIN jobs
    <3>1. /\ jobs' = Append(jobs, new)
          /\ next' = [Append(next, 0) EXCEPT ![j] = child] /\ open' = open
      BY <1>2, <2>2
    <3> DEFINE n == Len(jobs) + 1
               longer == Append(next, 0)
    <3>2. /\ longer \in Seq(Nat) /\ Len(longer) = n
          /\ \A k \in DOMAIN jobs : longer[k] = next[k]
          /\ \A k \in 1..n : longer[k] \in 0..n
      BY <1>1, NextAppended
    <3>3. n \in Nat /\ j \in 1..n /\ child \in 1..n /\ DOMAIN jobs \subseteq 1..n
      BY <1>4, <1>5, <1>6, <2>2
    <3> HIDE DEF longer
    <3>4. /\ next' \in Seq(Nat) /\ Len(next') = n
          /\ \A k \in 1..n : next'[k] \in 0..n
          /\ \A k \in 1..n : next'[k] = IF k = j THEN child ELSE longer[k]
      <4>1. next' = [longer EXCEPT ![j] = child]
        BY <3>1 DEF longer
      <4> HIDE DEF n
      <4> QED BY <3>2, <3>3, <4>1, NextHandedOver
    <3>5. RowsOK' /\ DOMAIN jobs \subseteq DOMAIN jobs'
      BY <1>1, <1>3, <3>1, <3>4, RowsOKAdd
    <3>6. JobsMove
      BY <1>3, <1>4, <2>2, <3>1 DEF JobsMove, Fresh
    <3> HIDE DEF n
    <3> QED BY <3>2, <3>3, <3>4, <3>5, <3>6
  <2> QED BY <2>1, <2>2
<1>8. WorkersOK'
  <2>1. "succeed" \in Places
    BY DEF Places
  <2> QED BY <1>1, <1>2, <1>7, <2>1, GotoOK
<1>9. SecretsOK' /\ BudgetOK'
  BY <1>1, <1>2, <1>7, SecretsKept, BudgetKept
<1> QED BY <1>4, <1>5, <1>7, <1>8, <1>9, TypeOKPartsNext DEF j

LEMMA NextStep == TypeOK /\ [Next]_vars => TypeOK' /\ JobsMove
<1> SUFFICES ASSUME TypeOK, [Next]_vars PROVE TypeOK' /\ JobsMove
  OBVIOUS
<1>1. CASE UNCHANGED vars
  <2>1. WorkersOK' /\ SecretsOK' /\ BudgetOK'
    BY <1>1, WorkersKept, SecretsKept, BudgetKept, TypeOKParts DEF vars, secrets
  <2> QED BY <1>1, <2>1, QuietStep DEF vars
<1>2. CASE EnqueueAuthInvalid
  BY <1>2, EnqueueStep
<1>3. ASSUME NEW w \in Workers,
             Claim(w) \/ Step(w) \/ Heartbeat(w) \/ Crash(w) \/ StoreError(w)
      PROVE  TypeOK' /\ JobsMove
  BY <1>3, ClaimStep, LeaseSteps, FaultSteps, ClaimCandidateStep, StageSteps, HandOverStep,
     HandlerSteps, SecretSteps, FinishSteps DEF Step
<1>4. ASSUME NEW j \in DOMAIN jobs, LeaseRunsOut(j) \/ Operator(j)
      PROVE  TypeOK' /\ JobsMove
  BY <1>4, LeaseSteps, OperatorSteps
<1>5. ASSUME NEW kind \in Kinds, NEW key \in Keys, NEW tries \in PostTries,
             PostJob(kind, key, tries)
      PROVE  TypeOK' /\ JobsMove
  BY <1>5, PostStep
<1> QED BY <1>1, <1>2, <1>3, <1>4, <1>5 DEF Next

LEMMA RetriedGrows == [Next]_vars => retried \subseteq retried'
BY DEF Next, vars, EnqueueAuthInvalid, PostJob, Claim, Step, Heartbeat, Crash, StoreError,
       ClaimCandidate, Stage, HandOver, Lookup, Refresh, Opened, Login, Received,
       StoreSecret, LinkJobSecret, WriteCredential, Succeed, Fail, WaitingHuman,
       LeaseRunsOut, Operator, Cancel, Retry, ResumeWaitingHuman

(* The rows, attempts, secrets and workers stay in their ranges, attempts    *)
(* within their limit, and exactly the held jobs have an owner and a lease.  *)
THEOREM AutomationTypeOK == Spec => []TypeOK
<1>1. Init => TypeOK
  BY TypeOKInit
<1>2. TypeOK /\ [Next]_vars => TypeOK'
  BY NextStep
<1> QED BY <1>1, <1>2, PTL DEF Spec
-----------------------------------------------------------------------------
(* A finished job changes only by an operator's Retry, to a fresh pending    *)
(* one: no worker with a lost lease touches it.                              *)
THEOREM AutomationFinishedStays == Spec => FinishedStays
<1> DEFINE Stays == \A j \in DOMAIN jobs :
             jobs[j].status \in TerminalStatus /\ jobs'[j] # jobs[j] =>
               /\ jobs'[j].status = "PENDING"
               /\ jobs'[j].attempts = 0
               /\ budget'.orders < budget.orders
<1>1. TypeOK /\ [Next]_vars => [Stays]_vars
  <2> SUFFICES ASSUME TypeOK, [Next]_vars, NEW j \in DOMAIN jobs,
                      jobs[j].status \in TerminalStatus, jobs'[j] # jobs[j]
               PROVE  /\ jobs'[j].status = "PENDING"
                      /\ jobs'[j].attempts = 0
                      /\ budget'.orders < budget.orders
    OBVIOUS
  <2>1. jobs \in Seq(Row) /\ JobsMove
    BY NextStep DEF TypeOK
  <2>2. jobs[j].status \notin ActiveStatuses
    BY DEF TerminalStatus, ActiveStatuses, Held
  <2>3. ASSUME NEW new \in Row, jobs' = Append(jobs, new) PROVE FALSE
    BY <2>1, <2>3, RowAdded
  <2>4. PICK k \in DOMAIN jobs, new \in Row : RowMove(k, new)
    BY <2>1, <2>3 DEF JobsMove
  <2>5. /\ jobs'[k] = new
        /\ \A i \in DOMAIN jobs : i # k => jobs'[i] = jobs[i]
    BY <2>1, <2>4, RowReplaced DEF RowMove
  <2>6. k = j /\ jobs'[j] = new
    BY <2>5
  <2>7. Retried(j, new)
    BY <2>2, <2>4, <2>6 DEF RowMove
  <2> QED BY <2>6, <2>7 DEF Retried
<1> QED BY <1>1, AutomationTypeOK, PTL DEF Spec, FinishedStays

(* Only a Retry and a job posted without a key make a second active job of   *)
(* one kind: a job with the account's key is created only when no active job *)
(* of its kind has it, no other step revives a finished job, and no step     *)
(* changes a key.                                                            *)
THEOREM AutomationOneActiveJob == Spec => []OneActiveJob
<1>1. Init => OneActiveJob
  BY DEF Init, OneActiveJob
<1>2. TypeOK /\ OneActiveJob /\ [Next]_vars => OneActiveJob'
  <2> SUFFICES ASSUME TypeOK, OneActiveJob, [Next]_vars,
                      NEW j \in DOMAIN jobs', NEW k \in DOMAIN jobs',
                      jobs'[j].kind = jobs'[k].kind,
                      jobs'[j].status \in ActiveStatuses,
                      jobs'[k].status \in ActiveStatuses,
                      j # k,
                      jobs'[j].key # "none", jobs'[k].key # "none"
               PROVE  j \in retried' \/ k \in retried'
    BY DEF OneActiveJob
  <2>1. jobs \in Seq(Row) /\ JobsMove
    BY NextStep DEF TypeOK
  <2>2. retried \subseteq retried'
    BY RetriedGrows
  <2>3. CASE jobs' = jobs
    BY <2>2, <2>3 DEF OneActiveJob
  <2>4. ASSUME NEW new \in Row, Fresh(new), jobs' = Append(jobs, new)
        PROVE  j \in retried' \/ k \in retried'
    <3> DEFINE n == Len(jobs) + 1
    <3>1. /\ DOMAIN jobs' = DOMAIN jobs \cup {n}
          /\ jobs'[n] = new
          /\ \A i \in DOMAIN jobs : jobs'[i] = jobs[i]
      BY <2>1, <2>4, RowAdded
    <3>2. ASSUME NEW i \in DOMAIN jobs, jobs[i].kind = new.kind,
                 jobs[i].key # "none", new.key # "none"
          PROVE  jobs[i].status \notin ActiveStatuses
      <4>1. jobs[i] \in Row
        BY <2>1, RowDomain
      <4>2. jobs[i].key = new.key
        BY <3>2, <4>1 DEF Row, Keys
      <4> QED BY <2>4, <3>2, <4>2 DEF Fresh, FindActive
    <3> HIDE DEF n
    <3>3. j \in DOMAIN jobs /\ k \in DOMAIN jobs
      BY <3>1, <3>2
    <3> QED BY <2>2, <3>1, <3>3 DEF OneActiveJob
  <2>5. ASSUME NEW i \in DOMAIN jobs, NEW new \in Row, RowMove(i, new)
        PROVE  j \in retried' \/ k \in retried'
    <3>1. /\ DOMAIN jobs' = DOMAIN jobs
          /\ jobs'[i] = new
          /\ \A m \in DOMAIN jobs : m # i => jobs'[m] = jobs[m]
      BY <2>1, <2>5, RowReplaced DEF RowMove
    <3>2. /\ new.kind = jobs[i].kind /\ new.key = jobs[i].key
          /\ jobs[i].status \in ActiveStatuses \/ i \in retried'
      BY <2>5 DEF RowMove, Retried
    <3> QED BY <2>2, <3>1, <3>2 DEF OneActiveJob
  <2> QED BY <2>1, <2>3, <2>4, <2>5 DEF JobsMove
<1> QED BY <1>1, <1>2, AutomationTypeOK, PTL DEF Spec
-----------------------------------------------------------------------------
(* The place a worker has reached fits the kind of its job, and a worker that *)
(* is about to report success has the job's result.                           *)
Fits(w) ==
  LET kind  == jobs[worker[w].job].kind
      place == worker[w].pc
  IN  /\ place = "stage" =>
            kind = IF w \in Executors THEN "auth_recover" ELSE "auth_browser_login"
      /\ place = "child" => kind = "auth_recover"
      /\ place \in {"lookup", "refresh", "fallback"} => kind = "auth_token_refresh"
      /\ place \in {"opened", "login", "received", "human"} => kind = "auth_browser_login"
      /\ place \in {"vault", "link", "write"} => kind # "auth_recover"
      /\ place = "succeed" => HasResult(worker[w].job)

WorkFits == \A w \in Workers : Fits(w)

(* What a step keeps of the jobs: their kinds and what they have to show. *)
JobsKept ==
  \A j \in DOMAIN jobs :
    /\ j \in DOMAIN jobs'
    /\ jobs'[j].kind = jobs[j].kind
    /\ HasResult(j) => HasResult(j)'

LEMMA KindsKept ==
  ASSUME TypeOK, JobsMove, NEW j \in DOMAIN jobs
  PROVE  j \in DOMAIN jobs' /\ jobs'[j].kind = jobs[j].kind
<1>1. jobs \in Seq(Row)
  BY DEF TypeOK
<1>2. CASE jobs' = jobs
  BY <1>2
<1>3. ASSUME NEW new \in Row, jobs' = Append(jobs, new)
      PROVE  j \in DOMAIN jobs' /\ jobs'[j].kind = jobs[j].kind
  BY <1>1, <1>3, RowAdded
<1>4. ASSUME NEW i \in DOMAIN jobs, NEW new \in Row, RowMove(i, new)
      PROVE  j \in DOMAIN jobs' /\ jobs'[j].kind = jobs[j].kind
  BY <1>1, <1>4, RowReplaced DEF RowMove
<1> QED BY <1>2, <1>3, <1>4 DEF JobsMove

LEMMA SecretsGrow == [Next]_vars => linked \subseteq linked' /\ written \subseteq written'
BY DEF Next, vars, secrets, EnqueueAuthInvalid, PostJob, Claim, Step, Heartbeat, Crash, StoreError,
       ClaimCandidate, Stage, HandOver, Lookup, Refresh, Opened, Login, Received,
       StoreSecret, LinkJobSecret, WriteCredential, Succeed, Fail, WaitingHuman,
       LeaseRunsOut, Operator, Cancel, Retry, ResumeWaitingHuman

LEMMA HandOversStay ==
  ASSUME TypeOK, [Next]_vars, NEW j \in DOMAIN jobs, next[j] # 0
  PROVE  next'[j] # 0
<1>1. CASE next' = next
  BY <1>1
<1>2. ASSUME NEW kind, NEW key, NEW tries, CreateJob(kind, key, tries)
      PROVE  next'[j] # 0
  <2>1. next' = next \/ next' = Append(next, 0)
    BY <1>2 DEF CreateJob
  <2>2. next' = Append(next, 0) => next'[j] = next[j]
    BY NextAppended, TypeOKParts
  <2> QED BY <2>1, <2>2
<1>3. ASSUME NEW w \in Workers, HandOver(w) PROVE next'[j] # 0
  BY <1>3, HandOverStep
<1> QED BY <1>1, <1>2, <1>3
  DEF Next, vars, EnqueueAuthInvalid, PostJob, Claim, Step, Heartbeat, Crash, StoreError,
      ClaimCandidate, Stage, Lookup, Refresh, Opened, Login, Received,
      StoreSecret, LinkJobSecret, WriteCredential, Succeed, Fail, WaitingHuman,
      LeaseRunsOut, Operator, Cancel, Retry, ResumeWaitingHuman

LEMMA NextKeepsJobs ==
  ASSUME TypeOK, [Next]_vars
  PROVE  JobsKept
<1> SUFFICES ASSUME NEW j \in DOMAIN jobs
             PROVE  /\ j \in DOMAIN jobs'
                    /\ jobs'[j].kind = jobs[j].kind
                    /\ HasResult(j) => HasResult(j)'
  BY DEF JobsKept
<1>1. j \in DOMAIN jobs' /\ jobs'[j].kind = jobs[j].kind
  BY NextStep, KindsKept
<1>2. linked \subseteq linked' /\ written \subseteq written' /\ (next[j] # 0 => next'[j] # 0)
  BY SecretsGrow, HandOversStay
<1>3. HasResult(j) => HasResult(j)'
  BY <1>1, <1>2 DEF HasResult
<1> QED BY <1>1, <1>3

LEMMA FitsKept ==
  ASSUME TypeOK, JobsKept, NEW w \in Workers, Fits(w),
         worker'[w] = worker[w] \/ worker'[w].pc \in {"idle", "claim", "fail"}
  PROVE  Fits(w)'
<1>1. CASE worker'[w].pc \in {"idle", "claim", "fail"}
  BY <1>1 DEF Fits
<1>2. CASE worker'[w].pc \notin {"idle", "claim", "fail"} /\ worker'[w] = worker[w]
  <2>1. worker[w].job \in DOMAIN jobs
    BY <1>2, WorkerFacts, TypeOKParts
  <2>2. PICK j \in DOMAIN jobs : j = worker[w].job
    BY <2>1
  <2>3. jobs'[j].kind = jobs[j].kind /\ (HasResult(j) => HasResult(j)')
    BY DEF JobsKept
  <2>4. worker[w].pc = "succeed" => HasResult(j)
    BY <2>2 DEF Fits
  <2>5. worker'[w].job = j /\ worker'[w].pc = worker[w].pc
    BY <1>2, <2>2
  <2>6. worker'[w].pc = "succeed" => HasResult(worker[w].job)'
    BY <2>3, <2>4, <2>5 DEF HasResult
  <2> QED BY <2>2, <2>3, <2>5, <2>6 DEF Fits
<1> QED BY <1>1, <1>2

(* A worker that moves: the others keep their places. *)
LEMMA OthersFit ==
  ASSUME TypeOK, JobsKept, WorkFits, NEW w \in Workers, NEW new,
         worker' = [worker EXCEPT ![w] = new], Fits(w)'
  PROVE  WorkFits'
<1> SUFFICES ASSUME NEW v \in Workers PROVE Fits(v)'
  BY DEF WorkFits
<1>1. CASE v = w
  BY <1>1
<1>2. CASE v # w
  <2>1. worker'[v] = worker[v]
    BY <1>2 DEF TypeOK
  <2> QED BY <2>1, FitsKept DEF WorkFits
<1> QED BY <1>1, <1>2

LEMMA RestFits ==
  ASSUME TypeOK, JobsKept, WorkFits, NEW w \in Workers, Rest(w)
  PROVE  WorkFits'
<1>1. worker'[w] = Idle
  BY DEF Rest, TypeOK
<1>2. Fits(w)'
  BY <1>1, FitsKept DEF Idle, WorkFits
<1> QED BY <1>2, OthersFit DEF Rest

(* A handler that goes from one place to the next one. *)
LEMMA GotoFits ==
  ASSUME TypeOK, JobsKept, WorkFits, NEW w \in Workers, NEW place, Goto(w, place),
         worker[w].pc \notin {"idle", "claim"}, NEW j, j = worker[w].job,
         \/ place = "fail"
         \/ place = "child" /\ jobs[j].kind = "auth_recover"
         \/ place \in {"refresh", "fallback"} /\ jobs[j].kind = "auth_token_refresh"
         \/ place \in {"opened", "login", "received", "human"} /\ jobs[j].kind = "auth_browser_login"
         \/ place \in {"vault", "link", "write"} /\ jobs[j].kind # "auth_recover"
         \/ place = "succeed" /\ HasResult(j)'
  PROVE  WorkFits'
<1>1. worker'[w].pc = place /\ worker'[w].job = j
  BY DEF Goto, TypeOK
<1>2. j \in DOMAIN jobs
  BY WorkerFacts, TypeOKParts
<1>3. jobs'[j].kind = jobs[j].kind
  BY <1>2 DEF JobsKept
<1>4. Fits(w)'
  <2>1. place = "succeed" => HasResult(worker[w].job)'
    BY <1>1 DEF HasResult
  <2> QED BY <1>1, <1>3, <2>1 DEF Fits
<1>5. worker' = [worker EXCEPT ![w] = [worker[w] EXCEPT !.pc = place]]
  BY DEF Goto
<1> QED BY <1>4, <1>5, OthersFit

LEMMA ClaimFits ==
  ASSUME TypeOK, JobsKept, WorkFits, NEW w \in Workers, Claim(w) \/ ClaimCandidate(w)
  PROVE  WorkFits'
<1>1. CASE Claim(w)
  <2>1. worker'[w].pc = "claim"
    BY <1>1 DEF Claim, TypeOK
  <2>2. Fits(w)'
    BY <2>1, FitsKept DEF WorkFits
  <2> QED BY <1>1, <2>2, OthersFit DEF Claim
<1>2. CASE ClaimCandidate(w)
  <2>1. PICK j \in worker[w].list :
          IF StillClaimable(j, w)
          THEN worker' = [worker EXCEPT ![w] = [pc |-> Handler(jobs[j].kind),
                                                job |-> j, list |-> {}]]
          ELSE worker' = [worker EXCEPT ![w] =
                            IF worker[w].list = {j} THEN Idle
                            ELSE [worker[w] EXCEPT !.list = @ \ {j}]]
    BY <1>2 DEF ClaimCandidate
  <2>2. j \in DOMAIN jobs /\ worker[w].pc = "claim"
    BY <1>2 DEF TypeOK, ClaimCandidate
  <2>3. CASE StillClaimable(j, w)
    <3> DEFINE new == [pc |-> Handler(jobs[j].kind), job |-> j, list |-> {}]
    <3>1. worker' = [worker EXCEPT ![w] = new]
      BY <2>1, <2>3
    <3>2. worker'[w] = new
      BY <3>1 DEF TypeOK
    <3>3. worker'[w].pc = Handler(jobs[j].kind) /\ worker'[w].job = j
      BY <3>2
    <3>4. jobs'[j].kind = jobs[j].kind
      BY <2>2 DEF JobsKept
    <3>5. jobs[j].kind \in Kinds
      BY <2>2, RowDomain DEF TypeOK, Row
    <3>6. w \in ClaimedBy(jobs[j].kind)
      BY <2>3 DEF StillClaimable, Claimable
    <3>7. Handler(jobs[j].kind) = "stage" =>
            jobs[j].kind = IF w \in Executors THEN "auth_recover" ELSE "auth_browser_login"
      BY <3>5, <3>6, QueueAssumption DEF Handler, ClaimedBy, Kinds, Workers
    <3>8. Handler(jobs[j].kind) # "stage" =>
            Handler(jobs[j].kind) = "lookup" /\ jobs[j].kind = "auth_token_refresh"
      BY DEF Handler
    <3> HIDE DEF new
    <3>9. Fits(w)'
      BY <3>3, <3>4, <3>7, <3>8 DEF Fits
    <3> QED BY <3>1, <3>9, OthersFit
  <2>4. CASE ~StillClaimable(j, w)
    <3> DEFINE new == IF worker[w].list = {j} THEN Idle
                      ELSE [worker[w] EXCEPT !.list = @ \ {j}]
    <3>1. worker' = [worker EXCEPT ![w] = new]
      BY <2>1, <2>4
    <3>2. new.pc \in {"idle", "claim"}
      BY <2>2 DEF TypeOK, Idle
    <3> HIDE DEF new
    <3>3. worker'[w] = new
      BY <3>1 DEF TypeOK
    <3>4. Fits(w)'
      BY <3>2, <3>3, FitsKept DEF WorkFits
    <3> QED BY <3>1, <3>4, OthersFit
  <2> QED BY <2>3, <2>4
<1> QED BY <1>1, <1>2

LEMMA ReportStageFits ==
  ASSUME TypeOK, JobsKept, WorkFits, NEW w \in Workers, NEW then, NEW lost \in {"idle", "fail"},
         ReportStage(w, then, lost), worker[w].pc \notin {"idle", "claim"},
         \/ then = "child" /\ jobs[worker[w].job].kind = "auth_recover"
         \/ then \in {"opened", "login", "vault"}
              /\ jobs[worker[w].job].kind = "auth_browser_login"
  PROVE  WorkFits'
<1>1. CASE Rest(w)
  BY <1>1, RestFits
<1>2. CASE ~Rest(w)
  <2>1. Goto(w, then) \/ Goto(w, "fail")
    BY <1>2 DEF ReportStage
  <2> QED BY <2>1, GotoFits
<1> QED BY <1>1, <1>2

LEMMA HandlerFits ==
  ASSUME TypeOK, JobsKept, WorkFits, NEW w \in Workers,
         \/ Stage(w) \/ Lookup(w) \/ Refresh(w) \/ Opened(w) \/ Login(w) \/ Received(w)
         \/ HandOver(w) \/ StoreSecret(w) \/ LinkJobSecret(w) \/ WriteCredential(w)
  PROVE  WorkFits'
<1>1. PICK j : j = worker[w].job
  OBVIOUS
<1>2. Fits(w)
  BY DEF WorkFits
<1>3. CASE Stage(w)
  <2>1. worker[w].pc = "stage"
    BY <1>3 DEF Stage
  <2>2. jobs[worker[w].job].kind = IF w \in Executors THEN "auth_recover" ELSE "auth_browser_login"
    BY <1>2, <2>1 DEF Fits
  <2> QED BY <1>3, <2>1, <2>2, ReportStageFits DEF Stage
<1>4. CASE Opened(w)
  BY <1>2, <1>4, ReportStageFits DEF Opened, Fits
<1>5. CASE Received(w)
  BY <1>2, <1>5, ReportStageFits DEF Received, Fits
<1>6. CASE Lookup(w)
  <2>1. worker[w].pc = "lookup" /\ Goto(w, LookupTarget(w))
    BY <1>6 DEF Lookup
  <2>2. jobs[j].kind = "auth_token_refresh" /\ j \in DOMAIN jobs
    BY <1>1, <1>2, <2>1, WorkerFacts, TypeOKParts DEF Fits
  <2>3. j \in linked => HasResult(j)'
    <3>1. linked' = linked /\ jobs'[j].kind = jobs[j].kind
      BY <1>6, <2>2 DEF Lookup, secrets, JobsKept
    <3> QED BY <2>2, <3>1 DEF HasResult
  <2>4. LookupTarget(w) \in {"refresh", "fallback"} \/ (LookupTarget(w) = "succeed" /\ j \in linked)
    BY <1>1 DEF LookupTarget
  <2> QED BY <1>1, <2>1, <2>2, <2>3, <2>4, GotoFits
<1>7. CASE Refresh(w)
  <2>1. PICK place \in {"vault", "fallback", "fail"} : Goto(w, place)
    BY <1>7 DEF Refresh
  <2>2. worker[w].pc = "refresh" /\ jobs[j].kind = "auth_token_refresh"
    BY <1>1, <1>2, <1>7 DEF Fits, Refresh
  <2> QED BY <1>1, <2>1, <2>2, GotoFits
<1>8. CASE Login(w)
  <2>1. PICK place \in {"received", "human", "fail"} : Goto(w, place)
    BY <1>8 DEF Login
  <2>2. worker[w].pc = "login" /\ jobs[j].kind = "auth_browser_login"
    BY <1>1, <1>2, <1>8 DEF Fits, Login
  <2> QED BY <1>1, <2>1, <2>2, GotoFits
<1>9. CASE HandOver(w)
  <2>1. worker[w].pc \in {"child", "fallback"} /\ Goto(w, "succeed")
    BY <1>9 DEF HandOver
  <2>2. j \in DOMAIN jobs /\ next'[j] # 0
    BY <1>1, <1>9, HandOverStep
  <2>3. jobs'[j].kind \in {"auth_recover", "auth_token_refresh"}
    BY <1>1, <1>2, <2>1, <2>2 DEF Fits, JobsKept
  <2>4. HasResult(j)'
    BY <2>2, <2>3 DEF HasResult
  <2> QED BY <1>1, <2>1, <2>4, GotoFits
<1>10. CASE StoreSecret(w)
  BY <1>1, <1>2, <1>10, GotoFits DEF StoreSecret, Fits
<1>11. CASE LinkJobSecret(w)
  BY <1>1, <1>2, <1>11, GotoFits DEF LinkJobSecret, Fits
<1>12. CASE WriteCredential(w)
  <2>1. worker[w].pc = "write" /\ jobs[j].kind # "auth_recover" /\ j \in DOMAIN jobs
    BY <1>1, <1>2, <1>12, WorkerFacts, TypeOKParts DEF Fits, WriteCredential
  <2>2. CASE Goto(w, "fail")
    BY <1>1, <2>1, <2>2, GotoFits
  <2>3. CASE written' = written \cup {j} /\ Goto(w, "succeed")
    <3>1. jobs'[j].kind # "auth_recover"
      BY <2>1 DEF JobsKept
    <3>2. HasResult(j)'
      BY <2>3, <3>1 DEF HasResult
    <3> QED BY <1>1, <2>1, <2>3, <3>2, GotoFits
  <2> QED BY <1>1, <1>12, <2>2, <2>3 DEF WriteCredential, WriteFailed
<1> QED BY <1>3, <1>4, <1>5, <1>6, <1>7, <1>8, <1>9, <1>10, <1>11, <1>12

LEMMA EndFits ==
  ASSUME TypeOK, JobsKept, WorkFits, NEW w \in Workers,
         Succeed(w) \/ Fail(w) \/ WaitingHuman(w) \/ Crash(w) \/ StoreError(w)
  PROVE  WorkFits'
<1>1. CASE Rest(w)
  BY <1>1, RestFits
<1>2. CASE Succeed(w) /\ ~Rest(w)
  BY <1>2, GotoFits DEF Succeed
<1>3. CASE StoreError(w) /\ ~Rest(w)
  <2>1. PICK place \in AfterStoreError(w) :
          Goto(w, place) /\ place # "idle" /\ worker[w].pc # "idle"
    BY <1>3 DEF StoreError
  <2>2. /\ worker[w].pc # "claim"
        /\ \/ place = "fail"
           \/ place = "write" /\ worker[w].pc = "link"
           \/ place \in {"fallback", "refresh"} /\ worker[w].pc = "lookup"
    BY <2>1 DEF AfterStoreError
  <2>3. PICK j : j = worker[w].job
    OBVIOUS
  <2>4. Fits(w)
    BY DEF WorkFits
  <2> QED BY <2>1, <2>2, <2>3, <2>4, GotoFits DEF Fits
<1> QED BY <1>1, <1>2, <1>3 DEF Fail, WaitingHuman, Crash

LEMMA WorkFitsStep ==
  ASSUME TypeOK, WorkFits, [Next]_vars
  PROVE  WorkFits'
<1>1. JobsKept
  BY NextKeepsJobs
<1>2. CASE worker' = worker
  BY <1>1, <1>2, FitsKept DEF WorkFits
<1>3. ASSUME NEW w \in Workers, Claim(w) \/ Step(w) \/ Crash(w) \/ StoreError(w)
      PROVE  WorkFits'
  BY <1>1, <1>3, ClaimFits, HandlerFits, EndFits DEF Step
<1> QED BY <1>2, <1>3 DEF Next, vars, EnqueueAuthInvalid, PostJob, Heartbeat, LeaseRunsOut,
                          Operator, Cancel, Retry, ResumeWaitingHuman

(* A job becomes SUCCESS only through a worker that is about to report it,   *)
(* and that worker has the job's result.                                     *)
LEMMA SuccessStep ==
  ASSUME TypeOK, WorkFits, SuccessHasResult, [Next]_vars
  PROVE  SuccessHasResult'
<1> SUFFICES ASSUME NEW j \in DOMAIN jobs', jobs'[j].status = "SUCCESS" PROVE HasResult(j)'
  BY DEF SuccessHasResult
<1>1. jobs \in Seq(Row) /\ JobsMove /\ JobsKept
  BY NextStep, NextKeepsJobs DEF TypeOK
<1>2. ASSUME NEW new \in Row, Fresh(new), jobs' = Append(jobs, new)
      PROVE  j \in DOMAIN jobs /\ jobs[j].status = "SUCCESS"
  BY <1>1, <1>2, RowAdded DEF Fresh
<1>3. ASSUME NEW i \in DOMAIN jobs, NEW new \in Row, RowMove(i, new)
      PROVE  j \in DOMAIN jobs /\ (jobs[j].status = "SUCCESS" \/ Succeeds(j))
  <2>1. /\ DOMAIN jobs' = DOMAIN jobs
        /\ jobs'[i] = new
        /\ \A m \in DOMAIN jobs : m # i => jobs'[m] = jobs[m]
    BY <1>1, <1>3, RowReplaced DEF RowMove
  <2>2. new.status = "SUCCESS" => Succeeds(i)
    BY <1>3 DEF RowMove
  <2> QED BY <2>1, <2>2
<1>4. j \in DOMAIN jobs /\ (jobs[j].status = "SUCCESS" \/ Succeeds(j))
  BY <1>1, <1>2, <1>3 DEF JobsMove
<1>5. Succeeds(j) => HasResult(j)
  BY DEF Succeeds, WorkFits, Fits
<1>6. HasResult(j)
  BY <1>4, <1>5 DEF SuccessHasResult
<1> QED BY <1>1, <1>4, <1>6 DEF JobsKept

(* A job succeeds only with something to show: a successor, a linked or an   *)
(* accepted credential, whatever leases were lost on the way.                *)
THEOREM AutomationSuccessHasResult == Spec => []SuccessHasResult
<1> DEFINE Inv == WorkFits /\ SuccessHasResult
<1>1. Init => Inv
  BY DEF Init, WorkFits, Fits, SuccessHasResult, Idle
<1>2. TypeOK /\ Inv /\ [Next]_vars => Inv'
  BY WorkFitsStep, SuccessStep
<1> QED BY <1>1, <1>2, AutomationTypeOK, PTL DEF Spec
=============================================================================
