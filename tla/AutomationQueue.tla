--------------------------- MODULE AutomationQueue ---------------------------
(***************************************************************************)
(* The job queue of token-account-automation for one account: the gateway  *)
(* reports that the account's credential is invalid, the queue creates an  *)
(* auth_recover job, an internal executor turns it into auth_token_refresh *)
(* and, when the refresh token is no good, into auth_browser_login, and a  *)
(* new credential is stored in the vault and written back to the gateway.  *)
(* Workers hold a job by a lease; a lease may run out while its worker is  *)
(* slow or dead, and operators cancel, retry and resume jobs.              *)
(*                                                                         *)
(* A step is one transaction or one external call of a worker. run_after   *)
(* only delays a claim, so it is not kept: a claim may come at any time.   *)
(* The gateway callback and the secret key are configured. Transactions    *)
(* are serialised, as SQLite, the default database, does: PostgreSQL and   *)
(* MySQL let two transactions of CreateJob both find no active job, and no *)
(* unique index on the key refuses the second row.                         *)
(***************************************************************************)
EXTENDS Integers, Sequences, FiniteSets

CONSTANTS
  Executors,    \* internal executors, each with a worker id of its own
  Browsers,     \* browser workers
  RefreshTries, \* MaxAttempts of auth_token_refresh, 3 in the code
  PostTries,    \* the MaxAttempts an operator may ask for
  Budgets,      \* bounds: the workers that run, and how many events, operator
                \* requests, crashes of workers, and failed store accesses
                \* a behaviour may have
  MaxJobs       \* bound: more jobs than any budget lets anyone create

ASSUME QueueAssumption ==
  /\ Executors \cap Browsers = {}
  /\ "nobody" \notin Executors \cup Browsers
  /\ RefreshTries \in Nat \ {0}
  /\ PostTries \subseteq Nat \ {0}
  /\ Budgets \subseteq [workers : SUBSET (Executors \cup Browsers), events : Nat,
                        orders : Nat, crashes : Nat, errors : Nat]
  /\ MaxJobs \in Nat

VARIABLES
  jobs,      \* the job rows, in the order of their ids
  open,      \* <<job, worker>> of the attempt rows that are not finished
  linked,    \* jobs a secret is linked to as "credential"
  hasToken,  \* the vault has a refresh token for the account
  written,   \* jobs whose credential the gateway has accepted
  next,      \* the job each job was handed over to, 0 for none
  worker,    \* each worker: where it is, its job, the candidates it listed
  retried,   \* history: jobs an operator has retried
  budget     \* what is left of the chosen budget

vars == <<jobs, open, linked, hasToken, written, next, worker, retried, budget>>
secrets == <<linked, hasToken, written>>

Workers == Executors \cup Browsers
NoWorker == "nobody"

Held == {"LEASED", "RUNNING"}
ActiveStatuses == {"PENDING", "WAITING_HUMAN"} \cup Held
TerminalStatus == {"SUCCESS", "FAILED", "CANCELED"}

Kinds == {"auth_recover", "auth_token_refresh", "auth_browser_login"}

(* The idempotency key of a job: the one its kind has for the account, or   *)
(* none. Any other key an operator may give is as none to the account's.    *)
Keys == {"account", "none"}

(* executor_type of the job's kind: who may claim it. *)
ClaimedBy(kind) == IF kind = "auth_browser_login" THEN Browsers ELSE Executors

Idle == [pc |-> "idle", job |-> 0, list |-> {}]

Init ==
  /\ jobs = <<>>
  /\ open = {}
  /\ linked = {}
  /\ hasToken \in BOOLEAN
  /\ written = {}
  /\ next = <<>>
  /\ worker = [w \in Workers |-> Idle]
  /\ retried = {}
  /\ budget \in Budgets

Spend(what) ==
  /\ budget[what] > 0
  /\ budget' = [budget EXCEPT ![what] = @ - 1]

Goto(w, place) == worker' = [worker EXCEPT ![w].pc = place]
Rest(w) == worker' = [worker EXCEPT ![w] = Idle]

(* The columns a job has when nobody holds it. *)
Released(job, status) ==
  [job EXCEPT !.status = status, !.owner = NoWorker, !.lease = "none"]
-----------------------------------------------------------------------------
(* Creating jobs. *)

NewJob(kind, key, tries) ==
  [kind |-> kind, key |-> key, status |-> "PENDING", attempts |-> 0, max |-> tries,
   owner |-> NoWorker, lease |-> "none"]

(* MaxAttempts of the jobs the service creates itself. *)
Tries(kind) == IF kind = "auth_token_refresh" THEN RefreshTries ELSE 1

(* mutant: a job that waits for a human is not an active one *)
FindActiveNotWaiting(kind, key) ==
  {j \in DOMAIN jobs : /\ key # "none"
                       /\ jobs[j].kind = kind /\ jobs[j].key = key
                       /\ jobs[j].status \in Held \cup {"PENDING"}}

(* The jobs findActiveJobTx may return; it is not asked without a key. *)
FindActive(kind, key) ==
  {j \in DOMAIN jobs : /\ key # "none"
                       /\ jobs[j].kind = kind /\ jobs[j].key = key
                       /\ jobs[j].status \in ActiveStatuses}

(* The job CreateJob answers with: the youngest active one of the same key, *)
(* or a new one.                                                            *)
CreateJobId(kind, key) ==
  IF FindActive(kind, key) = {} THEN Len(jobs) + 1
  ELSE CHOOSE j \in FindActive(kind, key) : \A k \in FindActive(kind, key) : k <= j

CreateJob(kind, key, tries) ==
  IF CreateJobId(kind, key) \in DOMAIN jobs
  THEN UNCHANGED <<jobs, next>>
  ELSE /\ jobs' = Append(jobs, NewJob(kind, key, tries))
       /\ next' = Append(next, 0)

(* The gateway reports an invalid credential: EnqueueAuthInvalid. *)
EnqueueAuthInvalid ==
  /\ Spend("events")
  /\ CreateJob("auth_recover", "account", Tries("auth_recover"))
  /\ UNCHANGED <<open, secrets, worker, retried>>

(* An operator creates a job by POST /api/jobs, with a key or without. *)
PostJob(kind, key, tries) ==
  /\ Spend("orders")
  /\ CreateJob(kind, key, tries)
  /\ UNCHANGED <<open, secrets, worker, retried>>
-----------------------------------------------------------------------------
(* Claiming: list the candidates, then take the first that still is one.    *)

Claimable(j, w) ==
  /\ w \in ClaimedBy(jobs[j].kind)
  /\ jobs[j].attempts < jobs[j].max
  /\ \/ jobs[j].status = "PENDING"
     \/ jobs[j].status \in Held /\ jobs[j].lease = "past"

(* The jobs are of one priority, so run_after, which is not kept, decides   *)
(* their order: the list is a set.                                          *)
Claim(w) ==
  LET found == {j \in DOMAIN jobs : Claimable(j, w)}
  IN  /\ w \in budget.workers
      /\ worker[w].pc = "idle"
      /\ found # {}
      /\ worker' = [worker EXCEPT ![w] = [pc |-> "claim", job |-> 0, list |-> found]]
      /\ UNCHANGED <<jobs, open, secrets, next, retried, budget>>

(* Where the handler of a claimed job begins. *)
Handler(kind) == IF kind = "auth_token_refresh" THEN "lookup" ELSE "stage"

(* mutant: the attempts are not looked at again *)
ClaimableNoLimit(j, w) ==
  \/ jobs[j].status = "PENDING"
  \/ jobs[j].status \in Held /\ jobs[j].lease = "past"

(* The update repeats the conditions of the list. *)
StillClaimable(j, w) == Claimable(j, w)

ClaimCandidate(w) ==
  /\ worker[w].pc = "claim"
  /\ \E j \in worker[w].list :
       IF StillClaimable(j, w)
       THEN /\ jobs' = [jobs EXCEPT ![j].status = "LEASED", ![j].owner = w,
                                    ![j].lease = "live", ![j].attempts = @ + 1]
            /\ open' = open \cup {<<j, w>>}
            /\ worker' = [worker EXCEPT ![w] = [pc |-> Handler(jobs[j].kind),
                                                job |-> j, list |-> {}]]
       ELSE /\ worker' = [worker EXCEPT ![w] =
                            IF worker[w].list = {j} THEN Idle
                            ELSE [worker[w] EXCEPT !.list = @ \ {j}]]
            /\ UNCHANGED <<jobs, open>>
  /\ UNCHANGED <<secrets, next, retried, budget>>
-----------------------------------------------------------------------------
(* What a worker reports about its job. *)

(* lease_owner = worker AND status IN (LEASED, RUNNING) *)
Holds(w) == LET job == jobs[worker[w].job]
            IN  job.owner = w /\ job.status \in Held

CloseAttempts(w) == open' = open \ {<<worker[w].job, w>>}

(* ReportStage does not prolong the lease. *)
ReportStage(w, then, lost) ==
  IF Holds(w)
  THEN jobs' = [jobs EXCEPT ![worker[w].job].status = "RUNNING"] /\ Goto(w, then)
  ELSE UNCHANGED jobs /\ (IF lost = "idle" THEN Rest(w) ELSE Goto(w, lost))

(* Prolongs the lease; browser workers on a desktop send it. *)
Heartbeat(w) ==
  /\ w \in Browsers
  /\ worker[w].job # 0
  /\ Holds(w)
  /\ jobs[worker[w].job].lease = "past"
  /\ jobs' = [jobs EXCEPT ![worker[w].job].lease = "live"]
  /\ UNCHANGED <<open, secrets, next, worker, retried, budget>>

(* finish. The browser worker answers an error of its last call with a     *)
(* Fail, which an executor does not.                                       *)
Succeed(w) ==
  /\ worker[w].pc = "succeed"
  /\ IF Holds(w)
     THEN /\ jobs' = [jobs EXCEPT ![worker[w].job] = Released(@, "SUCCESS")]
          /\ CloseAttempts(w)
          /\ Rest(w)
     ELSE /\ UNCHANGED <<jobs, open>>
          /\ IF w \in Browsers THEN Goto(w, "fail") ELSE Rest(w)
  /\ UNCHANGED <<secrets, next, retried, budget>>

(* mutant: Fail takes any job of that id *)
FoundByOwnerOrNot(w) == TRUE

(* Fail looks for the lease's owner and not for the status. *)
FoundByOwner(w) == jobs[worker[w].job].owner = w

Fail(w) ==
  /\ worker[w].pc = "fail"
  /\ LET j == worker[w].job
     IN  IF FoundByOwner(w)
         THEN /\ jobs' = [jobs EXCEPT ![j] =
                            Released(@, IF @.attempts < @.max THEN "PENDING" ELSE "FAILED")]
              /\ CloseAttempts(w)
         ELSE UNCHANGED <<jobs, open>>
  /\ Rest(w)
  /\ UNCHANGED <<secrets, next, retried, budget>>

(* The browser worker saw no callback in time. *)
WaitingHuman(w) ==
  /\ worker[w].pc = "human"
  /\ IF Holds(w)
     THEN /\ jobs' = [jobs EXCEPT ![worker[w].job] = Released(@, "WAITING_HUMAN")]
          /\ CloseAttempts(w)
     ELSE UNCHANGED <<jobs, open>>
  /\ Rest(w)
  /\ UNCHANGED <<secrets, next, retried, budget>>
-----------------------------------------------------------------------------
(* The handlers. *)

(* The first report of handleAuthRecover and of handleAuthBrowserLogin. *)
Stage(w) ==
  /\ worker[w].pc = "stage"
  /\ IF w \in Executors
     THEN ReportStage(w, "child", "idle")
     ELSE ReportStage(w, "opened", "fail")
  /\ UNCHANGED <<open, secrets, next, retried, budget>>

(* The job that takes over: a refresh, or a login when the refresh cannot    *)
(* work (dispatchBrowserFallback).                                           *)
Successor(place) ==
  IF place = "child" THEN "auth_token_refresh" ELSE "auth_browser_login"

HandOver(w) ==
  /\ worker[w].pc \in {"child", "fallback"}
  /\ LET kind  == Successor(worker[w].pc)
         child == CreateJobId(kind, "account")
         rows  == IF child \in DOMAIN jobs THEN next ELSE Append(next, 0)
     IN  /\ jobs' = IF child \in DOMAIN jobs THEN jobs
                    ELSE Append(jobs, NewJob(kind, "account", Tries(kind)))
         /\ next' = [rows EXCEPT ![worker[w].job] = child]
  /\ Goto(w, "succeed")
  /\ UNCHANGED <<open, secrets, retried, budget>>

(* A credential that an earlier attempt of this job has linked ends the job; *)
(* otherwise the newest refresh token of the account is used.                *)
LookupTarget(w) ==
  IF worker[w].job \in linked THEN "succeed"
  ELSE IF hasToken THEN "refresh" ELSE "fallback"

Lookup(w) ==
  /\ worker[w].pc = "lookup"
  /\ Goto(w, LookupTarget(w))
  /\ UNCHANGED <<jobs, open, secrets, next, retried, budget>>

(* RefreshCodexOAuthToken succeeds, is refused for good, or fails. *)
Refresh(w) ==
  /\ worker[w].pc = "refresh"
  /\ \E place \in {"vault", "fallback", "fail"} : Goto(w, place)
  /\ UNCHANGED <<jobs, open, secrets, next, retried, budget>>

(* The browser worker reports the opened page and waits for the callback;    *)
(* a callback gives tokens or an error, no callback asks for a human.        *)
Opened(w) ==
  /\ worker[w].pc = "opened"
  /\ ReportStage(w, "login", "fail")
  /\ UNCHANGED <<open, secrets, next, retried, budget>>

Login(w) ==
  /\ worker[w].pc = "login"
  /\ \E place \in {"received", "human", "fail"} : Goto(w, place)
  /\ UNCHANGED <<jobs, open, secrets, next, retried, budget>>

(* succeedCredential reports a stage before it stores the credential. *)
Received(w) ==
  /\ worker[w].pc = "received"
  /\ ReportStage(w, "vault", "fail")
  /\ UNCHANGED <<open, secrets, next, retried, budget>>

(* secrets.Create; the new credential holds the next refresh token. *)
StoreSecret(w) ==
  /\ worker[w].pc = "vault"
  /\ hasToken' = TRUE
  /\ Goto(w, "link")
  /\ UNCHANGED <<jobs, open, linked, written, next, retried, budget>>

LinkJobSecret(w) ==
  /\ worker[w].pc = "link"
  /\ linked' = linked \cup {worker[w].job}
  /\ Goto(w, "write")
  /\ UNCHANGED <<jobs, open, hasToken, written, next, retried, budget>>

(* mutant: the error of the gateway is dropped *)
WriteErrorDropped(w) == Goto(w, "succeed")

(* Where a failed writeback leads: neither kind of job succeeds. *)
WriteFailed(w) == Goto(w, "fail")

(* writeCredentialToGateway. *)
WriteCredential(w) ==
  /\ worker[w].pc = "write"
  /\ \/ written' = written \cup {worker[w].job} /\ Goto(w, "succeed")
     \/ WriteFailed(w) /\ UNCHANGED written
  /\ UNCHANGED <<jobs, open, linked, hasToken, next, retried, budget>>
-----------------------------------------------------------------------------
(* Time and faults. *)

(* The lease of a held job runs out; executors never prolong theirs. *)
LeaseRunsOut(j) ==
  /\ jobs[j].lease = "live"
  /\ jobs' = [jobs EXCEPT ![j].lease = "past"]
  /\ UNCHANGED <<open, secrets, next, worker, retried, budget>>

(* The worker's process stops and starts again; the job keeps its lease. *)
Crash(w) ==
  /\ Spend("crashes")
  /\ worker[w].pc # "idle"
  /\ Rest(w)
  /\ UNCHANGED <<jobs, open, secrets, next, retried>>

(* Where a handler goes on after a store access that failed: an executor     *)
(* gives up, unless it was creating a job; a browser worker calls Fail; a    *)
(* failed link is ignored. Of the two reads of a lookup, the failed first    *)
(* one means that nothing is linked, the failed second one that the account  *)
(* has no token.                                                             *)
AfterStoreError(w) ==
  LET place == worker[w].pc
  IN  CASE place = "link" -> {"write"}
        [] place = "lookup" -> {"fallback"} \cup (IF hasToken THEN {"refresh"} ELSE {})
        [] place \in {"child", "fallback"} -> {"fail"}
        [] place \in {"stage", "opened", "received", "vault", "succeed"}
             /\ w \in Browsers -> {"fail"}
        [] OTHER -> {"idle"}

StoreError(w) ==
  /\ Spend("errors")
  /\ worker[w].pc \notin {"idle", "refresh", "login", "write"}
  /\ \E place \in AfterStoreError(w) :
       IF place = "idle" THEN Rest(w) ELSE Goto(w, place)
  /\ UNCHANGED <<jobs, open, secrets, next, retried>>
-----------------------------------------------------------------------------
(* Operators. *)

Cancel(j) ==
  /\ Spend("orders")
  /\ jobs[j].status \in ActiveStatuses
  /\ jobs' = [jobs EXCEPT ![j] = Released(@, "CANCELED")]
  /\ UNCHANGED <<open, secrets, next, worker, retried>>

Retry(j) ==
  /\ Spend("orders")
  /\ jobs[j].status \in TerminalStatus
  /\ jobs' = [jobs EXCEPT ![j] = [Released(@, "PENDING") EXCEPT !.attempts = 0]]
  /\ retried' = retried \cup {j}
  /\ UNCHANGED <<open, secrets, next, worker>>

(* mutant: the attempts are not raised *)
ResumeMaxAsIs(job) == job.max

(* The resumed job gets one more attempt when it has none left. *)
ResumeMax(job) == IF job.max <= job.attempts THEN job.attempts + 1 ELSE job.max

ResumeWaitingHuman(j) ==
  /\ Spend("orders")
  /\ jobs[j].status = "WAITING_HUMAN"
  /\ jobs' = [jobs EXCEPT ![j] = [Released(@, "PENDING") EXCEPT !.max = ResumeMax(jobs[j])]]
  /\ UNCHANGED <<open, secrets, next, worker, retried>>
-----------------------------------------------------------------------------
Step(w) ==
  \/ ClaimCandidate(w) \/ Stage(w) \/ HandOver(w)
  \/ Lookup(w) \/ Refresh(w) \/ Opened(w) \/ Login(w) \/ Received(w)
  \/ StoreSecret(w) \/ LinkJobSecret(w) \/ WriteCredential(w)
  \/ Succeed(w) \/ Fail(w) \/ WaitingHuman(w)

Operator(j) == Cancel(j) \/ Retry(j) \/ ResumeWaitingHuman(j)

Next ==
  \/ EnqueueAuthInvalid
  \/ \E kind \in Kinds, key \in Keys, tries \in PostTries : PostJob(kind, key, tries)
  \/ \E w \in Workers :
       Claim(w) \/ Step(w) \/ Heartbeat(w) \/ Crash(w) \/ StoreError(w)
  \/ \E j \in DOMAIN jobs : LeaseRunsOut(j) \/ Operator(j)

Spec == Init /\ [][Next]_vars

(* The loops of the workers poll for ever and every call has a time limit;   *)
(* leases run out by the clock. Events, faults and operators owe nothing.    *)
Fairness ==
  /\ \A w \in Workers : WF_vars(Claim(w)) /\ WF_vars(Step(w))
  /\ \A j \in 1..MaxJobs :
       WF_vars(j \in DOMAIN jobs /\ LeaseRunsOut(j))

FairSpec == Spec /\ Fairness
-----------------------------------------------------------------------------
Places == {"idle", "claim", "stage", "child", "fallback", "lookup", "refresh",
           "opened", "login", "received", "vault", "link", "write", "succeed",
           "fail", "human"}

Row == [kind : Kinds, key : Keys, status : ActiveStatuses \cup TerminalStatus,
        attempts : Nat, max : Nat, owner : Workers \cup {NoWorker},
        lease : {"none", "live", "past"}]

(* Rows, attempts, secrets and workers stay in their ranges; the attempts of *)
(* a job never exceed its limit (the claim's condition), and exactly the     *)
(* held jobs have an owner and a lease, whose attempt row is open.           *)
TypeOK ==
  /\ jobs \in Seq(Row)
  /\ next \in Seq(Nat)
  /\ Len(next) = Len(jobs)
  /\ \A j \in DOMAIN jobs :
       /\ next[j] \in 0..Len(jobs)
       /\ jobs[j].attempts <= jobs[j].max
       /\ (jobs[j].status \in Held) = (jobs[j].owner # NoWorker)
       /\ (jobs[j].status \in Held) = (jobs[j].lease # "none")
       /\ (jobs[j].status \in Held) => (<<j, jobs[j].owner>> \in open)
  /\ open \subseteq (DOMAIN jobs) \X Workers
  /\ linked \cup written \cup retried \subseteq DOMAIN jobs
  /\ hasToken \in BOOLEAN
  /\ worker \in [Workers -> [pc : Places, job : Nat, list : SUBSET Nat]]
  /\ \A w \in Workers :
       /\ worker[w].list \subseteq DOMAIN jobs
       /\ worker[w].job \in {0} \cup DOMAIN jobs
       /\ (worker[w].job = 0) = (worker[w].pc \in {"idle", "claim"})
  /\ budget \in [workers : SUBSET Workers, events : Nat, orders : Nat,
                 crashes : Nat, errors : Nat]

(* Events, workers that hand over and operators that post jobs under the     *)
(* account's key never make two active jobs of one kind, whatever happened   *)
(* to leases and jobs meanwhile. Only the two orders that do not look for    *)
(* another active job add a second one: a Retry, and a job posted without a  *)
(* key (CreateJob searches only with one).                                   *)
OneActiveJob ==
  \A j, k \in DOMAIN jobs :
    (/\ jobs[j].kind = jobs[k].kind
     /\ jobs[j].status \in ActiveStatuses
     /\ jobs[k].status \in ActiveStatuses
     /\ j # k) => (\/ j \in retried \/ k \in retried
                   \/ "none" \in {jobs[j].key, jobs[k].key})

(* A job that has succeeded, failed or was canceled is never changed again   *)
(* by a worker that still handles it (a lost lease, a late Fail or Succeed): *)
(* it changes only when an operator retries it, to a fresh pending job.      *)
FinishedStays ==
  [][\A j \in DOMAIN jobs :
       jobs[j].status \in TerminalStatus /\ jobs'[j] # jobs[j] =>
         /\ jobs'[j].status = "PENDING"
         /\ jobs'[j].attempts = 0
         /\ budget'.orders < budget.orders]_vars

(* What a job has to show for itself when it is done. *)
HasResult(j) ==
  CASE jobs[j].kind = "auth_recover" -> next[j] # 0
    [] jobs[j].kind = "auth_browser_login" -> j \in written
    [] OTHER -> j \in linked \cup written \/ next[j] # 0

(* A job succeeds only with something to show: a recovery has handed over to *)
(* another job; a login's credential was accepted by the gateway; a          *)
(* refresh's was at least stored and linked, or it has handed over. Workers  *)
(* that lost their lease in the middle, crashed and retried included.        *)
SuccessHasResult ==
  \A j \in DOMAIN jobs : jobs[j].status = "SUCCESS" => HasResult(j)

(* A held job whose last attempt ran out: no claim takes it any more, and    *)
(* its worker may be gone.                                                   *)
Stranded(j) ==
  jobs[j].status \in Held /\ jobs[j].lease = "past" /\ jobs[j].attempts >= jobs[j].max

(* Whatever happens to workers and leases, no job is left behind: an active  *)
(* job is finished, comes to wait for a human, or is stranded because its    *)
(* last attempt lost its worker (the claims leave such a row alone, and      *)
(* later events are answered with it). No behaviour has more than MaxJobs.   *)
JobEnds ==
  /\ [](Len(jobs) <= MaxJobs)
  /\ \A j \in 1..MaxJobs :
       (Len(jobs) >= j /\ jobs[j].status \in {"PENDING"} \cup Held)
         ~> (Len(jobs) >= j /\ (\/ jobs[j].status \in TerminalStatus \cup {"WAITING_HUMAN"}
                               \/ Stranded(j)))

(* docs/implementation-plan.md, phase 1D: refresh and browser jobs are not   *)
(* marked successful when the writeback to the gateway fails. A refresh that *)
(* succeeds without handing over has had its credential accepted.            *)
SuccessIsWritten ==
  \A j \in DOMAIN jobs :
    (jobs[j].status = "SUCCESS" /\ jobs[j].kind # "auth_recover" /\ next[j] = 0)
      => j \in written
=============================================================================
