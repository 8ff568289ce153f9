---------------------------- MODULE TaskBilling ----------------------------
(***************************************************************************)
(* One asynchronous task (video, Suno song, Midjourney image) after its    *)
(* submission was charged: polling loops on several nodes, the sweep of    *)
(* timed out tasks, users that fetch the task, and the Midjourney          *)
(* notification hook change its row; the refund of a failed task and the   *)
(* recalculation of a successful one move quota back or forth.             *)
(*                                                                         *)
(* A step is one access to the store or one call of the provider, with the *)
(* local computation around it. Every node runs TaskPollingLoop (sweep,    *)
(* then poll) for the task, or UpdateMidjourneyTaskBulk.                   *)
(***************************************************************************)
EXTENDS Integers, FiniteSets

CONSTANTS
  Nodes,       \* processes that run the polling loops
  Fetchers,    \* requests of users that fetch the task
  Scenarios,   \* [platform, nodes, sources, env]: the kind of task, the nodes
               \* that poll it, its funding, and what may go wrong meanwhile
  Quota,       \* what the submission was charged, task.Quota
  Actuals,     \* final quotas a provider may report, 0 for none
  SubFree      \* what the subscription has left after the submission

ASSUME TaskAssumption ==
  /\ Quota \in Nat \ {0}
  /\ Actuals \subseteq Nat
  /\ SubFree \in Nat
  /\ Nodes \cap Fetchers = {}
  /\ \A c \in Scenarios : c.nodes \subseteq Nodes

VARIABLES
  task,      \* what the row keeps unchanged: platform, funding, billing context
  status,    \* task.Status of the row
  done,      \* task.Progress of the row is "100%"
  upstream,  \* the provider's view: state, and the final quota it will report
  timedOut,  \* the task is older than TaskTimeoutMinutes
  subFree,   \* quota left in the subscription
  paid,      \* net quota taken for this task from wallet, subscription, token
  pc,        \* where each node or fetcher is
  copy,      \* the row as each of them last read it
  seen,      \* the provider's answer it is processing
  bill,      \* the adjustment it is making
  faulty,    \* history: a store access failed or a process crashed
  outside    \* history: a final status was written or taken back without
             \* billing it, or a refund was made without one

vars == <<task, status, done, upstream, timedOut, subFree, paid, pc, copy,
          seen, bill, faulty, outside>>
rows == <<status, done, subFree, paid>>
world == <<task, upstream, timedOut>>

Actors == Nodes \cup Fetchers
Final == {"FAILURE", "SUCCESS"}
Statuses == {"NOT_START", "IN_PROGRESS"} \cup Final

Sources == {"wallet", "subscription", "split"}
Platforms == {"video", "gemini", "suno", "mj"}

(* Everything that may go wrong: a store access fails; a process crashes;   *)
(* the channel cannot be read; Midjourney notifies; the task gets too old;  *)
(* the provider answers with an error document, or with a status, a          *)
(* progress and a fail reason that do not agree.                            *)
Troubles == {"db", "crash", "gone", "notify", "timeout", "rejected", "odd"}

(* A split charge has a subscription part, and maybe a wallet part.         *)
(* Midjourney submissions are charged to the wallet, per call; legacy tasks *)
(* predate the billing context and matter to the sweep only.                *)
Tasks ==
  {t \in [scenario : Scenarios, source : Sources, fundW : 0..Quota,
          perCall : BOOLEAN, legacy : BOOLEAN] :
     /\ t.source \in t.scenario.sources
     /\ (t.source = "wallet") => (t.fundW = Quota)
     /\ (t.source = "subscription") => (t.fundW = 0)
     /\ (t.source = "split") => (t.fundW < Quota)
     /\ (t.scenario.platform = "mj") => (t.source = "wallet" /\ t.perCall)
     /\ t.legacy => "timeout" \in t.scenario.env}

Platform == task.scenario.platform
Env == task.scenario.env

(* What a provider says of a task: its status, whether the progress is       *)
(* "100%", whether there is a fail reason.  A plain reply agrees with        *)
(* itself: a failure is finished or has a reason, a success is finished and  *)
(* has none.  The video loop looks at the status only.                       *)
Reply == [status : Statuses, done : BOOLEAN, reason : BOOLEAN]

Plain(r) ==
  /\ r.status = "FAILURE" => r.done \/ r.reason
  /\ r.status = "SUCCESS" => r.done /\ ~r.reason
  /\ r.status \notin Final => ~r.done /\ ~r.reason

Short(s) == [status |-> s, done |-> s \in Final, reason |-> FALSE]

Replies(s) ==
  IF Platform \in {"video", "gemini"} THEN {Short(s)}
  ELSE {r \in Reply : r.status = s /\ (Plain(r) \/ "odd" \in Env)}

(* No adjustment in progress. *)
NoBill == [delta |-> 0, w |-> 0, s |-> 0, then |-> "sleep"]

(* RelayTask has settled the charge and inserted the row. *)
Init ==
  /\ task \in Tasks
  /\ status = "NOT_START"
  /\ done = FALSE
  /\ upstream = [state |-> "IN_PROGRESS", actual |-> 0]
  /\ timedOut = FALSE
  /\ subFree = SubFree
  /\ paid = [w |-> task.fundW, s |-> Quota - task.fundW, t |-> Quota]
  /\ pc = [a \in Actors |-> IF a \in Nodes THEN "sleep" ELSE "fetchLoad"]
  /\ copy = [a \in Actors |-> [status |-> "NOT_START", done |-> FALSE]]
  /\ seen = [a \in Actors |-> Short("IN_PROGRESS")]
  /\ bill = [a \in Actors |-> NoBill]
  /\ faulty = FALSE
  /\ outside = FALSE

(* mutant: tasks that have started are forgotten *)
UnfinishedNewOnly == ~done /\ status = "NOT_START"

(* GetAllUnFinishSyncTasks, GetTimedOutUnfinishedTasks; the Midjourney     *)
(* query looks at the progress only.                                       *)
Unfinished ==
  /\ ~done
  /\ (Platform # "mj") => (status \notin Final)

Goto(a, place) == pc' = [pc EXCEPT ![a] = place]
ReadRow(a) == copy' = [copy EXCEPT ![a] = [status |-> status, done |-> done]]

(* An access to the store fails without effect; one failure per behaviour.  *)
StoreError == "db" \in Env /\ ~faulty /\ faulty' = TRUE
-----------------------------------------------------------------------------
(* Moving the charge: taskAdjustFunding, then taskAdjustTokenQuota. *)

(* The wallet part of a refund: wallet first, up to what the task took.    *)
RefundSplit(amount) == IF amount <= task.fundW THEN amount ELSE task.fundW

RefundParts(amount) ==
  CASE task.source = "wallet" -> [w |-> -amount, s |-> 0]
    [] task.source = "subscription" -> [w |-> 0, s |-> -amount]
    [] OTHER -> [w |-> -RefundSplit(amount), s |-> RefundSplit(amount) - amount]

ChargeParts(amount) ==
  CASE task.source = "wallet" -> [w |-> amount, s |-> 0]
    [] task.source = "subscription" -> [w |-> 0, s |-> amount]
    [] OTHER -> [w |-> 0, s |-> 0]          \* decided by the subscription

(* The first access of an adjustment by delta. A refund of a split charge   *)
(* goes to the wallet first, an additional charge to the subscription.      *)
StartAdjust(a, delta, then) ==
  LET parts == IF delta < 0 THEN RefundParts(-delta) ELSE ChargeParts(delta)
  IN  /\ bill' = [bill EXCEPT ![a] = [delta |-> delta, w |-> parts.w,
                                      s |-> parts.s, then |-> then]]
      /\ Goto(a, IF delta = 0 THEN then
                 ELSE IF parts.w # 0 THEN "wallet"
                 ELSE IF parts.s # 0 THEN "sub" ELSE "subAvailable")

(* The funding failed: the token is not touched. *)
AbandonAdjust(a) == Goto(a, bill[a].then) /\ UNCHANGED bill

(* IncreaseUserQuota, DecreaseUserQuota: neither is limited. The            *)
(* Midjourney loop returns the wallet part only.                            *)
AdjustWallet(a) ==
  /\ pc[a] = "wallet"
  /\ \/ /\ paid' = [paid EXCEPT !.w = @ + bill[a].w]
        /\ Goto(a, IF Platform = "mj" THEN bill[a].then
                   ELSE IF bill[a].delta < 0 /\ bill[a].s # 0 THEN "sub"
                   ELSE "token")
        /\ UNCHANGED <<bill, faulty>>
     \/ /\ StoreError
        /\ UNCHANGED paid
        /\ IF bill[a].delta > 0 /\ bill[a].s > 0
           THEN Goto(a, "undoSub") /\ UNCHANGED bill
           ELSE AbandonAdjust(a)
  /\ UNCHANGED <<world, status, done, subFree, copy, seen, outside>>

(* mutant: the total of the subscription is not a limit *)
AdjustSubUnlimited(a) ==
  /\ pc[a] = "sub"
  /\ subFree' = subFree - bill[a].s
  /\ paid' = [paid EXCEPT !.s = @ + bill[a].s]
  /\ Goto(a, "token")
  /\ UNCHANGED <<world, status, done, copy, seen, bill, faulty, outside>>

(* PostConsumeUserSubscriptionDelta refuses to exceed the total.            *)
AdjustSub(a) ==
  /\ pc[a] = "sub"
  /\ \/ /\ bill[a].s <= subFree
        /\ subFree' = subFree - bill[a].s
        /\ paid' = [paid EXCEPT !.s = @ + bill[a].s]
        /\ Goto(a, "token")
        /\ UNCHANGED <<bill, faulty>>
     \/ /\ bill[a].s > subFree
        /\ AbandonAdjust(a)
        /\ UNCHANGED <<subFree, paid, faulty>>
     \/ /\ StoreError
        /\ AbandonAdjust(a)
        /\ UNCHANGED <<subFree, paid>>
  /\ UNCHANGED <<world, status, done, copy, seen, outside>>

(* PostConsumeUserSubscriptionDeltaAvailable takes what there is; the       *)
(* wallet pays the rest.                                                    *)
AdjustSubAvailable(a) ==
  LET takes == IF subFree < bill[a].delta THEN subFree ELSE bill[a].delta
      rest == bill[a].delta - takes
  IN  /\ pc[a] = "subAvailable"
      /\ \/ /\ subFree' = subFree - takes
            /\ paid' = [paid EXCEPT !.s = @ + takes]
            /\ bill' = [bill EXCEPT ![a].w = rest, ![a].s = takes]
            /\ Goto(a, IF rest > 0 THEN "wallet" ELSE "token")
            /\ UNCHANGED faulty
         \/ /\ StoreError
            /\ AbandonAdjust(a)
            /\ UNCHANGED <<subFree, paid>>
      /\ UNCHANGED <<world, status, done, copy, seen, outside>>

(* The wallet refused after the subscription had paid its part; the error   *)
(* of the undo is ignored.                                                  *)
AdjustUndoSub(a) ==
  /\ pc[a] = "undoSub"
  /\ \/ /\ subFree' = subFree + bill[a].s
        /\ paid' = [paid EXCEPT !.s = @ - bill[a].s]
        /\ UNCHANGED faulty
     \/ /\ StoreError
        /\ UNCHANGED <<subFree, paid>>
  /\ AbandonAdjust(a)
  /\ UNCHANGED <<world, status, done, copy, seen, outside>>

(* taskAdjustTokenQuota: an error is only logged.                           *)
AdjustToken(a) ==
  /\ pc[a] = "token"
  /\ \/ /\ paid' = [paid EXCEPT !.t = @ + bill[a].delta]
        /\ UNCHANGED faulty
     \/ /\ StoreError
        /\ UNCHANGED paid
  /\ Goto(a, bill[a].then)
  /\ UNCHANGED <<world, status, done, subFree, copy, seen, bill, outside>>

(* RefundTaskQuota, settleTaskBillingOnComplete with RecalculateTaskQuota.  *)
RefundTaskQuota(a, then) == StartAdjust(a, -Quota, then)

FinalQuota ==
  IF task.perCall \/ upstream.actual = 0 THEN Quota ELSE upstream.actual

(* mutant: the whole final quota is charged instead of the difference *)
SettleInFull(a, then) == StartAdjust(a, FinalQuota, then)

SettleOnComplete(a, then) == StartAdjust(a, FinalQuota - Quota, then)

NoAdjust(a, then) == Goto(a, then) /\ UNCHANGED bill
-----------------------------------------------------------------------------
(* The polling loop of a node: sleep, sweep, load, ask the provider, apply. *)

(* The sweep reads tasks that are too old, if it is configured at all; the  *)
(* Midjourney table has no sweep.                                           *)
Sweep(n) ==
  /\ n \in task.scenario.nodes
  /\ pc[n] = "sleep"
  /\ ReadRow(n)
  /\ Goto(n, IF timedOut /\ Unfinished /\ Platform # "mj"
             THEN "sweepCas" ELSE "load")
  /\ UNCHANGED <<world, rows, seen, bill, faulty, outside>>

(* mutant: the update is not guarded by the status that was read *)
CasAlwaysWins(a) == status = status

(* UpdateWithStatus: write the row if its status is still the one read.     *)
CasWins(a) == status = copy[a].status

(* sweepTimedOutTasks: the winner refunds, tasks of the old system excepted *)
SweepCas(n) ==
  /\ pc[n] = "sweepCas"
  /\ \/ /\ CasWins(n)
        /\ status' = "FAILURE"
        /\ done' = TRUE
        /\ IF task.legacy THEN NoAdjust(n, "load") ELSE RefundTaskQuota(n, "load")
        /\ outside' = (outside \/ task.legacy)
        /\ UNCHANGED faulty
     \/ /\ ~CasWins(n)
        /\ NoAdjust(n, "load")
        /\ UNCHANGED <<status, done, outside, faulty>>
     \/ /\ StoreError
        /\ NoAdjust(n, "load")
        /\ UNCHANGED <<status, done, outside>>
  /\ UNCHANGED <<world, subFree, paid, copy, seen>>

(* The loop reads the unfinished tasks. *)
PollLoad(n) ==
  /\ pc[n] = "load"
  /\ ReadRow(n)
  /\ Goto(n, IF Unfinished THEN "ask" ELSE "sleep")
  /\ UNCHANGED <<world, rows, seen, bill, faulty, outside>>

(* The channel of the task cannot be read, or the task has no upstream id:  *)
(* TaskBulkUpdateByID, MjBulkUpdate write the failure without a guard and   *)
(* nobody refunds.                                                          *)
BulkFail(n) ==
  /\ "gone" \in Env
  /\ pc[n] = "ask"
  /\ status' = "FAILURE"
  /\ done' = TRUE
  /\ outside' = TRUE
  /\ Goto(n, "sleep")
  /\ UNCHANGED <<world, subFree, paid, copy, seen, bill, faulty>>

(* FetchTask: an answer about the state at this moment; an error document,   *)
(* which counts as the failure of a video task; or nothing that can be used *)
(* (no answer, 429, unknown status), which leaves the task to the next      *)
(* round.                                                                   *)
Ask(n) ==
  /\ pc[n] = "ask"
  /\ \/ /\ \E r \in Replies(upstream.state) : seen' = [seen EXCEPT ![n] = r]
        /\ Goto(n, CASE Platform = "suno" -> "applySuno"
                     [] Platform = "mj" -> "applyMj"
                     [] OTHER -> "apply")
     \/ /\ "rejected" \in Env
        /\ Platform \in {"video", "gemini"}
        /\ seen' = [seen EXCEPT ![n] = Short("FAILURE")]
        /\ Goto(n, "apply")
     \/ Goto(n, "sleep") /\ UNCHANGED seen
  /\ UNCHANGED <<world, rows, copy, bill, faulty, outside>>

(* What updateVideoSingleTask decides once its update has won. *)
BillOutcome(n) ==
  CASE seen[n].status = "FAILURE" -> RefundTaskQuota(n, "sleep")
    [] seen[n].status = "SUCCESS" -> SettleOnComplete(n, "sleep")
    [] OTHER -> NoAdjust(n, "sleep")

(* mutant: the outcome of a lost update is billed as well *)
ApplyBillsAlways(n) ==
  /\ pc[n] = "apply"
  /\ \/ /\ CasWins(n)
        /\ status' = seen[n].status
        /\ done' = (seen[n].status \in Final)
        /\ BillOutcome(n)
        /\ UNCHANGED faulty
     \/ /\ ~CasWins(n)
        /\ BillOutcome(n)
        /\ UNCHANGED <<status, done, faulty>>
     \/ /\ StoreError
        /\ NoAdjust(n, "sleep")
        /\ UNCHANGED <<status, done>>
  /\ UNCHANGED <<world, subFree, paid, copy, seen, outside>>

(* updateVideoSingleTask *)
Apply(n) ==
  /\ pc[n] = "apply"
  /\ \/ /\ CasWins(n)
        /\ status' = seen[n].status
        /\ done' = (seen[n].status \in Final)
        /\ BillOutcome(n)
        /\ UNCHANGED faulty
     \/ /\ ~CasWins(n)
        /\ NoAdjust(n, "sleep")
        /\ UNCHANGED <<status, done, faulty>>
     \/ /\ StoreError
        /\ NoAdjust(n, "sleep")
        /\ UNCHANGED <<status, done>>
  /\ UNCHANGED <<world, subFree, paid, copy, seen, outside>>

(* updateSunoTasks refunds a failure, and whatever comes with a reason. *)
SunoRefunds(r) == r.reason \/ r.status = "FAILURE"

(* Skip an unchanged task, refund a failed one, then save. *)
ApplySuno(n) ==
  /\ pc[n] = "applySuno"
  /\ IF SunoRefunds(seen[n])
     THEN RefundTaskQuota(n, "saveSuno")
     ELSE NoAdjust(n, IF seen[n].status # copy[n].status THEN "saveSuno" ELSE "sleep")
  /\ outside' = (outside \/ (SunoRefunds(seen[n]) /\ seen[n].status # "FAILURE"))
  /\ UNCHANGED <<world, rows, copy, seen, faulty>>

(* Task.Update saves the row unconditionally; an error is only logged.  A   *)
(* success and a refund finish the task; the reply's progress is not read.  *)
SaveSuno(n) ==
  /\ pc[n] = "saveSuno"
  /\ \/ /\ status' = seen[n].status
        /\ done' = (copy[n].done \/ SunoRefunds(seen[n]) \/ seen[n].status = "SUCCESS")
        /\ UNCHANGED faulty
     \/ /\ StoreError
        /\ UNCHANGED <<status, done>>
  /\ Goto(n, "sleep")
  /\ UNCHANGED <<world, subFree, paid, copy, seen, bill, outside>>

(* A Midjourney task that is too old has failed, whatever was answered; its  *)
(* progress stays the answer's.                                             *)
MjReply(n) ==
  IF timedOut /\ ~copy[n].done
  THEN [seen[n] EXCEPT !.status = "FAILURE", !.reason = TRUE] ELSE seen[n]

(* The refund looks at the reason of an unfinished reply and at the status   *)
(* of a finished one.                                                       *)
MjRefunds(r) == IF r.done THEN r.status = "FAILURE" ELSE r.reason

(* checkMjTaskNeedUpdate may find nothing new. *)
MjSame(r, c) == r.status = c.status /\ r.done = c.done /\ ~r.reason

(* UpdateMidjourneyTaskBulk: the winner of the guarded update refunds, and   *)
(* what is refunded is finished.                                            *)
ApplyMj(n) ==
  LET r == MjReply(n)
  IN  /\ pc[n] = "applyMj"
      /\ \/ /\ CasWins(n)
            /\ status' = r.status
            /\ done' = (r.done \/ MjRefunds(r))
            /\ IF MjRefunds(r) THEN RefundTaskQuota(n, "sleep")
                               ELSE NoAdjust(n, "sleep")
            /\ outside' = (outside \/ (MjRefunds(r) # (r.status = "FAILURE")))
            /\ UNCHANGED faulty
         \/ /\ ~CasWins(n) \/ MjSame(r, copy[n])
            /\ NoAdjust(n, "sleep")
            /\ UNCHANGED <<status, done, faulty, outside>>
         \/ /\ StoreError
            /\ NoAdjust(n, "sleep")
            /\ UNCHANGED <<status, done, outside>>
      /\ UNCHANGED <<world, subFree, paid, copy, seen>>

(* The process stops and starts again with its next round. *)
Crash(n) ==
  /\ "crash" \in Env
  /\ ~faulty
  /\ pc[n] # "sleep"
  /\ Goto(n, "sleep")
  /\ bill' = [bill EXCEPT ![n] = NoBill]
  /\ faulty' = TRUE
  /\ UNCHANGED <<world, rows, copy, seen, outside>>
-----------------------------------------------------------------------------
(* A user fetches the task: tryRealtimeFetch for Gemini and Vertex tasks.   *)

FetchLoad(f) ==
  /\ pc[f] = "fetchLoad"
  /\ Platform = "gemini"
  /\ ReadRow(f)
  /\ Goto(f, "fetchAsk")
  /\ UNCHANGED <<world, rows, seen, bill, faulty, outside>>

FetchAsk(f) ==
  /\ pc[f] = "fetchAsk"
  /\ \/ /\ \E r \in Replies(upstream.state) : seen' = [seen EXCEPT ![f] = r]
        /\ Goto(f, "fetchSave")
     \/ Goto(f, "fetchLoad") /\ UNCHANGED seen
  /\ UNCHANGED <<world, rows, copy, bill, faulty, outside>>

(* The row takes the provider's state if it still has the status that was   *)
(* read, whatever that was; nothing is billed. An error is ignored.         *)
FetchSave(f) ==
  /\ pc[f] = "fetchSave"
  /\ \/ /\ CasWins(f)
        /\ status' = seen[f].status
        /\ done' = (seen[f].status \in Final)
        /\ outside' = (outside \/ (seen[f].status \in Final /\ status \notin Final))
        /\ UNCHANGED faulty
     \/ /\ ~CasWins(f)
        /\ UNCHANGED <<status, done, outside, faulty>>
     \/ /\ StoreError
        /\ UNCHANGED <<status, done, outside>>
  /\ Goto(f, "fetchLoad")
  /\ UNCHANGED <<world, subFree, paid, copy, seen, bill>>
-----------------------------------------------------------------------------
(* The world around. *)

(* The provider finishes the task. *)
UpstreamEnds ==
  /\ upstream.state = "IN_PROGRESS"
  /\ \E s \in Final, q \in Actuals :
        upstream' = [state |-> s, actual |-> IF s = "SUCCESS" THEN q ELSE 0]
  /\ UNCHANGED <<task, timedOut, rows, pc, copy, seen, bill, faulty, outside>>

(* The task becomes older than the configured timeout. *)
TimePasses ==
  /\ "timeout" \in Env
  /\ ~timedOut
  /\ timedOut' = TRUE
  /\ UNCHANGED <<task, upstream, rows, pc, copy, seen, bill, faulty, outside>>

(* RelayMidjourneyNotify saves what the provider announces, unguarded; one   *)
(* announcement of the running task may come after its end.                 *)
Notify ==
  /\ "notify" \in Env
  /\ Platform = "mj"
  /\ \/ /\ status # upstream.state
        /\ \E r \in Replies(upstream.state) : status' = r.status /\ done' = r.done
        /\ outside' = (outside \/ upstream.state \in Final)
     \/ /\ upstream.state \in Final /\ ~outside
        /\ status' = "IN_PROGRESS" /\ done' = FALSE
        /\ outside' = TRUE
  /\ UNCHANGED <<world, subFree, paid, pc, copy, seen, bill, faulty>>

Adjust(a) ==
  AdjustWallet(a) \/ AdjustSub(a) \/ AdjustSubAvailable(a)
  \/ AdjustUndoSub(a) \/ AdjustToken(a)

Poll(n) ==
  \/ Sweep(n) \/ SweepCas(n) \/ PollLoad(n) \/ Ask(n)
  \/ Apply(n) \/ ApplySuno(n) \/ SaveSuno(n) \/ ApplyMj(n)
  \/ Adjust(n)

Fetch(f) == FetchLoad(f) \/ FetchAsk(f) \/ FetchSave(f)

Next ==
  \/ \E n \in Nodes : Poll(n) \/ BulkFail(n) \/ Crash(n)
  \/ \E f \in Fetchers : Fetch(f)
  \/ UpstreamEnds \/ TimePasses \/ Notify

Spec == Init /\ [][Next]_vars

(* The loops run for ever, a provider that is asked again and again answers *)
(* once, and time passes. A user need not fetch.                            *)
Answers(n) == Ask(n) /\ pc'[n] # "sleep"

FairSpec ==
  /\ Spec
  /\ \A n \in Nodes : WF_vars(Poll(n)) /\ SF_vars(Answers(n))
  /\ WF_vars(TimePasses)
-----------------------------------------------------------------------------
(* Type correctness. *)
TypeOK ==
  /\ task \in Tasks
  /\ status \in Statuses
  /\ done \in BOOLEAN
  /\ upstream \in [state : Statuses \ {"NOT_START"}, actual : Nat]
  /\ timedOut \in BOOLEAN
  /\ subFree \in Nat
  /\ paid \in [w : Int, s : Int, t : Int]
  /\ pc \in [Actors -> {"sleep", "sweepCas", "load", "ask", "apply",
        "applySuno", "saveSuno", "applyMj", "wallet", "sub", "subAvailable",
        "undoSub", "token", "fetchLoad", "fetchAsk", "fetchSave"}]
  /\ copy \in [Actors -> [status : Statuses, done : BOOLEAN]]
  /\ seen \in [Actors -> Reply]
  /\ bill \in [Actors -> [delta : Int, w : Int, s : Int,
                          then : {"sleep", "load", "saveSuno"}]]
  /\ faulty \in BOOLEAN
  /\ outside \in BOOLEAN

Charged == paid.w + paid.s
Billing(a) ==
  pc[a] \in {"wallet", "sub", "subAvailable", "undoSub", "token", "saveSuno"}

(* Tasks whose final status is only set by an update that is guarded by the  *)
(* status that was read, and billed with it. Left out: updateSunoTasks saves *)
(* the row without a guard; the Midjourney hook writes what the provider     *)
(* announces; a Midjourney answer whose status, progress and reason do not   *)
(* agree is saved without a final status or is refunded without one; and a   *)
(* user's fetch writes the provider's state over a final status that the     *)
(* sweep, an error document or a bulk update set.                            *)
Guarded ==
  /\ Platform \in {"video", "gemini", "mj"}
  /\ Platform = "mj" => Env \cap {"notify", "odd"} = {}
  /\ (Platform = "gemini" /\ Fetchers # {}) => Env \cap {"timeout", "rejected", "gone"} = {}

(* The other songs and images, polled by one node. *)
Alone == Platform \in {"suno", "mj"} /\ \E n \in Nodes : task.scenario.nodes = {n}

GivenBackAtMostOnce == paid.w >= 0 /\ paid.s >= 0 /\ paid.t >= 0

(* A task is never given back more than it was charged, by the funding       *)
(* source or by the token. Of a guarded task this holds although several     *)
(* nodes poll it, the sweep runs beside them and processes crash             *)
(* (UpdateWithStatus in sweepTimedOutTasks, updateVideoSingleTask and        *)
(* UpdateMidjourneyTaskBulk); of the others, whatever the provider answers,  *)
(* as long as one node polls, the hook is not used and the save after a      *)
(* Suno refund does not fail. Beyond that the code refunds twice: a user's   *)
(* fetch that takes back the failure of a sweep, a late notification, two    *)
(* nodes on a song or on a contradictory Midjourney answer.                  *)
NoDoubleRefund ==
  (Guarded \/ (Alone /\ "notify" \notin Env /\ (Platform = "suno" => ~faulty)))
    => GivenBackAtMostOnce

(* When nobody is adjusting the charge and no store access failed, it is    *)
(* what the row says: nothing for a failed task, the final quota for a       *)
(* successful one (the submitted one where the subscription has no room for  *)
(* the rest), the submitted quota for a running one. Excepted by name        *)
(* (outside): final statuses that a bulk update, the hook or a fetch wrote   *)
(* without billing, and contradictory answers: a Midjourney FAILURE below    *)
(* 100% without a reason is saved without a refund, a reason is refunded     *)
(* whatever the status.                                                      *)
OutcomeBilled ==
  (~faulty /\ ~outside /\ (Guarded \/ Alone) /\ \A a \in Actors : ~Billing(a))
    => CASE status = "FAILURE" ->
              Charged = 0 /\ (Platform # "mj" => paid.t = 0)
         [] status = "SUCCESS" /\ Platform \in {"video", "gemini"} ->
              \/ Charged = FinalQuota /\ paid.t = FinalQuota
              \/ /\ task.source = "subscription"
                 /\ FinalQuota - Quota > subFree
                 /\ Charged = Quota
         [] OTHER -> Charged = Quota /\ paid.t = Quota

(* Where every update is guarded, the bulk updates included, a final status  *)
(* is final: no stale answer, no late sweep and no fetch overwrites it       *)
(* (UpdateWithStatus), and money moves only after it is set.                 *)
FinalIsFinal ==
  [][(Guarded /\ "gone" \notin Env)
       => /\ status \in Final => status' = status
          /\ paid' # paid => status \in Final]_vars

(* A task that the provider finished, or that became too old, reaches a      *)
(* final status for good and its billing comes to an end, although an update *)
(* failed, was lost to another node or died with its process. Not so when    *)
(* the answers contradict themselves: a refund for its reason, or a progress *)
(* of 100%, ends the polling of a task whose status is not final.            *)
TaskEnds ==
  ("odd" \notin Env /\ (timedOut \/ upstream.state \in Final))
    ~> [](status \in Final /\ \A n \in Nodes : ~Billing(n))
=============================================================================
