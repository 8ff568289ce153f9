-------------------------- MODULE ChannelAdmission --------------------------
(***************************************************************************)
(* How a relay request gets, and gives back, a slot of an upstream channel:*)
(* service/channel_concurrency.go (the concurrency counters of channels and*)
(* of the accounts of a channel, the leases on them, the reservations a    *)
(* channel selection makes), pkg/modelgateway/scheduler/queue_manager.go   *)
(* (the bounded priority queue of a channel, and the pool queue of the     *)
(* protected primary channels) and the attempt loop of controller/relay.go.*)
(*                                                                         *)
(* A step of a request is one critical section: the counters and the queue *)
(* manager each have their own mutex, which is never held from one step to *)
(* the next.  What belongs to the gin context of a request (reservations,  *)
(* skipped targets) is local to it.                                        *)
(***************************************************************************)
EXTENDS Integers, FiniteSets, FiniteSetsExt

CONSTANTS
  Requests,     \* the requests in the process
  Channels,     \* the upstream channels
  Accounts,     \* the accounts a channel may have: each with a limit
  Pool,         \* the pool key of the protected primary channels
  Groups,       \* the groups of the users
  Plans,        \* the dispatch plans a selection may produce
  Limit,        \* ChannelSettings.MaxConcurrency, 0 = no limit
  AccountLimit, \* ChannelSettings.AccountMaxConcurrency
  MaxDepth,     \* QueueManager.maxDepth
  PoolMaxDepth, \* DispatchPlan.PrimaryQueueMaxDepth
  HighPriorityGroups, HighPriorityThreshold, HighPriorityExtraDepth,
  HighPriorityReservedDepth, AbsoluteMaxDepth,  \* QueueFairnessOptions
  RetryTimes,   \* common.RetryTimes
  Faults        \* "panic": the relay handler may panic

None == "none"

(* What a selection picks: a channel, or one account of it. *)
Targets == Channels \X (Accounts \cup {None})
NoTarget == <<None, None>>

(* Where a request may wait: the queue of a channel, or the pool queue. *)
Queues == Channels \cup {Pool}

(* DispatchPlan.  "legacy" is a selection without a plan: it reserves      *)
(* nothing and does not wait.  queue is "none" when QueueEnabled is off,   *)
(* "pool" when the protected primary channels are saturated.               *)
Plan == [source : {"smart", "legacy"},
         queue  : {"none", "channel", "pool"},
         prio   : Int,
         group  : Groups]

ASSUME AdmissionAssumption ==
  /\ IsFiniteSet(Requests)
  /\ None \notin Channels \cup Accounts \cup {Pool}
  /\ Pool \notin Channels
  /\ Groups # {} /\ Plans \subseteq Plan
  /\ \A p \in Plans : p.source = "legacy" => p.queue = "none"
  /\ HighPriorityGroups \subseteq Groups /\ IsFiniteSet(HighPriorityGroups)
  /\ Limit \in Nat
  /\ AccountLimit \in Nat \ {0}
  /\ {MaxDepth, PoolMaxDepth, HighPriorityThreshold, HighPriorityExtraDepth,
      HighPriorityReservedDepth, AbsoluteMaxDepth, RetryTimes} \subseteq Nat
  /\ Faults \subseteq {"panic"}

VARIABLES
  active,      \* channelConcurrency: active requests of a channel
  acctActive,  \* accountConcurrency, by scope key (channel and account)
  reserved,    \* channelSelectionReservation of a channel
  ctxReserved, \* how often a channel is in ContextKeyChannelSelectionReserved
  skipped,     \* targets the selection must not pick for a request again
  fellBack,    \* requests allowed to leave the protected primary channels
  retry,       \* RetryParam.Retry
  plan,        \* the selected DispatchPlan
  target,      \* the selected channel and account
  origin,      \* the channel selected before the pool was tried
  lease,       \* the lease of the attempt: "half" once its channel counter,
               \* and not yet its account counter, is decremented
  depth,       \* queueDepths and poolDepths
  groupDepth,  \* queueGroupDepths and poolGroupDepths
  waiters,     \* queueWaiters and poolWaiters
  ticket,      \* queueWaiterState.Sequence, 0 = not in a queue
  nextSeq,     \* QueueManager.nextWaiterSeq
  panicked,    \* requests whose handler panicked
  pc           \* where a request is

counterVars == <<active, acctActive, reserved, ctxReserved>>
queueVars == <<depth, groupDepth, waiters, ticket, nextSeq>>
ctxVars == <<skipped, fellBack, retry>>
planVars == <<plan, target, origin>>
vars == <<counterVars, queueVars, ctxVars, planVars, lease, panicked, pc>>

-----------------------------------------------------------------------------
(* Types *)

(* The first line is the distributor and getChannel, the second the        *)
(* acquisition of a slot, the third its queue, the fourth the attempt and  *)
(* what ends it.                                                           *)
Labels ==
  {"distribute", "distSetup", "select", "setup"}
  \cup {"try", "unreserve", "preUnreserve", "poolSelect", "poolSetup"}
  \cup {"enter", "wait", "leave"}
  \cup {"rejected", "upstream", "release", "setupRelease", "finish", "done"}

Leases == {"none", "held", "half", "released"}

NoPlan == [source |-> "legacy", queue |-> "none", prio |-> 0,
           group |-> CHOOSE g \in Groups : TRUE]

(* Every counter, queue and local of a request stays in its type: the      *)
(* counters that are clamped at zero never go below it.                    *)
TypeOK ==
  /\ active \in [Channels -> Nat]
  /\ acctActive \in [Channels \X Accounts -> Nat]
  /\ reserved \in [Channels -> Nat]
  /\ ctxReserved \in [Requests \X Channels -> Nat]
  /\ skipped \in [Requests -> SUBSET Targets]
  /\ fellBack \subseteq Requests
  /\ retry \in [Requests -> 0 .. RetryTimes]
  /\ plan \in [Requests -> Plan]
  /\ target \in [Requests -> Targets \cup {NoTarget}]
  /\ origin \in [Requests -> Channels \cup {None}]
  /\ lease \in [Requests -> Leases]
  /\ depth \in [Queues -> Nat]
  /\ groupDepth \in [Queues \X Groups -> Nat]
  /\ waiters \in [Queues -> SUBSET Requests]
  /\ ticket \in [Requests -> Nat]
  /\ nextSeq \in Nat
  /\ panicked \subseteq Requests
  /\ pc \in [Requests -> Labels]

Init ==
  /\ active = [ch \in Channels |-> 0]
  /\ acctActive = [s \in Channels \X Accounts |-> 0]
  /\ reserved = [ch \in Channels |-> 0]
  /\ ctxReserved = [c \in Requests \X Channels |-> 0]
  /\ skipped = [r \in Requests |-> {}]
  /\ fellBack = {}
  /\ retry = [r \in Requests |-> 0]
  /\ plan = [r \in Requests |-> NoPlan]
  /\ target = [r \in Requests |-> NoTarget]
  /\ origin = [r \in Requests |-> None]
  /\ lease = [r \in Requests |-> "none"]
  /\ depth = [q \in Queues |-> 0]
  /\ groupDepth = [c \in Queues \X Groups |-> 0]
  /\ waiters = [q \in Queues |-> {}]
  /\ ticket = [r \in Requests |-> 0]
  /\ nextSeq = 0
  /\ panicked = {}
  /\ pc = [r \in Requests |-> "distribute"]

Goto(r, l) == pc' = [pc EXCEPT ![r] = l]

Channel(r) == target[r][1]
Account(r) == target[r][2]
InPool(r) == plan[r].queue = "pool"
InQueue(r) == ticket[r] > 0
Acquired(r) == lease[r] = "held"

DecUnclamped(n) == n - 1  \* mutant: no guard against an empty counter

(* Every decrement of a counter is guarded by "if active > 0". *)
Dec(n) == IF n > 0 THEN n - 1 ELSE 0

-----------------------------------------------------------------------------
(* Reservations.  Releasing one always decrements the counter of the       *)
(* channel, whether or not the request has a reservation on it.            *)

ReserveChannelSelectionRouting(r, ch) ==
  /\ reserved' = [reserved EXCEPT ![ch] = @ + 1]
  /\ ctxReserved' = [ctxReserved EXCEPT ![<<r, ch>>] = @ + 1]

ForgetsCounter(r, ch) ==  \* mutant: only forgets the entry of the context
  /\ ctxReserved' = [ctxReserved EXCEPT ![<<r, ch>>] = Dec(@)]
  /\ UNCHANGED reserved

ReleaseChannelSelectionReservation(r, ch) ==
  /\ reserved' = [reserved EXCEPT ![ch] = Dec(@)]
  /\ ctxReserved' = [ctxReserved EXCEPT ![<<r, ch>>] = Dec(@)]

SkipsAccountOnly(r) ==  \* mutant: a skip of a channel records nothing
  IF Account(r) = None THEN {} ELSE {target[r]}

(* What MarkChannelRuntimeSelectionSkipped excludes: the account, or the   *)
(* whole channel when the selection has no account.                        *)
RuntimeSkip(r) ==
  IF Account(r) = None THEN {t \in Targets : t[1] = Channel(r)} ELSE {target[r]}

-----------------------------------------------------------------------------
(* Selection of a channel: the distributor, then getChannel.               *)

SelectSmart(r, p, t) ==
  /\ pc[r] \in {"distribute", "select"}
  /\ p.source = "smart" /\ (p.queue = "pool" => r \notin fellBack)
  /\ t \notin skipped[r]
  /\ ReserveChannelSelectionRouting(r, t[1])
  /\ plan' = [plan EXCEPT ![r] = p]
  /\ target' = [target EXCEPT ![r] = t]
  /\ Goto(r, IF pc[r] = "distribute" THEN "distSetup" ELSE "setup")
  /\ UNCHANGED <<active, acctActive, queueVars, ctxVars, origin, lease,
                 panicked>>

SelectLegacy(r, p, t) ==
  /\ pc[r] \in {"distribute", "select"}
  /\ p.source = "legacy"
  /\ t[2] = None /\ t \notin skipped[r]
  /\ plan' = [plan EXCEPT ![r] = p]
  /\ target' = [target EXCEPT ![r] = t]
  /\ Goto(r, IF pc[r] = "distribute" THEN "distSetup" ELSE "setup")
  /\ UNCHANGED <<counterVars, queueVars, ctxVars, origin, lease,
                 panicked>>

(* No candidate is left. *)
SelectFails(r) ==
  /\ pc[r] \in {"distribute", "select"}
  /\ Goto(r, "finish")
  /\ UNCHANGED <<counterVars, queueVars, ctxVars, planVars, lease, panicked>>

(* SetupContextForSelectedChannel succeeds.  With a saturated primary pool *)
(* the reservation is given back before the pool is tried.                 *)
SetupOk(r) ==
  /\ pc[r] \in {"distSetup", "setup"}
  /\ Goto(r, IF InPool(r) THEN "preUnreserve" ELSE "try")
  /\ UNCHANGED <<counterVars, queueVars, ctxVars, planVars, lease, panicked>>

(* Relay refuses the request before its first attempt: the body, the       *)
(* price, the pre-consume.  Only the deferred release is left.             *)
RelayRefuses(r) ==
  /\ pc[r] = "distSetup"
  /\ Goto(r, "finish")
  /\ UNCHANGED <<counterVars, queueVars, ctxVars, planVars, lease, panicked>>

(* The setup of a selection fails.  A smart one is given back and its      *)
(* target skipped when another candidate is tried: a retry that consumes   *)
(* the extra retry it was granted, so RetryParam.Retry stays.              *)
SetupFails(r) ==
  /\ pc[r] \in {"distSetup", "setup"}
  /\ \/ /\ plan[r].source = "smart"
        /\ ReleaseChannelSelectionReservation(r, Channel(r))
        /\ \/ /\ Goto(r, IF pc[r] = "distSetup" THEN "distribute" ELSE "select")
              /\ skipped' = [skipped EXCEPT ![r] = @ \cup RuntimeSkip(r)]
           \/ /\ Goto(r, "finish")
              /\ UNCHANGED skipped
     \/ /\ plan[r].source = "legacy"
        /\ Goto(r, "finish")
        /\ UNCHANGED <<reserved, ctxReserved, skipped>>
  /\ UNCHANGED <<active, acctActive, queueVars, fellBack, retry, planVars,
                 lease, panicked>>

-----------------------------------------------------------------------------
(* The slot *)

HasRoomOffByOne(r) ==  \* mutant: a full channel admits one more
  /\ Limit > 0 => active[Channel(r)] <= Limit
  /\ Account(r) # None => acctActive[target[r]] < AccountLimit

HasRoom(r) ==
  /\ Limit > 0 => active[Channel(r)] < Limit
  /\ Account(r) # None => acctActive[target[r]] < AccountLimit

(* Both counters are incremented under both locks. *)
TryAcquireChannelConcurrency(r) ==
  /\ pc[r] = "try"
  /\ IF HasRoom(r)
     THEN /\ active' = [active EXCEPT ![Channel(r)] = @ + 1]
          /\ acctActive' = IF Account(r) = None THEN acctActive
                           ELSE [acctActive EXCEPT ![target[r]] = @ + 1]
          /\ lease' = [lease EXCEPT ![r] = "held"]
          /\ Goto(r, IF InQueue(r) /\ ~InPool(r) THEN "leave" ELSE "unreserve")
     ELSE /\ Goto(r, IF InPool(r) \/ plan[r].queue = "none" THEN "unreserve"
                     ELSE IF InQueue(r) THEN "wait" ELSE "enter")
          /\ UNCHANGED <<active, acctActive, lease>>
  /\ UNCHANGED <<reserved, ctxReserved, queueVars, ctxVars, planVars, panicked>>

(* The reservation is released after the acquisition.  A request of the    *)
(* pool that got no slot waits when it was offered a primary channel, and  *)
(* stops otherwise.                                                        *)
Unreserve(r) ==
  /\ pc[r] = "unreserve"
  /\ ReleaseChannelSelectionReservation(r, Channel(r))
  /\ IF ~InPool(r)
     THEN Goto(r, IF Acquired(r) THEN "upstream" ELSE "rejected")
     ELSE IF Acquired(r)
     THEN Goto(r, IF InQueue(r) THEN "leave" ELSE "poolSetup")
     ELSE \/ Goto(r, IF InQueue(r) THEN "wait" ELSE "enter")
          \/ Goto(r, IF InQueue(r) THEN "leave" ELSE "rejected")
  /\ UNCHANGED <<active, acctActive, queueVars, ctxVars, planVars, lease, panicked>>

PreUnreserve(r) ==
  /\ pc[r] = "preUnreserve"
  /\ ReleaseChannelSelectionReservation(r, Channel(r))
  /\ origin' = [origin EXCEPT ![r] = Channel(r)]
  /\ Goto(r, "poolSelect")
  /\ UNCHANGED <<active, acctActive, queueVars, ctxVars, plan, target, lease,
                 panicked>>

(* Each try of the pool selects a channel anew. *)
PoolSelect(r, t) ==
  /\ pc[r] = "poolSelect"
  /\ t \notin skipped[r]
  /\ ReserveChannelSelectionRouting(r, t[1])
  /\ target' = [target EXCEPT ![r] = t]
  /\ Goto(r, "try")
  /\ UNCHANGED <<active, acctActive, queueVars, ctxVars, plan, origin, lease,
                 panicked>>

(* No candidate: the wait ends without a plan, so what follows is about    *)
(* the channel selected first.                                             *)
PoolSelectFails(r) ==
  /\ pc[r] = "poolSelect"
  /\ target' = [target EXCEPT ![r] = <<origin[r], None>>]
  /\ Goto(r, IF InQueue(r) THEN "leave" ELSE "rejected")
  /\ UNCHANGED <<counterVars, queueVars, ctxVars, plan, origin, lease, panicked>>

(* The context is set up for the channel the pool gave; if that fails, the *)
(* lease is released before anything else is tried.                        *)
PoolSetup(r) ==
  /\ pc[r] = "poolSetup"
  /\ Goto(r, "upstream") \/ Goto(r, "setupRelease")
  /\ UNCHANGED <<counterVars, queueVars, ctxVars, planVars, lease, panicked>>

-----------------------------------------------------------------------------
(* The queue *)

QueueKey(r) == IF InPool(r) THEN Pool ELSE Channel(r)
QueueMaxDepth(q) == IF q = Pool THEN PoolMaxDepth ELSE MaxDepth

HighPriority(r) ==
  \/ plan[r].group \in HighPriorityGroups
  \/ HighPriorityThreshold > 0 /\ plan[r].prio >= HighPriorityThreshold

CapQueueLimit(l) ==
  IF AbsoluteMaxDepth > 0 /\ l > AbsoluteMaxDepth THEN AbsoluteMaxDepth ELSE l

ReservedDepth(q) ==
  IF HighPriorityReservedDepth > QueueMaxDepth(q)
  THEN QueueMaxDepth(q) ELSE HighPriorityReservedDepth

NormalLimit(q) == QueueMaxDepth(q) - ReservedDepth(q)

(* The waiters that are not of a high priority group. *)
NormalDepth(q) ==
  LET depths == [g \in HighPriorityGroups |-> groupDepth[<<q, g>>]]
      high   == MapThenSumSet(LAMBDA g : depths[g], HighPriorityGroups)
  IN  IF depth[q] > high THEN depth[q] - high ELSE 0

AllowOverReserve(r) ==  \* mutant: a normal request may take reserved depth
  LET q == QueueKey(r)
  IN  depth[q] < CapQueueLimit(QueueMaxDepth(q)
                   + (IF HighPriority(r) THEN HighPriorityExtraDepth ELSE 0))

AllowQueue(r) ==
  LET q == QueueKey(r)
  IN  \/ /\ HighPriority(r)
         /\ depth[q] < CapQueueLimit(QueueMaxDepth(q) + HighPriorityExtraDepth)
      \/ /\ ~HighPriority(r)
         /\ depth[q] < CapQueueLimit(QueueMaxDepth(q))
         /\ ReservedDepth(q) > 0 => NormalDepth(q) < NormalLimit(q)

EnterQueue(r) ==
  /\ pc[r] = "enter"
  /\ LET q == QueueKey(r)
     IN  IF AllowQueue(r)
         THEN /\ depth' = [depth EXCEPT ![q] = @ + 1]
              /\ groupDepth' = [groupDepth EXCEPT ![<<q, plan[r].group>>] = @ + 1]
              /\ waiters' = [waiters EXCEPT ![q] = @ \cup {r}]
              /\ nextSeq' = nextSeq + 1
              /\ ticket' = [ticket EXCEPT ![r] = nextSeq + 1]
              /\ Goto(r, "wait")
         ELSE /\ Goto(r, IF InPool(r) THEN "rejected" ELSE "unreserve")
              /\ UNCHANGED queueVars
  /\ UNCHANGED <<counterVars, ctxVars, planVars, lease, panicked>>

(* queueWaiterPrecedes *)
SameClass(a, b) ==
  /\ plan[a].prio = plan[b].prio
  /\ HighPriority(a) <=> HighPriority(b)

HigherClass(a, b) ==
  \/ plan[a].prio > plan[b].prio
  \/ plan[a].prio = plan[b].prio /\ HighPriority(a) /\ ~HighPriority(b)

PrecedesByClass(a, b) ==  \* mutant: the order of arrival is not compared
  HigherClass(a, b) \/ SameClass(a, b)

Precedes(a, b) ==
  HigherClass(a, b) \/ (SameClass(a, b) /\ ticket[a] < ticket[b])

IsQueueTurn(r) == \A w \in waiters[QueueKey(r)] \ {r} : Precedes(r, w)

(* A tick finds that it is the turn of the request.  The mutex of the      *)
(* queue manager is released before the slot is tried.                     *)
WaitTick(r) ==
  /\ pc[r] = "wait"
  /\ IsQueueTurn(r)
  /\ Goto(r, IF InPool(r) THEN "poolSelect" ELSE "try")
  /\ UNCHANGED <<counterVars, queueVars, ctxVars, planVars, lease, panicked>>

(* The timer fires, or the client is gone. *)
WaitEnds(r) ==
  /\ pc[r] = "wait"
  /\ Goto(r, "leave")
  /\ UNCHANGED <<counterVars, queueVars, ctxVars, planVars, lease, panicked>>

LeaveKeepsGroup(r) ==  \* mutant: the depth of the group is not decremented
  /\ pc[r] = "leave"
  /\ LET q == QueueKey(r)
     IN  /\ depth' = [depth EXCEPT ![q] = Dec(@)]
         /\ waiters' = [waiters EXCEPT ![q] = @ \ {r}]
  /\ ticket' = [ticket EXCEPT ![r] = 0]
  /\ Goto(r, IF ~InPool(r) THEN "unreserve"
             ELSE IF Acquired(r) THEN "poolSetup" ELSE "rejected")
  /\ UNCHANGED <<groupDepth, nextSeq, counterVars, ctxVars, planVars, lease, panicked>>

(* leaveQueue, deferred by the acquisition. *)
LeaveQueue(r) ==
  /\ pc[r] = "leave"
  /\ LET q == QueueKey(r)
     IN  /\ depth' = [depth EXCEPT ![q] = Dec(@)]
         /\ groupDepth' = [groupDepth EXCEPT ![<<q, plan[r].group>>] = Dec(@)]
         /\ waiters' = [waiters EXCEPT ![q] = @ \ {r}]
  /\ ticket' = [ticket EXCEPT ![r] = 0]
  /\ Goto(r, IF ~InPool(r) THEN "unreserve"
             ELSE IF Acquired(r) THEN "poolSetup" ELSE "rejected")
  /\ UNCHANGED <<nextSeq, counterVars, ctxVars, planVars, lease, panicked>>

-----------------------------------------------------------------------------
(* The attempt *)

(* The next selection: the target is skipped when the retry switches the   *)
(* channel; the plan and the lease of the attempt are forgotten.           *)
NextAttempt(r, skip) ==
  /\ skipped' = [skipped EXCEPT ![r] = @ \cup skip]
  /\ plan' = [plan EXCEPT ![r] = NoPlan]
  /\ target' = [target EXCEPT ![r] = NoTarget]
  /\ origin' = [origin EXCEPT ![r] = None]
  /\ lease' = [lease EXCEPT ![r] = "none"]
  /\ Goto(r, "select")

Stop(r) ==
  /\ Goto(r, "finish")
  /\ UNCHANGED <<ctxVars, planVars, lease>>

(* The concurrency limit rejected the request: the channel is skipped and  *)
(* another tried, outside the primary channels if the plan of the last try *)
(* of the pool still found them saturated; or there is none, or the client *)
(* is gone.                                                                *)
Rejected(r) ==
  /\ pc[r] = "rejected"
  /\ \/ /\ NextAttempt(r, {t \in Targets : t[1] = Channel(r)})
        /\ \/ InPool(r) /\ fellBack' = fellBack \cup {r}
           \/ UNCHANGED fellBack
        /\ UNCHANGED retry
     \/ Stop(r)
  /\ UNCHANGED <<counterVars, queueVars, panicked>>

(* ChannelConcurrencyLease.Release runs once: in the goroutine that reads  *)
(* the stream when the upstream has answered, or when the attempt ends.    *)
(* The channel counter and then the account counter are decremented.       *)
ReleaseChannelSlot(r) ==
  /\ lease[r] = "held" /\ pc[r] \in {"upstream", "release", "setupRelease"}
  /\ active' = [active EXCEPT ![Channel(r)] = Dec(@)]
  /\ lease' = [lease EXCEPT ![r] = IF Account(r) = None THEN "released" ELSE "half"]
  /\ UNCHANGED <<acctActive, reserved, ctxReserved, queueVars, ctxVars, planVars,
                 panicked, pc>>

LeaksAccountSlot(r) ==  \* mutant: only the channel counter is decremented
  /\ lease[r] = "half"
  /\ lease' = [lease EXCEPT ![r] = "released"]
  /\ UNCHANGED <<counterVars, queueVars, ctxVars, planVars, panicked, pc>>

ReleaseAccountSlot(r) ==
  /\ lease[r] = "half"
  /\ acctActive' = [acctActive EXCEPT ![target[r]] = Dec(@)]
  /\ lease' = [lease EXCEPT ![r] = "released"]
  /\ UNCHANGED <<active, reserved, ctxReserved, queueVars, ctxVars, planVars,
                 panicked, pc>>

(* The relay helper returns, or the body of the request cannot be read. *)
AttemptEnds(r) ==
  /\ pc[r] = "upstream"
  /\ Goto(r, "release")
  /\ UNCHANGED <<counterVars, queueVars, ctxVars, planVars, lease, panicked>>

(* The helper panics: the lease is not released by a deferred call. *)
Panic(r) ==
  /\ "panic" \in Faults
  /\ pc[r] = "upstream"
  /\ panicked' = panicked \cup {r}
  /\ Goto(r, "finish")
  /\ UNCHANGED <<counterVars, queueVars, ctxVars, planVars, lease>>

(* The lease is released: the request is answered or fails for good, or    *)
(* shouldRetry grants a retry that counts, or an extra one that must switch*)
(* the target.                                                             *)
AfterRelease(r) ==
  /\ pc[r] = "release" /\ lease[r] = "released"
  /\ \/ /\ retry[r] < RetryTimes
        /\ retry' = [retry EXCEPT ![r] = @ + 1]
        /\ NextAttempt(r, {}) \/ NextAttempt(r, RuntimeSkip(r))
        /\ UNCHANGED fellBack
     \/ /\ NextAttempt(r, RuntimeSkip(r))
        /\ UNCHANGED <<retry, fellBack>>
     \/ Stop(r)
  /\ UNCHANGED <<counterVars, queueVars, panicked>>

SetupKeepsLease(r) ==  \* mutant: goes on without waiting for the release
  /\ pc[r] = "setupRelease"
  /\ \/ /\ NextAttempt(r, RuntimeSkip(r))
        /\ UNCHANGED <<retry, fellBack>>
     \/ Stop(r)
  /\ UNCHANGED <<counterVars, queueVars, panicked>>

(* The setup of the channel of the pool failed and its lease is released. *)
AfterSetupRelease(r) ==
  /\ pc[r] = "setupRelease" /\ lease[r] = "released"
  /\ \/ /\ NextAttempt(r, RuntimeSkip(r))
        /\ UNCHANGED <<retry, fellBack>>
     \/ Stop(r)
  /\ UNCHANGED <<counterVars, queueVars, panicked>>

(* ReleaseChannelSelectionReservations, deferred by Relay: one by one. *)
FinishReservation(r, ch) ==
  /\ pc[r] = "finish" /\ ctxReserved[<<r, ch>>] > 0
  /\ ReleaseChannelSelectionReservation(r, ch)
  /\ UNCHANGED <<active, acctActive, queueVars, ctxVars, planVars, lease,
                 panicked, pc>>

(* The context of the request is gone, its lease may not be. *)
Finish(r) ==
  /\ pc[r] = "finish"
  /\ \A ch \in Channels : ctxReserved[<<r, ch>>] = 0
  /\ Goto(r, "done")
  /\ skipped' = [skipped EXCEPT ![r] = {}]
  /\ fellBack' = fellBack \ {r}
  /\ retry' = [retry EXCEPT ![r] = 0]
  /\ plan' = [plan EXCEPT ![r] = NoPlan]
  /\ UNCHANGED <<counterVars, queueVars, target, origin, lease, panicked>>

-----------------------------------------------------------------------------

(* What the goroutine of a request does on its own. *)
Proceed(r) ==
  \/ \E p \in Plans, t \in Targets : SelectSmart(r, p, t) \/ SelectLegacy(r, p, t)
  \/ SelectFails(r) \/ SetupOk(r) \/ SetupFails(r) \/ RelayRefuses(r)
  \/ TryAcquireChannelConcurrency(r) \/ Unreserve(r) \/ PreUnreserve(r)
  \/ (\E t \in Targets : PoolSelect(r, t)) \/ PoolSelectFails(r) \/ PoolSetup(r)
  \/ EnterQueue(r) \/ LeaveQueue(r) \/ Rejected(r)
  \/ ReleaseAccountSlot(r) \/ AfterRelease(r) \/ AfterSetupRelease(r)
  \/ (pc[r] # "upstream" /\ ReleaseChannelSlot(r))
  \/ (\E ch \in Channels : FinishReservation(r, ch)) \/ Finish(r)

Step(r) ==
  \/ Proceed(r)
  \/ WaitTick(r) \/ WaitEnds(r)
  \/ (pc[r] = "upstream" /\ ReleaseChannelSlot(r))
  \/ AttemptEnds(r) \/ Panic(r)

Done == (\A r \in Requests : pc[r] = "done") /\ UNCHANGED vars

Next == (\E r \in Requests : Step(r)) \/ Done

Spec == Init /\ [][Next]_vars

(* A goroutine keeps running and an attempt ends, by an answer, an error or *)
(* its watchdog.  The timer of a wait fires once and stays ready, while the*)
(* waiter comes back to its select after each tick: strong fairness.       *)
FairSpec ==
  /\ Spec
  /\ \A r \in Requests : WF_vars(Proceed(r)) /\ SF_vars(WaitEnds(r))
                         /\ WF_vars(AttemptEnds(r))

-----------------------------------------------------------------------------
(* Properties *)

Holders(ch) == {r \in Requests : lease[r] = "held" /\ Channel(r) = ch}
AccountHolders(s) == {r \in Requests : lease[r] \in {"held", "half"} /\ target[r] = s}

(* No channel and no account has more requests in flight than its limit,   *)
(* counted by the leases and not by the counters TryAcquire compares.      *)
HoldersWithinLimit ==
  /\ Limit > 0 => \A ch \in Channels : Cardinality(Holders(ch)) <= Limit
  /\ \A s \in Channels \X Accounts : Cardinality(AccountHolders(s)) <= AccountLimit

(* A counter is the number of leases that have not decremented it: no slot *)
(* is lost or given back twice, whichever goroutine releases it.           *)
ActiveIsHeld ==
  /\ \A ch \in Channels : active[ch] = Cardinality(Holders(ch))
  /\ \A s \in Channels \X Accounts : acctActive[s] = Cardinality(AccountHolders(s))

(* The depths the admission policy and the status page read agree with the *)
(* list the turns are decided by, in total and group by group, and a       *)
(* request waits in one queue at most.                                     *)
QueueDepthsAgree ==
  \A q \in Queues :
    /\ depth[q] = Cardinality(waiters[q])
    /\ \A g \in Groups :
         groupDepth[<<q, g>>] = Cardinality({r \in waiters[q] : plan[r].group = g})
    /\ \A r \in waiters[q] : InQueue(r) /\ QueueKey(r) = q

(* The queue is bounded: by the maximal depth with the extra depth of high *)
(* priority requests, and normal requests never take the slots that        *)
(* HighPriorityReservedDepth keeps.                                        *)
QueueBounds ==
  \A q \in Queues :
    LET normal == {r \in waiters[q] : ~HighPriority(r)}
    IN  /\ Cardinality(waiters[q])
             <= CapQueueLimit(QueueMaxDepth(q) + HighPriorityExtraDepth)
        /\ Cardinality(normal) <= CapQueueLimit(QueueMaxDepth(q))
        /\ ReservedDepth(q) > 0 => Cardinality(normal) <= NormalLimit(q)

(* A reservation counted for a channel is one some request still has to    *)
(* release, so the load the selection sees never stays too high.           *)
ReservedBacked ==
  \A ch \in Channels :
    LET kept == [r \in Requests |-> ctxReserved[<<r, ch>>]]
    IN  reserved[ch] <= MapThenSumSet(LAMBDA r : kept[r], Requests)

(* A request that has ended holds no slot, no reservation and no place in  *)
(* a queue, whichever way it ended, but for a handler that panicked.       *)
NothingLeftBehind ==
  \A r \in Requests : pc[r] = "done" =>
    /\ lease[r] \in {"none", "released"} \/ r \in panicked
    /\ \A ch \in Channels : ctxReserved[<<r, ch>>] = 0
    /\ \A q \in Queues : r \notin waiters[q]

QueuedAcquire(r) == InQueue(r) /\ lease[r] = "none" /\ lease'[r] = "held"

(* A waiter never gets a slot before another waiter of its queue that has  *)
(* the same priority and came first, although the turn is checked in one   *)
(* critical section and the slot taken in another.                         *)
NoOvertaking ==
  [][\A r \in Requests : QueuedAcquire(r) =>
       \A w \in waiters[QueueKey(r)] : SameClass(r, w) => ticket[r] <= ticket[w]]_vars

(* Every request ends: neither a full channel, nor a queue, nor retries    *)
(* that switch the channel without counting keep it forever.               *)
Termination == \A r \in Requests : <>(pc[r] = "done")

=============================================================================
