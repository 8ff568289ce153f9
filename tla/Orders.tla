------------------------------- MODULE Orders -------------------------------
(***************************************************************************)
(* One order (top-up, subscription purchase or redemption code) and the    *)
(* handlers that complete or close it: repeated payment notifications,     *)
(* the browser's return, the administrator, expiry and failure events.     *)
(*                                                                         *)
(* LockOrder is a reference-counted mutex in the memory of one process. A  *)
(* transaction reads the row in one step and writes, credits and commits   *)
(* in another: the FOR UPDATE it asks for is an option of gorm v1 that     *)
(* gorm v2 ignores, so between the two steps only SQLite excludes others.  *)
(***************************************************************************)
EXTENDS Naturals, FiniteSets

CONSTANTS
  Nodes,       \* processes
  Handlers,    \* requests in progress: notifications, returns, administrators
  Locks,       \* identities of refCountedMutex objects
  NoLock,      \* no mutex
  NoOne,       \* nobody holds a mutex
  Scenarios    \* [provider, roles, serial, faults]: see below

ASSUME OrderAssumption ==
  /\ IsFiniteSet(Handlers)
  /\ NoLock \notin Locks
  /\ NoOne \notin Handlers

VARIABLES
  scenario,  \* provider, the requests that occur, serial: a transaction that
             \* lost a race fails (SQLite), faults: what may go wrong
  fate,      \* the payment at the provider: open, paid, failed, expired
  acked,     \* the outcome the provider got its first positive answer for, or
             \* "none"; it then stops repeating itself
  status,    \* status of the order row
  credits,   \* how often quota was added, or the subscription created
  entry,     \* orderLocks of each node: the mutex of this order
  refCount,  \* refCountedMutex.refCount
  owner,     \* who holds refCountedMutex.mu
  pc, role, node, rcm, outcome,   \* locals of each handler
  faulty     \* history: a store access failed or a process crashed

order == <<status, credits>>
mutex == <<entry, refCount, owner>>
vars == <<scenario, fate, acked, order, mutex, pc, role, node, rcm,
          outcome, faulty>>

Providers == {"epay", "stripe", "creem", "creemSub", "waffo", "pancake",
              "epaySub", "code"}
Outcomes == {"done", "already", "refused", "unread", "error"}
Roles == {"paid", "return", "admin", "failed", "expired", "redeem",
          "none"}
Statuses == {"pending", "success", "failed", "expired"}
Places == {"idle", "lock", "wait", "read", "save", "write", "credit", "unlock",
           "release"}

Init ==
  /\ scenario \in Scenarios
  /\ fate = "open"
  /\ acked = "none"
  /\ status = "pending"
  /\ credits = 0
  /\ entry = [n \in Nodes |-> NoLock]
  /\ refCount = [l \in Locks |-> 0]
  /\ owner = [l \in Locks |-> NoOne]
  /\ pc = [h \in Handlers |-> "idle"]
  /\ role = [h \in Handlers |-> "none"]
  /\ node \in [Handlers -> Nodes]
  /\ rcm = [h \in Handlers |-> NoLock]
  /\ outcome = [h \in Handlers |-> "error"]
  /\ faulty = FALSE

Goto(h, place) == pc' = [pc EXCEPT ![h] = place]
Ends(h, result) == outcome' = [outcome EXCEPT ![h] = result]

(* One failure per behaviour. *)
StoreError == "db" \in scenario.faults /\ ~faulty /\ faulty' = TRUE
-----------------------------------------------------------------------------
(* Requests arrive. *)

(* The payment is decided at the provider. *)
PaymentDecided ==
  /\ fate = "open"
  /\ scenario.provider # "code"
  /\ fate' \in {"paid", "failed", "expired"}
  /\ UNCHANGED <<scenario, acked, order, mutex, pc, role, node, rcm,
                 outcome, faulty>>

(* Redeem and the failure of a Waffo payment take no lock. *)
Locking(k) ==
  /\ k # "redeem"
  /\ ~(k = "failed" /\ scenario.provider = "waffo")

(* What may arrive. handleWaffoPayment takes every status but PAY_SUCCESS   *)
(* for a failure: also one that the payment only passes through, and that   *)
(* may be delivered after the payment.                                      *)
Occurs(k) ==
  /\ k \in scenario.roles
  /\ CASE k = "failed" /\ scenario.provider = "waffo" -> TRUE
       [] k \in {"paid", "failed", "expired"} -> fate = k
       [] k = "return" -> fate = "paid"
       [] OTHER -> TRUE

(* A notification is delivered, for the first time or again, an             *)
(* administrator or a user asks.                                            *)
Deliver(h, k) ==
  /\ pc[h] = "idle"
  /\ Occurs(k)
  /\ role' = [role EXCEPT ![h] = k]
  /\ Goto(h, IF Locking(k) THEN "lock" ELSE "read")
  /\ UNCHANGED <<scenario, fate, acked, order, mutex, node, rcm, outcome,
                 faulty>>
-----------------------------------------------------------------------------
(* LockOrder and UnlockOrder. *)

(* A mutex that is new: nothing refers to it. There is one whenever a node  *)
(* needs it if Locks has as many elements as Nodes.                         *)
Unused(l) ==
  /\ \A n \in Nodes : entry[n] # l
  /\ \A h \in Handlers : rcm[h] # l

FreshLock == CHOOSE l \in Locks : Unused(l)

(* mutant: only the creator of the mutex is counted *)
LockUncounted(h) ==
  LET new == entry[node[h]] = NoLock
      l == IF new THEN FreshLock ELSE entry[node[h]]
  IN  /\ pc[h] = "lock"
      /\ new => l \in Locks /\ Unused(l)
      /\ entry' = [entry EXCEPT ![node[h]] = l]
      /\ refCount' = [refCount EXCEPT ![l] = IF new THEN 1 ELSE @]
      /\ owner' = [owner EXCEPT ![l] = IF new THEN NoOne ELSE @]
      /\ rcm' = [rcm EXCEPT ![h] = l]
      /\ Goto(h, "wait")
      /\ UNCHANGED <<scenario, fate, acked, order, role, node, outcome, faulty>>

(* Under createLock: find or create the mutex and count the reference.      *)
LockOrder(h) ==
  LET new == entry[node[h]] = NoLock
      l == IF new THEN FreshLock ELSE entry[node[h]]
  IN  /\ pc[h] = "lock"
      /\ new => l \in Locks /\ Unused(l)
      /\ entry' = [entry EXCEPT ![node[h]] = l]
      /\ refCount' = [refCount EXCEPT ![l] = IF new THEN 1 ELSE @ + 1]
      /\ owner' = [owner EXCEPT ![l] = IF new THEN NoOne ELSE @]
      /\ rcm' = [rcm EXCEPT ![h] = l]
      /\ Goto(h, "wait")
      /\ UNCHANGED <<scenario, fate, acked, order, role, node, outcome, faulty>>

(* rcm.mu.Lock() *)
LockMutex(h) ==
  /\ pc[h] = "wait"
  /\ owner[rcm[h]] = NoOne
  /\ owner' = [owner EXCEPT ![rcm[h]] = h]
  /\ Goto(h, "read")
  /\ UNCHANGED <<scenario, fate, acked, order, entry, refCount, role, node, rcm,
                 outcome, faulty>>

(* UnlockOrder looks the mutex up again and unlocks what it finds. *)
UnlockMutex(h) ==
  LET l == entry[node[h]]
  IN  /\ pc[h] = "unlock"
      /\ rcm' = [rcm EXCEPT ![h] = l]
      /\ IF l = NoLock
         THEN Goto(h, "idle") /\ UNCHANGED owner
         ELSE Goto(h, "release") /\ owner' = [owner EXCEPT ![l] = NoOne]
      /\ UNCHANGED <<scenario, fate, acked, order, entry, refCount, role, node,
                     outcome, faulty>>

(* mutant: every notification is acknowledged *)
AcknowledgesAlways(h) == role[h] = "paid"

(* The answers the provider takes as received: EpayNotify and StripeWebhook *)
(* give it whatever happened, CreemWebhook for every top-up that is not     *)
(* pending, the others for a completed order only.  To CreemWebhook a       *)
(* subscription order that could not be read is one that does not exist,    *)
(* and it answers 200 because a recurring order is no top-up.               *)
Acknowledges(h) ==
  /\ role[h] = "paid"
  /\ CASE scenario.provider \in {"epay", "stripe"} -> TRUE
       [] scenario.provider = "creem" -> outcome[h] \in {"done", "already", "refused"}
       [] scenario.provider = "creemSub" -> outcome[h] \in {"done", "already", "unread"}
       [] OTHER -> outcome[h] \in {"done", "already"}

Answered(h) ==
  IF acked = "none" /\ Acknowledges(h) THEN outcome[h] ELSE acked

(* mutant: the last but one user removes the mutex from the map *)
ReleaseAlwaysDeletes(h) ==
  /\ pc[h] = "release"
  /\ refCount' = [refCount EXCEPT ![rcm[h]] = @ - 1]
  /\ entry' = [entry EXCEPT ![node[h]] = NoLock]
  /\ acked' = Answered(h)
  /\ rcm' = [rcm EXCEPT ![h] = NoLock]
  /\ Goto(h, "idle")
  /\ role' = [role EXCEPT ![h] = "none"]
  /\ Ends(h, "error")
  /\ UNCHANGED <<scenario, fate, order, owner, node, faulty>>

(* Under createLock again: the last user removes the mutex from the map.    *)
(* The handler returns and its answer is sent.                              *)
ReleaseOrder(h) ==
  /\ pc[h] = "release"
  /\ refCount' = [refCount EXCEPT ![rcm[h]] = @ - 1]
  /\ entry' = IF refCount[rcm[h]] = 1
              THEN [entry EXCEPT ![node[h]] = NoLock] ELSE entry
  /\ acked' = Answered(h)
  /\ rcm' = [rcm EXCEPT ![h] = NoLock]
  /\ Goto(h, "idle")
  /\ role' = [role EXCEPT ![h] = "none"]
  /\ Ends(h, "error")
  /\ UNCHANGED <<scenario, fate, order, owner, node, faulty>>

(* The way out of a handler. *)
Leave(h) == Goto(h, IF Locking(role[h]) THEN "unlock" ELSE "idle")
-----------------------------------------------------------------------------
(* The order itself. *)

(* What the request makes of a pending order. *)
Target(h) == IF role[h] \in {"failed", "expired"} THEN role[h] ELSE "success"

(* The first half of a transaction, or GetTopUpByTradeNo of EpayNotify: an  *)
(* order that is not pending is left alone.                                 *)
ReadOrder(h) ==
  /\ pc[h] = "read"
  /\ \/ /\ status = "pending"
        /\ Goto(h, IF scenario.provider = "epay" /\ role[h] = "paid"
                   THEN "save" ELSE "write")
        /\ UNCHANGED <<outcome, faulty>>
     \/ /\ status # "pending"
        /\ Ends(h, IF status = "success" THEN "already" ELSE "refused")
        /\ Leave(h)
        /\ UNCHANGED faulty
     \/ /\ StoreError
        /\ Ends(h, "unread")
        /\ Leave(h)
  /\ UNCHANGED <<scenario, fate, acked, order, mutex, role, node, rcm>>

(* mutant: the status is saved and the quota not added *)
CompleteUncredited(h) ==
  /\ pc[h] = "write"
  /\ status' = Target(h)
  /\ Ends(h, "done")
  /\ Leave(h)
  /\ UNCHANGED <<scenario, fate, acked, credits, mutex, role, node, rcm,
                 faulty>>

(* The second half: Recharge, RechargeCreem, RechargeWaffo,                 *)
(* RechargeWaffoPancake, ManualCompleteTopUp, CompleteSubscriptionOrder and *)
(* Redeem save the row and add what was bought; UpdatePendingTopUpStatus,   *)
(* ExpireSubscriptionOrder and sessionAsyncPaymentFailed save the row.      *)
CompleteOrder(h) ==
  /\ pc[h] = "write"
  /\ \/ /\ scenario.serial => status = "pending"
        /\ status' = Target(h)
        /\ credits' = IF Target(h) = "success" THEN credits + 1 ELSE credits
        /\ Ends(h, "done")
        /\ UNCHANGED faulty
     \/ /\ scenario.serial /\ status # "pending"
        /\ Ends(h, "error")
        /\ UNCHANGED <<order, faulty>>
     \/ /\ StoreError
        /\ Ends(h, "error")
        /\ UNCHANGED order
  /\ Leave(h)
  /\ UNCHANGED <<scenario, fate, acked, mutex, role, node, rcm>>

(* EpayNotify saves the order and adds the quota in two accesses. *)
EpaySave(h) ==
  /\ pc[h] = "save"
  /\ \/ /\ status' = "success"
        /\ Goto(h, "credit")
        /\ UNCHANGED <<outcome, faulty>>
     \/ /\ StoreError
        /\ Ends(h, "error")
        /\ Leave(h)
        /\ UNCHANGED status
  /\ UNCHANGED <<scenario, fate, acked, credits, mutex, role, node, rcm>>

EpayCredit(h) ==
  /\ pc[h] = "credit"
  /\ \/ /\ credits' = credits + 1
        /\ Ends(h, "done")
        /\ UNCHANGED faulty
     \/ /\ StoreError
        /\ Ends(h, "error")
        /\ UNCHANGED credits
  /\ Leave(h)
  /\ UNCHANGED <<scenario, fate, acked, status, mutex, role, node, rcm>>

(* A process stops: its handlers and its locks are gone, its open           *)
(* transactions rolled back.                                                *)
Crash(n) ==
  /\ "crash" \in scenario.faults
  /\ ~faulty
  /\ faulty' = TRUE
  /\ pc' = [h \in Handlers |-> IF node[h] = n THEN "idle" ELSE pc[h]]
  /\ rcm' = [h \in Handlers |-> IF node[h] = n THEN NoLock ELSE rcm[h]]
  /\ entry' = [entry EXCEPT ![n] = NoLock]
  /\ role' = [h \in Handlers |-> IF node[h] = n THEN "none" ELSE role[h]]
  /\ outcome' = [h \in Handlers |-> IF node[h] = n THEN "error" ELSE outcome[h]]
  /\ refCount' = [l \in Locks |-> IF l = entry[n] THEN 0 ELSE refCount[l]]
  /\ owner' = [l \in Locks |-> IF l = entry[n] THEN NoOne ELSE owner[l]]
  /\ UNCHANGED <<scenario, fate, acked, order, node>>
-----------------------------------------------------------------------------
Step(h) ==
  \/ LockOrder(h) \/ LockMutex(h) \/ UnlockMutex(h) \/ ReleaseOrder(h)
  \/ ReadOrder(h) \/ CompleteOrder(h) \/ EpaySave(h) \/ EpayCredit(h)

Next ==
  \/ \E h \in Handlers : Step(h) \/ \E k \in Roles : Deliver(h, k)
  \/ \E n \in Nodes : Crash(n)
  \/ PaymentDecided

Spec == Init /\ [][Next]_vars

(* A provider repeats its notification until it is acknowledged, and there  *)
(* is always a goroutine for it (strong fairness, because the handlers of   *)
(* the model may all be busy); requests run to their end, and sync.Mutex    *)
(* does not starve a waiter.                                                *)
Redeliver(h) == acked = "none" /\ Deliver(h, "paid")

FairSpec ==
  /\ Spec
  /\ SF_vars(\E h \in Handlers : Redeliver(h))
  /\ \A h \in Handlers : WF_vars(Step(h)) /\ SF_vars(LockMutex(h))
-----------------------------------------------------------------------------
(* Type correctness. *)
TypeOK ==
  /\ scenario \in Scenarios
  /\ fate \in {"open", "paid", "failed", "expired"}
  /\ acked \in Outcomes \cup {"none"}
  /\ status \in Statuses
  /\ credits \in Nat
  /\ entry \in [Nodes -> Locks \cup {NoLock}]
  /\ refCount \in [Locks -> Nat]
  /\ owner \in [Locks -> Handlers \cup {NoOne}]
  /\ pc \in [Handlers -> Places]
  /\ role \in [Handlers -> Roles]
  /\ node \in [Handlers -> Nodes]
  /\ rcm \in [Handlers -> Locks \cup {NoLock}]
  /\ outcome \in [Handlers -> Outcomes]
  /\ faulty \in BOOLEAN

Inside(h) ==
  Locking(role[h]) /\ pc[h] \in {"read", "save", "write", "credit", "unlock"}

(* LockOrder excludes: of the handlers of one process at most one is between *)
(* LockOrder and UnlockOrder of an order, although the mutex is removed from *)
(* the map and created again while others wait.                              *)
LockIsExclusive ==
  \A g, h \in Handlers :
    Inside(g) /\ Inside(h) /\ node[g] = node[h] => g = h

(* The status as a user sees it, once the credit that belongs to it is made. *)
SettledStatus ==
  IF \E h \in Handlers : pc[h] = "credit" THEN "pending" ELSE status

(* Every order is completed with exactly one credit or closed without any,   *)
(* and never changes again, whatever notifications are repeated or overlap   *)
(* and although the row lock is ineffective: Orders implements OrderOnce.    *)
(* LockOrder is what makes it so in one process. Redeem and the failure      *)
(* event of Waffo take no lock: of them this is checked, and holds, only on  *)
(* a database that serializes transactions.                                  *)
Once == INSTANCE OrderOnce WITH status <- SettledStatus
ImplementsOnce == Once!Spec

(* What the code gives up: a Waffo order that some status other than         *)
(* PAY_SUCCESS closed before the payment was reported, and a subscription    *)
(* bought through Creem whose notification was answered 200 because the      *)
(* order could not be read.                                                  *)
GivenUp ==
  \/ scenario.provider = "waffo" /\ status = "failed"
  \/ scenario.provider = "creemSub" /\ acked = "unread"

(* Who paid gets what was bought, although notifications fail, because the   *)
(* provider is told to repeat them until the order is completed; but for the *)
(* two cases of GivenUp.                                                     *)
PaidIsCredited == (fate = "paid") ~> (credits = 1 \/ GivenUp)

(* What the row lock of ManualCompleteTopUp is for: concurrent completions   *)
(* credit an order once.                                                     *)
CreditedOnce == credits <= 1
=============================================================================
