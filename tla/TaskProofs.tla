----------------------------- MODULE TaskProofs -----------------------------
(***************************************************************************)
(* Proofs about TaskBilling, for any number of nodes and fetching users    *)
(* and any quotas: type correctness of every task; and, for a task whose   *)
(* final status is only set by guarded updates, that it is refunded at     *)
(* most once, billed for its outcome and never leaves a final status.      *)
(***************************************************************************)
EXTENDS TaskBilling, TLAPS

Labels == {"sleep", "sweepCas", "load", "ask", "apply", "applySuno", "saveSuno", "applyMj",
           "wallet", "sub", "subAvailable", "undoSub", "token",
           "fetchLoad", "fetchAsk", "fetchSave"}
Thens == {"sleep", "load", "saveSuno"}
Bill == [delta : Int, w : Int, s : Int, then : Thens]
Seen == [status : Statuses, done : BOOLEAN]

(* The parts of TypeOK: the world, the row and its charge, the actors. *)
WorldOK ==
  /\ task \in Tasks
  /\ upstream \in [state : Statuses \ {"NOT_START"}, actual : Nat]
  /\ timedOut \in BOOLEAN
  /\ faulty \in BOOLEAN /\ outside \in BOOLEAN

RowOK == status \in Statuses /\ done \in BOOLEAN

ChargeOK == subFree \in Nat /\ paid \in [w : Int, s : Int, t : Int]

ActorsOK ==
  /\ pc \in [Actors -> Labels]
  /\ copy \in [Actors -> Seen]
  /\ seen \in [Actors -> Reply]
  /\ bill \in [Actors -> Bill]

(* What an undo returns to the subscription is what that has paid. *)
UndoOK == \A a \in Actors : pc[a] = "undoSub" => bill[a].s > 0

Types == WorldOK /\ RowOK /\ ChargeOK /\ ActorsOK /\ UndoOK

LEMMA TypesGiveTypeOK == Types => TypeOK
<1> SUFFICES ASSUME Types PROVE TypeOK
  OBVIOUS
<1>1. pc \in [Actors -> {"sleep", "sweepCas", "load", "ask", "apply",
        "applySuno", "saveSuno", "applyMj", "wallet", "sub", "subAvailable",
        "undoSub", "token", "fetchLoad", "fetchAsk", "fetchSave"}]
  BY DEF Types, ActorsOK, Labels
<1>2. copy \in [Actors -> [status : Statuses, done : BOOLEAN]]
  BY DEF Types, ActorsOK, Seen
<1>3. bill \in [Actors -> [delta : Int, w : Int, s : Int,
                           then : {"sleep", "load", "saveSuno"}]]
  BY DEF Types, ActorsOK, Bill, Thens
<1> QED BY <1>1, <1>2, <1>3 DEF TypeOK, Types, WorldOK, RowOK, ChargeOK, ActorsOK

LEMMA TaskFacts ==
  ASSUME task \in Tasks
  PROVE  /\ task.fundW \in Int /\ 0 <= task.fundW /\ task.fundW <= Quota
         /\ task.source \in Sources
         /\ task.source = "wallet" => task.fundW = Quota
         /\ task.source = "subscription" => task.fundW = 0
         /\ Platform = "mj" => task.source = "wallet" /\ task.perCall
         /\ Quota \in Int /\ Quota > 0
BY TaskAssumption DEF Tasks, Platform

LEMMA Constants ==
  /\ Quota \in Int /\ Quota > 0
  /\ SubFree \in Nat
  /\ \A n \in Nodes : n \in Actors
  /\ \A f \in Fetchers : f \in Actors
  /\ \A a \in Actors : a \in Nodes \/ a \in Fetchers
BY TaskAssumption DEF Actors

LEMMA FinalQuotaIsNat == WorldOK => FinalQuota \in Nat
BY TaskAssumption DEF WorldOK, FinalQuota

LEMMA NoBillIsBill == NoBill \in Bill
BY DEF NoBill, Bill, Thens

LEMMA ShortIsReply == \A s \in Statuses : Short(s) \in Reply /\ Plain(Short(s))
<1> SUFFICES ASSUME NEW s \in Statuses PROVE Short(s) \in Reply /\ Plain(Short(s))
  OBVIOUS
<1>1. Short(s).status = s /\ Short(s).done = (s \in Final) /\ Short(s).reason = FALSE
  BY DEF Short
<1>2. Short(s) \in Reply
  BY DEF Short, Reply
<1>3. Plain(Short(s))
  BY <1>1 DEF Plain, Final
<1> QED BY <1>2, <1>3

LEMMA RepliesFacts ==
  ASSUME NEW s \in Statuses, NEW r \in Replies(s)
  PROVE  /\ r \in Reply /\ r.status = s
         /\ Plain(r) \/ "odd" \in Env
<1>1. CASE Platform \in {"video", "gemini"}
  BY <1>1, ShortIsReply DEF Replies, Short
<1>2. CASE Platform \notin {"video", "gemini"}
  BY <1>2 DEF Replies
<1> QED BY <1>1, <1>2

LEMMA TypesInit == Init => Types
<1> SUFFICES ASSUME Init PROVE Types
  OBVIOUS
<1>1. WorldOK
  BY DEF Init, WorldOK, Statuses, Final
<1>2. RowOK
  BY DEF Init, RowOK, Statuses
<1>3. ChargeOK
  BY Constants, TaskFacts DEF Init, ChargeOK
<1>4. ActorsOK
  <2>1. [status |-> "NOT_START", done |-> FALSE] \in Seen
    BY DEF Seen, Statuses
  <2>2. pc \in [Actors -> Labels]
    BY DEF Init, Labels
  <2>3. seen \in [Actors -> Reply]
    BY ShortIsReply DEF Init, Statuses
  <2> QED BY <2>1, <2>2, <2>3, NoBillIsBill DEF Init, ActorsOK
<1>5. UndoOK
  BY DEF Init, UndoOK
<1> QED BY <1>1, <1>2, <1>3, <1>4, <1>5 DEF Types

LEMMA WorldStep == Types /\ [Next]_vars => WorldOK'
<1> SUFFICES ASSUME Types, [Next]_vars PROVE WorldOK'
  OBVIOUS
<1> USE DEF Types, WorldOK, StoreError
<1>1. CASE UNCHANGED vars
  BY <1>1 DEF vars
<1>2. ASSUME NEW n \in Nodes, Sweep(n) \/ SweepCas(n) \/ PollLoad(n) \/ Ask(n) \/ Apply(n)
             \/ ApplySuno(n) \/ SaveSuno(n) \/ ApplyMj(n) \/ BulkFail(n) \/ Crash(n)
      PROVE  WorldOK'
  <2>1. UNCHANGED world
    BY <1>2 DEF Sweep, SweepCas, PollLoad, Ask, Apply, ApplySuno, SaveSuno, ApplyMj, BulkFail,
       Crash
  <2>2. faulty' = faulty \/ faulty' = TRUE
    BY <1>2 DEF Sweep, SweepCas, PollLoad, Ask, Apply, ApplySuno, SaveSuno, ApplyMj, BulkFail,
       Crash
  <2>3. outside' = outside \/ outside' = TRUE \/ \E x : outside' = (outside \/ x)
    BY <1>2 DEF Sweep, SweepCas, PollLoad, Ask, Apply, ApplySuno, SaveSuno, ApplyMj, BulkFail,
       Crash
  <2>4. faulty' \in BOOLEAN /\ outside' \in BOOLEAN
    BY <2>2, <2>3
  <2> QED BY <2>1, <2>4 DEF world
<1>3. ASSUME NEW n \in Nodes, Adjust(n) PROVE WorldOK'
  <2>1. UNCHANGED <<world, outside>> /\ (faulty' = faulty \/ faulty' = TRUE)
    BY <1>3 DEF Adjust, AdjustWallet, AdjustSub, AdjustSubAvailable, AdjustUndoSub, AdjustToken
  <2> QED BY <2>1 DEF world
<1>4. ASSUME NEW f \in Fetchers, Fetch(f) PROVE WorldOK'
  <2>1. UNCHANGED world /\ (faulty' = faulty \/ faulty' = TRUE)
    BY <1>4 DEF Fetch, FetchLoad, FetchAsk, FetchSave
  <2>2. outside' = outside \/ outside' = (outside \/ (seen[f].status \in Final /\ status \notin Final))
    BY <1>4 DEF Fetch, FetchLoad, FetchAsk, FetchSave
  <2>3. outside' \in BOOLEAN
    BY <2>2
  <2> QED BY <2>1, <2>3 DEF world
<1>5. CASE UpstreamEnds
  <2>1. upstream' \in [state : Statuses \ {"NOT_START"}, actual : Nat]
    BY <1>5, TaskAssumption DEF UpstreamEnds, Statuses, Final
  <2> QED BY <1>5, <2>1 DEF UpstreamEnds
<1>6. CASE TimePasses
  BY <1>6 DEF TimePasses
<1>7. CASE Notify
  <2>1. outside' = (outside \/ upstream.state \in Final) \/ outside' = TRUE
    BY <1>7 DEF Notify
  <2>2. outside' \in BOOLEAN
    BY <2>1
  <2> QED BY <1>7, <2>2 DEF Notify, world
<1> QED BY <1>1, <1>2, <1>3, <1>4, <1>5, <1>6, <1>7 DEF Next, Poll

LEMMA RowStep == Types /\ [Next]_vars => RowOK'
<1> SUFFICES ASSUME Types, [Next]_vars PROVE RowOK'
  OBVIOUS
<1> USE DEF Types, RowOK
<1>1. "FAILURE" \in Statuses /\ \A a \in Actors : seen[a] \in Reply /\ seen[a].status \in Statuses
  BY DEF ActorsOK, Statuses, Final, Reply
<1>2. ASSUME NEW s \in Statuses, status' = s, done' = (s \in Final) PROVE RowOK'
  BY <1>2
<1>3. ASSUME UNCHANGED <<status, done>> PROVE RowOK'
  BY <1>3
<1>4. ASSUME NEW n \in Nodes, SweepCas(n) \/ BulkFail(n) PROVE RowOK'
  BY <1>1, <1>4 DEF SweepCas, BulkFail
<1>5. ASSUME NEW n \in Nodes, Apply(n) \/ SaveSuno(n) PROVE RowOK'
  <2>1. CASE Apply(n)
    BY <1>1, <1>2, <1>3, <2>1, Constants DEF Apply
  <2>2. CASE SaveSuno(n)
    <3>1. \/ UNCHANGED <<status, done>>
          \/ /\ status' = seen[n].status
             /\ done' = (copy[n].done \/ SunoRefunds(seen[n]) \/ seen[n].status = "SUCCESS")
      BY <2>2 DEF SaveSuno
    <3> QED BY <1>1, <1>3, <3>1, Constants
  <2> QED BY <1>5, <2>1, <2>2
<1>6. ASSUME NEW n \in Nodes, ApplyMj(n) PROVE RowOK'
  <2>1. MjReply(n).status \in Statuses
    BY <1>1, Constants DEF MjReply, Reply
  <2>2. \/ UNCHANGED <<status, done>>
        \/ /\ status' = MjReply(n).status
           /\ done' = (MjReply(n).done \/ MjRefunds(MjReply(n)))
    BY <1>6 DEF ApplyMj
  <2> QED BY <1>3, <2>1, <2>2
<1>7. ASSUME NEW n \in Nodes, Sweep(n) \/ PollLoad(n) \/ Ask(n) \/ ApplySuno(n) \/ Crash(n)
      PROVE  UNCHANGED <<status, done>>
  BY <1>7 DEF Sweep, PollLoad, Ask, ApplySuno, Crash, rows
<1>8. ASSUME NEW n \in Nodes, Adjust(n) PROVE UNCHANGED <<status, done>>
  BY <1>8 DEF Adjust, AdjustWallet, AdjustSub, AdjustSubAvailable, AdjustUndoSub, AdjustToken
<1>9. ASSUME NEW f \in Fetchers, Fetch(f) PROVE RowOK'
  BY <1>1, <1>2, <1>3, <1>9, Constants DEF Fetch, FetchLoad, FetchAsk, FetchSave, rows
<1>10. CASE Notify
  <2>1. upstream.state \in Statuses /\ "IN_PROGRESS" \in Statuses
    BY DEF WorldOK, Statuses
  <2>2. ASSUME NEW r \in Replies(upstream.state), status' = r.status, done' = r.done
        PROVE  RowOK'
    BY <2>1, <2>2, RepliesFacts DEF Reply
  <2> QED BY <1>10, <2>1, <2>2 DEF Notify
<1>11. UNCHANGED vars \/ UpstreamEnds \/ TimePasses => UNCHANGED <<status, done>>
  BY DEF vars, UpstreamEnds, TimePasses, rows
<1> QED BY <1>3, <1>4, <1>5, <1>6, <1>7, <1>8, <1>9, <1>10, <1>11 DEF Next, Poll

LEMMA ChargeStep == Types /\ [Next]_vars => ChargeOK'
<1> SUFFICES ASSUME Types, [Next]_vars PROVE ChargeOK'
  OBVIOUS
<1> USE DEF ChargeOK
<1>1. subFree \in Nat /\ paid \in [w : Int, s : Int, t : Int]
  BY DEF Types
<1>2. \A a \in Actors : bill[a].delta \in Int /\ bill[a].w \in Int /\ bill[a].s \in Int
  BY DEF Types, ActorsOK, Bill
<1>3. ASSUME UNCHANGED <<subFree, paid>> PROVE ChargeOK'
  BY <1>1, <1>3
<1>4. ASSUME NEW n \in Nodes, AdjustWallet(n) \/ AdjustToken(n) PROVE ChargeOK'
  BY <1>1, <1>2, <1>4, Constants DEF AdjustWallet, AdjustToken
<1>5. ASSUME NEW n \in Nodes, AdjustSub(n) PROVE ChargeOK'
  BY <1>1, <1>2, <1>5, Constants DEF AdjustSub
<1>6. ASSUME NEW n \in Nodes, AdjustSubAvailable(n) PROVE ChargeOK'
  BY <1>1, <1>2, <1>6, Constants DEF AdjustSubAvailable
<1>7. ASSUME NEW n \in Nodes, AdjustUndoSub(n) PROVE ChargeOK'
  <2>1. bill[n].s > 0
    BY <1>7, Constants DEF Types, UndoOK, AdjustUndoSub
  <2> QED BY <1>1, <1>2, <1>7, <2>1, Constants DEF AdjustUndoSub
<1>8. ASSUME NEW n \in Nodes, Sweep(n) \/ SweepCas(n) \/ PollLoad(n) \/ Ask(n) \/ Apply(n)
             \/ ApplySuno(n) \/ SaveSuno(n) \/ ApplyMj(n) \/ BulkFail(n) \/ Crash(n)
      PROVE  UNCHANGED <<subFree, paid>>
  BY <1>8 DEF Sweep, SweepCas, PollLoad, Ask, Apply, ApplySuno, SaveSuno, ApplyMj, BulkFail,
     Crash, rows
<1>9. ASSUME NEW f \in Fetchers, Fetch(f) PROVE UNCHANGED <<subFree, paid>>
  BY <1>9 DEF Fetch, FetchLoad, FetchAsk, FetchSave, rows
<1>10. UNCHANGED vars \/ UpstreamEnds \/ TimePasses \/ Notify => UNCHANGED <<subFree, paid>>
  BY DEF vars, UpstreamEnds, TimePasses, Notify, rows
<1> QED BY <1>3, <1>4, <1>5, <1>6, <1>7, <1>8, <1>9, <1>10 DEF Next, Poll, Adjust

(* The parts of an adjustment. *)
LEMMA PartsFacts ==
  ASSUME task \in Tasks, NEW d \in Int, d > 0
  PROVE  /\ RefundParts(d).w \in Int /\ RefundParts(d).s \in Int
         /\ RefundParts(d).w + RefundParts(d).s = -d
         /\ RefundParts(d).w <= 0 /\ RefundParts(d).s <= 0
         /\ d <= Quota => RefundParts(d).w >= -task.fundW
         /\ d <= Quota => RefundParts(d).s >= task.fundW - Quota
         /\ ChargeParts(d).w \in Int /\ ChargeParts(d).s \in Int
         /\ ChargeParts(d).w >= 0 /\ ChargeParts(d).s >= 0
         /\ \/ ChargeParts(d).w = 0 /\ ChargeParts(d).s = 0
            \/ ChargeParts(d).w = d /\ ChargeParts(d).s = 0
            \/ ChargeParts(d).w = 0 /\ ChargeParts(d).s = d /\ task.source = "subscription"
<1>1. CASE task.source = "wallet"
  BY <1>1, TaskFacts DEF RefundParts, ChargeParts
<1>2. CASE task.source = "subscription"
  BY <1>2, TaskFacts DEF RefundParts, ChargeParts
<1>3. CASE task.source = "split"
  <2>1. RefundParts(d) = [w |-> -RefundSplit(d), s |-> RefundSplit(d) - d]
    BY <1>3 DEF RefundParts
  <2>2. RefundSplit(d) \in Int /\ 0 <= RefundSplit(d) /\ RefundSplit(d) <= task.fundW
        /\ RefundSplit(d) <= d /\ (RefundSplit(d) = d \/ RefundSplit(d) = task.fundW)
    BY TaskFacts DEF RefundSplit
  <2>3. ChargeParts(d) = [w |-> 0, s |-> 0]
    BY <1>3 DEF ChargeParts
  <2> QED BY <2>1, <2>2, <2>3, TaskFacts
<1> QED BY <1>1, <1>2, <1>3, TaskFacts DEF Sources

LEMMA StartTypes ==
  ASSUME Types, NEW a \in Actors, NEW d \in Int, NEW t \in Thens, StartAdjust(a, d, t)
  PROVE  /\ pc' \in [Actors -> Labels] /\ bill' \in [Actors -> Bill]
         /\ pc'[a] # "undoSub"
         /\ \A v \in Actors : v # a => pc'[v] = pc[v] /\ bill'[v] = bill[v]
<1> DEFINE p == IF d < 0 THEN RefundParts(-d) ELSE ChargeParts(d)
<1>1. p.w \in Int /\ p.s \in Int
  <2>1. CASE d < 0
    BY <2>1, PartsFacts DEF Types, WorldOK
  <2>2. CASE d > 0
    BY <2>2, PartsFacts DEF Types, WorldOK
  <2>3. CASE d = 0
    BY <2>3 DEF ChargeParts
  <2> QED BY <2>1, <2>2, <2>3
<1>2. bill' = [bill EXCEPT ![a] = [delta |-> d, w |-> p.w, s |-> p.s, then |-> t]]
  BY DEF StartAdjust
<1>3. [delta |-> d, w |-> p.w, s |-> p.s, then |-> t] \in Bill
  BY <1>1 DEF Bill
<1>4. \E l \in Labels : Goto(a, l) /\ l # "undoSub"
  <2>1. t \in Labels /\ t # "undoSub"
    BY DEF Thens, Labels
  <2>2. "wallet" \in Labels /\ "sub" \in Labels /\ "subAvailable" \in Labels
    BY DEF Labels
  <2> QED BY <2>1, <2>2 DEF StartAdjust
<1> HIDE DEF p
<1>5. bill' \in [Actors -> Bill]
  BY <1>2, <1>3 DEF Types, ActorsOK
<1> QED BY <1>2, <1>4, <1>5 DEF Goto, Types, ActorsOK

LEMMA ActorsStep == Types /\ [Next]_vars => ActorsOK' /\ UndoOK'
<1> SUFFICES ASSUME Types, [Next]_vars PROVE ActorsOK' /\ UndoOK'
  OBVIOUS
<1>1. /\ pc \in [Actors -> Labels] /\ copy \in [Actors -> Seen]
      /\ seen \in [Actors -> Reply] /\ bill \in [Actors -> Bill]
  BY DEF Types, ActorsOK
<1>2. ASSUME NEW a \in Actors, NEW l \in Labels, Goto(a, l), l # "undoSub", UNCHANGED bill
      PROVE  pc' \in [Actors -> Labels] /\ UndoOK'
  BY <1>1, <1>2 DEF Goto, Types, UndoOK
<1>3. ASSUME NEW a \in Actors, ReadRow(a) PROVE copy' \in [Actors -> Seen]
  <2>1. [status |-> status, done |-> done] \in Seen
    BY DEF Types, RowOK, Seen
  <2> QED BY <1>1, <1>3, <2>1 DEF ReadRow
<1>4. ASSUME NEW a \in Actors, NEW d \in Int, NEW t \in Thens, StartAdjust(a, d, t)
      PROVE  pc' \in [Actors -> Labels] /\ bill' \in [Actors -> Bill] /\ UndoOK'
  BY <1>4, StartTypes DEF Types, UndoOK
<1>5. -Quota \in Int /\ FinalQuota - Quota \in Int
  BY Constants, FinalQuotaIsNat DEF Types
<1>6. ASSUME NEW a \in Actors, NEW t \in Thens, RefundTaskQuota(a, t) \/ SettleOnComplete(a, t)
      PROVE  pc' \in [Actors -> Labels] /\ bill' \in [Actors -> Bill] /\ UndoOK'
  BY <1>4, <1>5, <1>6 DEF RefundTaskQuota, SettleOnComplete
<1>7. ASSUME NEW a \in Actors, NEW l \in Labels, NoAdjust(a, l), l # "undoSub"
      PROVE  pc' \in [Actors -> Labels] /\ bill' \in [Actors -> Bill] /\ UndoOK'
  BY <1>1, <1>2, <1>7 DEF NoAdjust
<1>8. Thens \subseteq Labels /\ "undoSub" \notin Thens /\ "sleep" \in Thens /\ "load" \in Thens
      /\ "saveSuno" \in Thens
  BY DEF Thens, Labels
<1>9. \A a \in Actors : bill[a].then \in Thens /\ bill[a].delta \in Int /\ bill[a].s \in Int
  BY <1>1 DEF Bill
<1>10. ASSUME NEW a \in Actors, AbandonAdjust(a)
       PROVE  pc' \in [Actors -> Labels] /\ bill' \in [Actors -> Bill] /\ UndoOK'
  BY <1>1, <1>2, <1>8, <1>9, <1>10 DEF AbandonAdjust
<1>11. ASSUME NEW n \in Nodes, Sweep(n) \/ PollLoad(n) PROVE ActorsOK' /\ UndoOK'
  <2>1. \E l \in Labels : l # "undoSub" /\ Goto(n, l)
    BY <1>11 DEF Sweep, PollLoad, Labels
  <2> QED BY <1>1, <1>2, <1>3, <1>11, <2>1, Constants DEF Sweep, PollLoad, ActorsOK
<1>12. ASSUME NEW n \in Nodes, SweepCas(n) PROVE ActorsOK' /\ UndoOK'
  <2>1. NoAdjust(n, "load") \/ RefundTaskQuota(n, "load")
    BY <1>12 DEF SweepCas
  <2> QED BY <1>1, <1>6, <1>7, <1>8, <1>12, <2>1, Constants DEF SweepCas, ActorsOK
<1>13. ASSUME NEW n \in Nodes, Ask(n) PROVE ActorsOK' /\ UndoOK'
  <2>1. \E l \in Labels : l # "undoSub" /\ Goto(n, l)
    <3>1. \E l \in {"applySuno", "applyMj", "apply", "sleep"} : Goto(n, l)
      BY <1>13 DEF Ask
    <3> QED BY <3>1 DEF Labels
  <2>2. seen' \in [Actors -> Reply]
    <3>1. upstream.state \in Statuses /\ "FAILURE" \in Statuses
      BY DEF Types, WorldOK, Statuses, Final
    <3>2. UNCHANGED seen \/ \E r \in Reply : seen' = [seen EXCEPT ![n] = r]
      BY <1>13, <3>1, ShortIsReply, RepliesFacts DEF Ask
    <3> QED BY <1>1, <3>2
  <2> QED BY <1>1, <1>2, <1>13, <2>1, <2>2, Constants DEF Ask, ActorsOK
<1>14. ASSUME NEW n \in Nodes, Apply(n) \/ ApplyMj(n) PROVE ActorsOK' /\ UndoOK'
  <2>1. NoAdjust(n, "sleep") \/ RefundTaskQuota(n, "sleep") \/ SettleOnComplete(n, "sleep")
    BY <1>14 DEF Apply, ApplyMj, BillOutcome
  <2>2. UNCHANGED <<copy, seen>>
    BY <1>14 DEF Apply, ApplyMj
  <2> QED BY <1>1, <1>6, <1>7, <1>8, <2>1, <2>2, Constants DEF ActorsOK
<1>15. ASSUME NEW n \in Nodes, ApplySuno(n) PROVE ActorsOK' /\ UndoOK'
  <2>1. RefundTaskQuota(n, "saveSuno") \/ NoAdjust(n, "saveSuno") \/ NoAdjust(n, "sleep")
    BY <1>15 DEF ApplySuno
  <2> QED BY <1>1, <1>6, <1>7, <1>8, <1>15, <2>1, Constants DEF ApplySuno, ActorsOK
<1>16. ASSUME NEW n \in Nodes, SaveSuno(n) \/ BulkFail(n) PROVE ActorsOK' /\ UndoOK'
  <2>1. Goto(n, "sleep") /\ UNCHANGED <<copy, seen, bill>>
    BY <1>16 DEF SaveSuno, BulkFail
  <2> QED BY <1>1, <1>2, <1>8, <2>1, Constants DEF ActorsOK
<1>17. ASSUME NEW n \in Nodes, Crash(n) PROVE ActorsOK' /\ UndoOK'
  <2>1. pc' = [pc EXCEPT ![n] = "sleep"] /\ bill' = [bill EXCEPT ![n] = NoBill]
        /\ UNCHANGED <<copy, seen>>
    BY <1>17 DEF Crash, Goto
  <2>2. UndoOK'
    BY <1>1, <2>1 DEF Types, UndoOK
  <2>3. pc' \in [Actors -> Labels]
    BY <1>1, <1>8, <2>1
  <2> QED BY <1>1, <2>1, <2>2, <2>3, NoBillIsBill DEF ActorsOK
<1>18. ASSUME NEW n \in Nodes, AdjustWallet(n) PROVE ActorsOK' /\ UndoOK'
  <2>1. CASE Goto(n, "undoSub") /\ UNCHANGED bill /\ bill[n].s > 0
    BY <1>1, <1>18, <2>1, Constants DEF AdjustWallet, ActorsOK, Goto, Labels, Types, UndoOK
  <2>2. CASE AbandonAdjust(n)
    BY <1>1, <1>10, <1>18, <2>2, Constants DEF AdjustWallet, ActorsOK
  <2>3. CASE UNCHANGED bill /\ \E l \in Thens \cup {"sub", "token"} : Goto(n, l)
    <3>1. \E l \in Labels : l # "undoSub" /\ Goto(n, l)
      BY <1>8, <2>3 DEF Labels
    <3> QED BY <1>1, <1>2, <1>18, <2>3, <3>1, Constants DEF AdjustWallet, ActorsOK
  <2> QED BY <1>9, <1>18, <2>1, <2>2, <2>3, Constants DEF AdjustWallet
<1>19. ASSUME NEW n \in Nodes, AdjustSub(n) \/ AdjustUndoSub(n) \/ AdjustToken(n)
       PROVE  ActorsOK' /\ UndoOK'
  <2>1. UNCHANGED <<copy, seen, bill>>
    BY <1>19 DEF AdjustSub, AdjustUndoSub, AdjustToken, AbandonAdjust
  <2>2. \E l \in Thens \cup {"token"} : Goto(n, l)
    BY <1>9, <1>19, Constants DEF AdjustSub, AdjustUndoSub, AdjustToken, AbandonAdjust
  <2>3. \E l \in Labels : l # "undoSub" /\ Goto(n, l)
    BY <1>8, <2>2 DEF Labels
  <2> QED BY <1>1, <1>2, <2>1, <2>3, Constants DEF ActorsOK
<1>20. ASSUME NEW n \in Nodes, AdjustSubAvailable(n) PROVE ActorsOK' /\ UndoOK'
  <2>1. CASE AbandonAdjust(n)
    BY <1>1, <1>10, <1>20, <2>1, Constants DEF AdjustSubAvailable, ActorsOK
  <2>2. CASE ~AbandonAdjust(n)
    <3> DEFINE takes == IF subFree < bill[n].delta THEN subFree ELSE bill[n].delta
               rest == bill[n].delta - takes
    <3>1. takes \in Int /\ rest \in Int
      BY <1>9, Constants DEF Types, ChargeOK
    <3>2. bill' = [bill EXCEPT ![n].w = rest, ![n].s = takes]
      BY <1>20, <2>2 DEF AdjustSubAvailable
    <3>3. \E l \in {"wallet", "token"} : Goto(n, l)
      BY <1>20, <2>2 DEF AdjustSubAvailable
    <3> HIDE DEF takes, rest
    <3>4. bill' \in [Actors -> Bill] /\ \A v \in Actors : v # n => bill'[v] = bill[v]
      BY <1>1, <3>1, <3>2, Constants DEF Bill
    <3>5. pc' \in [Actors -> Labels] /\ UndoOK'
      BY <1>1, <3>3, <3>4, Constants DEF Goto, Labels, Types, UndoOK
    <3> QED BY <1>1, <1>20, <3>4, <3>5 DEF AdjustSubAvailable, ActorsOK
  <2> QED BY <2>1, <2>2
<1>21. ASSUME NEW f \in Fetchers, Fetch(f) PROVE ActorsOK' /\ UndoOK'
  <2>1. UNCHANGED bill /\ \E l \in Labels : l # "undoSub" /\ Goto(f, l)
    BY <1>21 DEF Fetch, FetchLoad, FetchAsk, FetchSave, Labels
  <2>2. seen' \in [Actors -> Reply]
    <3>1. upstream.state \in Statuses
      BY DEF Types, WorldOK
    <3>2. UNCHANGED seen \/ \E r \in Reply : seen' = [seen EXCEPT ![f] = r]
      BY <1>21, <3>1, RepliesFacts DEF Fetch, FetchLoad, FetchAsk, FetchSave
    <3> QED BY <1>1, <3>2
  <2>3. copy' \in [Actors -> Seen]
    BY <1>1, <1>3, <1>21, Constants DEF Fetch, FetchLoad, FetchAsk, FetchSave
  <2> QED BY <1>1, <1>2, <2>1, <2>2, <2>3, Constants DEF ActorsOK
<1>22. UNCHANGED vars \/ UpstreamEnds \/ TimePasses \/ Notify
         => UNCHANGED <<pc, copy, seen, bill>>
  BY DEF vars, UpstreamEnds, TimePasses, Notify
<1>23. ASSUME UNCHANGED <<pc, copy, seen, bill>> PROVE ActorsOK' /\ UndoOK'
  BY <1>1, <1>23 DEF ActorsOK, Types, UndoOK
<1> QED BY <1>11, <1>12, <1>13, <1>14, <1>15, <1>16, <1>17, <1>18, <1>19, <1>20, <1>21, <1>22,
           <1>23 DEF Next, Poll, Adjust

LEMMA TypesAlways == Spec => []Types
<1>1. Types /\ [Next]_vars => Types'
  BY WorldStep, RowStep, ChargeStep, ActorsStep DEF Types
<1> QED BY <1>1, TypesInit, PTL DEF Spec

(* The row, the charge and what every node and fetcher has read stay in      *)
(* their types, for every kind of task; the subscription never pays more     *)
(* than it has left.                                                         *)
THEOREM TaskTypeOK == Spec => []TypeOK
<1> QED BY TypesAlways, TypesGiveTypeOK, PTL
-----------------------------------------------------------------------------
FetchPlaces == {"fetchLoad", "fetchAsk", "fetchSave"}

(* What the place of a node or a fetcher says about what it has read. *)
NodeFits(n) ==
  /\ pc[n] \in {"sweepCas", "ask", "apply", "applyMj"} => copy[n].status \notin Final
  /\ pc[n] = "apply" => Platform \in {"video", "gemini"}
  /\ pc[n] = "applyMj" => Platform = "mj"
  /\ pc[n] = "sweepCas" => Platform # "mj" /\ timedOut
  /\ pc[n] \notin {"applySuno", "saveSuno"} \cup FetchPlaces
  /\ bill[n].then \in {"sleep", "load"}

FetcherFits(f) ==
  /\ pc[f] \in FetchPlaces
  /\ Platform # "gemini" => pc[f] = "fetchLoad"

(* A success is one of the provider.  Where users fetch, a failure is too,   *)
(* so that a fetch finds the state which the row already has.                *)
AnswersFit ==
  /\ status = "SUCCESS" => upstream.state = "SUCCESS"
  /\ \A a \in Actors : seen[a].status = "SUCCESS" => upstream.state = "SUCCESS"
  /\ Platform = "mj" => \A a \in Actors : Plain(seen[a])
  /\ (Platform = "gemini" /\ Fetchers # {}) =>
       /\ status \in Final => upstream.state = status
       /\ \A a \in Actors : seen[a].status \in Final => upstream.state = seen[a].status
       /\ \A f \in Fetchers :
            /\ copy[f].status \in Final => upstream.state = copy[f].status
            /\ pc[f] = "fetchSave" /\ copy[f].status \in Final => seen[f].status = copy[f].status

PlacesFit ==
  /\ Guarded
  /\ done <=> status \in Final
  /\ timedOut => "timeout" \in Env
  /\ \A n \in Nodes : NodeFits(n)
  /\ \A f \in Fetchers : FetcherFits(f)
  /\ AnswersFit

(* The charge of the submission. *)
Submitted == paid.w = task.fundW /\ paid.s = Quota - task.fundW /\ paid.t = Quota

(* How far the adjustment of a has come. *)
Progress(a) ==
  /\ paid.t = Quota
  /\ pc[a] \in {"wallet", "subAvailable", "undoSub"} => paid.w = task.fundW
  /\ pc[a] \in {"sub", "token"} => paid.w = task.fundW + bill[a].w
  /\ pc[a] = "undoSub" => bill[a].s > 0 /\ faulty
  /\ IF pc[a] \in {"undoSub", "token"} \/ (pc[a] = "wallet" /\ bill[a].delta > 0)
     THEN paid.s = Quota - task.fundW + bill[a].s
     ELSE paid.s = Quota - task.fundW

(* What a is to move: the parts make up the whole, and a refund takes back   *)
(* no more from a source than that source was charged.                       *)
Parts(a) ==
  /\ bill[a].delta # 0 /\ bill[a].delta >= -Quota
  /\ pc[a] = "subAvailable" => bill[a].delta > 0 /\ task.source = "split"
  /\ pc[a] # "subAvailable" => bill[a].w + bill[a].s = bill[a].delta
  /\ pc[a] = "sub" /\ bill[a].delta > 0 => task.source = "subscription" /\ bill[a].w = 0
  /\ IF bill[a].delta < 0
     THEN -task.fundW <= bill[a].w /\ bill[a].w <= 0
          /\ task.fundW - Quota <= bill[a].s /\ bill[a].s <= 0
     ELSE bill[a].w >= 0 /\ bill[a].s >= 0

(* The adjustment is the one the outcome calls for. *)
Due(a) ==
  ~outside =>
    \/ status = "FAILURE" /\ bill[a].delta = -Quota
    \/ /\ status = "SUCCESS" /\ Platform \in {"video", "gemini"}
       /\ bill[a].delta = FinalQuota - Quota

(* Nobody touches the charge before the status is final, and one node at     *)
(* most afterwards.                                                          *)
OneBills ==
  /\ status \notin Final => Submitted /\ \A a \in Actors : ~Billing(a)
  /\ \A a, b \in Actors : Billing(a) /\ Billing(b) => a = b
  /\ \A a \in Actors : Billing(a) => Progress(a) /\ Parts(a) /\ Due(a)

Money == OneBills /\ GivenBackAtMostOnce /\ OutcomeBilled

LEMMA GotoFacts ==
  ASSUME ActorsOK, NEW a \in Actors, NEW l, Goto(a, l)
  PROVE  pc'[a] = l /\ \A v \in Actors : v # a => pc'[v] = pc[v]
BY DEF ActorsOK, Goto

LEMMA StartFacts ==
  ASSUME Types, NEW a \in Actors, NEW d \in Int, NEW t \in Thens, StartAdjust(a, d, t)
  PROVE  /\ pc'[a] \in {t, "wallet", "sub", "subAvailable"}
         /\ bill'[a].then = t
         /\ \A v \in Actors : v # a => pc'[v] = pc[v] /\ bill'[v] = bill[v]
<1>1. pc'[a] \in {t, "wallet", "sub", "subAvailable"}
  BY DEF StartAdjust, Goto, Types, ActorsOK
<1>2. bill'[a].then = t
  BY DEF StartAdjust, Types, ActorsOK
<1> QED BY <1>1, <1>2, StartTypes

Moves(a) ==
  \/ a \in Nodes /\ (Poll(a) \/ BulkFail(a) \/ Crash(a))
  \/ a \in Fetchers /\ Fetch(a)

LEMMA NextMoves ==
  ASSUME [Next]_vars
  PROVE  \/ \E a \in Actors : Moves(a)
         \/ UNCHANGED vars \/ UpstreamEnds \/ TimePasses \/ Notify
BY Constants DEF Next, Moves

LEMMA Deltas == Types => -Quota \in Int /\ FinalQuota - Quota \in Int
BY Constants, FinalQuotaIsNat DEF Types

(* A step of one node or user leaves alone what the others have read. *)
LEMMA OthersKept ==
  ASSUME Types, NEW a \in Actors, Moves(a), NEW v \in Actors, v # a
  PROVE  pc'[v] = pc[v] /\ copy'[v] = copy[v] /\ seen'[v] = seen[v] /\ bill'[v] = bill[v]
<1>1. /\ pc \in [Actors -> Labels] /\ copy \in [Actors -> Seen]
      /\ seen \in [Actors -> Reply] /\ bill \in [Actors -> Bill]
  BY DEF Types, ActorsOK
<1>2. ASSUME NEW l, Goto(a, l) PROVE pc'[v] = pc[v]
  BY <1>1, <1>2 DEF Goto
<1>3. ASSUME NEW t \in Thens, RefundTaskQuota(a, t) \/ SettleOnComplete(a, t)
      PROVE  pc'[v] = pc[v] /\ bill'[v] = bill[v]
  BY <1>3, Deltas, StartFacts DEF RefundTaskQuota, SettleOnComplete
<1>4. ASSUME NEW l, NoAdjust(a, l) PROVE pc'[v] = pc[v] /\ bill'[v] = bill[v]
  BY <1>2, <1>4 DEF NoAdjust
<1>5. "sleep" \in Thens /\ "load" \in Thens /\ "saveSuno" \in Thens
  BY DEF Thens
<1>6. copy'[v] = copy[v] /\ seen'[v] = seen[v]
  BY <1>1 DEF Moves, Poll, Adjust, Fetch, Sweep, SweepCas, PollLoad, Ask, Apply, ApplySuno,
     SaveSuno, ApplyMj, BulkFail, Crash, AdjustWallet, AdjustSub, AdjustSubAvailable,
     AdjustUndoSub, AdjustToken, FetchLoad, FetchAsk, FetchSave, ReadRow
<1>7. CASE Sweep(a) \/ PollLoad(a) \/ Ask(a) \/ SaveSuno(a) \/ BulkFail(a) \/ Fetch(a)
  <2>1. UNCHANGED bill /\ \E l : Goto(a, l)
    BY <1>7 DEF Sweep, PollLoad, Ask, SaveSuno, BulkFail, Fetch, FetchLoad, FetchAsk, FetchSave
  <2> QED BY <1>2, <1>6, <2>1
<1>8. CASE SweepCas(a)
  BY <1>3, <1>4, <1>5, <1>6, <1>8 DEF SweepCas
<1>9. CASE Apply(a) \/ ApplyMj(a)
  BY <1>3, <1>4, <1>5, <1>6, <1>9 DEF Apply, ApplyMj, BillOutcome
<1>10. CASE ApplySuno(a)
  BY <1>3, <1>4, <1>5, <1>6, <1>10 DEF ApplySuno
<1>11. CASE Crash(a)
  BY <1>1, <1>2, <1>6, <1>11 DEF Crash
<1>12. CASE AdjustWallet(a) \/ AdjustSub(a) \/ AdjustUndoSub(a) \/ AdjustToken(a)
  <2>1. UNCHANGED bill /\ \E l : Goto(a, l)
    BY <1>12 DEF AdjustWallet, AdjustSub, AdjustUndoSub, AdjustToken, AbandonAdjust
  <2> QED BY <1>2, <1>6, <2>1
<1>13. CASE AdjustSubAvailable(a)
  <2>1. \E l : Goto(a, l)
    BY <1>13 DEF AdjustSubAvailable, AbandonAdjust
  <2>2. bill'[v] = bill[v]
    BY <1>1, <1>13 DEF AdjustSubAvailable, AbandonAdjust
  <2> QED BY <1>2, <1>6, <2>1, <2>2
<1> QED BY <1>7, <1>8, <1>9, <1>10, <1>11, <1>12, <1>13 DEF Moves, Poll, Adjust

(* The task stays what it is, and the provider's end is final. *)
LEMMA WorldMoves ==
  ASSUME Types, [Next]_vars
  PROVE  /\ UNCHANGED task
         /\ upstream' # upstream => UpstreamEnds /\ upstream.state = "IN_PROGRESS"
         /\ upstream.state \in Final => upstream' = upstream
         /\ timedOut => timedOut'
<1> USE DEF world
<1>1. ASSUME NEW n \in Nodes, Sweep(n) \/ SweepCas(n) \/ PollLoad(n) \/ Ask(n) \/ Apply(n)
             \/ ApplySuno(n) \/ SaveSuno(n) \/ ApplyMj(n) \/ BulkFail(n) \/ Crash(n)
      PROVE  UNCHANGED world
  BY <1>1 DEF Sweep, SweepCas, PollLoad, Ask, Apply, ApplySuno, SaveSuno, ApplyMj, BulkFail,
     Crash
<1>2. ASSUME NEW n \in Nodes, Adjust(n) PROVE UNCHANGED world
  BY <1>2 DEF Adjust, AdjustWallet, AdjustSub, AdjustSubAvailable, AdjustUndoSub, AdjustToken
<1>3. ASSUME NEW f \in Fetchers, Fetch(f) PROVE UNCHANGED world
  BY <1>3 DEF Fetch, FetchLoad, FetchAsk, FetchSave
<1>4. UNCHANGED vars \/ Notify => UNCHANGED world
  BY DEF vars, Notify
<1>5. TimePasses => UNCHANGED <<task, upstream>> /\ timedOut'
  BY DEF TimePasses
<1>6. UpstreamEnds => UNCHANGED <<task, timedOut>> /\ upstream.state = "IN_PROGRESS"
  BY DEF UpstreamEnds
<1>7. "IN_PROGRESS" \notin Final
  BY DEF Final
<1> QED BY <1>1, <1>2, <1>3, <1>4, <1>5, <1>6, <1>7 DEF Next, Poll

(* The places of the node that moves. *)
LEMMA NodeFitsStep ==
  ASSUME Types, PlacesFit, NEW n \in Nodes, Moves(n), UNCHANGED <<task, timedOut>>
  PROVE  NodeFits(n)'
<1>1. n \in Actors /\ n \notin Fetchers /\ ActorsOK /\ NodeFits(n) /\ Guarded
  BY Constants, TaskAssumption DEF Types, PlacesFit
<1>2. \A l : Goto(n, l) => pc'[n] = l
  BY <1>1, GotoFacts
<1>3. ASSUME pc'[n] \in {"sleep", "load", "wallet", "sub", "subAvailable", "undoSub", "token"},
             bill'[n].then \in {"sleep", "load"}
      PROVE  NodeFits(n)'
  BY <1>3 DEF NodeFits, FetchPlaces
<1>4. "sleep" \in Thens /\ "load" \in Thens
  BY DEF Thens
<1>5. ASSUME NEW t \in {"sleep", "load"}, RefundTaskQuota(n, t) \/ SettleOnComplete(n, t)
      PROVE  NodeFits(n)'
  <2>1. pc'[n] \in {t, "wallet", "sub", "subAvailable"} /\ bill'[n].then = t
    BY <1>1, <1>4, <1>5, Deltas, StartFacts DEF RefundTaskQuota, SettleOnComplete
  <2> QED BY <1>3, <2>1
<1>6. ASSUME NEW t \in {"sleep", "load"}, NoAdjust(n, t) PROVE NodeFits(n)'
  BY <1>1, <1>2, <1>3, <1>6 DEF NoAdjust, NodeFits
<1>7. bill[n].then \in {"sleep", "load"}
  BY <1>1 DEF NodeFits
<1>8. CASE Sweep(n)
  <2>1. copy'[n] = [status |-> status, done |-> done] /\ UNCHANGED bill
    BY <1>1, <1>8 DEF Sweep, ReadRow, ActorsOK
  <2>2. CASE timedOut /\ Unfinished /\ Platform # "mj"
    <3>1. pc'[n] = "sweepCas" /\ copy'[n].status \notin Final
      BY <1>2, <1>8, <2>1, <2>2 DEF Sweep, Unfinished
    <3> QED BY <1>7, <2>1, <2>2, <3>1 DEF NodeFits, FetchPlaces, Platform
  <2>3. CASE ~(timedOut /\ Unfinished /\ Platform # "mj")
    BY <1>2, <1>3, <1>7, <1>8, <2>1, <2>3 DEF Sweep
  <2> QED BY <2>2, <2>3
<1>9. CASE PollLoad(n)
  <2>1. copy'[n] = [status |-> status, done |-> done] /\ UNCHANGED bill
    BY <1>1, <1>9 DEF PollLoad, ReadRow, ActorsOK
  <2>2. CASE Unfinished
    <3>1. pc'[n] = "ask" /\ copy'[n].status \notin Final
      BY <1>2, <1>9, <2>1, <2>2 DEF PollLoad, Unfinished, PlacesFit
    <3> QED BY <1>7, <2>1, <3>1 DEF NodeFits, FetchPlaces
  <2>3. CASE ~Unfinished
    BY <1>2, <1>3, <1>7, <1>9, <2>1, <2>3 DEF PollLoad
  <2> QED BY <2>2, <2>3
<1>10. CASE Ask(n)
  <2>1. UNCHANGED <<bill, copy>> /\ copy[n].status \notin Final
    BY <1>1, <1>10 DEF Ask, NodeFits
  <2>2. Platform # "suno"
    BY <1>1 DEF Guarded
  <2>3. \/ pc'[n] = "sleep"
        \/ pc'[n] = "applyMj" /\ Platform = "mj"
        \/ pc'[n] = "apply" /\ Platform # "mj"
    BY <1>2, <1>10, <2>2 DEF Ask
  <2>4. Platform' = Platform
    BY DEF Platform
  <2> QED BY <1>1, <1>3, <1>7, <2>1, <2>3, <2>4 DEF NodeFits, FetchPlaces, Guarded
<1>11. CASE SweepCas(n)
  BY <1>5, <1>6, <1>11 DEF SweepCas
<1>12. CASE Apply(n) \/ ApplyMj(n)
  BY <1>5, <1>6, <1>12 DEF Apply, ApplyMj, BillOutcome
<1>13. CASE BulkFail(n)
  BY <1>2, <1>3, <1>7, <1>13 DEF BulkFail
<1>14. CASE Crash(n)
  <2>1. bill'[n] = NoBill
    BY <1>1, <1>14 DEF Crash, ActorsOK
  <2> QED BY <1>2, <1>3, <1>14, <2>1 DEF Crash, NoBill
<1>15. CASE AdjustWallet(n) \/ AdjustSub(n) \/ AdjustUndoSub(n) \/ AdjustToken(n)
  <2>1. UNCHANGED bill /\ \E l \in {"undoSub", "sub", "token", "sleep", "load"} : Goto(n, l)
    BY <1>7, <1>15 DEF AdjustWallet, AdjustSub, AdjustUndoSub, AdjustToken, AbandonAdjust
  <2> QED BY <1>2, <1>3, <1>7, <2>1
<1>16. CASE AdjustSubAvailable(n)
  <2>1. \E l \in {"wallet", "token", "sleep", "load"} : Goto(n, l)
    BY <1>7, <1>16 DEF AdjustSubAvailable, AbandonAdjust
  <2>2. bill'[n].then = bill[n].then
    BY <1>1, <1>16 DEF AdjustSubAvailable, AbandonAdjust, ActorsOK, Bill
  <2> QED BY <1>2, <1>3, <1>7, <2>1, <2>2
<1>17. CASE ApplySuno(n) \/ SaveSuno(n)
  BY <1>1, <1>17 DEF ApplySuno, SaveSuno, NodeFits
<1> QED BY <1>1, <1>8, <1>9, <1>10, <1>11, <1>12, <1>13, <1>14, <1>15, <1>16, <1>17
        DEF Moves, Poll, Adjust

(* How the row of a guarded task may change. *)
RowMove ==
  \/ UNCHANGED <<status, done>>
  \/ \E n \in Nodes : BulkFail(n) /\ "gone" \in Env /\ status' = "FAILURE" /\ done' = TRUE
  \/ \E n \in Nodes : /\ SweepCas(n) /\ timedOut /\ status \notin Final
                      /\ status' = "FAILURE" /\ done' = TRUE
  \/ \E n \in Nodes : /\ Apply(n) /\ status \notin Final
                      /\ status' = seen[n].status /\ done' = (seen[n].status \in Final)
  \/ \E n \in Nodes : /\ ApplyMj(n) /\ Platform = "mj" /\ status \notin Final
                      /\ \E r \in {"FAILURE", seen[n].status} : status' = r /\ done' = (r \in Final)
  \/ \E f \in Fetchers : /\ FetchSave(f) /\ Platform = "gemini"
                         /\ pc[f] = "fetchSave" /\ status = copy[f].status
                         /\ status' = seen[f].status /\ done' = (seen[f].status \in Final)

(* Of a plain reply the refund and the end of the polling go with the status. *)
LEMMA MjReplyFacts ==
  ASSUME Types, NEW n \in Actors, Plain(seen[n])
  PROVE  /\ MjReply(n).status \in {"FAILURE", seen[n].status}
         /\ MjRefunds(MjReply(n)) <=> MjReply(n).status = "FAILURE"
         /\ MjReply(n).done \/ MjRefunds(MjReply(n)) <=> MjReply(n).status \in Final
<1>1. seen[n] \in Reply
  BY DEF Types, ActorsOK
<1>2. CASE timedOut /\ ~copy[n].done
  <2>1. MjReply(n) = [seen[n] EXCEPT !.status = "FAILURE", !.reason = TRUE]
    BY <1>2 DEF MjReply
  <2>2. MjReply(n).status = "FAILURE" /\ MjReply(n).reason = TRUE
    BY <1>1, <2>1 DEF Reply
  <2> QED BY <2>2 DEF MjRefunds, Final
<1>3. CASE ~(timedOut /\ ~copy[n].done)
  <2>1. MjReply(n) = seen[n]
    BY <1>3 DEF MjReply
  <2> QED BY <1>1, <2>1 DEF MjRefunds, Plain, Final, Reply, Statuses
<1> QED BY <1>2, <1>3

LEMMA RowMoves ==
  ASSUME Types, PlacesFit, [Next]_vars
  PROVE  RowMove
<1>1. Guarded /\ (\A n \in Nodes : NodeFits(n)) /\ (\A f \in Fetchers : FetcherFits(f))
  BY DEF PlacesFit
<1>2. ASSUME NEW n \in Nodes, SweepCas(n) PROVE RowMove
  BY <1>1, <1>2 DEF SweepCas, CasWins, NodeFits, RowMove
<1>3. ASSUME NEW n \in Nodes, Apply(n) PROVE RowMove
  <2>1. copy[n].status \notin Final
    BY <1>1, <1>3 DEF Apply, NodeFits
  <2> QED BY <1>3, <2>1 DEF Apply, CasWins, RowMove
<1>4. ASSUME NEW n \in Nodes, ApplyMj(n) PROVE RowMove
  <2>1. copy[n].status \notin Final /\ Platform = "mj"
    BY <1>1, <1>4 DEF ApplyMj, NodeFits
  <2>2. n \in Actors /\ Plain(seen[n])
    BY <2>1, Constants DEF PlacesFit, AnswersFit
  <2>3. \/ UNCHANGED <<status, done>>
        \/ /\ status \notin Final /\ status' = MjReply(n).status
           /\ done' = (MjReply(n).done \/ MjRefunds(MjReply(n)))
    BY <1>4, <2>1 DEF ApplyMj, CasWins
  <2>4. (MjReply(n).done \/ MjRefunds(MjReply(n))) = (MjReply(n).status \in Final)
    BY <1>1, <2>2, MjReplyFacts DEF MjRefunds, Types, ActorsOK
  <2> QED BY <1>4, <2>1, <2>2, <2>3, <2>4, MjReplyFacts DEF RowMove
<1>5. ASSUME NEW n \in Nodes, BulkFail(n) PROVE RowMove
  BY <1>5 DEF BulkFail, RowMove
<1>6. ASSUME NEW f \in Fetchers, FetchSave(f) PROVE RowMove
  <2>1. Platform = "gemini"
    BY <1>1, <1>6 DEF FetchSave, FetcherFits
  <2> QED BY <1>6, <2>1 DEF FetchSave, CasWins, RowMove
<1>7. ~Notify
  BY <1>1 DEF Notify, Guarded
<1>8. ASSUME NEW n \in Nodes, SaveSuno(n) PROVE FALSE
  BY <1>1, <1>8 DEF SaveSuno, NodeFits
<1>9. ASSUME NEW n \in Nodes, Sweep(n) \/ PollLoad(n) \/ Ask(n) \/ ApplySuno(n) \/ Crash(n)
      PROVE  UNCHANGED <<status, done>>
  BY <1>9 DEF Sweep, PollLoad, Ask, ApplySuno, Crash, rows
<1>10. ASSUME NEW n \in Nodes, Adjust(n) PROVE UNCHANGED <<status, done>>
  BY <1>10 DEF Adjust, AdjustWallet, AdjustSub, AdjustSubAvailable, AdjustUndoSub, AdjustToken
<1>11. ASSUME NEW f \in Fetchers, FetchLoad(f) \/ FetchAsk(f) PROVE UNCHANGED <<status, done>>
  BY <1>11 DEF FetchLoad, FetchAsk, rows
<1>12. UNCHANGED vars \/ UpstreamEnds \/ TimePasses => UNCHANGED <<status, done>>
  BY DEF vars, UpstreamEnds, TimePasses, rows
<1>13. UNCHANGED <<status, done>> => RowMove
  BY DEF RowMove
<1> QED BY <1>2, <1>3, <1>4, <1>5, <1>6, <1>7, <1>8, <1>9, <1>10, <1>11, <1>12, <1>13
        DEF Next, Poll, Fetch

(* A final status stays; only a bulk update makes a success a failure. *)
LEMMA FinalStays ==
  ASSUME Types, PlacesFit, [Next]_vars, status \in Final
  PROVE  \/ status' = status
         \/ status' = "FAILURE" /\ "gone" \in Env /\ \E n \in Nodes : BulkFail(n)
<1>1. ASSUME NEW f \in Fetchers, Platform = "gemini", pc[f] = "fetchSave",
             status = copy[f].status, status' = seen[f].status
      PROVE  status' = status
  BY <1>1 DEF PlacesFit, AnswersFit
<1> QED BY <1>1, RowMoves DEF RowMove

LEMMA DoneStep ==
  ASSUME Types, PlacesFit, [Next]_vars
  PROVE  done' <=> status' \in Final
<1>1. done <=> status \in Final
  BY DEF PlacesFit
<1>2. "FAILURE" \in Final
  BY DEF Final
<1> QED BY <1>1, <1>2, RowMoves DEF RowMove

LEMMA FetcherFitsStep ==
  ASSUME Types, PlacesFit, [Next]_vars, NEW f \in Fetchers
  PROVE  FetcherFits(f)'
<1>1. FetcherFits(f) /\ f \in Actors /\ f \notin Nodes /\ UNCHANGED task /\ ActorsOK
  BY Constants, TaskAssumption, WorldMoves DEF PlacesFit, Types
<1>2. CASE pc'[f] = pc[f]
  BY <1>1, <1>2 DEF FetcherFits, Platform
<1>3. CASE Fetch(f)
  <2>1. Platform = "gemini"
    BY <1>1, <1>3 DEF Fetch, FetchLoad, FetchAsk, FetchSave, FetcherFits
  <2>2. \E l \in FetchPlaces : Goto(f, l)
    BY <1>3 DEF Fetch, FetchLoad, FetchAsk, FetchSave, FetchPlaces
  <2>3. pc'[f] \in FetchPlaces
    BY <1>1, <2>2, GotoFacts
  <2> QED BY <1>1, <2>1, <2>3 DEF FetcherFits, Platform
<1>4. ASSUME NEW a \in Actors, Moves(a), a # f PROVE pc'[f] = pc[f]
  BY <1>1, <1>4, OthersKept
<1>5. UNCHANGED vars \/ UpstreamEnds \/ TimePasses \/ Notify => UNCHANGED pc
  BY DEF vars, UpstreamEnds, TimePasses, Notify
<1>6. Moves(f) => Fetch(f)
  BY <1>1 DEF Moves
<1> QED BY <1>2, <1>3, <1>4, <1>5, <1>6, NextMoves

LEMMA NodesFitStep ==
  ASSUME Types, PlacesFit, [Next]_vars, NEW n \in Nodes
  PROVE  NodeFits(n)'
<1>1. NodeFits(n) /\ n \in Actors /\ UNCHANGED task /\ (timedOut => timedOut')
  BY Constants, WorldMoves DEF PlacesFit
<1>2. ASSUME pc'[n] = pc[n], copy'[n] = copy[n], bill'[n] = bill[n] PROVE NodeFits(n)'
  BY <1>1, <1>2 DEF NodeFits, Platform
<1>3. ASSUME Moves(n) PROVE NodeFits(n)'
  <2>1. UNCHANGED <<task, timedOut>>
    <3>1. n \notin Fetchers
      BY TaskAssumption
    <3> QED BY <1>3, <3>1 DEF Moves, Poll, Adjust, Sweep, SweepCas, PollLoad, Ask, Apply,
            ApplySuno, SaveSuno, ApplyMj, BulkFail, Crash, AdjustWallet, AdjustSub,
            AdjustSubAvailable, AdjustUndoSub, AdjustToken, world
  <2> QED BY <1>3, <2>1, NodeFitsStep
<1>4. ASSUME NEW a \in Actors, Moves(a), a # n PROVE NodeFits(n)'
  BY <1>1, <1>2, <1>4, OthersKept
<1>5. UNCHANGED vars \/ UpstreamEnds \/ TimePasses \/ Notify => UNCHANGED <<pc, copy, bill>>
  BY DEF vars, UpstreamEnds, TimePasses, Notify
<1> QED BY <1>2, <1>3, <1>4, <1>5, NextMoves

(* What an actor has seen: the provider's state, or an error document. *)
SeenMove(a) ==
  \/ seen'[a] = seen[a]
  \/ /\ UNCHANGED upstream
     /\ Plain(seen'[a]) \/ "odd" \in Env
     /\ \/ seen'[a].status = upstream.state
        \/ seen'[a].status = "FAILURE" /\ "rejected" \in Env

LEMMA SeenMoves ==
  ASSUME Types, [Next]_vars, NEW a \in Actors
  PROVE  SeenMove(a)
<1>1. seen \in [Actors -> Reply]
  BY DEF Types, ActorsOK
<1>2. ASSUME Moves(a) PROVE SeenMove(a)
  <2> DEFINE News == \E r \in Replies(upstream.state) : seen' = [seen EXCEPT ![a] = r]
  <2>0. News /\ UNCHANGED upstream => SeenMove(a)
    <3>1. upstream.state \in Statuses
      BY DEF Types, WorldOK
    <3> QED BY <1>1, <3>1, RepliesFacts DEF SeenMove
  <2>1. CASE Ask(a)
    <3>1. UNCHANGED upstream
      BY <2>1 DEF Ask, world
    <3>2. CASE News
      BY <2>0, <3>1, <3>2
    <3>3. CASE "rejected" \in Env /\ seen' = [seen EXCEPT ![a] = Short("FAILURE")]
      <4>1. seen'[a] = Short("FAILURE") /\ "FAILURE" \in Statuses
        BY <1>1, <3>3 DEF Statuses, Final
      <4> QED BY <3>1, <3>3, <4>1, ShortIsReply DEF SeenMove, Short
    <3>4. CASE UNCHANGED seen
      BY <3>4 DEF SeenMove
    <3> QED BY <2>1, <3>2, <3>3, <3>4 DEF Ask
  <2>2. CASE FetchAsk(a)
    BY <2>0, <2>2 DEF FetchAsk, world, SeenMove
  <2>3. CASE Sweep(a) \/ SweepCas(a) \/ PollLoad(a) \/ Apply(a) \/ ApplySuno(a) \/ SaveSuno(a)
             \/ ApplyMj(a) \/ BulkFail(a) \/ Crash(a) \/ Adjust(a) \/ FetchLoad(a) \/ FetchSave(a)
    BY <2>3 DEF Sweep, SweepCas, PollLoad, Apply, ApplySuno, SaveSuno, ApplyMj, BulkFail, Crash,
       Adjust, AdjustWallet, AdjustSub, AdjustSubAvailable, AdjustUndoSub, AdjustToken,
       FetchLoad, FetchSave, SeenMove
  <2> QED BY <1>2, <2>1, <2>2, <2>3 DEF Moves, Poll, Fetch
<1>3. ASSUME NEW b \in Actors, Moves(b), b # a PROVE SeenMove(a)
  BY <1>3, OthersKept DEF SeenMove
<1>4. UNCHANGED vars \/ UpstreamEnds \/ TimePasses \/ Notify => SeenMove(a)
  BY DEF vars, UpstreamEnds, TimePasses, Notify, SeenMove
<1> QED BY <1>2, <1>3, <1>4, NextMoves

LEMMA AnswersFitStep ==
  ASSUME Types, PlacesFit, [Next]_vars
  PROVE  AnswersFit'
<1>1. /\ AnswersFit /\ Guarded
      /\ UNCHANGED task
      /\ upstream.state \in Final => upstream' = upstream
      /\ Platform' = Platform
  BY WorldMoves DEF PlacesFit, Platform
<1>2. "SUCCESS" \in Final /\ "FAILURE" # "SUCCESS"
  BY DEF Final
<1>3. ASSUME NEW a \in Actors, seen'[a].status = "SUCCESS" PROVE upstream'.state = "SUCCESS"
  BY <1>1, <1>2, <1>3, SeenMoves DEF AnswersFit, SeenMove
<1>4. ASSUME status' = "SUCCESS" PROVE upstream'.state = "SUCCESS"
  BY <1>1, <1>2, <1>4, RowMoves, Constants DEF AnswersFit, RowMove
<1>5. ASSUME Platform = "gemini", Fetchers # {}
      PROVE  /\ status' \in Final => upstream'.state = status'
             /\ \A a \in Actors : seen'[a].status \in Final => upstream'.state = seen'[a].status
             /\ \A f \in Fetchers :
                  /\ copy'[f].status \in Final => upstream'.state = copy'[f].status
                  /\ pc'[f] = "fetchSave" /\ copy'[f].status \in Final
                       => seen'[f].status = copy'[f].status
  <2>1. "rejected" \notin Env /\ "gone" \notin Env /\ ~timedOut
    BY <1>1, <1>5 DEF Guarded, PlacesFit
  <2>2. /\ status \in Final => upstream.state = status
        /\ \A a \in Actors : seen[a].status \in Final => upstream.state = seen[a].status
        /\ \A f \in Fetchers :
             /\ copy[f].status \in Final => upstream.state = copy[f].status
             /\ pc[f] = "fetchSave" /\ copy[f].status \in Final => seen[f].status = copy[f].status
    BY <1>1, <1>5 DEF AnswersFit
  <2>3. status' \in Final => upstream'.state = status'
    BY <1>1, <1>5, <2>1, <2>2, RowMoves, Constants DEF RowMove
  <2>4. ASSUME NEW a \in Actors, seen'[a].status \in Final PROVE upstream'.state = seen'[a].status
    BY <1>1, <2>1, <2>2, <2>4, SeenMoves DEF SeenMove
  <2>5. ASSUME NEW f \in Fetchers
        PROVE  /\ copy'[f].status \in Final => upstream'.state = copy'[f].status
               /\ pc'[f] = "fetchSave" /\ copy'[f].status \in Final
                    => seen'[f].status = copy'[f].status
    <3>1. f \in Actors /\ f \notin Nodes /\ ActorsOK
      BY Constants, TaskAssumption DEF Types
    <3>2. ASSUME pc'[f] = pc[f], copy'[f] = copy[f], seen'[f] = seen[f]
          PROVE  /\ copy'[f].status \in Final => upstream'.state = copy'[f].status
                 /\ pc'[f] = "fetchSave" /\ copy'[f].status \in Final
                      => seen'[f].status = copy'[f].status
      BY <1>1, <2>2, <3>2
    <3>3. CASE FetchLoad(f)
      <4>1. copy'[f] = [status |-> status, done |-> done] /\ pc'[f] = "fetchAsk"
            /\ UNCHANGED upstream
        BY <3>1, <3>3, GotoFacts DEF FetchLoad, ReadRow, ActorsOK, world
      <4> QED BY <2>2, <4>1
    <3>4. CASE FetchAsk(f)
      <4>1. UNCHANGED <<copy, upstream>>
        BY <3>4 DEF FetchAsk, world
      <4>2. pc'[f] = "fetchSave" => seen'[f].status = upstream.state
        <5>1. ASSUME NEW r \in Replies(upstream.state), seen' = [seen EXCEPT ![f] = r]
              PROVE  seen'[f].status = upstream.state
          BY <3>1, <5>1, RepliesFacts DEF ActorsOK, Types, WorldOK
        <5> QED BY <3>1, <3>4, <5>1, GotoFacts DEF FetchAsk
      <4> QED BY <2>2, <4>1, <4>2
    <3>5. CASE FetchSave(f)
      <4>1. UNCHANGED <<copy, upstream>> /\ pc'[f] = "fetchLoad"
        BY <3>1, <3>5, GotoFacts DEF FetchSave, world
      <4> QED BY <2>2, <4>1
    <3>6. ASSUME NEW a \in Actors, Moves(a), a # f
          PROVE  pc'[f] = pc[f] /\ copy'[f] = copy[f] /\ seen'[f] = seen[f]
      BY <3>1, <3>6, OthersKept
    <3>7. UNCHANGED vars \/ UpstreamEnds \/ TimePasses \/ Notify => UNCHANGED <<pc, copy, seen>>
      BY DEF vars, UpstreamEnds, TimePasses, Notify
    <3>8. Moves(f) => FetchLoad(f) \/ FetchAsk(f) \/ FetchSave(f)
      BY <3>1 DEF Moves, Fetch
    <3> QED BY <3>2, <3>3, <3>4, <3>5, <3>6, <3>7, <3>8, NextMoves
  <2> QED BY <2>3, <2>4, <2>5
<1>6. ASSUME Platform = "mj", NEW a \in Actors PROVE Plain(seen'[a])
  <2>1. "odd" \notin Env
    BY <1>1, <1>6 DEF Guarded
  <2> QED BY <1>1, <1>6, <2>1, SeenMoves DEF SeenMove, AnswersFit
<1> QED BY <1>1, <1>3, <1>4, <1>5, <1>6 DEF AnswersFit, Plain

LEMMA PlacesFitStep == Types /\ PlacesFit /\ [Next]_vars => PlacesFit'
<1> SUFFICES ASSUME Types, PlacesFit, [Next]_vars PROVE PlacesFit'
  OBVIOUS
<1>1. UNCHANGED task
  BY WorldMoves
<1>2. Guarded'
  BY <1>1 DEF PlacesFit, Guarded, Platform, Env
<1>3. timedOut' => "timeout" \in Env'
  <2>1. timedOut' = timedOut \/ TimePasses
    BY DEF Next, Poll, Adjust, Fetch, Sweep, SweepCas, PollLoad, Ask, Apply, ApplySuno,
       SaveSuno, ApplyMj, BulkFail, Crash, AdjustWallet, AdjustSub, AdjustSubAvailable,
       AdjustUndoSub, AdjustToken, FetchLoad, FetchAsk, FetchSave, UpstreamEnds, Notify,
       vars, world
  <2> QED BY <1>1, <2>1 DEF PlacesFit, TimePasses, Env
<1> QED BY <1>2, <1>3, DoneStep, NodesFitStep, FetcherFitsStep, AnswersFitStep DEF PlacesFit

LEMMA PlacesFitInit == Init /\ Guarded => PlacesFit
<1> SUFFICES ASSUME Init, Guarded PROVE PlacesFit
  OBVIOUS
<1>1. \A a \in Actors : /\ copy[a].status = "NOT_START" /\ seen[a] = Short("IN_PROGRESS")
                        /\ bill[a].then = "sleep"
                        /\ pc[a] = IF a \in Nodes THEN "sleep" ELSE "fetchLoad"
  BY DEF Init, NoBill
<1>2. status \notin Final /\ ~done /\ ~timedOut /\ "NOT_START" \notin Final
      /\ "IN_PROGRESS" \notin Final /\ status # "SUCCESS"
  BY DEF Init, Final
<1>3. \A n \in Nodes : NodeFits(n)
  BY <1>1, Constants DEF NodeFits, FetchPlaces
<1>4. \A f \in Fetchers : FetcherFits(f)
  BY <1>1, Constants, TaskAssumption DEF FetcherFits, FetchPlaces
<1>5. AnswersFit
  <2>1. "IN_PROGRESS" \in Statuses
    BY DEF Statuses
  <2>2. \A a \in Actors : seen[a].status = "IN_PROGRESS" /\ Plain(seen[a])
    BY <1>1, <2>1, ShortIsReply DEF Short
  <2> QED BY <1>1, <1>2, <2>2, Constants DEF AnswersFit
<1> QED BY <1>2, <1>3, <1>4, <1>5 DEF PlacesFit

LEMMA PlacesFitAlways == Spec /\ Guarded => []PlacesFit
<1> QED BY PlacesFitInit, PlacesFitStep, TypesAlways, PTL DEF Spec
-----------------------------------------------------------------------------
(* The charge. *)

LEMMA NumberFacts ==
  ASSUME Types
  PROVE  /\ paid.w \in Int /\ paid.s \in Int /\ paid.t \in Int /\ subFree \in Nat
         /\ task.fundW \in Int /\ 0 <= task.fundW /\ task.fundW <= Quota
         /\ Quota \in Int /\ Quota > 0 /\ FinalQuota \in Nat
         /\ \A a \in Actors : bill[a].delta \in Int /\ bill[a].w \in Int /\ bill[a].s \in Int
BY TaskFacts, FinalQuotaIsNat DEF Types, ChargeOK, WorldOK, ActorsOK, Bill

(* A step that moves no money, ends no adjustment and keeps the status. *)
LEMMA QuietStep ==
  ASSUME Types, PlacesFit, Money, [Next]_vars,
         UNCHANGED <<status, paid, subFree>>, outside => outside', faulty => faulty',
         \A v \in Actors : Billing(v)' => Billing(v) /\ pc'[v] = pc[v] /\ bill'[v] = bill[v],
         faulty' \/ \A v \in Actors : Billing(v) => Billing(v)'
  PROVE  Money'
<1>1. /\ UNCHANGED task
      /\ status = "SUCCESS" => UNCHANGED upstream
  BY WorldMoves DEF PlacesFit, AnswersFit, Final
<1>2. Platform' = Platform /\ (status = "SUCCESS" => FinalQuota' = FinalQuota)
  BY <1>1 DEF Platform, FinalQuota
<1>3. OneBills'
  <2>1. status' \notin Final => Submitted' /\ \A a \in Actors : ~Billing(a)'
    BY <1>1 DEF Money, OneBills, Submitted
  <2>2. \A a, b \in Actors : Billing(a)' /\ Billing(b)' => a = b
    BY DEF Money, OneBills
  <2>3. ASSUME NEW a \in Actors, Billing(a)' PROVE Progress(a)' /\ Parts(a)' /\ Due(a)'
    <3>1. Progress(a) /\ Parts(a) /\ Due(a) /\ pc'[a] = pc[a] /\ bill'[a] = bill[a]
      BY <2>3 DEF Money, OneBills
    <3>2. Progress(a)'
      BY <1>1, <3>1 DEF Progress
    <3>3. Parts(a)'
      BY <1>1, <3>1 DEF Parts
    <3>4. Due(a)'
      BY <1>2, <3>1 DEF Due
    <3> QED BY <3>2, <3>3, <3>4
  <2> QED BY <2>1, <2>2, <2>3 DEF OneBills
<1>4. GivenBackAtMostOnce'
  BY DEF Money, GivenBackAtMostOnce
<1>5. OutcomeBilled'
  <2> SUFFICES ASSUME ~faulty', ~outside', \A a \in Actors : ~Billing(a)'
               PROVE  OutcomeBilled'
    BY DEF OutcomeBilled
  <2>1. ~faulty /\ ~outside /\ \A a \in Actors : ~Billing(a)
    OBVIOUS
  <2>2. CASE status = "SUCCESS"
    BY <1>1, <1>2, <2>1, <2>2 DEF Money, OutcomeBilled, Charged, PlacesFit
  <2>3. CASE status # "SUCCESS"
    BY <1>1, <1>2, <2>1, <2>3 DEF Money, OutcomeBilled, Charged, PlacesFit
  <2> QED BY <2>2, <2>3
<1> QED BY <1>3, <1>4, <1>5 DEF Money

(* A step from a running task after which nobody bills. *)
LEMMA UnbilledStep ==
  ASSUME Types, PlacesFit, Money, [Next]_vars, status \notin Final,
         UNCHANGED <<paid, subFree>>, \A v \in Actors : ~Billing(v)',
         \/ outside' \/ status' \notin Final
         \/ status' = "SUCCESS" /\ (Platform = "mj" \/ FinalQuota' = Quota)
  PROVE  Money'
<1>1. UNCHANGED task /\ Submitted
  BY WorldMoves DEF Money, OneBills
<1>2. OneBills'
  BY <1>1 DEF OneBills, Submitted
<1>3. GivenBackAtMostOnce'
  BY DEF Money, GivenBackAtMostOnce
<1>4. Charged' = Quota /\ paid'.t = Quota
  BY <1>1, NumberFacts DEF Charged, Submitted
<1>5. OutcomeBilled'
  <2>1. Platform' = Platform
    BY <1>1 DEF Platform
  <2>2. CASE outside'
    BY <2>2 DEF OutcomeBilled
  <2>3. CASE status' \notin Final
    BY <1>4, <2>3 DEF OutcomeBilled, Final
  <2>4. CASE status' = "SUCCESS" /\ (Platform = "mj" \/ FinalQuota' = Quota)
    BY <1>4, <2>1, <2>4 DEF OutcomeBilled
  <2> QED BY <2>2, <2>3, <2>4
<1> QED BY <1>2, <1>3, <1>5 DEF Money

(* The update that sets the final status wins, and the adjustment starts. *)
LEMMA StartStep ==
  ASSUME Types, PlacesFit, Money, [Next]_vars, NEW n \in Actors, status \notin Final,
         UNCHANGED <<paid, subFree, upstream>>,
         NEW d \in Int, NEW t \in {"sleep", "load"}, StartAdjust(n, d, t),
         \/ status' = "FAILURE" /\ d = -Quota
         \/ status' = "SUCCESS" /\ Platform \in {"video", "gemini"} /\ d = FinalQuota - Quota
  PROVE  Money'
<1>1. UNCHANGED task /\ Submitted /\ \A v \in Actors : ~Billing(v)
  BY WorldMoves DEF Money, OneBills
<1>2. Platform' = Platform /\ FinalQuota' = FinalQuota
  BY <1>1 DEF Platform, FinalQuota
<1>3. t \in Thens
  BY DEF Thens
<1>4. \A v \in Actors : v # n => ~Billing(v)'
  BY <1>1, <1>3, StartFacts DEF Billing
<1>5. d >= -Quota /\ (d = 0 => status' = "SUCCESS" /\ FinalQuota' = Quota)
  BY <1>2, NumberFacts
<1>6. CASE d = 0
  <2>1. pc'[n] = t
    BY <1>6, GotoFacts DEF StartAdjust, Types
  <2>2. ~Billing(n)'
    BY <2>1 DEF Billing
  <2> QED BY <1>4, <1>5, <1>6, <2>2, UnbilledStep
<1>7. CASE d # 0
  <2> DEFINE p == IF d < 0 THEN RefundParts(-d) ELSE ChargeParts(d)
  <2>1. /\ bill'[n] = [delta |-> d, w |-> p.w, s |-> p.s, then |-> t]
        /\ pc'[n] = IF p.w # 0 THEN "wallet" ELSE IF p.s # 0 THEN "sub" ELSE "subAvailable"
    BY <1>7, GotoFacts DEF StartAdjust, Types, ActorsOK
  <2>2. bill'[n].delta = d /\ bill'[n].w = p.w /\ bill'[n].s = p.s
    BY <2>1
  <2>3. p.w \in Int /\ p.s \in Int
    BY <1>7, PartsFacts DEF Types, WorldOK
  <2>4. d < 0 => /\ p.w + p.s = d /\ -task.fundW <= p.w /\ p.w <= 0
                 /\ task.fundW - Quota <= p.s /\ p.s <= 0
    BY <1>5, PartsFacts, NumberFacts DEF Types, WorldOK
  <2>5. d > 0 => /\ p.w >= 0 /\ p.s >= 0
                 /\ \/ p.w = 0 /\ p.s = 0 /\ task.source = "split"
                    \/ p.w = d /\ p.s = 0
                    \/ p.w = 0 /\ p.s = d /\ task.source = "subscription"
    <3>1. ASSUME d > 0, task.source # "split" PROVE p.w # 0 \/ p.s # 0
      BY <3>1, TaskFacts DEF ChargeParts, Sources, Types, WorldOK
    <3> QED BY <3>1, PartsFacts DEF Types, WorldOK
  <2> HIDE DEF p
  <2>6. Progress(n)'
    <3>1. paid'.w = task'.fundW /\ paid'.s = Quota - task'.fundW /\ paid'.t = Quota
      BY <1>1 DEF Submitted
    <3>2. pc'[n] = "sub" => p.w = 0
      BY <2>1
    <3>3. pc'[n] = "wallet" /\ d > 0 => p.s = 0
      BY <2>1, <2>3, <2>5
    <3>4. pc'[n] \in {"wallet", "sub", "subAvailable"}
      BY <2>1
    <3> QED BY <2>2, <3>1, <3>2, <3>3, <3>4, NumberFacts, <1>1 DEF Progress
  <2>7. Parts(n)'
    <3>1. pc'[n] = "subAvailable" => p.w = 0 /\ p.s = 0
      BY <2>1
    <3>2. pc'[n] # "subAvailable" => p.w # 0 \/ p.s # 0
      BY <2>1
    <3>3. pc'[n] = "sub" => p.w = 0 /\ p.s # 0
      BY <2>1
    <3>4. d < 0 \/ d > 0
      BY <1>7
    <3>5. p.w + p.s = d \/ pc'[n] = "subAvailable"
      BY <2>3, <2>4, <2>5, <3>2, <3>4
    <3>6. pc'[n] = "subAvailable" => d > 0 /\ task.source = "split"
      BY <2>3, <2>4, <2>5, <3>1, <3>4
    <3>7. pc'[n] = "sub" /\ d > 0 => task.source = "subscription" /\ p.w = 0
      BY <2>3, <2>5, <3>3
    <3> QED BY <1>1, <1>5, <1>7, <2>2, <2>4, <2>5, <3>4, <3>5, <3>6, <3>7 DEF Parts
  <2>8. Due(n)'
    BY <1>2, <2>2 DEF Due
  <2>9. Billing(n)' /\ status' \in Final
    BY <2>1 DEF Billing, Final
  <2>10. OneBills'
    BY <1>4, <2>6, <2>7, <2>8, <2>9 DEF OneBills
  <2>11. GivenBackAtMostOnce'
    BY DEF Money, GivenBackAtMostOnce
  <2>12. OutcomeBilled'
    BY <2>9 DEF OutcomeBilled
  <2> QED BY <2>10, <2>11, <2>12 DEF Money
<1> QED BY <1>6, <1>7

(* An adjustment goes on. *)
LEMMA GoesOnStep ==
  ASSUME Types, PlacesFit, Money, [Next]_vars, NEW n \in Actors, Moves(n), Billing(n), Billing(n)',
         UNCHANGED <<status, upstream, outside>>, bill'[n].delta = bill[n].delta,
         Progress(n)', Parts(n)', GivenBackAtMostOnce'
  PROVE  Money'
<1>1. UNCHANGED task /\ status \in Final /\ Due(n) /\ \A v \in Actors : Billing(v) => v = n
  BY WorldMoves DEF Money, OneBills
<1>2. \A v \in Actors : Billing(v)' => v = n
  BY <1>1, OthersKept DEF Billing
<1>3. Due(n)'
  BY <1>1 DEF Due, Platform, FinalQuota
<1>4. OneBills'
  BY <1>1, <1>2, <1>3 DEF OneBills
<1>5. OutcomeBilled'
  BY DEF OutcomeBilled
<1> QED BY <1>4, <1>5 DEF Money

(* An adjustment ends: after a failure, with all of it applied, or because   *)
(* the subscription has no room.                                             *)
LEMMA EndStep ==
  ASSUME Types, PlacesFit, Money, [Next]_vars, NEW n \in Actors, Moves(n), Billing(n), ~Billing(n)',
         UNCHANGED <<status, upstream, outside>>, GivenBackAtMostOnce',
         \/ faulty'
         \/ /\ Charged' = Quota + bill[n].delta
            /\ paid'.t = Quota + bill[n].delta \/ Platform = "mj"
         \/ /\ task.source = "subscription" /\ Platform # "mj"
            /\ bill[n].delta > subFree' /\ subFree' \in Nat
            /\ Charged' = Quota
  PROVE  Money'
<1>1. UNCHANGED task /\ status \in Final /\ Due(n) /\ \A v \in Actors : Billing(v) => v = n
  BY WorldMoves DEF Money, OneBills
<1>2. \A v \in Actors : ~Billing(v)'
  BY <1>1, OthersKept DEF Billing
<1>3. OneBills'
  BY <1>1, <1>2 DEF OneBills
<1>4. OutcomeBilled'
  <2> SUFFICES ASSUME ~faulty', ~outside' PROVE OutcomeBilled'
    BY DEF OutcomeBilled
  <2>1. Platform' = Platform /\ FinalQuota' = FinalQuota /\ task' = task
    BY <1>1 DEF Platform, FinalQuota
  <2>2. CASE status = "FAILURE" /\ bill[n].delta = -Quota
    <3>1. Charged' = 0 /\ (Platform' # "mj" => paid'.t = 0)
      BY <2>1, <2>2, NumberFacts
    <3> QED BY <2>2, <3>1 DEF OutcomeBilled
  <2>3. CASE /\ status = "SUCCESS" /\ Platform \in {"video", "gemini"}
             /\ bill[n].delta = FinalQuota - Quota
    <3>1. \/ Charged' = FinalQuota' /\ paid'.t = FinalQuota'
          \/ /\ task'.source = "subscription"
             /\ FinalQuota' - Quota > subFree'
             /\ Charged' = Quota
      BY <2>1, <2>3, NumberFacts
    <3> QED BY <2>1, <2>3, <3>1 DEF OutcomeBilled
  <2> QED BY <1>1, <2>2, <2>3 DEF Due
<1> QED BY <1>3, <1>4 DEF Money

(* A node that moves to a place where it does not bill, from one where it    *)
(* did not bill or in a failure. *)
LEMMA QuietMove ==
  ASSUME Types, PlacesFit, Money, [Next]_vars, NEW n \in Actors, Moves(n),
         UNCHANGED <<status, paid, subFree>>, outside => outside', faulty => faulty',
         ~Billing(n)', faulty' \/ ~Billing(n)
  PROVE  Money'
<1>1. \A v \in Actors : v # n => pc'[v] = pc[v] /\ bill'[v] = bill[v] /\ Billing(v)' = Billing(v)
  BY OthersKept DEF Billing
<1> QED BY <1>1, QuietStep

(* A node that moves while nobody bills. *)
LEMMA NobodyBills ==
  ASSUME Types, Money, status \notin Final, NEW n \in Actors, Moves(n), ~Billing(n)'
  PROVE  \A v \in Actors : ~Billing(v)'
<1>1. \A v \in Actors : ~Billing(v)
  BY DEF Money, OneBills
<1> QED BY <1>1, OthersKept DEF Billing

(* The steps of the loops that only read, or lose their update. *)
LEMMA MoneyReads ==
  ASSUME Types, PlacesFit, Money, [Next]_vars, NEW n \in Nodes,
         Sweep(n) \/ PollLoad(n) \/ Ask(n) \/ Crash(n)
  PROVE  Money'
<1>1. n \in Actors /\ Moves(n) /\ ActorsOK
  BY Constants DEF Moves, Poll, Types
<1>2. UNCHANGED <<status, paid, subFree, outside>> /\ (faulty => faulty')
  BY DEF Sweep, PollLoad, Ask, Crash, rows
<1>3. \E l \in {"sleep", "sweepCas", "load", "ask", "applySuno", "applyMj", "apply"} : Goto(n, l)
  BY DEF Sweep, PollLoad, Ask, Crash
<1>4. ~Billing(n)'
  BY <1>1, <1>3, GotoFacts DEF Billing
<1>5. faulty' \/ ~Billing(n)
  BY DEF Sweep, PollLoad, Ask, Crash, Billing
<1> QED BY <1>1, <1>2, <1>4, <1>5, QuietMove

LEMMA MoneySweepCas ==
  ASSUME Types, PlacesFit, Money, [Next]_vars, NEW n \in Nodes, SweepCas(n)
  PROVE  Money'
<1>1. n \in Actors /\ Moves(n) /\ ActorsOK /\ ~Billing(n) /\ copy[n].status \notin Final
  BY Constants DEF Moves, Poll, Types, Billing, SweepCas, PlacesFit, NodeFits
<1>2. UNCHANGED <<paid, subFree, upstream>>
  BY DEF SweepCas, world
<1>3. NoAdjust(n, "load") => ~Billing(n)'
  BY <1>1, GotoFacts DEF NoAdjust, Billing
<1>4. CASE CasWins(n) /\ status' = "FAILURE" /\ task.legacy /\ NoAdjust(n, "load") /\ outside'
  BY <1>1, <1>2, <1>3, <1>4, NobodyBills, UnbilledStep DEF CasWins
<1>5. CASE CasWins(n) /\ status' = "FAILURE" /\ RefundTaskQuota(n, "load")
  BY <1>1, <1>2, <1>5, StartStep, Deltas DEF CasWins, RefundTaskQuota
<1>6. CASE NoAdjust(n, "load") /\ UNCHANGED <<status, outside>> /\ (faulty => faulty')
  BY <1>1, <1>2, <1>3, <1>6, QuietMove
<1>7. outside' = (outside \/ task.legacy) /\ task.legacy => outside'
  OBVIOUS
<1> QED BY <1>4, <1>5, <1>6, <1>7 DEF SweepCas, StoreError

LEMMA MoneyApply ==
  ASSUME Types, PlacesFit, Money, [Next]_vars, NEW n \in Nodes, Apply(n)
  PROVE  Money'
<1>1. /\ n \in Actors /\ Moves(n) /\ ActorsOK /\ ~Billing(n) /\ copy[n].status \notin Final
      /\ Platform \in {"video", "gemini"}
  BY Constants DEF Moves, Poll, Types, Billing, Apply, PlacesFit, NodeFits
<1>2. UNCHANGED <<paid, subFree, upstream, outside>>
  BY DEF Apply, world
<1>3. NoAdjust(n, "sleep") => ~Billing(n)'
  BY <1>1, GotoFacts DEF NoAdjust, Billing
<1>4. CASE CasWins(n) /\ status' = seen[n].status /\ BillOutcome(n)
  <2>1. CASE seen[n].status = "FAILURE"
    <3>1. RefundTaskQuota(n, "sleep")
      BY <1>4, <2>1 DEF BillOutcome
    <3> QED BY <1>1, <1>2, <1>4, <2>1, <3>1, StartStep, Deltas DEF CasWins, RefundTaskQuota
  <2>2. CASE seen[n].status = "SUCCESS"
    <3>1. SettleOnComplete(n, "sleep")
      BY <1>4, <2>2 DEF BillOutcome
    <3> QED BY <1>1, <1>2, <1>4, <2>2, <3>1, StartStep, Deltas DEF CasWins, SettleOnComplete
  <2>3. CASE seen[n].status \notin Final
    <3>1. NoAdjust(n, "sleep")
      BY <1>4, <2>3 DEF BillOutcome, Final
    <3> QED BY <1>1, <1>2, <1>3, <1>4, <2>3, <3>1, NobodyBills, UnbilledStep DEF CasWins
  <2> QED BY <2>1, <2>2, <2>3 DEF Final
<1>5. CASE NoAdjust(n, "sleep") /\ UNCHANGED status /\ (faulty => faulty')
  BY <1>1, <1>2, <1>3, <1>5, QuietMove
<1> QED BY <1>4, <1>5 DEF Apply, StoreError

LEMMA MoneyApplyMj ==
  ASSUME Types, PlacesFit, Money, [Next]_vars, NEW n \in Nodes, ApplyMj(n)
  PROVE  Money'
<1>1. /\ n \in Actors /\ Moves(n) /\ ActorsOK /\ ~Billing(n) /\ copy[n].status \notin Final
      /\ Platform = "mj"
  BY Constants DEF Moves, Poll, Types, ActorsOK, Billing, ApplyMj, PlacesFit, NodeFits
<1>2. UNCHANGED <<paid, subFree, upstream>>
  BY DEF ApplyMj, world
<1>3. NoAdjust(n, "sleep") => ~Billing(n)'
  BY <1>1, GotoFacts DEF NoAdjust, Billing
<1>4. /\ MjReply(n).status \in {"FAILURE", seen[n].status} /\ seen[n].status \in Statuses
      /\ MjRefunds(MjReply(n)) <=> MjReply(n).status = "FAILURE"
  BY <1>1, MjReplyFacts DEF PlacesFit, AnswersFit, ActorsOK, Reply
<1>5. CASE /\ CasWins(n) /\ status' = MjReply(n).status
           /\ MjRefunds(MjReply(n)) /\ RefundTaskQuota(n, "sleep")
  BY <1>1, <1>2, <1>4, <1>5, StartStep, Deltas DEF CasWins, RefundTaskQuota
<1>6. CASE /\ CasWins(n) /\ status' = MjReply(n).status
           /\ ~MjRefunds(MjReply(n)) /\ NoAdjust(n, "sleep")
  <2>1. status' \notin Final \/ status' = "SUCCESS"
    BY <1>4, <1>6 DEF Statuses, Final
  <2> QED BY <1>1, <1>2, <1>3, <1>6, <2>1, NobodyBills, UnbilledStep DEF CasWins
<1>7. CASE NoAdjust(n, "sleep") /\ UNCHANGED <<status, outside>> /\ (faulty => faulty')
  BY <1>1, <1>2, <1>3, <1>7, QuietMove
<1> QED BY <1>5, <1>6, <1>7 DEF ApplyMj, StoreError

LEMMA MoneyBulkFail ==
  ASSUME Types, PlacesFit, Money, [Next]_vars, NEW n \in Nodes, BulkFail(n)
  PROVE  Money'
<1>1. n \in Actors /\ Moves(n) /\ ActorsOK /\ ~Billing(n)
  BY Constants DEF Moves, Types, Billing, BulkFail
<1>2. UNCHANGED <<paid, subFree, task, bill, faulty>> /\ outside' /\ status' = "FAILURE"
  BY DEF BulkFail, world
<1>3. ~Billing(n)'
  BY <1>1, GotoFacts DEF BulkFail, Billing
<1>4. CASE status \notin Final
  BY <1>1, <1>2, <1>3, <1>4, NobodyBills, UnbilledStep
<1>5. CASE status \in Final
  <2>1. \A v \in Actors : Billing(v)' => Billing(v) /\ pc'[v] = pc[v] /\ bill'[v] = bill[v]
    BY <1>1, <1>3, OthersKept DEF Billing
  <2>2. ASSUME NEW a \in Actors, Billing(a)' PROVE Progress(a)' /\ Parts(a)' /\ Due(a)'
    <3>1. Progress(a) /\ Parts(a) /\ pc'[a] = pc[a] /\ bill'[a] = bill[a]
      BY <2>1, <2>2 DEF Money, OneBills
    <3>2. Progress(a)'
      BY <1>2, <3>1 DEF Progress
    <3>3. Parts(a)'
      BY <1>2, <3>1 DEF Parts
    <3> QED BY <1>2, <3>2, <3>3 DEF Due
  <2>3. OneBills'
    BY <1>2, <2>1, <2>2 DEF Money, OneBills, Final
  <2>4. GivenBackAtMostOnce' /\ OutcomeBilled'
    BY <1>2 DEF Money, GivenBackAtMostOnce, OutcomeBilled
  <2> QED BY <2>3, <2>4 DEF Money
<1> QED BY <1>4, <1>5

LEMMA MoneyFetch ==
  ASSUME Types, PlacesFit, Money, [Next]_vars, NEW f \in Fetchers, Fetch(f)
  PROVE  Money'
<1>1. f \in Actors /\ Moves(f) /\ ActorsOK
  BY Constants DEF Moves, Types
<1>2. UNCHANGED <<paid, subFree>> /\ (faulty => faulty') /\ (outside => outside')
  <2>1. UNCHANGED <<paid, subFree>> /\ (faulty => faulty')
    BY DEF Fetch, FetchLoad, FetchAsk, FetchSave, StoreError, rows
  <2>2. outside' = outside \/ outside' = (outside \/ (seen[f].status \in Final /\ status \notin Final))
    BY DEF Fetch, FetchLoad, FetchAsk, FetchSave
  <2>3. outside => outside'
    BY <2>2
  <2> QED BY <2>1, <2>3
<1>3. ~Billing(f)
  BY DEF Fetch, FetchLoad, FetchAsk, FetchSave, Billing
<1>4. \E l \in FetchPlaces : Goto(f, l)
  BY DEF Fetch, FetchLoad, FetchAsk, FetchSave, FetchPlaces
<1>5. ~Billing(f)'
  BY <1>1, <1>4, GotoFacts DEF FetchPlaces, Billing
<1>6. CASE status' = status
  BY <1>1, <1>2, <1>3, <1>5, <1>6, QuietMove
<1>7. CASE status' # status
  <2>1. ~BulkFail(f) /\ \A n \in Nodes : ~BulkFail(n)
    <3>1. ASSUME NEW n \in Nodes, BulkFail(n) PROVE FALSE
      <4>1. n # f /\ n \in Actors
        BY Constants, TaskAssumption
      <4>2. pc[n] = "ask" /\ pc'[n] = "sleep"
        BY <1>1, <3>1, <4>1, GotoFacts DEF BulkFail
      <4> QED BY <1>1, <4>1, <4>2, OthersKept
    <3>2. ASSUME BulkFail(f) PROVE FALSE
      BY <3>2 DEF BulkFail, Fetch, FetchLoad, FetchAsk, FetchSave
    <3> QED BY <3>1, <3>2
  <2>2. status \notin Final
    BY <1>7, <2>1, FinalStays
  <2>3. status' \in Final => outside'
    <3>1. /\ outside' = (outside \/ (seen[f].status \in Final /\ status \notin Final))
          /\ status' = seen[f].status
      BY <1>7 DEF Fetch, FetchLoad, FetchAsk, FetchSave, rows
    <3> QED BY <2>2, <3>1
  <2> QED BY <1>1, <1>2, <1>5, <2>2, <2>3, NobodyBills, UnbilledStep
<1> QED BY <1>6, <1>7

(* What is known of the node that takes the next step of an adjustment. *)
LEMMA AdjustFacts ==
  ASSUME Types, PlacesFit, Money, NEW n \in Nodes, Adjust(n)
  PROVE  /\ n \in Actors /\ Moves(n) /\ ActorsOK /\ Billing(n)
         /\ Progress(n) /\ Parts(n)
         /\ bill[n].then \in {"sleep", "load"}
         /\ UNCHANGED <<status, upstream, outside, task>>
         /\ status \in Final
         /\ \A l : Goto(n, l) => pc'[n] = l
<1>1. n \in Actors /\ Moves(n) /\ ActorsOK
  BY Constants DEF Moves, Poll, Types
<1>2. Billing(n)
  BY DEF Adjust, AdjustWallet, AdjustSub, AdjustSubAvailable, AdjustUndoSub, AdjustToken, Billing
<1>3. bill[n].then \in {"sleep", "load"}
  BY DEF PlacesFit, NodeFits
<1>4. UNCHANGED <<status, upstream, outside, task>>
  BY DEF Adjust, AdjustWallet, AdjustSub, AdjustSubAvailable, AdjustUndoSub, AdjustToken, world
<1> QED BY <1>1, <1>2, <1>3, <1>4, GotoFacts DEF Money, OneBills

LEMMA MoneyAdjustWallet ==
  ASSUME Types, PlacesFit, Money, [Next]_vars, NEW n \in Nodes, AdjustWallet(n)
  PROVE  Money'
<1>1. Adjust(n) /\ pc[n] = "wallet" /\ UNCHANGED subFree
  BY DEF Adjust, AdjustWallet
<1>2. /\ n \in Actors /\ Moves(n) /\ ActorsOK /\ Billing(n) /\ Progress(n) /\ Parts(n)
      /\ bill[n].then \in {"sleep", "load"} /\ UNCHANGED <<status, upstream, outside, task>>
      /\ \A l : Goto(n, l) => pc'[n] = l
  BY <1>1, AdjustFacts
<1>3. UNCHANGED bill
  BY DEF AdjustWallet, AbandonAdjust
<1>4. /\ paid.t = Quota /\ paid.w = task.fundW
      /\ bill[n].delta > 0 => paid.s = Quota - task.fundW + bill[n].s
      /\ ~(bill[n].delta > 0) => paid.s = Quota - task.fundW
  BY <1>1, <1>2 DEF Progress
<1>5. /\ bill[n].w + bill[n].s = bill[n].delta /\ bill[n].delta # 0
      /\ bill[n].delta < 0 => /\ -task.fundW <= bill[n].w /\ bill[n].w <= 0
                              /\ task.fundW - Quota <= bill[n].s /\ bill[n].s <= 0
      /\ ~(bill[n].delta < 0) => bill[n].w >= 0 /\ bill[n].s >= 0
  BY <1>1, <1>2 DEF Parts
<1>6. CASE /\ paid' = [paid EXCEPT !.w = @ + bill[n].w]
           /\ pc'[n] = IF Platform = "mj" THEN bill[n].then
                       ELSE IF bill[n].delta < 0 /\ bill[n].s # 0 THEN "sub" ELSE "token"
  <2>1. paid'.w = task.fundW + bill[n].w /\ paid'.s = paid.s /\ paid'.t = paid.t
    BY <1>4, <1>6 DEF Types, ChargeOK
  <2>2. GivenBackAtMostOnce'
    BY <1>2, <1>4, <1>5, <2>1, NumberFacts DEF Money, GivenBackAtMostOnce
  <2>3. CASE Platform = "mj" /\ pc'[n] = bill[n].then
    <3>1. ~Billing(n)'
      BY <1>2, <2>3 DEF Billing
    <3>2. task.fundW = Quota
      BY <2>3, TaskFacts DEF Types, WorldOK
    <3>3. Charged' = Quota + bill[n].delta
      BY <1>2, <1>4, <1>5, <2>1, <3>2, NumberFacts DEF Charged
    <3> QED BY <1>2, <2>2, <2>3, <3>1, <3>3, EndStep
  <2>4. CASE bill[n].delta < 0 /\ pc'[n] = "sub"
    <3>1. Progress(n)'
      BY <1>2, <1>3, <1>4, <2>1, <2>4, NumberFacts DEF Progress
    <3>2. Parts(n)'
      BY <1>1, <1>2, <1>3, <2>4, NumberFacts DEF Parts
    <3>3. Billing(n)'
      BY <2>4 DEF Billing
    <3> QED BY <1>2, <1>3, <2>2, <3>1, <3>2, <3>3, GoesOnStep
  <2>5. CASE ~(bill[n].delta < 0 /\ bill[n].s # 0) /\ pc'[n] = "token"
    <3>1. paid'.s = Quota - task.fundW + bill[n].s
      BY <1>2, <1>4, <1>5, <2>1, <2>5, NumberFacts
    <3>2. Progress(n)'
      BY <1>2, <1>3, <1>4, <2>1, <2>5, <3>1 DEF Progress
    <3>3. Parts(n)'
      BY <1>1, <1>2, <1>3, <2>5 DEF Parts
    <3>4. Billing(n)'
      BY <2>5 DEF Billing
    <3> QED BY <1>2, <1>3, <2>2, <3>2, <3>3, <3>4, GoesOnStep
  <2> QED BY <1>6, <2>3, <2>4, <2>5
<1>7. CASE /\ faulty' /\ UNCHANGED paid
           /\ \/ bill[n].delta > 0 /\ bill[n].s > 0 /\ pc'[n] = "undoSub"
              \/ pc'[n] = bill[n].then
  <2>1. GivenBackAtMostOnce'
    BY <1>7 DEF Money, GivenBackAtMostOnce
  <2>2. CASE bill[n].delta > 0 /\ bill[n].s > 0 /\ pc'[n] = "undoSub"
    <3>1. Progress(n)'
      BY <1>2, <1>3, <1>4, <1>7, <2>2 DEF Progress
    <3>2. Parts(n)'
      BY <1>1, <1>2, <1>3, <2>2 DEF Parts
    <3>3. Billing(n)'
      BY <2>2 DEF Billing
    <3> QED BY <1>2, <1>3, <2>1, <3>1, <3>2, <3>3, GoesOnStep
  <2>3. CASE pc'[n] = bill[n].then
    <3>1. ~Billing(n)'
      BY <1>2, <2>3 DEF Billing
    <3> QED BY <1>2, <1>7, <2>1, <3>1, EndStep
  <2> QED BY <1>7, <2>2, <2>3
<1> QED BY <1>2, <1>6, <1>7 DEF AdjustWallet, AbandonAdjust, StoreError

LEMMA MoneyAdjustSub ==
  ASSUME Types, PlacesFit, Money, [Next]_vars, NEW n \in Nodes, AdjustSub(n)
  PROVE  Money'
<1>1. Adjust(n) /\ pc[n] = "sub"
  BY DEF Adjust, AdjustSub
<1>2. /\ n \in Actors /\ Moves(n) /\ ActorsOK /\ Billing(n) /\ Progress(n) /\ Parts(n)
      /\ bill[n].then \in {"sleep", "load"} /\ UNCHANGED <<status, upstream, outside, task>>
      /\ \A l : Goto(n, l) => pc'[n] = l
  BY <1>1, AdjustFacts
<1>3. UNCHANGED bill
  BY DEF AdjustSub, AbandonAdjust
<1>4. paid.t = Quota /\ paid.w = task.fundW + bill[n].w /\ paid.s = Quota - task.fundW
  BY <1>1, <1>2 DEF Progress
<1>5. /\ bill[n].w + bill[n].s = bill[n].delta /\ bill[n].delta # 0
      /\ bill[n].delta > 0 => task.source = "subscription" /\ bill[n].w = 0
      /\ bill[n].delta < 0 => task.fundW - Quota <= bill[n].s /\ bill[n].s <= 0
      /\ ~(bill[n].delta < 0) => bill[n].s >= 0
  BY <1>1, <1>2 DEF Parts
<1>6. CASE /\ paid' = [paid EXCEPT !.s = @ + bill[n].s]
           /\ pc'[n] = "token"
  <2>1. paid'.w = paid.w /\ paid'.s = Quota - task.fundW + bill[n].s /\ paid'.t = paid.t
    BY <1>4, <1>6 DEF Types, ChargeOK
  <2>2. GivenBackAtMostOnce'
    BY <1>4, <1>5, <2>1, NumberFacts, <1>2 DEF Money, GivenBackAtMostOnce
  <2>3. Progress(n)'
    BY <1>2, <1>3, <1>4, <1>6, <2>1 DEF Progress
  <2>4. Parts(n)'
    BY <1>1, <1>2, <1>3, <1>6 DEF Parts
  <2>5. Billing(n)'
    BY <1>6 DEF Billing
  <2> QED BY <1>2, <1>3, <2>2, <2>3, <2>4, <2>5, GoesOnStep
<1>7. CASE /\ pc'[n] = bill[n].then /\ UNCHANGED <<subFree, paid>>
           /\ faulty' \/ bill[n].s > subFree
  <2>1. ~Billing(n)' /\ GivenBackAtMostOnce'
    BY <1>2, <1>7 DEF Billing, Money, GivenBackAtMostOnce
  <2>2. CASE faulty'
    BY <1>2, <2>1, <2>2, EndStep
  <2>3. CASE bill[n].s > subFree
    <3>1. bill[n].delta > 0
      BY <1>2, <1>5, <2>3, NumberFacts
    <3>2. task.source = "subscription" /\ Platform # "mj"
      BY <1>5, <3>1, TaskFacts DEF Types, WorldOK
    <3>3. Charged' = Quota /\ bill[n].delta > subFree' /\ subFree' \in Nat
      BY <1>2, <1>4, <1>5, <1>7, <2>3, <3>1, NumberFacts DEF Charged
    <3> QED BY <1>2, <2>1, <3>2, <3>3, EndStep
  <2> QED BY <1>7, <2>2, <2>3
<1> QED BY <1>2, <1>6, <1>7 DEF AdjustSub, StoreError, AbandonAdjust

LEMMA MoneyAdjustSubAvailable ==
  ASSUME Types, PlacesFit, Money, [Next]_vars, NEW n \in Nodes, AdjustSubAvailable(n)
  PROVE  Money'
<1>1. Adjust(n) /\ pc[n] = "subAvailable"
  BY DEF Adjust, AdjustSubAvailable
<1>2. /\ n \in Actors /\ Moves(n) /\ ActorsOK /\ Billing(n) /\ Progress(n) /\ Parts(n)
      /\ bill[n].then \in {"sleep", "load"} /\ UNCHANGED <<status, upstream, outside, task>>
      /\ \A l : Goto(n, l) => pc'[n] = l
  BY <1>1, AdjustFacts
<1>3. /\ paid.t = Quota /\ paid.w = task.fundW /\ paid.s = Quota - task.fundW
      /\ bill[n].delta > 0 /\ bill[n].delta >= -Quota
  BY <1>1, <1>2 DEF Progress, Parts
<1>4. CASE faulty' /\ AbandonAdjust(n) /\ UNCHANGED paid
  <2>1. ~Billing(n)' /\ GivenBackAtMostOnce'
    BY <1>2, <1>4 DEF AbandonAdjust, Billing, Money, GivenBackAtMostOnce
  <2> QED BY <1>2, <1>4, <2>1, EndStep
<1>5. CASE ~(faulty' /\ AbandonAdjust(n) /\ UNCHANGED paid)
  <2> DEFINE takes == IF subFree < bill[n].delta THEN subFree ELSE bill[n].delta
             rest == bill[n].delta - takes
  <2>1. /\ paid' = [paid EXCEPT !.s = @ + takes]
        /\ bill' = [bill EXCEPT ![n].w = rest, ![n].s = takes]
        /\ pc'[n] = IF rest > 0 THEN "wallet" ELSE "token"
    BY <1>2, <1>5 DEF AdjustSubAvailable, StoreError
  <2>2. /\ takes \in Int /\ rest \in Int /\ takes >= 0 /\ rest >= 0
        /\ rest + takes = bill[n].delta
    BY <1>2, <1>3, NumberFacts
  <2> HIDE DEF takes, rest
  <2>3. bill'[n].delta = bill[n].delta /\ bill'[n].w = rest /\ bill'[n].s = takes
    BY <1>2, <2>1 DEF ActorsOK, Bill
  <2>4. paid'.w = task.fundW /\ paid'.s = Quota - task.fundW + takes /\ paid'.t = Quota
    BY <1>3, <2>1 DEF Types, ChargeOK
  <2>5. GivenBackAtMostOnce'
    BY <1>2, <2>2, <2>4, NumberFacts DEF GivenBackAtMostOnce
  <2>6. (pc'[n] = "wallet" \/ (pc'[n] = "token" /\ rest = 0)) /\ Billing(n)'
    BY <2>1, <2>2 DEF Billing
  <2>7. Progress(n)'
    BY <1>2, <1>3, <2>2, <2>3, <2>4, <2>6, NumberFacts DEF Progress
  <2>8. Parts(n)'
    BY <1>2, <1>3, <2>2, <2>3, <2>6 DEF Parts
  <2> QED BY <1>2, <2>3, <2>5, <2>6, <2>7, <2>8, GoesOnStep
<1> QED BY <1>4, <1>5

LEMMA MoneyAdjustUndoSub ==
  ASSUME Types, PlacesFit, Money, [Next]_vars, NEW n \in Nodes, AdjustUndoSub(n)
  PROVE  Money'
<1>1. Adjust(n) /\ pc[n] = "undoSub"
  BY DEF Adjust, AdjustUndoSub
<1>2. /\ n \in Actors /\ Moves(n) /\ ActorsOK /\ Billing(n) /\ Progress(n) /\ Parts(n)
      /\ bill[n].then \in {"sleep", "load"} /\ UNCHANGED <<status, upstream, outside, task>>
      /\ \A l : Goto(n, l) => pc'[n] = l
  BY <1>1, AdjustFacts
<1>3. faulty /\ paid.s = Quota - task.fundW + bill[n].s /\ paid.w = task.fundW /\ paid.t = Quota
  BY <1>1, <1>2 DEF Progress
<1>4. faulty' /\ paid' = [paid EXCEPT !.s = @ - bill[n].s]
  BY <1>3 DEF AdjustUndoSub, StoreError
<1>5. GivenBackAtMostOnce'
  <2>1. paid'.w = task.fundW /\ paid'.s = paid.s - bill[n].s /\ paid'.t = Quota
    BY <1>3, <1>4 DEF Types, ChargeOK
  <2> QED BY <1>2, <1>3, <2>1, NumberFacts DEF GivenBackAtMostOnce
<1>6. ~Billing(n)'
  BY <1>2 DEF AdjustUndoSub, AbandonAdjust, Billing
<1> QED BY <1>2, <1>4, <1>5, <1>6, EndStep

LEMMA MoneyAdjustToken ==
  ASSUME Types, PlacesFit, Money, [Next]_vars, NEW n \in Nodes, AdjustToken(n)
  PROVE  Money'
<1>1. Adjust(n) /\ pc[n] = "token"
  BY DEF Adjust, AdjustToken
<1>2. /\ n \in Actors /\ Moves(n) /\ ActorsOK /\ Billing(n) /\ Progress(n) /\ Parts(n)
      /\ bill[n].then \in {"sleep", "load"} /\ UNCHANGED <<status, upstream, outside, task>>
      /\ \A l : Goto(n, l) => pc'[n] = l
  BY <1>1, AdjustFacts
<1>3. /\ paid.t = Quota /\ paid.w = task.fundW + bill[n].w
      /\ paid.s = Quota - task.fundW + bill[n].s
  BY <1>1, <1>2 DEF Progress
<1>4. bill[n].w + bill[n].s = bill[n].delta /\ bill[n].delta >= -Quota
  BY <1>1, <1>2 DEF Parts
<1>5. ~Billing(n)'
  BY <1>2 DEF AdjustToken, Billing
<1>6. CASE paid' = [paid EXCEPT !.t = @ + bill[n].delta]
  <2>1. paid'.w = paid.w /\ paid'.s = paid.s /\ paid'.t = Quota + bill[n].delta
    BY <1>3, <1>6 DEF Types, ChargeOK
  <2>2. GivenBackAtMostOnce'
    BY <1>2, <1>4, <2>1, NumberFacts DEF Money, GivenBackAtMostOnce
  <2>3. Charged' = Quota + bill[n].delta
    BY <1>2, <1>3, <1>4, <2>1, NumberFacts DEF Charged
  <2> QED BY <1>2, <1>5, <2>1, <2>2, <2>3, EndStep
<1>7. CASE faulty' /\ UNCHANGED paid
  <2>1. GivenBackAtMostOnce'
    BY <1>7 DEF Money, GivenBackAtMostOnce
  <2> QED BY <1>2, <1>5, <1>7, <2>1, EndStep
<1> QED BY <1>6, <1>7 DEF AdjustToken, StoreError

(* Every step of a guarded task keeps its charge in order. *)
LEMMA MoneyStep == Types /\ PlacesFit /\ Money /\ [Next]_vars => Money'
<1> SUFFICES ASSUME Types, PlacesFit, Money, [Next]_vars PROVE Money'
  OBVIOUS
<1>1. ASSUME UNCHANGED <<status, paid, subFree, pc, bill, faulty, outside>> PROVE Money'
  <2>1. \A v \in Actors : Billing(v)' = Billing(v)
    BY <1>1 DEF Billing
  <2> QED BY <1>1, <2>1, QuietStep
<1>2. UNCHANGED vars \/ UpstreamEnds \/ TimePasses
        => UNCHANGED <<status, paid, subFree, pc, bill, faulty, outside>>
  BY DEF vars, UpstreamEnds, TimePasses, rows
<1>3. ~Notify
  BY DEF PlacesFit, Guarded, Notify
<1>4. ASSUME NEW n \in Nodes, ApplySuno(n) \/ SaveSuno(n) PROVE FALSE
  BY <1>4 DEF ApplySuno, SaveSuno, PlacesFit, NodeFits
<1> QED BY <1>1, <1>2, <1>3, <1>4, MoneyReads, MoneySweepCas, MoneyApply, MoneyApplyMj,
           MoneyBulkFail, MoneyFetch, MoneyAdjustWallet, MoneyAdjustSub,
           MoneyAdjustSubAvailable, MoneyAdjustUndoSub, MoneyAdjustToken
        DEF Next, Poll, Adjust

LEMMA MoneyInit == Init /\ Guarded => Money
<1> SUFFICES ASSUME Init, Guarded PROVE Money
  OBVIOUS
<1>1. Types
  BY TypesInit
<1>2. status = "NOT_START" /\ Submitted
  BY DEF Init, Submitted
<1>3. \A a \in Actors : ~Billing(a)
  BY DEF Init, Billing
<1>4. paid.w = task.fundW /\ paid.s = Quota - task.fundW /\ paid.t = Quota
  BY <1>2 DEF Submitted
<1>5. GivenBackAtMostOnce
  BY <1>1, <1>4, NumberFacts DEF GivenBackAtMostOnce
<1>6. Charged = Quota
  BY <1>1, <1>4, NumberFacts DEF Charged
<1>7. OutcomeBilled
  BY <1>2, <1>4, <1>6 DEF OutcomeBilled
<1>8. OneBills
  BY <1>2, <1>3 DEF OneBills
<1> QED BY <1>5, <1>7, <1>8 DEF Money

LEMMA MoneyAlways == Spec /\ Guarded => []Money
<1> QED BY MoneyInit, MoneyStep, TypesAlways, PlacesFitAlways, PTL DEF Spec

(* However many nodes poll a guarded task, sweep it, lose their updates or   *)
(* crash between the steps of an adjustment, no funding source and no token  *)
(* is given back more than the submission took from it: only the node whose  *)
(* UpdateWithStatus wins adjusts the charge.                                 *)
THEOREM TaskNoDoubleRefund == Spec /\ Guarded => []NoDoubleRefund
<1>1. Money => NoDoubleRefund
  BY DEF Money, NoDoubleRefund
<1> QED BY <1>1, MoneyAlways, PTL

(* Once nobody adjusts the charge of a guarded task and nothing failed, it   *)
(* is what RefundTaskQuota or settleTaskBillingOnComplete promise for the    *)
(* status of the row.                                                        *)
THEOREM TaskOutcomeBilled == Spec /\ Guarded => []OutcomeBilled
<1>1. Money => OutcomeBilled
  BY DEF Money
<1> QED BY <1>1, MoneyAlways, PTL

(* A final status of a guarded task is never overwritten by a stale answer   *)
(* or a late sweep, and the charge moves only after it is set.               *)
THEOREM TaskFinalIsFinal == Spec => FinalIsFinal
<1> DEFINE A == (Guarded /\ "gone" \notin Env)
                  => /\ status \in Final => status' = status
                     /\ paid' # paid => status \in Final
<1>1. ASSUME Types, PlacesFit, Money, [Next]_vars PROVE A
  <2>1. ASSUME "gone" \notin Env, status \in Final PROVE status' = status
    BY <1>1, <2>1, FinalStays
  <2>2. ASSUME paid' # paid PROVE status \in Final
    <3>1. ASSUME NEW n \in Nodes, Adjust(n) PROVE status \in Final
      BY <1>1, <3>1, AdjustFacts
    <3>2. \E n \in Nodes : Adjust(n)
      BY <1>1, <2>2 DEF Next, Poll, Fetch, Sweep, SweepCas, PollLoad, Ask, Apply, ApplySuno,
         SaveSuno, ApplyMj, BulkFail, Crash, FetchLoad, FetchAsk, FetchSave, UpstreamEnds,
         TimePasses, Notify, vars, rows
    <3> QED BY <3>1, <3>2
  <2> QED BY <2>1, <2>2
<1>2. Types /\ PlacesFit /\ Money /\ [Next]_vars => [A]_vars
  BY <1>1
<1>3. Spec /\ Guarded => [][A]_vars
  BY <1>2, TypesAlways, PlacesFitAlways, MoneyAlways, PTL DEF Spec
<1>4. Types /\ ~Guarded /\ [Next]_vars => ~Guarded' /\ [A]_vars
  BY WorldMoves DEF Guarded, Platform, Env
<1>5. Spec /\ ~Guarded => [][A]_vars
  BY <1>4, TypesAlways, PTL DEF Spec
<1>6. Spec => [][A]_vars
  BY <1>3, <1>5, PTL
<1> QED BY <1>6 DEF FinalIsFinal
=============================================================================
