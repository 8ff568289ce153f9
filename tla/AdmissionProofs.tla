-------------------------- MODULE AdmissionProofs --------------------------
(***************************************************************************)
(* Proofs about ChannelAdmission for any number of requests, channels,     *)
(* accounts and groups and any limits: type correctness, counters that     *)
(* equal the leases, limits that hold, queues whose depths are right and   *)
(* bounded, the order of arrival, and nothing left behind.                 *)
(***************************************************************************)
EXTENDS ChannelAdmission, FiniteSums

(* The parts of TypeOK. *)
CountersOK ==
  /\ active \in [Channels -> Nat]
  /\ acctActive \in [Channels \X Accounts -> Nat]
  /\ reserved \in [Channels -> Nat]
  /\ ctxReserved \in [Requests \X Channels -> Nat]

ContextOK ==
  /\ skipped \in [Requests -> SUBSET Targets]
  /\ fellBack \subseteq Requests
  /\ retry \in [Requests -> 0 .. RetryTimes]

PlansOK ==
  /\ plan \in [Requests -> Plan]
  /\ target \in [Requests -> Targets \cup {NoTarget}]
  /\ origin \in [Requests -> Channels \cup {None}]

QueuesOK ==
  /\ depth \in [Queues -> Nat]
  /\ groupDepth \in [Queues \X Groups -> Nat]
  /\ waiters \in [Queues -> SUBSET Requests]
  /\ ticket \in [Requests -> Nat]
  /\ nextSeq \in Nat

AttemptsOK ==
  /\ lease \in [Requests -> Leases]
  /\ panicked \subseteq Requests
  /\ pc \in [Requests -> Labels]

LEMMA TypeOKParts ==
  TypeOK <=> CountersOK /\ ContextOK /\ PlansOK /\ QueuesOK /\ AttemptsOK
BY DEF TypeOK, CountersOK, ContextOK, PlansOK, QueuesOK, AttemptsOK

LEMMA TypeOKPartsNext ==
  CountersOK' /\ ContextOK' /\ PlansOK' /\ QueuesOK' /\ AttemptsOK' => TypeOK'
BY DEF TypeOK, CountersOK, ContextOK, PlansOK, QueuesOK, AttemptsOK

LEMMA NoPlanIsPlan == NoPlan \in Plan
<1>1. (CHOOSE g \in Groups : TRUE) \in Groups
  BY AdmissionAssumption
<1> QED BY <1>1 DEF NoPlan, Plan

LEMMA DecFacts ==
  ASSUME NEW n \in Nat
  PROVE  Dec(n) \in Nat /\ (n > 0 => Dec(n) = n - 1) /\ (n = 0 => Dec(n) = 0)
BY DEF Dec

(* Counting a function's value up or down. *)
LEMMA CountTypes ==
  ASSUME NEW D, NEW f \in [D -> Nat], NEW x
  PROVE  /\ [f EXCEPT ![x] = @ + 1] \in [D -> Nat]
         /\ [f EXCEPT ![x] = Dec(@)] \in [D -> Nat]
<1>1. \A d \in D : f[d] + 1 \in Nat /\ Dec(f[d]) \in Nat
  BY DecFacts
<1> QED BY <1>1
-----------------------------------------------------------------------------
(* Type correctness, part by part. *)

LEMMA TypeOKInit == Init => TypeOK
<1> SUFFICES ASSUME Init PROVE TypeOK
  OBVIOUS
<1>1. CountersOK
  BY DEF Init, CountersOK
<1>2. ContextOK
  BY AdmissionAssumption DEF Init, ContextOK
<1>3. PlansOK
  BY NoPlanIsPlan DEF Init, PlansOK
<1>4. QueuesOK
  BY DEF Init, QueuesOK
<1>5. AttemptsOK
  BY DEF Init, AttemptsOK, Leases, Labels
<1> QED BY <1>1, <1>2, <1>3, <1>4, <1>5, TypeOKParts

(* Reserving and releasing keep the two counts of reservations numbers. *)
LEMMA ReservedTypes ==
  ASSUME CountersOK, NEW r, NEW ch,
         \/ ReserveChannelSelectionRouting(r, ch)
         \/ ReleaseChannelSelectionReservation(r, ch)
  PROVE  reserved' \in [Channels -> Nat] /\ ctxReserved' \in [Requests \X Channels -> Nat]
<1>1. PICK x : x = <<r, ch>>
  OBVIOUS
<1>2. /\ \/ reserved' = [reserved EXCEPT ![ch] = @ + 1]
         \/ reserved' = [reserved EXCEPT ![ch] = Dec(@)]
      /\ \/ ctxReserved' = [ctxReserved EXCEPT ![x] = @ + 1]
         \/ ctxReserved' = [ctxReserved EXCEPT ![x] = Dec(@)]
  BY <1>1 DEF ReserveChannelSelectionRouting, ReleaseChannelSelectionReservation
<1>3. reserved' \in [Channels -> Nat]
  <2>1. reserved \in [Channels -> Nat]
    BY DEF CountersOK
  <2> QED BY <1>2, <2>1, CountTypes
<1>4. ctxReserved' \in [Requests \X Channels -> Nat]
  <2> DEFINE D == Requests \X Channels
  <2>1. ctxReserved \in [D -> Nat]
    BY DEF CountersOK
  <2> HIDE DEF D
  <2>2. ctxReserved' \in [D -> Nat]
    BY <1>2, <2>1, CountTypes
  <2> QED BY <2>2 DEF D
<1> QED BY <1>3, <1>4

LEMMA CountersStep ==
  ASSUME CountersOK, NEW r \in Requests, Step(r)
  PROVE  CountersOK'
<1>1. CASE UNCHANGED counterVars
  BY <1>1 DEF CountersOK, counterVars
<1>2. ASSUME NEW ch, UNCHANGED <<active, acctActive>>,
             \/ ReserveChannelSelectionRouting(r, ch)
             \/ ReleaseChannelSelectionReservation(r, ch)
      PROVE  CountersOK'
  BY <1>2, ReservedTypes DEF CountersOK
<1>3. CASE TryAcquireChannelConcurrency(r)
  <2>1. /\ active' = active \/ active' = [active EXCEPT ![Channel(r)] = @ + 1]
        /\ \/ acctActive' = acctActive
           \/ acctActive' = [acctActive EXCEPT ![target[r]] = @ + 1]
        /\ UNCHANGED <<reserved, ctxReserved>>
    BY <1>3 DEF TryAcquireChannelConcurrency
  <2> QED BY <2>1, CountTypes DEF CountersOK
<1>4. CASE ReleaseChannelSlot(r)
  BY <1>4, CountTypes DEF ReleaseChannelSlot, CountersOK
<1>5. CASE ReleaseAccountSlot(r)
  BY <1>5, CountTypes DEF ReleaseAccountSlot, CountersOK
<1>6. ASSUME NEW p \in Plans, NEW t \in Targets, SelectSmart(r, p, t) \/ SelectLegacy(r, p, t)
      PROVE  CountersOK'
  BY <1>1, <1>2, <1>6 DEF SelectSmart, SelectLegacy
<1>7. CASE SetupFails(r) \/ Unreserve(r) \/ PreUnreserve(r)
  BY <1>1, <1>2, <1>7 DEF SetupFails, Unreserve, PreUnreserve, counterVars
<1>8. ASSUME NEW t \in Targets, PoolSelect(r, t) PROVE CountersOK'
  BY <1>2, <1>8 DEF PoolSelect
<1>9. ASSUME NEW ch \in Channels, FinishReservation(r, ch) PROVE CountersOK'
  BY <1>2, <1>9 DEF FinishReservation
<1>10. CASE \/ SelectFails(r) \/ SetupOk(r) \/ RelayRefuses(r) \/ PoolSelectFails(r)
            \/ PoolSetup(r) \/ EnterQueue(r) \/ LeaveQueue(r) \/ Rejected(r)
            \/ AfterRelease(r) \/ AfterSetupRelease(r) \/ Finish(r)
            \/ WaitTick(r) \/ WaitEnds(r) \/ AttemptEnds(r) \/ Panic(r)
  BY <1>1, <1>10 DEF SelectFails, SetupOk, RelayRefuses, PoolSelectFails, PoolSetup,
     EnterQueue, LeaveQueue, Rejected, AfterRelease, AfterSetupRelease, Finish,
     WaitTick, WaitEnds, AttemptEnds, Panic
<1> QED BY <1>3, <1>4, <1>5, <1>6, <1>7, <1>8, <1>9, <1>10 DEF Step, Proceed

LEMMA RuntimeSkipIsTargets ==
  ASSUME PlansOK, NEW r \in Requests
  PROVE  RuntimeSkip(r) \subseteq Targets
<1>1. target[r] \in Targets \/ target[r] = NoTarget
  BY DEF PlansOK
<1>2. NoTarget[2] = None
  BY DEF NoTarget
<1> QED BY <1>1, <1>2 DEF RuntimeSkip, Account

LEMMA ContextStep ==
  ASSUME ContextOK, PlansOK, NEW r \in Requests, Step(r)
  PROVE  ContextOK'
<1>1. CASE UNCHANGED ctxVars
  BY <1>1 DEF ContextOK, ctxVars
<1>2. ASSUME NEW S, skipped' = [skipped EXCEPT ![r] = @ \cup S], S \subseteq Targets
      PROVE  skipped' \in [Requests -> SUBSET Targets]
  BY <1>2 DEF ContextOK
<1>3. RuntimeSkip(r) \subseteq Targets
  BY RuntimeSkipIsTargets
<1>4. ASSUME NEW S, NextAttempt(r, S), S \subseteq Targets
      PROVE  skipped' \in [Requests -> SUBSET Targets]
  BY <1>2, <1>4 DEF NextAttempt
<1>5. CASE SetupFails(r)
  BY <1>1, <1>2, <1>3, <1>5 DEF SetupFails, ContextOK
<1>6. CASE Rejected(r)
  <2>1. CASE Stop(r)
    BY <1>1, <2>1 DEF Stop
  <2>2. CASE ~Stop(r)
    <3> DEFINE S == {t \in Targets : t[1] = Channel(r)}
    <3>1. NextAttempt(r, S) /\ retry' = retry
          /\ (fellBack' = fellBack \cup {r} \/ fellBack' = fellBack)
      BY <1>6, <2>2 DEF Rejected
    <3>2. S \subseteq Targets
      OBVIOUS
    <3> HIDE DEF S
    <3> QED BY <1>4, <3>1, <3>2 DEF ContextOK
  <2> QED BY <2>1, <2>2
<1>7. CASE AfterRelease(r) \/ AfterSetupRelease(r)
  <2>1. CASE Stop(r)
    BY <1>1, <2>1 DEF Stop
  <2>2. CASE ~Stop(r)
    <3>1. /\ NextAttempt(r, {}) \/ NextAttempt(r, RuntimeSkip(r))
          /\ fellBack' = fellBack
          /\ \/ retry' = retry
             \/ retry[r] < RetryTimes /\ retry' = [retry EXCEPT ![r] = @ + 1]
      BY <1>7, <2>2 DEF AfterRelease, AfterSetupRelease
    <3>2. retry' \in [Requests -> 0 .. RetryTimes]
      <4>1. retry[r] < RetryTimes => retry[r] + 1 \in 0 .. RetryTimes
        BY AdmissionAssumption DEF ContextOK
      <4> QED BY <3>1, <4>1 DEF ContextOK
    <3>3. skipped' \in [Requests -> SUBSET Targets]
      BY <1>3, <1>4, <3>1
    <3> QED BY <3>1, <3>2, <3>3 DEF ContextOK
  <2> QED BY <2>1, <2>2
<1>8. CASE Finish(r)
  <2>1. 0 \in 0 .. RetryTimes
    BY AdmissionAssumption
  <2> QED BY <1>8, <2>1 DEF Finish, ContextOK
<1>9. ASSUME NEW p \in Plans, NEW t \in Targets, SelectSmart(r, p, t) \/ SelectLegacy(r, p, t)
      PROVE  UNCHANGED ctxVars
  BY <1>9 DEF SelectSmart, SelectLegacy
<1>10. ASSUME \/ SelectFails(r) \/ SetupOk(r) \/ RelayRefuses(r) \/ PoolSelectFails(r)
              \/ TryAcquireChannelConcurrency(r) \/ Unreserve(r) \/ PreUnreserve(r)
              \/ (\E t \in Targets : PoolSelect(r, t))
              \/ PoolSetup(r) \/ EnterQueue(r) \/ LeaveQueue(r)
              \/ ReleaseAccountSlot(r) \/ ReleaseChannelSlot(r)
              \/ (\E ch \in Channels : FinishReservation(r, ch))
              \/ WaitTick(r) \/ WaitEnds(r) \/ AttemptEnds(r) \/ Panic(r)
       PROVE  UNCHANGED ctxVars
  BY <1>10 DEF SelectFails, SetupOk, RelayRefuses, PoolSelectFails, PoolSetup,
     EnterQueue, LeaveQueue, ReleaseAccountSlot, ReleaseChannelSlot, FinishReservation,
     TryAcquireChannelConcurrency, Unreserve, PreUnreserve, PoolSelect,
     WaitTick, WaitEnds, AttemptEnds, Panic
<1> QED BY <1>1, <1>5, <1>6, <1>7, <1>8, <1>9, <1>10 DEF Step, Proceed

LEMMA PlansStep ==
  ASSUME PlansOK, NEW r \in Requests, Step(r)
  PROVE  PlansOK'
<1>1. CASE UNCHANGED planVars
  BY <1>1 DEF PlansOK, planVars
<1>2. ASSUME NEW p \in Plans, NEW t \in Targets, SelectSmart(r, p, t) \/ SelectLegacy(r, p, t)
      PROVE  PlansOK'
  <2>1. p \in Plan
    BY AdmissionAssumption
  <2>2. /\ plan' = [plan EXCEPT ![r] = p] /\ target' = [target EXCEPT ![r] = t]
        /\ origin' = origin
    BY <1>2 DEF SelectSmart, SelectLegacy
  <2> QED BY <2>1, <2>2 DEF PlansOK
<1>3. ASSUME NEW S, NextAttempt(r, S) PROVE PlansOK'
  BY <1>3, NoPlanIsPlan DEF NextAttempt, PlansOK
<1>4. CASE Rejected(r) \/ AfterRelease(r) \/ AfterSetupRelease(r)
  BY <1>1, <1>3, <1>4 DEF Rejected, AfterRelease, AfterSetupRelease, Stop
<1>5. target[r][1] \in Channels \cup {None}
  BY DEF PlansOK, Targets, NoTarget
<1>6. <<origin[r], None>> \in Targets \cup {NoTarget}
  BY DEF PlansOK, Targets, NoTarget
<1>7. CASE PreUnreserve(r)
  BY <1>5, <1>7 DEF PreUnreserve, Channel, PlansOK
<1>8. ASSUME NEW t \in Targets, PoolSelect(r, t) PROVE PlansOK'
  BY <1>8 DEF PoolSelect, PlansOK
<1>9. CASE PoolSelectFails(r)
  <2>1. PICK t \in Targets \cup {NoTarget} : t = <<origin[r], None>>
    BY <1>6
  <2>2. target' = [target EXCEPT ![r] = t] /\ UNCHANGED <<plan, origin>>
    BY <1>9, <2>1 DEF PoolSelectFails
  <2> QED BY <2>2 DEF PlansOK
<1>10. CASE Finish(r)
  BY <1>10, NoPlanIsPlan DEF Finish, PlansOK
<1>11. ASSUME \/ SelectFails(r) \/ SetupOk(r) \/ SetupFails(r) \/ RelayRefuses(r)
              \/ TryAcquireChannelConcurrency(r) \/ Unreserve(r)
              \/ PoolSetup(r) \/ EnterQueue(r) \/ LeaveQueue(r)
              \/ ReleaseAccountSlot(r) \/ ReleaseChannelSlot(r)
              \/ (\E ch \in Channels : FinishReservation(r, ch))
              \/ WaitTick(r) \/ WaitEnds(r) \/ AttemptEnds(r) \/ Panic(r)
       PROVE  UNCHANGED planVars
  BY <1>11 DEF SelectFails, SetupOk, SetupFails, RelayRefuses, PoolSetup,
     EnterQueue, LeaveQueue, ReleaseAccountSlot, ReleaseChannelSlot, FinishReservation,
     TryAcquireChannelConcurrency, Unreserve, WaitTick, WaitEnds, AttemptEnds, Panic
<1> QED BY <1>1, <1>2, <1>4, <1>7, <1>8, <1>9, <1>10, <1>11 DEF Step, Proceed

(* What a queue step may do to the queues. *)
Enters(r) ==
  LET q == QueueKey(r)
  IN  /\ pc[r] = "enter"
      /\ AllowQueue(r)
      /\ depth' = [depth EXCEPT ![q] = @ + 1]
      /\ groupDepth' = [groupDepth EXCEPT ![<<q, plan[r].group>>] = @ + 1]
      /\ waiters' = [waiters EXCEPT ![q] = @ \cup {r}]
      /\ nextSeq' = nextSeq + 1
      /\ ticket' = [ticket EXCEPT ![r] = nextSeq + 1]

Leaves(r) ==
  LET q == QueueKey(r)
  IN  /\ pc[r] = "leave"
      /\ depth' = [depth EXCEPT ![q] = Dec(@)]
      /\ groupDepth' = [groupDepth EXCEPT ![<<q, plan[r].group>>] = Dec(@)]
      /\ waiters' = [waiters EXCEPT ![q] = @ \ {r}]
      /\ ticket' = [ticket EXCEPT ![r] = 0]
      /\ nextSeq' = nextSeq

LEMMA QueueMoves ==
  ASSUME NEW r \in Requests, Step(r)
  PROVE  \/ UNCHANGED queueVars
         \/ Enters(r) /\ EnterQueue(r)
         \/ Leaves(r) /\ LeaveQueue(r)
<1>1. CASE EnterQueue(r)
  BY <1>1 DEF EnterQueue, Enters
<1>2. CASE LeaveQueue(r)
  BY <1>2 DEF LeaveQueue, Leaves
<1>3. ASSUME NEW p \in Plans, NEW t \in Targets, SelectSmart(r, p, t) \/ SelectLegacy(r, p, t)
      PROVE  UNCHANGED queueVars
  BY <1>3 DEF SelectSmart, SelectLegacy
<1>4. ASSUME \/ SelectFails(r) \/ SetupOk(r) \/ SetupFails(r) \/ RelayRefuses(r)
             \/ TryAcquireChannelConcurrency(r) \/ Unreserve(r) \/ PreUnreserve(r)
             \/ (\E t \in Targets : PoolSelect(r, t)) \/ PoolSelectFails(r)
             \/ PoolSetup(r) \/ Rejected(r) \/ AfterRelease(r) \/ AfterSetupRelease(r)
             \/ ReleaseAccountSlot(r) \/ ReleaseChannelSlot(r) \/ Finish(r)
             \/ (\E ch \in Channels : FinishReservation(r, ch))
             \/ WaitTick(r) \/ WaitEnds(r) \/ AttemptEnds(r) \/ Panic(r)
      PROVE  UNCHANGED queueVars
  BY <1>4 DEF SelectFails, SetupOk, SetupFails, RelayRefuses, PoolSetup, PreUnreserve,
     PoolSelect, PoolSelectFails, Rejected, AfterRelease, AfterSetupRelease,
     ReleaseAccountSlot, ReleaseChannelSlot, FinishReservation, Finish,
     TryAcquireChannelConcurrency, Unreserve, WaitTick, WaitEnds, AttemptEnds, Panic
<1> QED BY <1>1, <1>2, <1>3, <1>4 DEF Step, Proceed

LEMMA QueuesStep ==
  ASSUME QueuesOK, NEW r \in Requests, Step(r)
  PROVE  QueuesOK'
<1>1. CASE UNCHANGED queueVars
  BY <1>1 DEF QueuesOK, queueVars
<1>2. PICK x : x = <<QueueKey(r), plan[r].group>>
  OBVIOUS
<1>3. /\ depth \in [Queues -> Nat]
      /\ groupDepth \in [Queues \X Groups -> Nat]
      /\ waiters \in [Queues -> SUBSET Requests]
      /\ ticket \in [Requests -> Nat]
      /\ nextSeq \in Nat
  BY DEF QueuesOK
<1>4. CASE Enters(r) \/ Leaves(r)
  <2>1. \/ depth' = [depth EXCEPT ![QueueKey(r)] = @ + 1]
        \/ depth' = [depth EXCEPT ![QueueKey(r)] = Dec(@)]
    BY <1>4 DEF Enters, Leaves
  <2>2. depth' \in [Queues -> Nat]
    <3>1. depth \in [Queues -> Nat]
      BY <1>3
    <3> QED BY <2>1, <3>1, CountTypes
  <2>3. \/ groupDepth' = [groupDepth EXCEPT ![x] = @ + 1]
        \/ groupDepth' = [groupDepth EXCEPT ![x] = Dec(@)]
    BY <1>2, <1>4 DEF Enters, Leaves
  <2>4. groupDepth' \in [Queues \X Groups -> Nat]
    <3> DEFINE D == Queues \X Groups
    <3>1. groupDepth \in [D -> Nat]
      BY <1>3
    <3> HIDE DEF D
    <3>2. groupDepth' \in [D -> Nat]
      BY <2>3, <3>1, CountTypes
    <3> QED BY <3>2 DEF D
  <2>5. waiters' \in [Queues -> SUBSET Requests]
    BY <1>3, <1>4 DEF Enters, Leaves
  <2>6. ticket' \in [Requests -> Nat] /\ nextSeq' \in Nat
    BY <1>3, <1>4 DEF Enters, Leaves
  <2> QED BY <2>2, <2>4, <2>5, <2>6 DEF QueuesOK
<1> QED BY <1>1, <1>4, QueueMoves

(* What a step does to the leases. *)
Acquires(r) ==
  /\ pc[r] = "try"
  /\ HasRoom(r)
  /\ active' = [active EXCEPT ![Channel(r)] = @ + 1]
  /\ acctActive' = IF Account(r) = None THEN acctActive
                   ELSE [acctActive EXCEPT ![target[r]] = @ + 1]
  /\ lease' = [lease EXCEPT ![r] = "held"]

LEMMA AttemptsStep ==
  ASSUME AttemptsOK, NEW r \in Requests, Step(r)
  PROVE  AttemptsOK'
<1> USE DEF AttemptsOK
<1>1. ASSUME NEW l \in Labels, Goto(r, l) PROVE pc' \in [Requests -> Labels]
  BY <1>1 DEF Goto
<1> DEFINE Places == {"distribute", "distSetup", "select", "setup", "try", "unreserve",
                      "preUnreserve", "poolSelect", "poolSetup", "enter", "wait", "leave",
                      "rejected", "upstream", "release", "setupRelease", "finish", "done"}
<1>2. ASSUME NEW l \in Places, Goto(r, l) PROVE pc' \in [Requests -> Labels]
  BY <1>1, <1>2 DEF Labels
<1>3. ASSUME NEW l \in Leases, lease' = [lease EXCEPT ![r] = l] PROVE lease' \in [Requests -> Leases]
  BY <1>3
<1>4. {"none", "held", "half", "released"} = Leases
  BY DEF Leases
<1>5. ASSUME NEW S, NextAttempt(r, S) PROVE pc' \in [Requests -> Labels] /\ lease' \in [Requests -> Leases]
  BY <1>2, <1>3, <1>4, <1>5 DEF NextAttempt
<1>7. ASSUME NEW p \in Plans, NEW t \in Targets, SelectSmart(r, p, t) \/ SelectLegacy(r, p, t)
      PROVE  AttemptsOK'
  BY <1>2, <1>7 DEF SelectSmart, SelectLegacy
<1>8. CASE TryAcquireChannelConcurrency(r)
  BY <1>2, <1>3, <1>4, <1>8 DEF TryAcquireChannelConcurrency
<1>9. CASE ReleaseAccountSlot(r) \/ ReleaseChannelSlot(r)
  BY <1>3, <1>4, <1>9 DEF ReleaseAccountSlot, ReleaseChannelSlot
<1>10. CASE Rejected(r) \/ AfterRelease(r) \/ AfterSetupRelease(r)
  BY <1>2, <1>5, <1>10 DEF Rejected, AfterRelease, AfterSetupRelease, Stop
<1>11. CASE SelectFails(r) \/ SetupOk(r) \/ SetupFails(r) \/ RelayRefuses(r)
  <2>1. \E l \in Places : Goto(r, l)
    BY <1>11 DEF SelectFails, SetupOk, SetupFails, RelayRefuses
  <2>2. UNCHANGED <<lease, panicked>>
    BY <1>11 DEF SelectFails, SetupOk, SetupFails, RelayRefuses
  <2> QED BY <1>2, <2>1, <2>2
<1>12. CASE Unreserve(r) \/ PreUnreserve(r) \/ PoolSelectFails(r) \/ PoolSetup(r)
  <2>1. \E l \in Places : Goto(r, l)
    BY <1>12 DEF Unreserve, PreUnreserve, PoolSelectFails, PoolSetup
  <2>2. UNCHANGED <<lease, panicked>>
    BY <1>12 DEF Unreserve, PreUnreserve, PoolSelectFails, PoolSetup
  <2> QED BY <1>2, <2>1, <2>2
<1>13. ASSUME NEW t \in Targets, PoolSelect(r, t) PROVE AttemptsOK'
  BY <1>2, <1>13 DEF PoolSelect
<1>14. CASE EnterQueue(r) \/ LeaveQueue(r) \/ WaitTick(r) \/ WaitEnds(r)
  BY <1>2, <1>14 DEF EnterQueue, LeaveQueue, WaitTick, WaitEnds
<1>15. CASE AttemptEnds(r) \/ Panic(r) \/ Finish(r)
  BY <1>2, <1>15 DEF AttemptEnds, Panic, Finish
<1>16. ASSUME NEW ch \in Channels, FinishReservation(r, ch) PROVE AttemptsOK'
  BY <1>16 DEF FinishReservation
<1> QED BY <1>7, <1>8, <1>9, <1>10, <1>11, <1>12, <1>13, <1>14, <1>15, <1>16 DEF Step, Proceed

LEMMA TypeOKStep == TypeOK /\ [Next]_vars => TypeOK'
<1> SUFFICES ASSUME TypeOK, [Next]_vars PROVE TypeOK'
  OBVIOUS
<1>1. CASE UNCHANGED vars
  BY <1>1 DEF TypeOK, vars, counterVars, queueVars, ctxVars, planVars
<1>2. ASSUME NEW r \in Requests, Step(r) PROVE TypeOK'
  BY <1>2, TypeOKParts, CountersStep, ContextStep, PlansStep, QueuesStep, AttemptsStep,
     TypeOKPartsNext
<1> QED BY <1>1, <1>2 DEF Next, Done

(* Every counter, queue and local of a request stays in its type. *)
THEOREM AdmissionTypeOK == Spec => []TypeOK
<1> QED BY TypeOKInit, TypeOKStep, PTL DEF Spec
-----------------------------------------------------------------------------
(* What the place of a request says about its lease, its target and its      *)
(* place in a queue: the inductive invariant the other theorems rest on.     *)

BeforeLease ==
  {"distribute", "distSetup", "select", "setup", "preUnreserve", "poolSelect",
   "try", "enter", "wait", "rejected"}

LeaseFits(r) ==
  /\ pc[r] \in BeforeLease => lease[r] = "none"
  /\ pc[r] \in {"unreserve", "leave"} => lease[r] \in {"none", "held"}
  /\ pc[r] = "poolSetup" => lease[r] = "held"
  /\ pc[r] \in {"upstream", "release", "setupRelease"} => lease[r] # "none"
  /\ pc[r] \in {"finish", "done"} => lease[r] \in {"none", "released"} \/ r \in panicked

TargetFits(r) ==
  /\ pc[r] \notin {"distribute", "select", "finish", "done"} => target[r] \in Targets
  /\ lease[r] \in {"held", "half"} => target[r] \in Targets
  /\ lease[r] = "half" => Account(r) # None
  /\ pc[r] \in {"preUnreserve", "poolSelect", "poolSetup"} => InPool(r)
  /\ InPool(r) /\ pc[r] \in {"poolSelect", "try", "unreserve", "enter", "wait", "leave"}
       => origin[r] \in Channels

QueuePlaces == {"poolSelect", "try", "unreserve", "wait", "leave"}

WaitFits(r) ==
  /\ pc[r] \in {"wait", "leave"} => InQueue(r)
  /\ InQueue(r) => pc[r] \in QueuePlaces
  /\ InQueue(r) /\ pc[r] = "unreserve" => InPool(r)
  /\ InQueue(r) \/ pc[r] = "enter" => plan[r].queue # "none"
  /\ \A q \in Queues : r \in waiters[q] <=> InQueue(r) /\ q = QueueKey(r)

NothingReserved(r) ==
  pc[r] = "done" => \A ch \in Channels : ctxReserved[<<r, ch>>] = 0

Fits(r) == LeaseFits(r) /\ TargetFits(r) /\ WaitFits(r) /\ NothingReserved(r)
PlacesFit == \A r \in Requests : Fits(r)

LEMMA GotoFacts ==
  ASSUME AttemptsOK, NEW r \in Requests, NEW l, Goto(r, l)
  PROVE  pc'[r] = l /\ \A v \in Requests : v # r => pc'[v] = pc[v]
BY DEF AttemptsOK, Goto

(* A step of one request leaves alone what belongs to the others. *)
LEMMA OthersPlaces ==
  ASSUME AttemptsOK, NEW r \in Requests, Step(r), NEW v \in Requests, v # r
  PROVE  pc'[v] = pc[v] /\ lease'[v] = lease[v] /\ (v \in panicked' <=> v \in panicked)
<1> DEFINE Same == pc'[v] = pc[v] /\ lease'[v] = lease[v] /\ (v \in panicked' <=> v \in panicked)
<1>1. ASSUME NEW l, Goto(r, l) PROVE pc'[v] = pc[v]
  BY <1>1, GotoFacts
<1>2. ASSUME NEW l, lease' = [lease EXCEPT ![r] = l] PROVE lease'[v] = lease[v]
  BY <1>2 DEF AttemptsOK
<1>3. ASSUME NEW S, NextAttempt(r, S) PROVE pc'[v] = pc[v] /\ lease'[v] = lease[v]
  BY <1>1, <1>2, <1>3 DEF NextAttempt
<1>4. ASSUME NEW p \in Plans, NEW t \in Targets, SelectSmart(r, p, t) \/ SelectLegacy(r, p, t)
      PROVE  Same
  BY <1>1, <1>4 DEF SelectSmart, SelectLegacy
<1>5. CASE TryAcquireChannelConcurrency(r)
  BY <1>1, <1>2, <1>5 DEF TryAcquireChannelConcurrency
<1>6. CASE ReleaseAccountSlot(r) \/ ReleaseChannelSlot(r)
  BY <1>2, <1>6 DEF ReleaseAccountSlot, ReleaseChannelSlot
<1>7. CASE Rejected(r) \/ AfterRelease(r) \/ AfterSetupRelease(r)
  BY <1>1, <1>3, <1>7 DEF Rejected, AfterRelease, AfterSetupRelease, Stop
<1>8. CASE SelectFails(r) \/ SetupOk(r) \/ SetupFails(r) \/ RelayRefuses(r)
  BY <1>1, <1>8 DEF SelectFails, SetupOk, SetupFails, RelayRefuses
<1>9. CASE Unreserve(r) \/ PreUnreserve(r) \/ PoolSelectFails(r) \/ PoolSetup(r)
  BY <1>1, <1>9 DEF Unreserve, PreUnreserve, PoolSelectFails, PoolSetup
<1>10. ASSUME NEW t \in Targets, PoolSelect(r, t) PROVE Same
  BY <1>1, <1>10 DEF PoolSelect
<1>11. CASE EnterQueue(r) \/ LeaveQueue(r) \/ WaitTick(r) \/ WaitEnds(r)
  BY <1>1, <1>11 DEF EnterQueue, LeaveQueue, WaitTick, WaitEnds
<1>12. CASE AttemptEnds(r) \/ Panic(r) \/ Finish(r)
  BY <1>1, <1>12 DEF AttemptEnds, Panic, Finish
<1>13. ASSUME NEW ch \in Channels, FinishReservation(r, ch) PROVE Same
  BY <1>13 DEF FinishReservation
<1> QED BY <1>4, <1>5, <1>6, <1>7, <1>8, <1>9, <1>10, <1>11, <1>12, <1>13 DEF Step, Proceed

LEMMA OthersPlans ==
  ASSUME PlansOK, NEW r \in Requests, Step(r), NEW v \in Requests, v # r
  PROVE  plan'[v] = plan[v] /\ target'[v] = target[v] /\ origin'[v] = origin[v]
<1> DEFINE Same == plan'[v] = plan[v] /\ target'[v] = target[v] /\ origin'[v] = origin[v]
<1> USE DEF PlansOK
<1>1. CASE UNCHANGED planVars
  BY <1>1 DEF planVars
<1>2. ASSUME NEW p \in Plans, NEW t \in Targets, SelectSmart(r, p, t) \/ SelectLegacy(r, p, t)
      PROVE  Same
  BY <1>2 DEF SelectSmart, SelectLegacy
<1>3. ASSUME NEW S, NextAttempt(r, S) PROVE Same
  BY <1>3 DEF NextAttempt
<1>4. CASE Rejected(r) \/ AfterRelease(r) \/ AfterSetupRelease(r)
  BY <1>1, <1>3, <1>4 DEF Rejected, AfterRelease, AfterSetupRelease, Stop
<1>5. CASE PreUnreserve(r) \/ PoolSelectFails(r) \/ Finish(r)
  BY <1>5 DEF PreUnreserve, PoolSelectFails, Finish
<1>6. ASSUME NEW t \in Targets, PoolSelect(r, t) PROVE Same
  BY <1>6 DEF PoolSelect
<1>7. ASSUME \/ SelectFails(r) \/ SetupOk(r) \/ SetupFails(r) \/ RelayRefuses(r)
             \/ TryAcquireChannelConcurrency(r) \/ Unreserve(r)
             \/ PoolSetup(r) \/ EnterQueue(r) \/ LeaveQueue(r)
             \/ ReleaseAccountSlot(r) \/ ReleaseChannelSlot(r)
             \/ (\E ch \in Channels : FinishReservation(r, ch))
             \/ WaitTick(r) \/ WaitEnds(r) \/ AttemptEnds(r) \/ Panic(r)
      PROVE  UNCHANGED planVars
  BY <1>7 DEF SelectFails, SetupOk, SetupFails, RelayRefuses, PoolSetup,
     EnterQueue, LeaveQueue, ReleaseAccountSlot, ReleaseChannelSlot, FinishReservation,
     TryAcquireChannelConcurrency, Unreserve, WaitTick, WaitEnds, AttemptEnds, Panic
<1> QED BY <1>1, <1>2, <1>4, <1>5, <1>6, <1>7 DEF Step, Proceed

LEMMA OthersQueues ==
  ASSUME QueuesOK, NEW r \in Requests, Step(r), NEW v \in Requests, v # r
  PROVE  ticket'[v] = ticket[v] /\ \A q \in Queues : v \in waiters'[q] <=> v \in waiters[q]
<1>1. CASE UNCHANGED queueVars
  BY <1>1 DEF queueVars
<1>2. CASE Enters(r) \/ Leaves(r)
  <2>1. ticket'[v] = ticket[v]
    BY <1>2 DEF Enters, Leaves, QueuesOK
  <2>2. \A q \in Queues : v \in waiters'[q] <=> v \in waiters[q]
    BY <1>2 DEF Enters, Leaves, QueuesOK
  <2> QED BY <2>1, <2>2
<1> QED BY <1>1, <1>2, QueueMoves

(* A step moves the reservations of one request on one channel at most. *)
LEMMA ReservationMoves ==
  ASSUME NEW r \in Requests, Step(r)
  PROVE  \/ UNCHANGED <<reserved, ctxReserved>>
         \/ pc[r] # "done" /\ \E ch :
              \/ ReserveChannelSelectionRouting(r, ch)
              \/ ReleaseChannelSelectionReservation(r, ch)
<1>1. ASSUME NEW p \in Plans, NEW t \in Targets, SelectSmart(r, p, t)
      PROVE  pc[r] # "done" /\ ReserveChannelSelectionRouting(r, t[1])
  BY <1>1 DEF SelectSmart
<1>2. ASSUME NEW t \in Targets, PoolSelect(r, t)
      PROVE  pc[r] # "done" /\ ReserveChannelSelectionRouting(r, t[1])
  BY <1>2 DEF PoolSelect
<1>3. ASSUME NEW ch \in Channels, FinishReservation(r, ch)
      PROVE  pc[r] # "done" /\ ReleaseChannelSelectionReservation(r, ch)
  BY <1>3 DEF FinishReservation
<1>4. ASSUME SetupFails(r) \/ Unreserve(r) \/ PreUnreserve(r)
      PROVE  /\ pc[r] # "done"
             /\ \/ UNCHANGED <<reserved, ctxReserved>>
                \/ ReleaseChannelSelectionReservation(r, Channel(r))
  BY <1>4 DEF SetupFails, Unreserve, PreUnreserve
<1>5. ASSUME \/ SelectFails(r) \/ SetupOk(r) \/ RelayRefuses(r) \/ PoolSelectFails(r)
             \/ (\E p \in Plans, t \in Targets : SelectLegacy(r, p, t))
             \/ PoolSetup(r) \/ EnterQueue(r) \/ LeaveQueue(r) \/ Rejected(r)
             \/ TryAcquireChannelConcurrency(r) \/ ReleaseAccountSlot(r) \/ ReleaseChannelSlot(r)
             \/ AfterRelease(r) \/ AfterSetupRelease(r) \/ Finish(r)
             \/ WaitTick(r) \/ WaitEnds(r) \/ AttemptEnds(r) \/ Panic(r)
      PROVE  UNCHANGED <<reserved, ctxReserved>>
  BY <1>5 DEF SelectFails, SetupOk, RelayRefuses, PoolSelectFails, PoolSetup, SelectLegacy,
     EnterQueue, LeaveQueue, Rejected, AfterRelease, AfterSetupRelease, Finish,
     TryAcquireChannelConcurrency, ReleaseAccountSlot, ReleaseChannelSlot,
     WaitTick, WaitEnds, AttemptEnds, Panic, counterVars
<1> QED BY <1>1, <1>2, <1>3, <1>4, <1>5 DEF Step, Proceed

LEMMA OthersReservations ==
  ASSUME CountersOK, NEW r \in Requests, Step(r), NEW v \in Requests, v # r,
         NEW ch \in Channels
  PROVE  ctxReserved'[<<v, ch>>] = ctxReserved[<<v, ch>>]
<1>1. PICK x : x = <<v, ch>>
  OBVIOUS
<1>2. x \in Requests \X Channels /\ \A c : x # <<r, c>>
  BY <1>1
<1>3. ASSUME NEW c, \/ ReserveChannelSelectionRouting(r, c)
                    \/ ReleaseChannelSelectionReservation(r, c)
      PROVE  ctxReserved'[x] = ctxReserved[x]
  BY <1>2, <1>3
  DEF CountersOK, ReserveChannelSelectionRouting, ReleaseChannelSelectionReservation
<1> QED BY <1>1, <1>3, ReservationMoves

LEMMA FitsKept ==
  ASSUME TypeOK, NEW v \in Requests, Fits(v),
         pc'[v] = pc[v], lease'[v] = lease[v], v \in panicked' <=> v \in panicked,
         plan'[v] = plan[v], target'[v] = target[v], origin'[v] = origin[v],
         ticket'[v] = ticket[v], \A q \in Queues : v \in waiters'[q] <=> v \in waiters[q],
         \A ch \in Channels : ctxReserved'[<<v, ch>>] = ctxReserved[<<v, ch>>]
  PROVE  Fits(v)'
<1>1. LeaseFits(v)'
  BY DEF Fits, LeaseFits
<1>2. TargetFits(v)'
  BY DEF Fits, TargetFits, InPool, Account
<1>3. WaitFits(v)'
  BY DEF Fits, WaitFits, InPool, InQueue, QueueKey, Channel
<1>4. NothingReserved(v)'
  BY DEF Fits, NothingReserved
<1> QED BY <1>1, <1>2, <1>3, <1>4 DEF Fits

LEMMA OthersFit ==
  ASSUME TypeOK, NEW r \in Requests, Step(r), NEW v \in Requests, v # r, Fits(v)
  PROVE  Fits(v)'
BY FitsKept, OthersPlaces, OthersPlans, OthersQueues, OthersReservations, TypeOKParts

(* The request that moves: its lease. *)
LEMMA LeaseFitsStep ==
  ASSUME AttemptsOK, NEW r \in Requests, LeaseFits(r), Step(r)
  PROVE  LeaseFits(r)'
<1> USE DEF LeaseFits, BeforeLease
<1>1. ASSUME NEW l, Goto(r, l) PROVE pc'[r] = l
  BY <1>1, GotoFacts
<1>2. ASSUME NEW l, lease' = [lease EXCEPT ![r] = l] PROVE lease'[r] = l
  BY <1>2 DEF AttemptsOK
<1>3. ASSUME NEW S, NextAttempt(r, S) PROVE LeaseFits(r)'
  BY <1>1, <1>2, <1>3 DEF NextAttempt
<1>4. ASSUME NEW p \in Plans, NEW t \in Targets, SelectSmart(r, p, t) \/ SelectLegacy(r, p, t)
      PROVE  LeaseFits(r)'
  BY <1>1, <1>4 DEF SelectSmart, SelectLegacy
<1>5. CASE TryAcquireChannelConcurrency(r)
  <2>1. pc[r] = "try" /\ lease[r] = "none"
    BY <1>5 DEF TryAcquireChannelConcurrency
  <2>2. CASE HasRoom(r)
    <3>1. lease'[r] = "held" /\ (pc'[r] = "leave" \/ pc'[r] = "unreserve")
      BY <1>1, <1>2, <1>5, <2>2 DEF TryAcquireChannelConcurrency
    <3> QED BY <3>1
  <2>3. CASE ~HasRoom(r)
    <3>1. lease'[r] = "none" /\ pc'[r] \in {"unreserve", "wait", "enter"}
      BY <1>1, <1>5, <2>1, <2>3 DEF TryAcquireChannelConcurrency
    <3> QED BY <3>1
  <2> QED BY <2>2, <2>3
<1>6. CASE ReleaseAccountSlot(r) \/ ReleaseChannelSlot(r)
  <2>1. /\ pc' = pc /\ panicked' = panicked
        /\ lease[r] \in {"held", "half"}
        /\ lease'[r] \in {"half", "released"}
        /\ pc[r] \in {"upstream", "release", "setupRelease"} \/ lease[r] = "half"
    BY <1>2, <1>6 DEF ReleaseAccountSlot, ReleaseChannelSlot
  <2> QED BY <2>1 DEF AttemptsOK, Labels
<1>7. CASE Rejected(r) \/ AfterRelease(r) \/ AfterSetupRelease(r)
  BY <1>1, <1>3, <1>7 DEF Rejected, AfterRelease, AfterSetupRelease, Stop
<1>8. CASE SelectFails(r) \/ SetupOk(r) \/ SetupFails(r) \/ RelayRefuses(r)
  <2>1. /\ pc'[r] \in {"finish", "preUnreserve", "try", "distribute", "select"}
        /\ UNCHANGED <<lease, panicked>>
        /\ pc[r] \in {"distribute", "select", "distSetup", "setup"}
    BY <1>1, <1>8 DEF SelectFails, SetupOk, SetupFails, RelayRefuses
  <2> QED BY <2>1
<1>9. CASE Unreserve(r)
  <2>1. pc[r] = "unreserve" /\ lease[r] \in {"none", "held"} /\ UNCHANGED <<lease, panicked>>
    BY <1>9 DEF Unreserve
  <2>2. \/ Acquired(r) /\ pc'[r] \in {"upstream", "leave", "poolSetup"}
        \/ ~Acquired(r) /\ pc'[r] \in {"rejected", "wait", "enter", "leave"}
    BY <1>1, <1>9 DEF Unreserve
  <2> QED BY <2>1, <2>2 DEF Acquired
<1>10. CASE PreUnreserve(r) \/ PoolSelectFails(r)
  <2>1. pc'[r] \in {"poolSelect", "leave", "rejected"} /\ lease' = lease
        /\ pc[r] \in {"preUnreserve", "poolSelect"}
    BY <1>1, <1>10 DEF PreUnreserve, PoolSelectFails
  <2> QED BY <2>1
<1>11. CASE PoolSetup(r) \/ AttemptEnds(r) \/ Panic(r) \/ Finish(r)
  BY <1>1, <1>11 DEF PoolSetup, AttemptEnds, Panic, Finish
<1>12. ASSUME NEW t \in Targets, PoolSelect(r, t) PROVE LeaseFits(r)'
  BY <1>1, <1>12 DEF PoolSelect
<1>13. CASE EnterQueue(r) \/ WaitTick(r) \/ WaitEnds(r)
  <2>1. /\ pc'[r] \in {"wait", "rejected", "unreserve", "poolSelect", "try", "leave"}
        /\ lease' = lease /\ pc[r] \in {"enter", "wait"}
    BY <1>1, <1>13 DEF EnterQueue, WaitTick, WaitEnds
  <2> QED BY <2>1
<1>14. CASE LeaveQueue(r)
  <2>1. /\ \/ pc'[r] = "unreserve"
           \/ Acquired(r) /\ pc'[r] = "poolSetup"
           \/ ~Acquired(r) /\ pc'[r] = "rejected"
        /\ lease' = lease /\ pc[r] = "leave"
    BY <1>1, <1>14 DEF LeaveQueue
  <2> QED BY <2>1 DEF Acquired
<1>15. ASSUME NEW ch \in Channels, FinishReservation(r, ch) PROVE LeaseFits(r)'
  BY <1>15 DEF FinishReservation
<1> QED BY <1>4, <1>5, <1>6, <1>7, <1>8, <1>9, <1>10, <1>11, <1>12, <1>13, <1>14, <1>15
  DEF Step, Proceed

(* The request that moves: its target and the channel it came from. *)
LEMMA TargetFitsStep ==
  ASSUME AttemptsOK, PlansOK, NEW r \in Requests, LeaseFits(r), TargetFits(r), Step(r)
  PROVE  TargetFits(r)'
<1>1. ASSUME NEW l, Goto(r, l) PROVE pc'[r] = l
  BY <1>1, GotoFacts
<1>2. ASSUME NEW l, lease' = [lease EXCEPT ![r] = l] PROVE lease'[r] = l
  BY <1>2 DEF AttemptsOK
<1>3. ASSUME NEW t, target' = [target EXCEPT ![r] = t] PROVE target'[r] = t
  BY <1>3 DEF PlansOK
<1>4. ASSUME NEW p, plan' = [plan EXCEPT ![r] = p] PROVE plan'[r] = p
  BY <1>4 DEF PlansOK
<1>5. ASSUME NEW o, origin' = [origin EXCEPT ![r] = o] PROVE origin'[r] = o
  BY <1>5 DEF PlansOK
<1>6. NoPlan.queue = "none"
  BY DEF NoPlan
<1>7. ASSUME NEW S, NextAttempt(r, S) PROVE TargetFits(r)'
  <2>1. lease'[r] = "none" /\ pc'[r] = "select"
    BY <1>1, <1>2, <1>7 DEF NextAttempt
  <2> QED BY <2>1 DEF TargetFits
<1>8. CASE Stop(r)
  <2>1. UNCHANGED <<plan, target, origin, lease>> /\ pc'[r] = "finish"
    BY <1>1, <1>8 DEF Stop, planVars
  <2> QED BY <2>1 DEF TargetFits, Account
<1>9. ASSUME NEW p \in Plans, NEW t \in Targets, SelectSmart(r, p, t) \/ SelectLegacy(r, p, t)
      PROVE  TargetFits(r)'
  <2>1. /\ target'[r] = t /\ lease' = lease /\ pc[r] \in BeforeLease
        /\ pc'[r] \in {"distSetup", "setup"}
    BY <1>1, <1>3, <1>9 DEF SelectSmart, SelectLegacy, BeforeLease
  <2>2. lease'[r] = "none"
    BY <2>1 DEF LeaseFits
  <2> QED BY <2>1, <2>2 DEF TargetFits
<1>10. ASSUME UNCHANGED planVars, lease'[r] = lease[r] \/ (pc[r] = "try" /\ lease'[r] = "held"),
              pc[r] \notin {"distribute", "select", "finish", "done"},
              pc'[r] \in {"preUnreserve", "poolSelect", "poolSetup"} => InPool(r),
              InPool(r) /\ pc'[r] \in {"poolSelect", "try", "unreserve", "enter", "wait", "leave"}
                => pc[r] \in {"poolSelect", "try", "unreserve", "enter", "wait", "leave"}
       PROVE  TargetFits(r)'
  BY <1>10 DEF TargetFits, Account, InPool, planVars
<1>11. CASE SelectFails(r)
  BY <1>1, <1>11 DEF SelectFails, planVars, TargetFits, Account
<1>12. CASE SetupOk(r)
  BY <1>1, <1>10, <1>12 DEF SetupOk
<1>13. CASE SetupFails(r) \/ RelayRefuses(r)
  <2>1. /\ UNCHANGED planVars /\ lease' = lease
        /\ pc[r] \in {"distSetup", "setup"} /\ pc'[r] \in {"finish", "distribute", "select"}
    BY <1>1, <1>13 DEF SetupFails, RelayRefuses
  <2> QED BY <1>10, <2>1
<1>14. CASE TryAcquireChannelConcurrency(r)
  <2>1. /\ UNCHANGED planVars /\ pc[r] = "try"
        /\ lease'[r] = lease[r] \/ lease'[r] = "held"
        /\ pc'[r] \in {"leave", "unreserve", "wait", "enter"}
    BY <1>1, <1>2, <1>14 DEF TryAcquireChannelConcurrency
  <2> QED BY <1>10, <2>1
<1>15. CASE Unreserve(r)
  <2>1. /\ UNCHANGED planVars /\ pc[r] = "unreserve" /\ lease' = lease
        /\ pc'[r] = "poolSetup" => InPool(r)
        /\ pc'[r] \in {"upstream", "rejected", "leave", "poolSetup", "wait", "enter"}
    BY <1>1, <1>15 DEF Unreserve
  <2> QED BY <1>10, <2>1
<1>16. CASE PreUnreserve(r)
  <2>1. /\ UNCHANGED <<plan, target, lease>> /\ pc[r] = "preUnreserve"
        /\ origin'[r] = target[r][1] /\ pc'[r] = "poolSelect"
    BY <1>1, <1>5, <1>16 DEF PreUnreserve, Channel
  <2>2. target[r] \in Targets /\ InPool(r)
    BY <2>1 DEF TargetFits
  <2>3. target[r][1] \in Channels
    BY <2>2 DEF Targets
  <2> QED BY <2>1, <2>2, <2>3 DEF TargetFits, InPool, Account
<1>17. ASSUME NEW t \in Targets, PoolSelect(r, t) PROVE TargetFits(r)'
  <2>1. /\ UNCHANGED <<plan, origin, lease>> /\ pc[r] = "poolSelect"
        /\ target'[r] = t /\ pc'[r] = "try"
    BY <1>1, <1>3, <1>17 DEF PoolSelect
  <2>2. lease[r] = "none"
    BY <2>1 DEF LeaseFits, BeforeLease
  <2> QED BY <2>1, <2>2 DEF TargetFits, InPool
<1>18. CASE PoolSelectFails(r)
  <2>1. /\ UNCHANGED <<plan, origin, lease>> /\ pc[r] = "poolSelect"
        /\ target'[r] = <<origin[r], None>> /\ pc'[r] \in {"leave", "rejected"}
    BY <1>1, <1>3, <1>18 DEF PoolSelectFails
  <2>2. lease[r] = "none"
    BY <2>1 DEF LeaseFits, BeforeLease
  <2>3. origin[r] \in Channels
    BY <2>1 DEF TargetFits
  <2>4. target'[r] \in Targets
    BY <2>1, <2>3 DEF Targets
  <2> QED BY <2>1, <2>2, <2>3, <2>4 DEF TargetFits, InPool
<1>19. CASE PoolSetup(r) \/ AttemptEnds(r) \/ Panic(r)
  <2>1. /\ UNCHANGED planVars /\ lease' = lease
        /\ pc[r] \in {"poolSetup", "upstream"}
        /\ pc'[r] \in {"upstream", "setupRelease", "release", "finish"}
    BY <1>1, <1>19 DEF PoolSetup, AttemptEnds, Panic
  <2> QED BY <1>10, <2>1
<1>20. CASE EnterQueue(r) \/ WaitTick(r) \/ WaitEnds(r)
  <2>1. /\ UNCHANGED planVars /\ lease' = lease
        /\ pc[r] \in {"enter", "wait"}
        /\ pc'[r] = "poolSelect" => InPool(r)
        /\ pc'[r] \in {"wait", "rejected", "unreserve", "poolSelect", "try", "leave"}
    BY <1>1, <1>20 DEF EnterQueue, WaitTick, WaitEnds
  <2> QED BY <1>10, <2>1
<1>21. CASE LeaveQueue(r)
  <2>1. /\ UNCHANGED planVars /\ lease' = lease
        /\ pc[r] = "leave"
        /\ pc'[r] = "poolSetup" => InPool(r)
        /\ pc'[r] \in {"unreserve", "poolSetup", "rejected"}
    BY <1>1, <1>21 DEF LeaveQueue
  <2> QED BY <1>10, <2>1
<1>22. CASE Rejected(r) \/ AfterRelease(r) \/ AfterSetupRelease(r)
  BY <1>7, <1>8, <1>22 DEF Rejected, AfterRelease, AfterSetupRelease
<1>23. CASE ReleaseChannelSlot(r)
  <2>1. /\ UNCHANGED planVars /\ pc' = pc /\ lease[r] = "held"
        /\ lease'[r] = IF Account(r) = None THEN "released" ELSE "half"
    BY <1>2, <1>23 DEF ReleaseChannelSlot
  <2> QED BY <2>1 DEF TargetFits, Account, InPool, planVars
<1>24. CASE ReleaseAccountSlot(r)
  <2>1. /\ UNCHANGED planVars /\ pc' = pc /\ lease'[r] = "released"
    BY <1>2, <1>24 DEF ReleaseAccountSlot
  <2> QED BY <2>1 DEF TargetFits, Account, InPool, planVars
<1>25. ASSUME NEW ch \in Channels, FinishReservation(r, ch) PROVE TargetFits(r)'
  BY <1>25 DEF FinishReservation, planVars, TargetFits, Account, InPool
<1>26. CASE Finish(r)
  BY <1>1, <1>26 DEF Finish, TargetFits, Account
<1> QED BY <1>9, <1>11, <1>12, <1>13, <1>14, <1>15, <1>16, <1>17, <1>18, <1>19, <1>20, <1>21,
           <1>22, <1>23, <1>24, <1>25, <1>26 DEF Step, Proceed

LEMMA QueueKeyIsQueue ==
  ASSUME NEW r \in Requests, target[r] \in Targets
  PROVE  QueueKey(r) \in Queues /\ Channel(r) \in Channels
BY DEF QueueKey, Channel, Targets, Queues

(* The request that moves: its place in a queue. *)
LEMMA WaitFitsStep ==
  ASSUME AttemptsOK, PlansOK, QueuesOK, NEW r \in Requests,
         LeaseFits(r), TargetFits(r), WaitFits(r), Step(r)
  PROVE  WaitFits(r)'
<1>1. ASSUME NEW l, Goto(r, l) PROVE pc'[r] = l
  BY <1>1, GotoFacts
<1>2. ASSUME UNCHANGED queueVars, plan'[r] = plan[r], target'[r] = target[r] \/ InPool(r),
             InQueue(r) => pc'[r] \in QueuePlaces /\ (pc'[r] = "unreserve" => InPool(r)),
             ~InQueue(r) => pc'[r] \notin {"wait", "leave"},
             pc'[r] = "enter" => plan[r].queue # "none"
      PROVE  WaitFits(r)'
  BY <1>2 DEF WaitFits, queueVars, InQueue, InPool, QueueKey, Channel
<1>3. ASSUME UNCHANGED queueVars, pc[r] \notin QueuePlaces,
             pc'[r] \notin {"wait", "leave", "enter"}
      PROVE  WaitFits(r)'
  BY <1>3 DEF WaitFits, queueVars, InQueue
<1>4. ASSUME NEW S, UNCHANGED queueVars, NextAttempt(r, S), pc[r] \notin QueuePlaces
      PROVE  WaitFits(r)'
  BY <1>1, <1>3, <1>4 DEF NextAttempt
<1>5. CASE Rejected(r) \/ AfterRelease(r) \/ AfterSetupRelease(r)
  <2>1. UNCHANGED queueVars /\ pc[r] \notin QueuePlaces
    BY <1>5 DEF Rejected, AfterRelease, AfterSetupRelease, QueuePlaces
  <2>2. Stop(r) => pc'[r] = "finish"
    BY <1>1 DEF Stop
  <2>3. Stop(r) \/ \E S : NextAttempt(r, S)
    BY <1>5 DEF Rejected, AfterRelease, AfterSetupRelease
  <2> QED BY <1>3, <1>4, <2>1, <2>2, <2>3
<1>6. ASSUME NEW p \in Plans, NEW t \in Targets, SelectSmart(r, p, t) \/ SelectLegacy(r, p, t)
      PROVE  WaitFits(r)'
  <2>1. /\ UNCHANGED queueVars /\ pc[r] \in {"distribute", "select"}
        /\ pc'[r] \in {"distSetup", "setup"}
    BY <1>1, <1>6 DEF SelectSmart, SelectLegacy
  <2> QED BY <1>3, <2>1 DEF QueuePlaces
<1>7. CASE SelectFails(r) \/ SetupOk(r) \/ SetupFails(r) \/ RelayRefuses(r)
  <2>1. /\ UNCHANGED queueVars /\ pc[r] \in {"distribute", "select", "distSetup", "setup"}
        /\ pc'[r] \in {"finish", "preUnreserve", "try", "distribute", "select"}
    BY <1>1, <1>7 DEF SelectFails, SetupOk, SetupFails, RelayRefuses
  <2> QED BY <1>3, <2>1 DEF QueuePlaces
<1>8. CASE TryAcquireChannelConcurrency(r)
  <2>1. UNCHANGED queueVars /\ UNCHANGED planVars /\ pc[r] = "try"
    BY <1>8 DEF TryAcquireChannelConcurrency
  <2>2. \/ InQueue(r) /\ ~InPool(r) /\ pc'[r] = "leave"
        \/ ~(InQueue(r) /\ ~InPool(r)) /\ pc'[r] = "unreserve"
        \/ InPool(r) /\ pc'[r] = "unreserve"
        \/ plan[r].queue = "none" /\ pc'[r] = "unreserve"
        \/ plan[r].queue # "none" /\ InQueue(r) /\ pc'[r] = "wait"
        \/ plan[r].queue # "none" /\ ~InQueue(r) /\ pc'[r] = "enter"
    BY <1>1, <1>8 DEF TryAcquireChannelConcurrency
  <2>3. InQueue(r) => plan[r].queue # "none"
    BY DEF WaitFits
  <2> QED BY <1>2, <2>1, <2>2, <2>3 DEF QueuePlaces, planVars
<1>9. CASE Unreserve(r)
  <2>1. UNCHANGED queueVars /\ UNCHANGED planVars /\ pc[r] = "unreserve"
    BY <1>9 DEF Unreserve
  <2>2. \/ ~InPool(r) /\ pc'[r] \in {"upstream", "rejected"}
        \/ InPool(r) /\ InQueue(r) /\ pc'[r] \in {"leave", "wait"}
        \/ InPool(r) /\ ~InQueue(r) /\ pc'[r] \in {"poolSetup", "enter", "rejected"}
    BY <1>1, <1>9 DEF Unreserve
  <2>3. InQueue(r) => InPool(r)
    BY <2>1 DEF WaitFits
  <2>4. InPool(r) => plan[r].queue # "none"
    BY DEF InPool
  <2> QED BY <1>2, <2>1, <2>2, <2>3, <2>4 DEF QueuePlaces, planVars
<1>10. CASE PreUnreserve(r)
  <2>1. UNCHANGED queueVars /\ pc[r] = "preUnreserve" /\ pc'[r] = "poolSelect"
    BY <1>1, <1>10 DEF PreUnreserve
  <2> QED BY <1>3, <2>1 DEF QueuePlaces
<1>11. ASSUME NEW t \in Targets, PoolSelect(r, t) PROVE WaitFits(r)'
  <2>1. UNCHANGED queueVars /\ plan' = plan /\ pc[r] = "poolSelect" /\ pc'[r] = "try"
    BY <1>1, <1>11 DEF PoolSelect
  <2>2. InPool(r)
    BY <2>1 DEF TargetFits
  <2> QED BY <1>2, <2>1, <2>2 DEF QueuePlaces
<1>12. CASE PoolSelectFails(r)
  <2>1. UNCHANGED queueVars /\ plan' = plan /\ pc[r] = "poolSelect"
        /\ pc'[r] = IF InQueue(r) THEN "leave" ELSE "rejected"
    BY <1>1, <1>12 DEF PoolSelectFails
  <2>2. InPool(r)
    BY <2>1 DEF TargetFits
  <2> QED BY <1>2, <2>1, <2>2 DEF QueuePlaces
<1>13. CASE PoolSetup(r) \/ AttemptEnds(r) \/ Panic(r) \/ Finish(r)
  <2>1. /\ UNCHANGED queueVars
        /\ pc[r] \in {"poolSetup", "upstream", "finish"}
        /\ pc'[r] \in {"upstream", "setupRelease", "release", "finish", "done"}
    BY <1>1, <1>13 DEF PoolSetup, AttemptEnds, Panic, Finish
  <2> QED BY <1>3, <2>1 DEF QueuePlaces
<1>14. CASE WaitTick(r) \/ WaitEnds(r)
  <2>1. /\ UNCHANGED queueVars /\ UNCHANGED planVars
        /\ pc[r] = "wait" /\ pc'[r] \in {"poolSelect", "try", "leave"}
    BY <1>1, <1>14 DEF WaitTick, WaitEnds
  <2>2. InQueue(r)
    BY <2>1 DEF WaitFits
  <2> QED BY <1>2, <2>1, <2>2 DEF QueuePlaces, planVars
<1>15. ASSUME UNCHANGED <<queueVars, planVars, pc>> PROVE WaitFits(r)'
  BY <1>15 DEF WaitFits, queueVars, planVars, InQueue, InPool, QueueKey, Channel
<1>16. CASE ReleaseAccountSlot(r) \/ ReleaseChannelSlot(r)
  BY <1>15, <1>16 DEF ReleaseAccountSlot, ReleaseChannelSlot
<1>17. ASSUME NEW ch \in Channels, FinishReservation(r, ch) PROVE WaitFits(r)'
  BY <1>15, <1>17 DEF FinishReservation
<1>18. CASE EnterQueue(r)
  <2>1. pc[r] = "enter" /\ UNCHANGED planVars
    BY <1>18 DEF EnterQueue
  <2>2. ~InQueue(r) /\ plan[r].queue # "none" /\ target[r] \in Targets
    BY <2>1 DEF WaitFits, TargetFits, QueuePlaces
  <2>3. CASE UNCHANGED queueVars /\ ~Enters(r)
    <3>1. pc'[r] \in {"rejected", "unreserve"}
      BY <1>1, <1>18, <2>3 DEF EnterQueue, Enters
    <3> QED BY <1>3, <2>1, <2>3, <3>1 DEF QueuePlaces
  <2>4. CASE Enters(r)
    <3>1. pc'[r] = "wait"
      BY <1>1, <1>18, <2>4 DEF EnterQueue, Enters
    <3>2. ticket'[r] = nextSeq + 1 /\ nextSeq \in Nat
      BY <2>4 DEF Enters, QueuesOK
    <3>3. InQueue(r)'
      BY <3>2 DEF InQueue
    <3>4. QueueKey(r)' = QueueKey(r) /\ QueueKey(r) \in Queues
      BY <2>1, <2>2, QueueKeyIsQueue DEF planVars, QueueKey, InPool, Channel
    <3>5. \A q \in Queues : r \in waiters'[q] <=> q = QueueKey(r)
      <4>1. \A q \in Queues : r \notin waiters[q]
        BY <2>2 DEF WaitFits
      <4> QED BY <2>4, <3>4, <4>1 DEF Enters, QueuesOK
    <3> QED BY <2>1, <2>2, <3>1, <3>3, <3>4, <3>5 DEF WaitFits, QueuePlaces, planVars
  <2> QED BY <1>18, <2>3, <2>4 DEF EnterQueue, Enters
<1>19. CASE LeaveQueue(r)
  <2>1. Leaves(r) /\ UNCHANGED planVars /\ pc[r] = "leave"
        /\ pc'[r] \in {"unreserve", "poolSetup", "rejected"}
    BY <1>1, <1>19 DEF LeaveQueue, Leaves
  <2>2. ticket'[r] = 0
    BY <2>1 DEF Leaves, QueuesOK
  <2>3. ~InQueue(r)'
    BY <2>2 DEF InQueue
  <2>4. \A q \in Queues : r \notin waiters'[q]
    <3>1. \A q \in Queues : r \in waiters[q] => q = QueueKey(r)
      BY DEF WaitFits
    <3> QED BY <2>1, <3>1 DEF Leaves, QueuesOK
  <2> QED BY <2>1, <2>3, <2>4 DEF WaitFits
<1> QED BY <1>5, <1>6, <1>7, <1>8, <1>9, <1>10, <1>11, <1>12, <1>13, <1>14, <1>16, <1>17,
           <1>18, <1>19 DEF Step, Proceed

LEMMA NothingReservedStep ==
  ASSUME AttemptsOK, NEW r \in Requests, NothingReserved(r), Step(r)
  PROVE  NothingReserved(r)'
<1>1. CASE Finish(r)
  BY <1>1 DEF Finish, NothingReserved, counterVars
<1>2. CASE ~Finish(r)
  <2>1. pc[r] # "done" => pc'[r] # "done"
    <3>1. ASSUME NEW l, Goto(r, l), l # "done" PROVE pc'[r] # "done"
      BY <3>1, GotoFacts
    <3>2. ASSUME NEW p \in Plans, NEW t \in Targets, SelectSmart(r, p, t) \/ SelectLegacy(r, p, t)
          PROVE  pc'[r] # "done"
      BY <3>1, <3>2 DEF SelectSmart, SelectLegacy
    <3>3. ASSUME NEW t \in Targets, PoolSelect(r, t) PROVE pc'[r] # "done"
      BY <3>1, <3>3 DEF PoolSelect
    <3>4. ASSUME NEW ch \in Channels, FinishReservation(r, ch) PROVE pc'[r] = pc[r]
      BY <3>4 DEF FinishReservation
    <3>5. ASSUME ReleaseAccountSlot(r) \/ ReleaseChannelSlot(r) PROVE pc'[r] = pc[r]
      BY <3>5 DEF ReleaseAccountSlot, ReleaseChannelSlot
    <3>6. CASE Rejected(r) \/ AfterRelease(r) \/ AfterSetupRelease(r)
      BY <3>1, <3>6 DEF Rejected, AfterRelease, AfterSetupRelease, Stop, NextAttempt
    <3>7. CASE SelectFails(r) \/ SetupOk(r) \/ SetupFails(r) \/ RelayRefuses(r)
      BY <3>1, <3>7 DEF SelectFails, SetupOk, SetupFails, RelayRefuses
    <3>8. CASE Unreserve(r) \/ PreUnreserve(r) \/ PoolSelectFails(r) \/ PoolSetup(r)
      BY <3>1, <3>8 DEF Unreserve, PreUnreserve, PoolSelectFails, PoolSetup
    <3>9. CASE EnterQueue(r) \/ LeaveQueue(r) \/ WaitTick(r) \/ WaitEnds(r)
      BY <3>1, <3>9 DEF EnterQueue, LeaveQueue, WaitTick, WaitEnds
    <3>10. CASE TryAcquireChannelConcurrency(r) \/ AttemptEnds(r) \/ Panic(r)
      BY <3>1, <3>10 DEF TryAcquireChannelConcurrency, AttemptEnds, Panic
    <3> QED BY <1>2, <3>2, <3>3, <3>4, <3>5, <3>6, <3>7, <3>8, <3>9, <3>10 DEF Step, Proceed
  <2>2. CASE pc[r] = "done"
    BY <2>2, ReservationMoves DEF NothingReserved
  <2>3. CASE pc[r] # "done"
    BY <2>1, <2>3 DEF NothingReserved
  <2> QED BY <2>2, <2>3
<1> QED BY <1>1, <1>2

LEMMA PlacesFitStep == TypeOK /\ PlacesFit /\ [Next]_vars => PlacesFit'
<1> SUFFICES ASSUME TypeOK, PlacesFit, [Next]_vars, NEW v \in Requests PROVE Fits(v)'
  BY DEF PlacesFit
<1>1. Fits(v)
  BY DEF PlacesFit
<1>2. CASE UNCHANGED vars
  BY <1>1, <1>2, FitsKept DEF vars, counterVars, queueVars, planVars
<1>3. ASSUME NEW r \in Requests, Step(r) PROVE Fits(v)'
  <2>1. CASE v = r
    BY <1>1, <1>3, <2>1, LeaseFitsStep, TargetFitsStep, WaitFitsStep, NothingReservedStep,
       TypeOKParts DEF Fits
  <2>2. CASE v # r
    BY <1>1, <1>3, <2>2, OthersFit
  <2> QED BY <2>1, <2>2
<1> QED BY <1>2, <1>3 DEF Next, Done

LEMMA PlacesFitInit == Init => PlacesFit
<1> SUFFICES ASSUME Init, NEW r \in Requests PROVE Fits(r)
  BY DEF PlacesFit
<1>1. pc[r] = "distribute" /\ lease[r] = "none" /\ ticket[r] = 0
      /\ \A q \in Queues : waiters[q] = {}
  BY DEF Init
<1> QED BY <1>1 DEF Fits, LeaseFits, TargetFits, WaitFits, NothingReserved, BeforeLease, InQueue

LEMMA PlacesFitAlways == Spec => []PlacesFit
<1> QED BY PlacesFitInit, PlacesFitStep, AdmissionTypeOK, PTL DEF Spec

(* A request that has ended holds no slot, no reservation and no place in a  *)
(* queue, unless its handler panicked.                                       *)
THEOREM AdmissionNothingLeftBehind == Spec => []NothingLeftBehind
<1>1. TypeOK /\ PlacesFit => NothingLeftBehind
  <2> SUFFICES ASSUME PlacesFit, NEW r \in Requests, pc[r] = "done"
               PROVE  /\ lease[r] \in {"none", "released"} \/ r \in panicked
                      /\ \A ch \in Channels : ctxReserved[<<r, ch>>] = 0
                      /\ \A q \in Queues : r \notin waiters[q]
    BY DEF NothingLeftBehind
  <2>1. Fits(r)
    BY DEF PlacesFit
  <2> QED BY <2>1 DEF Fits, LeaseFits, WaitFits, NothingReserved, QueuePlaces
<1> QED BY <1>1, AdmissionTypeOK, PlacesFitAlways, PTL
-----------------------------------------------------------------------------
(* Counting: a subset of the requests that gains or loses one of them. *)

LEMMA CountFacts ==
  ASSUME NEW S \in SUBSET Requests
  PROVE  /\ IsFiniteSet(S) /\ Cardinality(S) \in Nat
         /\ \A r \in Requests \ S : Cardinality(S \cup {r}) = Cardinality(S) + 1
         /\ \A r \in S : Cardinality(S \ {r}) = Cardinality(S) - 1 /\ Cardinality(S) > 0
<1>1. IsFiniteSet(S)
  BY AdmissionAssumption, FS_Subset
<1>2. Cardinality(S) \in Nat
  BY <1>1, FS_CardinalityType
<1>3. \A r \in Requests \ S : Cardinality(S \cup {r}) = Cardinality(S) + 1
  BY <1>1, FS_AddElement
<1>4. ASSUME NEW r \in S
      PROVE  Cardinality(S \ {r}) = Cardinality(S) - 1 /\ Cardinality(S) > 0
  <2>1. IsFiniteSet(S \ {r}) /\ Cardinality(S \ {r}) = Cardinality(S) - 1
    BY <1>1, FS_RemoveElement
  <2>2. Cardinality(S \ {r}) \in Nat
    BY <2>1, FS_CardinalityType
  <2> QED BY <1>2, <2>1, <2>2
<1> QED BY <1>1, <1>2, <1>3, <1>4

(* What a step does to the slots. *)
KeepsSlots(r) ==
  /\ UNCHANGED <<active, acctActive>>
  /\ lease[r] \in {"held", "half"} \/ lease'[r] \in {"held", "half"}
       => lease'[r] = lease[r] /\ target'[r] = target[r]

LEMMA SlotMoves ==
  ASSUME AttemptsOK, PlansOK, NEW r \in Requests, LeaseFits(r), Step(r)
  PROVE  \/ KeepsSlots(r)
         \/ Acquires(r) /\ target' = target
         \/ ReleaseChannelSlot(r) \/ ReleaseAccountSlot(r)
<1> USE DEF KeepsSlots
<1>1. ASSUME NEW S, NextAttempt(r, S), UNCHANGED counterVars,
             lease[r] \notin {"held", "half"}
      PROVE  KeepsSlots(r)
  BY <1>1 DEF NextAttempt, AttemptsOK, counterVars
<1>2. CASE Rejected(r) \/ AfterRelease(r) \/ AfterSetupRelease(r)
  <2>1. lease[r] \notin {"held", "half"} /\ UNCHANGED counterVars
    BY <1>2 DEF Rejected, AfterRelease, AfterSetupRelease, LeaseFits, BeforeLease
  <2>2. Stop(r) \/ \E S : NextAttempt(r, S)
    BY <1>2 DEF Rejected, AfterRelease, AfterSetupRelease
  <2> QED BY <1>1, <2>1, <2>2 DEF Stop, counterVars
<1>3. ASSUME NEW p \in Plans, NEW t \in Targets, SelectSmart(r, p, t) \/ SelectLegacy(r, p, t)
      PROVE  KeepsSlots(r)
  BY <1>3 DEF SelectSmart, SelectLegacy, counterVars, LeaseFits, BeforeLease
<1>4. ASSUME NEW t \in Targets, PoolSelect(r, t) PROVE KeepsSlots(r)
  BY <1>4 DEF PoolSelect, LeaseFits, BeforeLease
<1>5. CASE PoolSelectFails(r)
  BY <1>5 DEF PoolSelectFails, counterVars, LeaseFits, BeforeLease
<1>6. CASE TryAcquireChannelConcurrency(r)
  BY <1>6 DEF TryAcquireChannelConcurrency, Acquires, planVars
<1>7. ASSUME \/ SelectFails(r) \/ SetupOk(r) \/ SetupFails(r) \/ RelayRefuses(r)
             \/ Unreserve(r) \/ PreUnreserve(r)
             \/ PoolSetup(r) \/ EnterQueue(r) \/ LeaveQueue(r) \/ Finish(r)
             \/ (\E ch \in Channels : FinishReservation(r, ch))
             \/ WaitTick(r) \/ WaitEnds(r) \/ AttemptEnds(r) \/ Panic(r)
      PROVE  UNCHANGED <<active, acctActive, lease, target>>
  BY <1>7 DEF SelectFails, SetupOk, SetupFails, RelayRefuses, PoolSetup, PreUnreserve,
     EnterQueue, LeaveQueue, FinishReservation, Finish, Unreserve,
     WaitTick, WaitEnds, AttemptEnds, Panic, counterVars, planVars
<1> QED BY <1>2, <1>3, <1>4, <1>5, <1>6, <1>7 DEF Step, Proceed

LEMMA HoldersAre ==
  /\ \A ch : Holders(ch) \in SUBSET Requests
  /\ \A s : AccountHolders(s) \in SUBSET Requests
BY DEF Holders, AccountHolders

(* A step that moves no lease keeps the holders. *)
LEMMA HoldersKept ==
  ASSUME \A v \in Requests :
           lease[v] \in {"held", "half"} \/ lease'[v] \in {"held", "half"}
             => lease'[v] = lease[v] /\ target'[v] = target[v]
  PROVE  /\ \A ch : Holders(ch)' = Holders(ch)
         /\ \A s : AccountHolders(s)' = AccountHolders(s)
BY DEF Holders, AccountHolders, Channel

LEMMA ActiveIsHeldStep ==
  TypeOK /\ PlacesFit /\ ActiveIsHeld /\ [Next]_vars => ActiveIsHeld'
<1> SUFFICES ASSUME TypeOK, PlacesFit, ActiveIsHeld, [Next]_vars PROVE ActiveIsHeld'
  OBVIOUS
<1>1. CASE UNCHANGED vars
  <2>1. UNCHANGED <<active, acctActive, lease, target>>
    BY <1>1 DEF vars, counterVars, planVars
  <2> QED BY <2>1 DEF ActiveIsHeld, Holders, AccountHolders, Channel
<1>2. ASSUME NEW r \in Requests, Step(r) PROVE ActiveIsHeld'
  <2>1. Fits(r) /\ AttemptsOK /\ PlansOK /\ CountersOK
    BY TypeOKParts DEF PlacesFit
  <2>2. LeaseFits(r) /\ TargetFits(r)
    BY <2>1 DEF Fits
  <2>3. \A v \in Requests : v # r => lease'[v] = lease[v] /\ target'[v] = target[v]
    BY <1>2, <2>1, OthersPlaces, OthersPlans
  <2>4. CASE KeepsSlots(r)
    <3>1. \A v \in Requests :
            lease[v] \in {"held", "half"} \/ lease'[v] \in {"held", "half"}
              => lease'[v] = lease[v] /\ target'[v] = target[v]
      BY <2>3, <2>4 DEF KeepsSlots
    <3> QED BY <2>4, <3>1, HoldersKept DEF KeepsSlots, ActiveIsHeld
  <2>5. CASE Acquires(r) /\ target' = target
    <3>1. lease[r] = "none" /\ lease'[r] = "held" /\ target[r] \in Targets
      BY <2>1, <2>2, <2>5 DEF Acquires, LeaseFits, TargetFits, BeforeLease, AttemptsOK
    <3>2. ASSUME NEW ch \in Channels PROVE active'[ch] = Cardinality(Holders(ch)')
      <4>1. CASE ch = Channel(r)
        <5>1. Holders(ch)' = Holders(ch) \cup {r} /\ r \in Requests \ Holders(ch)
          BY <2>3, <2>5, <3>1, <4>1 DEF Holders, Channel
        <5>2. active'[ch] = active[ch] + 1
          BY <2>1, <2>5, <4>1 DEF Acquires, CountersOK
        <5> QED BY <5>1, <5>2, HoldersAre, CountFacts DEF ActiveIsHeld
      <4>2. CASE ch # Channel(r)
        <5>1. Holders(ch)' = Holders(ch)
          BY <2>3, <2>5, <3>1, <4>2 DEF Holders, Channel
        <5>2. active'[ch] = active[ch]
          BY <2>1, <2>5, <4>2 DEF Acquires, CountersOK
        <5> QED BY <5>1, <5>2 DEF ActiveIsHeld
      <4> QED BY <4>1, <4>2
    <3>3. ASSUME NEW s \in Channels \X Accounts
          PROVE  acctActive'[s] = Cardinality(AccountHolders(s)')
      <4>1. CASE s = target[r]
        <5>1. AccountHolders(s)' = AccountHolders(s) \cup {r} /\ r \in Requests \ AccountHolders(s)
          BY <2>3, <2>5, <3>1, <4>1 DEF AccountHolders
        <5>2. Account(r) # None
          BY <4>1, AdmissionAssumption DEF Account
        <5>3. acctActive'[s] = acctActive[s] + 1
          BY <2>1, <2>5, <4>1, <5>2 DEF Acquires, CountersOK
        <5> QED BY <5>1, <5>3, HoldersAre, CountFacts DEF ActiveIsHeld
      <4>2. CASE s # target[r]
        <5>1. AccountHolders(s)' = AccountHolders(s)
          BY <2>3, <2>5, <3>1, <4>2 DEF AccountHolders
        <5>2. acctActive'[s] = acctActive[s]
          BY <2>1, <2>5, <4>2 DEF Acquires, CountersOK
        <5> QED BY <5>1, <5>2 DEF ActiveIsHeld
      <4> QED BY <4>1, <4>2
    <3> QED BY <3>2, <3>3 DEF ActiveIsHeld
  <2>6. CASE ReleaseChannelSlot(r)
    <3>1. /\ lease[r] = "held" /\ target' = target /\ acctActive' = acctActive
          /\ lease'[r] = IF Account(r) = None THEN "released" ELSE "half"
      BY <2>1, <2>6 DEF ReleaseChannelSlot, AttemptsOK, planVars
    <3>2. ASSUME NEW ch \in Channels PROVE active'[ch] = Cardinality(Holders(ch)')
      <4>1. CASE ch = Channel(r)
        <5>1. Holders(ch)' = Holders(ch) \ {r} /\ r \in Holders(ch)
          BY <2>3, <3>1, <4>1 DEF Holders, Channel
        <5>2. active'[ch] = Dec(active[ch])
          BY <2>1, <2>6, <4>1 DEF ReleaseChannelSlot, CountersOK
        <5>3. active[ch] = Cardinality(Holders(ch)) /\ active[ch] \in Nat
          BY <2>1 DEF ActiveIsHeld, CountersOK
        <5> QED BY <5>1, <5>2, <5>3, HoldersAre, CountFacts, DecFacts
      <4>2. CASE ch # Channel(r)
        <5>1. Holders(ch)' = Holders(ch)
          BY <2>3, <3>1, <4>2 DEF Holders, Channel
        <5>2. active'[ch] = active[ch]
          BY <2>1, <2>6, <4>2 DEF ReleaseChannelSlot, CountersOK
        <5> QED BY <5>1, <5>2 DEF ActiveIsHeld
      <4> QED BY <4>1, <4>2
    <3>3. ASSUME NEW s \in Channels \X Accounts
          PROVE  acctActive'[s] = Cardinality(AccountHolders(s)')
      <4>1. s = target[r] => lease'[r] = "half"
        BY <3>1, AdmissionAssumption DEF Account
      <4>2. AccountHolders(s)' = AccountHolders(s)
        BY <2>3, <3>1, <4>1 DEF AccountHolders
      <4> QED BY <3>1, <4>2 DEF ActiveIsHeld
    <3> QED BY <3>2, <3>3 DEF ActiveIsHeld
  <2>7. CASE ReleaseAccountSlot(r)
    <3>1. lease[r] = "half" /\ target' = target /\ active' = active /\ lease'[r] = "released"
      BY <2>1, <2>7 DEF ReleaseAccountSlot, AttemptsOK, planVars
    <3>2. ASSUME NEW ch \in Channels PROVE active'[ch] = Cardinality(Holders(ch)')
      <4>1. Holders(ch)' = Holders(ch)
        BY <2>3, <3>1 DEF Holders, Channel
      <4> QED BY <3>1, <4>1 DEF ActiveIsHeld
    <3>3. ASSUME NEW s \in Channels \X Accounts
          PROVE  acctActive'[s] = Cardinality(AccountHolders(s)')
      <4>1. CASE s = target[r]
        <5>1. AccountHolders(s)' = AccountHolders(s) \ {r} /\ r \in AccountHolders(s)
          BY <2>3, <3>1, <4>1 DEF AccountHolders
        <5>2. acctActive'[s] = Dec(acctActive[s])
          BY <2>1, <2>7, <4>1 DEF ReleaseAccountSlot, CountersOK
        <5>3. acctActive[s] = Cardinality(AccountHolders(s)) /\ acctActive[s] \in Nat
          BY <2>1 DEF ActiveIsHeld, CountersOK
        <5> QED BY <5>1, <5>2, <5>3, HoldersAre, CountFacts, DecFacts
      <4>2. CASE s # target[r]
        <5>1. AccountHolders(s)' = AccountHolders(s)
          BY <2>3, <3>1, <4>2 DEF AccountHolders
        <5>2. acctActive'[s] = acctActive[s]
          BY <2>1, <2>7, <4>2 DEF ReleaseAccountSlot, CountersOK
        <5> QED BY <5>1, <5>2 DEF ActiveIsHeld
      <4> QED BY <4>1, <4>2
    <3> QED BY <3>2, <3>3 DEF ActiveIsHeld
  <2> QED BY <1>2, <2>1, <2>2, <2>4, <2>5, <2>6, <2>7, SlotMoves
<1> QED BY <1>1, <1>2 DEF Next, Done

LEMMA ActiveIsHeldInit == Init => ActiveIsHeld
<1> SUFFICES ASSUME Init PROVE ActiveIsHeld
  OBVIOUS
<1>1. \A r \in Requests : lease[r] = "none"
  BY DEF Init
<1>2. \A ch \in Channels : Holders(ch) = {}
  BY <1>1 DEF Holders
<1>3. \A s \in Channels \X Accounts : AccountHolders(s) = {}
  BY <1>1 DEF AccountHolders
<1>4. \A ch \in Channels : active[ch] = 0
  BY DEF Init
<1>5. \A s \in Channels \X Accounts : acctActive[s] = 0
  BY DEF Init
<1> QED BY <1>2, <1>3, <1>4, <1>5, FS_EmptySet DEF ActiveIsHeld

(* A counter of a channel or of an account is the number of the leases that  *)
(* have not given it back, in every interleaving of acquisitions, releases   *)
(* by either goroutine, retries and panics.                                  *)
THEOREM AdmissionActiveIsHeld == Spec => []ActiveIsHeld
<1> QED BY ActiveIsHeldInit, ActiveIsHeldStep, AdmissionTypeOK, PlacesFitAlways, PTL DEF Spec

(* The counters stay within the limits TryAcquire compares them with. *)
CountersWithinLimit ==
  /\ Limit > 0 => \A ch \in Channels : active[ch] <= Limit
  /\ \A s \in Channels \X Accounts : acctActive[s] <= AccountLimit

LEMMA CountersWithinLimitStep ==
  TypeOK /\ PlacesFit /\ CountersWithinLimit /\ [Next]_vars => CountersWithinLimit'
<1> SUFFICES ASSUME TypeOK, PlacesFit, CountersWithinLimit, [Next]_vars
             PROVE  CountersWithinLimit'
  OBVIOUS
<1>1. ASSUME UNCHANGED <<active, acctActive>> PROVE CountersWithinLimit'
  BY <1>1 DEF CountersWithinLimit
<1>2. ASSUME NEW r \in Requests, Step(r) PROVE CountersWithinLimit'
  <2>1. AttemptsOK /\ PlansOK /\ LeaseFits(r) /\ CountersOK
    BY TypeOKParts DEF PlacesFit, Fits
  <2>2. Limit \in Nat /\ AccountLimit \in Nat
    BY AdmissionAssumption
  <2>3. CASE Acquires(r)
    <3>1. ASSUME NEW ch \in Channels, Limit > 0 PROVE active'[ch] <= Limit
      <4>1. active[ch] \in Nat /\ active[ch] <= Limit
        BY <2>1, <3>1 DEF CountersWithinLimit, CountersOK
      <4>2. active'[ch] = IF ch = Channel(r) THEN active[ch] + 1 ELSE active[ch]
        BY <2>1, <2>3 DEF Acquires, CountersOK
      <4>3. ch = Channel(r) => active[ch] < Limit
        BY <2>3, <3>1 DEF Acquires, HasRoom
      <4> QED BY <2>2, <4>1, <4>2, <4>3
    <3>2. ASSUME NEW s \in Channels \X Accounts PROVE acctActive'[s] <= AccountLimit
      <4>1. acctActive[s] \in Nat /\ acctActive[s] <= AccountLimit
        BY <2>1 DEF CountersWithinLimit, CountersOK
      <4>2. s = target[r] => Account(r) # None
        BY AdmissionAssumption DEF Account
      <4>3. acctActive'[s] = IF s = target[r] THEN acctActive[s] + 1 ELSE acctActive[s]
        BY <2>1, <2>3, <4>2 DEF Acquires, CountersOK
      <4>4. s = target[r] => acctActive[s] < AccountLimit
        BY <2>3, <4>2 DEF Acquires, HasRoom
      <4> QED BY <2>2, <4>1, <4>3, <4>4
    <3> QED BY <3>1, <3>2 DEF CountersWithinLimit
  <2>4. CASE ReleaseChannelSlot(r) \/ ReleaseAccountSlot(r)
    <3>1. ASSUME NEW ch \in Channels, Limit > 0 PROVE active'[ch] <= Limit
      <4>1. active[ch] \in Nat /\ active[ch] <= Limit
        BY <2>1, <3>1 DEF CountersWithinLimit, CountersOK
      <4>2. active'[ch] = active[ch] \/ active'[ch] = Dec(active[ch])
        BY <2>1, <2>4 DEF ReleaseChannelSlot, ReleaseAccountSlot, CountersOK
      <4> QED BY <2>2, <4>1, <4>2 DEF Dec
    <3>2. ASSUME NEW s \in Channels \X Accounts PROVE acctActive'[s] <= AccountLimit
      <4>1. acctActive[s] \in Nat /\ acctActive[s] <= AccountLimit
        BY <2>1 DEF CountersWithinLimit, CountersOK
      <4>2. acctActive'[s] = acctActive[s] \/ acctActive'[s] = Dec(acctActive[s])
        BY <2>1, <2>4 DEF ReleaseChannelSlot, ReleaseAccountSlot, CountersOK
      <4> QED BY <2>2, <4>1, <4>2 DEF Dec
    <3> QED BY <3>1, <3>2 DEF CountersWithinLimit
  <2> QED BY <1>1, <1>2, <2>1, <2>3, <2>4, SlotMoves DEF KeepsSlots
<1> QED BY <1>1, <1>2 DEF Next, Done, vars, counterVars

(* No channel and no account ever has more requests in flight than its limit. *)
THEOREM AdmissionHoldersWithinLimit == Spec => []HoldersWithinLimit
<1>1. Init => CountersWithinLimit
  BY AdmissionAssumption DEF Init, CountersWithinLimit
<1>2. ActiveIsHeld /\ CountersWithinLimit => HoldersWithinLimit
  BY DEF ActiveIsHeld, CountersWithinLimit, HoldersWithinLimit
<1> QED BY <1>1, <1>2, CountersWithinLimitStep, AdmissionActiveIsHeld, AdmissionTypeOK,
           PlacesFitAlways, PTL DEF Spec
-----------------------------------------------------------------------------
(* The reservations. *)

(* What the requests still have to release of a channel's reservations. *)
Kept(ch) == [r \in Requests |-> ctxReserved[<<r, ch>>]]

KeptBacks == \A ch \in Channels : reserved[ch] <= SumOf(Kept(ch), Requests)

LEMMA ReservedBackedIs == ReservedBacked <=> KeptBacks
BY DEF ReservedBacked, KeptBacks, Kept, SumOf

LEMMA KeptBacksStep == TypeOK /\ KeptBacks /\ [Next]_vars => KeptBacks'
<1> SUFFICES ASSUME TypeOK, KeptBacks, [Next]_vars, NEW ch \in Channels
             PROVE  reserved'[ch] <= SumOf(Kept(ch)', Requests)
  BY DEF KeptBacks
<1>1. reserved[ch] <= SumOf(Kept(ch), Requests)
  BY DEF KeptBacks
<1>2. CASE UNCHANGED <<reserved, ctxReserved>>
  <2>1. Kept(ch)' = Kept(ch)
    BY <1>2 DEF Kept
  <2> QED BY <1>1, <1>2, <2>1
<1>3. ASSUME NEW r \in Requests, NEW c,
             \/ ReserveChannelSelectionRouting(r, c)
             \/ ReleaseChannelSelectionReservation(r, c)
      PROVE  reserved'[ch] <= SumOf(Kept(ch)', Requests)
  <2>1. /\ reserved \in [Channels -> Nat]
        /\ ctxReserved \in [Requests \X Channels -> Nat]
    BY DEF TypeOK
  <2>2. reserved[ch] \in Nat
    BY <2>1
  <2>3. \A v \in Requests : Kept(ch)[v] = ctxReserved[<<v, ch>>]
    BY DEF Kept
  <2>4. \A v \in Requests : Kept(ch)'[v] = ctxReserved'[<<v, ch>>]
    BY DEF Kept
  <2>5. \A v \in Requests : Kept(ch)[v] \in Nat
    BY <2>1, <2>3
  <2>6. \A v \in Requests : v # r \/ c # ch => Kept(ch)'[v] = Kept(ch)[v]
    <3>1. ASSUME NEW v \in Requests, v # r \/ c # ch
          PROVE  ctxReserved'[<<v, ch>>] = ctxReserved[<<v, ch>>]
      <4>1. PICK x \in Requests \X Channels : x = <<v, ch>>
        OBVIOUS
      <4>2. x # <<r, c>>
        BY <3>1, <4>1
      <4>3. ctxReserved'[x] = ctxReserved[x]
        BY <1>3, <2>1, <4>2
        DEF ReserveChannelSelectionRouting, ReleaseChannelSelectionReservation
      <4> QED BY <4>1, <4>3
    <3> QED BY <2>3, <2>4, <3>1
  <2>7. CASE c # ch
    <3>1. reserved'[ch] = reserved[ch]
      BY <1>3, <2>1, <2>7
      DEF ReserveChannelSelectionRouting, ReleaseChannelSelectionReservation
    <3>2. SumOf(Kept(ch)', Requests) = SumOf(Kept(ch), Requests)
      BY <2>6, <2>7, SumOfSame, AdmissionAssumption
    <3> QED BY <1>1, <3>1, <3>2
  <2>8. CASE c = ch
    <3>1. PICK x \in Requests \X Channels : x = <<r, ch>>
      OBVIOUS
    <3>2. \/ reserved'[ch] = reserved[ch] + 1 /\ ctxReserved'[x] = ctxReserved[x] + 1
          \/ reserved'[ch] = Dec(reserved[ch]) /\ ctxReserved'[x] = Dec(ctxReserved[x])
      BY <1>3, <2>1, <2>8, <3>1
      DEF ReserveChannelSelectionRouting, ReleaseChannelSelectionReservation
    <3>3. Kept(ch)[r] = ctxReserved[x] /\ Kept(ch)'[r] = ctxReserved'[x] /\ ctxReserved[x] \in Nat
      BY <2>1, <2>3, <2>4, <3>1
    <3>4. ctxReserved'[x] \in Nat
      BY <3>2, <3>3, DecFacts
    <3>5. \A v \in Requests : Kept(ch)'[v] \in Nat
      BY <2>5, <2>6, <3>3, <3>4
    <3>6. PICK h : h = Kept(ch)
      OBVIOUS
    <3>7. PICK g : g = Kept(ch)'
      OBVIOUS
    <3>8. /\ \A v \in Requests : h[v] \in Nat /\ g[v] \in Nat
          /\ \A v \in Requests \ {r} : h[v] = g[v]
      BY <2>5, <2>6, <3>5, <3>6, <3>7
    <3>9. SumOf(g, Requests) = SumOf(h, Requests) + g[r] - h[r]
      BY <3>8, SumOfChange, AdmissionAssumption
    <3>10. SumOf(h, Requests) \in Int
      BY <3>8, SumOfInt, AdmissionAssumption
    <3>11. SumOf(h, Requests) >= h[r]
      BY <3>8, SumOfAtLeast, AdmissionAssumption
    <3>12. h[r] = ctxReserved[x] /\ g[r] = ctxReserved'[x]
      BY <3>3, <3>6, <3>7
    <3>13. reserved'[ch] <= SumOf(g, Requests)
      <4>1. reserved[ch] <= SumOf(h, Requests)
        BY <1>1, <3>6
      <4> HIDE <3>6, <3>7
      <4> QED BY <2>2, <3>2, <3>3, <3>9, <3>10, <3>11, <3>12, <4>1 DEF Dec
    <3> QED BY <3>7, <3>13
  <2> QED BY <2>7, <2>8
<1>4. ASSUME NEW r \in Requests, Step(r)
      PROVE  reserved'[ch] <= SumOf(Kept(ch)', Requests)
  BY <1>2, <1>3, <1>4, ReservationMoves
<1> QED BY <1>2, <1>4 DEF Next, Done, vars, counterVars

(* A reservation counted for a channel is one some request still has to      *)
(* release, although a release decrements the counter unconditionally.       *)
THEOREM AdmissionReservedBacked == Spec => []ReservedBacked
<1>1. Init => KeptBacks
  <2> SUFFICES ASSUME Init, NEW ch \in Channels
               PROVE  reserved[ch] <= SumOf(Kept(ch), Requests)
    BY DEF KeptBacks
  <2>1. \A r \in Requests : Kept(ch)[r] = 0
    BY DEF Init, Kept
  <2>2. SumOf(Kept(ch), Requests) = 0
    BY <2>1, SumOfZero, AdmissionAssumption
  <2>3. reserved[ch] = 0
    BY DEF Init
  <2> QED BY <2>2, <2>3
<1> QED BY <1>1, KeptBacksStep, ReservedBackedIs, AdmissionTypeOK, PTL DEF Spec
-----------------------------------------------------------------------------
(* The queues. *)

OfGroup(q, g) == {r \in waiters[q] : plan[r].group = g}
Normal(q) == {r \in waiters[q] : ~HighPriority(r)}

DepthsCount ==
  \A q \in Queues :
    /\ depth[q] = Cardinality(waiters[q])
    /\ \A g \in Groups : groupDepth[<<q, g>>] = Cardinality(OfGroup(q, g))

(* A request in a queue keeps its plan. *)
LEMMA PlanKept ==
  ASSUME NEW r \in Requests, pc[r] \in QueuePlaces \cup {"enter"}, Step(r)
  PROVE  plan' = plan
<1> USE DEF QueuePlaces
<1>1. ASSUME NEW p \in Plans, NEW t \in Targets, SelectSmart(r, p, t) \/ SelectLegacy(r, p, t)
      PROVE  FALSE
  BY <1>1 DEF SelectSmart, SelectLegacy
<1>2. ASSUME Rejected(r) \/ AfterRelease(r) \/ AfterSetupRelease(r) \/ Finish(r) PROVE FALSE
  BY <1>2 DEF Rejected, AfterRelease, AfterSetupRelease, Finish
<1>3. ASSUME \/ SelectFails(r) \/ SetupOk(r) \/ SetupFails(r) \/ RelayRefuses(r)
             \/ TryAcquireChannelConcurrency(r) \/ Unreserve(r) \/ PreUnreserve(r)
             \/ (\E t \in Targets : PoolSelect(r, t)) \/ PoolSelectFails(r)
             \/ PoolSetup(r) \/ EnterQueue(r) \/ LeaveQueue(r)
             \/ ReleaseAccountSlot(r) \/ ReleaseChannelSlot(r)
             \/ (\E ch \in Channels : FinishReservation(r, ch))
             \/ WaitTick(r) \/ WaitEnds(r) \/ AttemptEnds(r) \/ Panic(r)
      PROVE  plan' = plan
  BY <1>3 DEF SelectFails, SetupOk, SetupFails, RelayRefuses, PoolSetup, PreUnreserve,
     PoolSelect, PoolSelectFails, EnterQueue, LeaveQueue,
     ReleaseAccountSlot, ReleaseChannelSlot, FinishReservation,
     TryAcquireChannelConcurrency, Unreserve, WaitTick, WaitEnds, AttemptEnds, Panic, planVars
<1> QED BY <1>1, <1>2, <1>3 DEF Step, Proceed

LEMMA WaitersPlansKept ==
  ASSUME TypeOK, PlacesFit, NEW r \in Requests, Step(r), NEW q \in Queues, NEW w \in waiters[q]
  PROVE  plan'[w] = plan[w] /\ w \in Requests
<1>1. w \in Requests /\ PlansOK
  BY TypeOKParts DEF QueuesOK
<1>2. CASE w = r
  <2>1. pc[r] \in QueuePlaces
    BY <1>2 DEF PlacesFit, Fits, WaitFits
  <2> QED BY <1>1, <2>1, PlanKept
<1>3. CASE w # r
  BY <1>1, <1>3, OthersPlans
<1> QED BY <1>1, <1>2, <1>3

(* The three ways a step treats the queues, with what follows for the lists. *)
LEMMA QueueListMoves ==
  ASSUME TypeOK, PlacesFit, NEW r \in Requests, Step(r)
  PROVE  \/ UNCHANGED queueVars
         \/ /\ Enters(r) /\ plan' = plan /\ QueueKey(r) \in Queues
            /\ r \notin waiters[QueueKey(r)]
            /\ waiters'[QueueKey(r)] = waiters[QueueKey(r)] \cup {r}
            /\ \A q \in Queues : q # QueueKey(r) => waiters'[q] = waiters[q]
         \/ /\ Leaves(r) /\ plan' = plan /\ QueueKey(r) \in Queues
            /\ r \in waiters[QueueKey(r)]
            /\ waiters'[QueueKey(r)] = waiters[QueueKey(r)] \ {r}
            /\ \A q \in Queues : q # QueueKey(r) => waiters'[q] = waiters[q]
<1>1. Fits(r) /\ QueuesOK
  BY TypeOKParts DEF PlacesFit
<1>2. WaitFits(r) /\ TargetFits(r)
  BY <1>1 DEF Fits
<1>3. CASE Enters(r)
  <2>1. pc[r] = "enter"
    BY <1>3 DEF Enters
  <2>2. target[r] \in Targets /\ ~InQueue(r)
    BY <1>2, <2>1 DEF WaitFits, TargetFits, QueuePlaces
  <2>3. QueueKey(r) \in Queues
    BY <2>2, QueueKeyIsQueue
  <2>4. plan' = plan
    BY <2>1, PlanKept
  <2>5. r \notin waiters[QueueKey(r)]
    BY <1>2, <2>2, <2>3 DEF WaitFits
  <2>6. /\ waiters'[QueueKey(r)] = waiters[QueueKey(r)] \cup {r}
        /\ \A q \in Queues : q # QueueKey(r) => waiters'[q] = waiters[q]
    BY <1>1, <1>3, <2>3 DEF Enters, QueuesOK
  <2> QED BY <1>3, <2>3, <2>4, <2>5, <2>6
<1>4. CASE Leaves(r)
  <2>1. pc[r] = "leave"
    BY <1>4 DEF Leaves
  <2>2. target[r] \in Targets /\ InQueue(r)
    BY <1>2, <2>1 DEF WaitFits, TargetFits
  <2>3. QueueKey(r) \in Queues
    BY <2>2, QueueKeyIsQueue
  <2>4. plan' = plan
    BY <2>1, PlanKept DEF QueuePlaces
  <2>5. r \in waiters[QueueKey(r)]
    BY <1>2, <2>2, <2>3 DEF WaitFits
  <2>6. /\ waiters'[QueueKey(r)] = waiters[QueueKey(r)] \ {r}
        /\ \A q \in Queues : q # QueueKey(r) => waiters'[q] = waiters[q]
    BY <1>1, <1>4, <2>3 DEF Leaves, QueuesOK
  <2> QED BY <1>4, <2>3, <2>4, <2>5, <2>6
<1> QED BY <1>3, <1>4, QueueMoves

LEMMA DepthsCountStep == TypeOK /\ PlacesFit /\ DepthsCount /\ [Next]_vars => DepthsCount'
<1> SUFFICES ASSUME TypeOK, PlacesFit, DepthsCount, [Next]_vars PROVE DepthsCount'
  OBVIOUS
<1>1. CASE UNCHANGED vars
  BY <1>1 DEF vars, queueVars, planVars, DepthsCount, OfGroup
<1>2. ASSUME NEW r \in Requests, Step(r) PROVE DepthsCount'
  <2>1. /\ depth \in [Queues -> Nat]
        /\ groupDepth \in [Queues \X Groups -> Nat]
        /\ \A q \in Queues : waiters[q] \in SUBSET Requests
    BY DEF TypeOK
  <2>2. \A q \in Queues, g \in Groups : OfGroup(q, g) \in SUBSET Requests
    BY <2>1 DEF OfGroup
  <2>3. plan[r].group \in Groups
    BY DEF TypeOK, Plan
  <2>4. CASE UNCHANGED queueVars
    <3>1. \A q \in Queues : \A w \in waiters[q] : plan'[w] = plan[w]
      BY <1>2, WaitersPlansKept
    <3>2. \A q \in Queues, g \in Groups : OfGroup(q, g)' = OfGroup(q, g)
      BY <2>4, <3>1 DEF OfGroup, queueVars
    <3> QED BY <2>4, <3>2 DEF DepthsCount, queueVars
  <2> DEFINE k == QueueKey(r)
             h == plan[r].group
  <2>5. ASSUME Enters(r), plan' = plan, k \in Queues, r \notin waiters[k],
               waiters'[k] = waiters[k] \cup {r},
               \A q \in Queues : q # k => waiters'[q] = waiters[q]
        PROVE  DepthsCount'
    <3> SUFFICES ASSUME NEW q \in Queues
                 PROVE  /\ depth'[q] = Cardinality(waiters'[q])
                        /\ \A g \in Groups : groupDepth'[<<q, g>>] = Cardinality(OfGroup(q, g)')
      BY DEF DepthsCount
    <3>1. depth'[q] = Cardinality(waiters'[q])
      <4>1. depth'[q] = IF q = k THEN depth[q] + 1 ELSE depth[q]
        BY <2>1, <2>5 DEF Enters
      <4>2. depth[q] = Cardinality(waiters[q])
        BY DEF DepthsCount
      <4> HIDE DEF k
      <4>3. q = k => Cardinality(waiters'[q]) = Cardinality(waiters[q]) + 1
        BY <2>1, <2>5, CountFacts
      <4> QED BY <2>5, <4>1, <4>2, <4>3
    <3>2. ASSUME NEW g \in Groups PROVE groupDepth'[<<q, g>>] = Cardinality(OfGroup(q, g)')
      <4>1. PICK x \in Queues \X Groups : x = <<q, g>>
        OBVIOUS
      <4>2. groupDepth' = [groupDepth EXCEPT ![<<k, h>>] = @ + 1]
        BY <2>5 DEF Enters
      <4>3. groupDepth[x] = Cardinality(OfGroup(q, g))
        BY <4>1 DEF DepthsCount
      <4>4. CASE q = k /\ g = h
        <5>1. OfGroup(q, g)' = OfGroup(q, g) \cup {r} /\ r \in Requests \ OfGroup(q, g)
          BY <2>5, <4>4 DEF OfGroup
        <5>2. groupDepth'[x] = groupDepth[x] + 1
          BY <2>1, <4>1, <4>2, <4>4
        <5> QED BY <2>2, <4>1, <4>3, <5>1, <5>2, CountFacts
      <4>5. CASE ~(q = k /\ g = h)
        <5>1. OfGroup(q, g)' = OfGroup(q, g)
          BY <2>5, <4>5 DEF OfGroup
        <5>2. x # <<k, h>>
          BY <4>1, <4>5
        <5>3. groupDepth'[x] = groupDepth[x]
          BY <2>1, <4>2, <5>2
        <5> QED BY <4>1, <4>3, <5>1, <5>3
      <4> QED BY <4>4, <4>5
    <3> QED BY <3>1, <3>2
  <2>6. ASSUME Leaves(r), plan' = plan, k \in Queues, r \in waiters[k],
               waiters'[k] = waiters[k] \ {r},
               \A q \in Queues : q # k => waiters'[q] = waiters[q]
        PROVE  DepthsCount'
    <3> SUFFICES ASSUME NEW q \in Queues
                 PROVE  /\ depth'[q] = Cardinality(waiters'[q])
                        /\ \A g \in Groups : groupDepth'[<<q, g>>] = Cardinality(OfGroup(q, g)')
      BY DEF DepthsCount
    <3>1. depth'[q] = Cardinality(waiters'[q])
      <4>1. depth'[q] = IF q = k THEN Dec(depth[q]) ELSE depth[q]
        BY <2>1, <2>6 DEF Leaves
      <4>2. depth[q] = Cardinality(waiters[q]) /\ depth[q] \in Nat
        BY <2>1 DEF DepthsCount
      <4> HIDE DEF k
      <4>3. q = k => /\ Cardinality(waiters'[q]) = Cardinality(waiters[q]) - 1
                     /\ Cardinality(waiters[q]) > 0
        BY <2>1, <2>6, CountFacts
      <4> QED BY <2>6, <4>1, <4>2, <4>3, DecFacts
    <3>2. ASSUME NEW g \in Groups PROVE groupDepth'[<<q, g>>] = Cardinality(OfGroup(q, g)')
      <4>1. PICK x \in Queues \X Groups : x = <<q, g>>
        OBVIOUS
      <4>2. groupDepth' = [groupDepth EXCEPT ![<<k, h>>] = Dec(@)]
        BY <2>6 DEF Leaves
      <4>3. groupDepth[x] = Cardinality(OfGroup(q, g)) /\ groupDepth[x] \in Nat
        BY <2>1, <4>1 DEF DepthsCount
      <4>4. CASE q = k /\ g = h
        <5>1. OfGroup(q, g)' = OfGroup(q, g) \ {r} /\ r \in OfGroup(q, g)
          BY <2>6, <4>4 DEF OfGroup
        <5>2. groupDepth'[x] = Dec(groupDepth[x])
          BY <2>1, <4>1, <4>2, <4>4
        <5> QED BY <2>2, <4>1, <4>3, <5>1, <5>2, CountFacts, DecFacts
      <4>5. CASE ~(q = k /\ g = h)
        <5>1. OfGroup(q, g)' = OfGroup(q, g)
          BY <2>6, <4>5 DEF OfGroup
        <5>2. x # <<k, h>>
          BY <4>1, <4>5
        <5>3. groupDepth'[x] = groupDepth[x]
          BY <2>1, <4>2, <5>2
        <5> QED BY <4>1, <4>3, <5>1, <5>3
      <4> QED BY <4>4, <4>5
    <3> QED BY <3>1, <3>2
  <2> QED BY <1>2, <2>4, <2>5, <2>6, QueueListMoves
<1> QED BY <1>1, <1>2 DEF Next, Done

LEMMA DepthsCountAlways == Spec => []DepthsCount
<1>1. Init => DepthsCount
  <2> SUFFICES ASSUME Init PROVE DepthsCount
    OBVIOUS
  <2>1. \A q \in Queues : waiters[q] = {} /\ depth[q] = 0
    BY DEF Init
  <2>2. \A q \in Queues, g \in Groups : OfGroup(q, g) = {}
    BY <2>1 DEF OfGroup
  <2>3. \A q \in Queues, g \in Groups : groupDepth[<<q, g>>] = 0
    BY DEF Init
  <2> QED BY <2>1, <2>2, <2>3, FS_EmptySet DEF DepthsCount
<1> QED BY <1>1, DepthsCountStep, AdmissionTypeOK, PlacesFitAlways, PTL DEF Spec

(* The depths the admission policy reads agree with the list the turns are   *)
(* decided by, in total and group by group, and a request waits in one queue *)
(* at most.                                                                  *)
THEOREM AdmissionQueueDepthsAgree == Spec => []QueueDepthsAgree
<1>1. TypeOK /\ PlacesFit /\ DepthsCount => QueueDepthsAgree
  <2> SUFFICES ASSUME TypeOK, PlacesFit, DepthsCount, NEW q \in Queues
               PROVE  \A r \in waiters[q] : InQueue(r) /\ QueueKey(r) = q
    BY DEF QueueDepthsAgree, DepthsCount, OfGroup
  <2>1. waiters[q] \subseteq Requests
    BY DEF TypeOK
  <2> QED BY <2>1 DEF PlacesFit, Fits, WaitFits
<1> QED BY <1>1, AdmissionTypeOK, PlacesFitAlways, DepthsCountAlways, PTL

LEMMA LimitFacts ==
  ASSUME NEW q \in Queues
  PROVE  /\ QueueMaxDepth(q) \in Nat /\ HighPriorityExtraDepth \in Nat
         /\ CapQueueLimit(QueueMaxDepth(q)) \in Nat
         /\ CapQueueLimit(QueueMaxDepth(q) + HighPriorityExtraDepth) \in Nat
         /\ CapQueueLimit(QueueMaxDepth(q))
              <= CapQueueLimit(QueueMaxDepth(q) + HighPriorityExtraDepth)
         /\ ReservedDepth(q) \in Nat
         /\ NormalLimit(q) \in Nat
<1>1. QueueMaxDepth(q) \in Nat /\ HighPriorityExtraDepth \in Nat /\ AbsoluteMaxDepth \in Nat
      /\ HighPriorityReservedDepth \in Nat
  BY AdmissionAssumption DEF QueueMaxDepth
<1>2. ReservedDepth(q) \in Nat /\ ReservedDepth(q) <= QueueMaxDepth(q)
  BY <1>1 DEF ReservedDepth
<1>3. NormalLimit(q) \in Nat
  BY <1>1, <1>2 DEF NormalLimit
<1> QED BY <1>1, <1>2, <1>3 DEF CapQueueLimit

(* The waiters the policy takes for normal ones include all that are. *)
LEMMA NormalDepthCounts ==
  ASSUME TypeOK, DepthsCount, NEW q \in Queues
  PROVE  NormalDepth(q) \in Nat /\ Cardinality(Normal(q)) <= NormalDepth(q)
<1> DEFINE W == waiters[q]
           f == [w \in W |-> plan[w].group]
           h == [g \in HighPriorityGroups |-> groupDepth[<<q, g>>]]
           High == {w \in W : f[w] \in HighPriorityGroups}
<1>1. W \in SUBSET Requests /\ IsFiniteSet(W) /\ Cardinality(W) \in Nat
  BY CountFacts DEF TypeOK
<1>2. IsFiniteSet(HighPriorityGroups) /\ HighPriorityGroups \subseteq Groups
  BY AdmissionAssumption
<1>3. ASSUME NEW g \in HighPriorityGroups PROVE h[g] = Cardinality({w \in W : f[w] = g})
  <2>1. OfGroup(q, g) = {w \in W : f[w] = g}
    BY DEF OfGroup
  <2> QED BY <1>2, <2>1 DEF DepthsCount
<1>4. SumOf(h, HighPriorityGroups) = Cardinality(High)
  <2>1. \A g \in HighPriorityGroups : h[g] = Cardinality(ClassOf(f, W, g))
    BY <1>3 DEF ClassOf
  <2>2. IsFiniteSet(HighPriorityGroups) /\ IsFiniteSet(W)
    BY <1>1, <1>2
  <2>3. ClassesOf(f, W, HighPriorityGroups) = High
    BY DEF ClassesOf
  <2> HIDE DEF h, f, W, High
  <2> QED BY <2>1, <2>2, <2>3, SumOfClasses
<1>5. Normal(q) \in SUBSET W /\ High \in SUBSET W /\ Normal(q) \cap High = {}
  BY DEF Normal, HighPriority
<1>6. NormalDepth(q) = IF depth[q] > SumOf(h, HighPriorityGroups)
                       THEN depth[q] - SumOf(h, HighPriorityGroups) ELSE 0
  BY DEF NormalDepth, SumOf
<1>7. depth[q] = Cardinality(W)
  BY DEF DepthsCount
<1> HIDE DEF W, High, h
<1>8. /\ IsFiniteSet(Normal(q)) /\ Cardinality(Normal(q)) \in Nat
      /\ IsFiniteSet(High) /\ Cardinality(High) \in Nat
  BY <1>1, <1>5, FS_Subset, FS_CardinalityType
<1>9. Cardinality(Normal(q)) + Cardinality(High) <= Cardinality(W)
  <2>1. /\ IsFiniteSet(Normal(q) \cup High)
        /\ Cardinality(Normal(q) \cup High)
             = Cardinality(Normal(q)) + Cardinality(High) - Cardinality({})
    BY <1>5, <1>8, FS_Union
  <2>2. Cardinality(Normal(q) \cup High) <= Cardinality(W)
    BY <1>1, <1>5, FS_Subset
  <2>3. Cardinality({}) = 0
    BY FS_EmptySet
  <2> QED BY <1>8, <2>1, <2>2, <2>3
<1> QED BY <1>1, <1>4, <1>6, <1>7, <1>8, <1>9

BoundsHold ==
  \A q \in Queues :
    /\ Cardinality(waiters[q]) <= CapQueueLimit(QueueMaxDepth(q) + HighPriorityExtraDepth)
    /\ Cardinality(Normal(q)) <= CapQueueLimit(QueueMaxDepth(q))
    /\ ReservedDepth(q) > 0 => Cardinality(Normal(q)) <= NormalLimit(q)

LEMMA BoundsHoldStep ==
  TypeOK /\ PlacesFit /\ DepthsCount /\ BoundsHold /\ [Next]_vars => BoundsHold'
<1> SUFFICES ASSUME TypeOK, PlacesFit, DepthsCount, BoundsHold, [Next]_vars, NEW q \in Queues
             PROVE  /\ Cardinality(waiters'[q])
                         <= CapQueueLimit(QueueMaxDepth(q) + HighPriorityExtraDepth)
                    /\ Cardinality(Normal(q)') <= CapQueueLimit(QueueMaxDepth(q))
                    /\ ReservedDepth(q) > 0 => Cardinality(Normal(q)') <= NormalLimit(q)
  BY DEF BoundsHold, CapQueueLimit, QueueMaxDepth, ReservedDepth, NormalLimit
<1>1. /\ Cardinality(waiters[q]) <= CapQueueLimit(QueueMaxDepth(q) + HighPriorityExtraDepth)
      /\ Cardinality(Normal(q)) <= CapQueueLimit(QueueMaxDepth(q))
      /\ ReservedDepth(q) > 0 => Cardinality(Normal(q)) <= NormalLimit(q)
  BY DEF BoundsHold
<1>2. waiters[q] \in SUBSET Requests /\ Normal(q) \in SUBSET Requests
  BY DEF TypeOK, Normal
<1>3. Cardinality(waiters[q]) \in Nat /\ Cardinality(Normal(q)) \in Nat
  BY <1>2, CountFacts
<1>4. ASSUME waiters'[q] = waiters[q], Normal(q)' = Normal(q)
      PROVE  /\ Cardinality(waiters'[q])
                  <= CapQueueLimit(QueueMaxDepth(q) + HighPriorityExtraDepth)
             /\ Cardinality(Normal(q)') <= CapQueueLimit(QueueMaxDepth(q))
             /\ ReservedDepth(q) > 0 => Cardinality(Normal(q)') <= NormalLimit(q)
  BY <1>1, <1>4
<1>5. CASE UNCHANGED vars
  BY <1>4, <1>5 DEF vars, queueVars, planVars, Normal, HighPriority
<1>6. ASSUME NEW r \in Requests, Step(r)
      PROVE  /\ Cardinality(waiters'[q])
                  <= CapQueueLimit(QueueMaxDepth(q) + HighPriorityExtraDepth)
             /\ Cardinality(Normal(q)') <= CapQueueLimit(QueueMaxDepth(q))
             /\ ReservedDepth(q) > 0 => Cardinality(Normal(q)') <= NormalLimit(q)
  <2>1. \A w \in waiters[q] : plan'[w] = plan[w]
    BY <1>6, WaitersPlansKept
  <2>2. CASE waiters'[q] = waiters[q]
    <3>1. Normal(q)' = Normal(q)
      BY <2>1, <2>2 DEF Normal, HighPriority
    <3> QED BY <1>4, <2>2, <3>1
  <2> DEFINE k == QueueKey(r)
  <2>3. ASSUME Enters(r), plan' = plan, q = k, r \notin waiters[k],
               waiters'[k] = waiters[k] \cup {r}
        PROVE  /\ Cardinality(waiters'[q])
                    <= CapQueueLimit(QueueMaxDepth(q) + HighPriorityExtraDepth)
               /\ Cardinality(Normal(q)') <= CapQueueLimit(QueueMaxDepth(q))
               /\ ReservedDepth(q) > 0 => Cardinality(Normal(q)') <= NormalLimit(q)
    <3>1. Cardinality(waiters'[q]) = Cardinality(waiters[q]) + 1
      BY <1>2, <2>3, CountFacts
    <3>2. depth[q] = Cardinality(waiters[q])
      BY DEF DepthsCount
    <3>3. AllowQueue(r)
      BY <2>3 DEF Enters
    <3>4. CASE HighPriority(r)
      <4>1. depth[q] < CapQueueLimit(QueueMaxDepth(q) + HighPriorityExtraDepth)
        BY <2>3, <3>3, <3>4 DEF AllowQueue
      <4>2. Normal(q)' = Normal(q)
        BY <2>3, <3>4 DEF Normal, HighPriority
      <4> QED BY <1>1, <1>3, <3>1, <3>2, <4>1, <4>2, LimitFacts
    <3>5. CASE ~HighPriority(r)
      <4>1. /\ depth[q] < CapQueueLimit(QueueMaxDepth(q))
            /\ ReservedDepth(q) > 0 => NormalDepth(q) < NormalLimit(q)
        BY <2>3, <3>3, <3>5 DEF AllowQueue
      <4>2. Normal(q)' = Normal(q) \cup {r} /\ r \in Requests \ Normal(q)
        BY <2>3, <3>5 DEF Normal, HighPriority
      <4>3. Cardinality(Normal(q)') = Cardinality(Normal(q)) + 1
        BY <1>2, <4>2, CountFacts
      <4>4. Cardinality(Normal(q)) <= Cardinality(waiters[q])
        <5>1. Normal(q) \in SUBSET waiters[q] /\ IsFiniteSet(waiters[q])
          BY <1>2, CountFacts DEF Normal
        <5> QED BY <5>1, FS_Subset
      <4>5. NormalDepth(q) \in Nat /\ Cardinality(Normal(q)) <= NormalDepth(q)
        BY NormalDepthCounts
      <4>6. Cardinality(waiters'[q]) <= CapQueueLimit(QueueMaxDepth(q) + HighPriorityExtraDepth)
        BY <1>3, <3>1, <3>2, <4>1, LimitFacts
      <4>7. Cardinality(Normal(q)') <= CapQueueLimit(QueueMaxDepth(q))
        BY <1>3, <3>2, <4>1, <4>3, <4>4, LimitFacts
      <4>8. ReservedDepth(q) > 0 => Cardinality(Normal(q)') <= NormalLimit(q)
        BY <1>3, <4>1, <4>3, <4>5, LimitFacts
      <4> QED BY <4>6, <4>7, <4>8
    <3> QED BY <3>4, <3>5
  <2>4. ASSUME plan' = plan, q = k, r \in waiters[k], waiters'[k] = waiters[k] \ {r}
        PROVE  /\ Cardinality(waiters'[q])
                    <= CapQueueLimit(QueueMaxDepth(q) + HighPriorityExtraDepth)
               /\ Cardinality(Normal(q)') <= CapQueueLimit(QueueMaxDepth(q))
               /\ ReservedDepth(q) > 0 => Cardinality(Normal(q)') <= NormalLimit(q)
    <3>1. Cardinality(waiters'[q]) <= Cardinality(waiters[q]) /\ Cardinality(waiters'[q]) \in Nat
      <4>1. waiters'[q] \in SUBSET waiters[q] /\ IsFiniteSet(waiters[q])
        BY <1>2, <2>4, CountFacts
      <4> QED BY <4>1, FS_Subset, FS_CardinalityType
    <3>2. Cardinality(Normal(q)') <= Cardinality(Normal(q)) /\ Cardinality(Normal(q)') \in Nat
      <4>1. Normal(q)' \in SUBSET Normal(q) /\ IsFiniteSet(Normal(q))
        BY <1>2, <2>4, CountFacts DEF Normal, HighPriority
      <4> QED BY <4>1, FS_Subset, FS_CardinalityType
    <3> QED BY <1>1, <1>3, <3>1, <3>2, LimitFacts
  <2> HIDE DEF k
  <2>5. UNCHANGED queueVars => waiters'[q] = waiters[q]
    BY DEF queueVars
  <2> QED BY <1>6, <2>2, <2>3, <2>4, <2>5, QueueListMoves DEF k
<1> QED BY <1>5, <1>6 DEF Next, Done

(* A queue is bounded, and normal requests never take the places that are    *)
(* kept for high priority ones, although the policy estimates the normal     *)
(* waiters by subtracting the groups' depths from the depth.                 *)
THEOREM AdmissionQueueBounds == Spec => []QueueBounds
<1>1. Init => BoundsHold
  <2> SUFFICES ASSUME Init, NEW q \in Queues
               PROVE  /\ Cardinality(waiters[q])
                           <= CapQueueLimit(QueueMaxDepth(q) + HighPriorityExtraDepth)
                      /\ Cardinality(Normal(q)) <= CapQueueLimit(QueueMaxDepth(q))
                      /\ ReservedDepth(q) > 0 => Cardinality(Normal(q)) <= NormalLimit(q)
    BY DEF BoundsHold
  <2>1. waiters[q] = {} /\ Normal(q) = {}
    BY DEF Init, Normal
  <2> QED BY <2>1, LimitFacts, FS_EmptySet
<1>2. BoundsHold => QueueBounds
  BY DEF BoundsHold, QueueBounds, Normal
<1> QED BY <1>1, <1>2, BoundsHoldStep, AdmissionTypeOK, PlacesFitAlways, DepthsCountAlways,
           PTL DEF Spec
-----------------------------------------------------------------------------
(* The turns.  A waiter that has seen its turn still is the first of its     *)
(* class in its queue: who comes later draws a larger number.                *)

Turn(v, w) ==
  /\ InQueue(v) /\ pc[v] \in {"poolSelect", "try"}
  /\ InQueue(w) /\ QueueKey(w) = QueueKey(v)
  /\ SameClass(v, w)

TurnsHold == \A v, w \in Requests : Turn(v, w) => ticket[v] <= ticket[w]
TicketsDrawn == \A r \in Requests : ticket[r] <= nextSeq

(* A waiter has its place in the queue its plan names. *)
LEMMA WaiterPlace ==
  ASSUME PlacesFit, NEW u \in Requests, InQueue(u)
  PROVE  QueueKey(u) \in Queues /\ u \in waiters[QueueKey(u)]
<1>1. pc[u] \in QueuePlaces /\ TargetFits(u) /\ WaitFits(u)
  BY DEF PlacesFit, Fits, WaitFits
<1>2. target[u] \in Targets
  BY <1>1 DEF TargetFits, QueuePlaces
<1>3. QueueKey(u) \in Queues
  BY <1>2, QueueKeyIsQueue
<1> QED BY <1>1, <1>3 DEF WaitFits

LEMMA WaitersTickets ==
  ASSUME TypeOK, PlacesFit, PlacesFit', NEW r \in Requests, Step(r),
         NEW u \in Requests, InQueue(u)'
  PROVE  \/ /\ InQueue(u) /\ ticket'[u] = ticket[u] /\ plan'[u] = plan[u]
            /\ QueueKey(u)' = QueueKey(u)
         \/ /\ u = r /\ EnterQueue(r) /\ ticket'[u] = nextSeq + 1
            /\ nextSeq' = nextSeq + 1 /\ pc'[u] = "wait"
<1>1. QueuesOK /\ AttemptsOK
  BY TypeOKParts
<1>2. ASSUME InQueue(u), ticket'[u] = ticket[u],
             \A q \in Queues : u \in waiters[q] => u \in waiters'[q]
      PROVE  plan'[u] = plan[u] /\ QueueKey(u)' = QueueKey(u)
  <2>1. PICK q \in Queues : q = QueueKey(u) /\ u \in waiters[q]
    BY <1>2, WaiterPlace
  <2>2. plan'[u] = plan[u]
    BY <2>1, WaitersPlansKept
  <2>3. u \in waiters'[q]
    BY <1>2, <2>1
  <2>4. WaitFits(u)'
    BY DEF PlacesFit, Fits
  <2>5. q = QueueKey(u)'
    BY <2>3, <2>4 DEF WaitFits
  <2> QED BY <2>1, <2>2, <2>5
<1>3. CASE UNCHANGED queueVars
  BY <1>2, <1>3 DEF queueVars, InQueue
<1>4. CASE u # r
  <2>1. ticket'[u] = ticket[u] /\ \A q \in Queues : u \in waiters'[q] <=> u \in waiters[q]
    BY <1>1, <1>4, OthersQueues
  <2> QED BY <1>2, <2>1 DEF InQueue
<1>5. CASE u = r /\ Enters(r) /\ EnterQueue(r)
  <2>1. ticket'[u] = nextSeq + 1 /\ nextSeq' = nextSeq + 1
    BY <1>1, <1>5 DEF Enters, QueuesOK
  <2>2. Goto(r, "wait")
    BY <1>5 DEF EnterQueue, Enters
  <2> QED BY <1>1, <1>5, <2>1, <2>2, GotoFacts
<1>6. CASE u = r /\ Leaves(r)
  <2>1. ticket'[u] = 0
    BY <1>1, <1>6 DEF Leaves, QueuesOK
  <2> QED BY <2>1 DEF InQueue
<1> QED BY <1>3, <1>4, <1>5, <1>6, QueueMoves

LEMMA TicketsDrawnStep == TypeOK /\ TicketsDrawn /\ [Next]_vars => TicketsDrawn'
<1> SUFFICES ASSUME TypeOK, TicketsDrawn, [Next]_vars PROVE TicketsDrawn'
  OBVIOUS
<1> USE DEF TicketsDrawn
<1>1. CASE UNCHANGED vars
  BY <1>1 DEF vars, queueVars
<1>2. ASSUME NEW r \in Requests, Step(r) PROVE TicketsDrawn'
  <2>1. QueuesOK
    BY TypeOKParts
  <2>2. CASE UNCHANGED queueVars
    BY <2>2 DEF queueVars
  <2>3. CASE Enters(r)
    BY <2>1, <2>3 DEF Enters, QueuesOK
  <2>4. CASE Leaves(r)
    BY <2>1, <2>4 DEF Leaves, QueuesOK
  <2> QED BY <1>2, <2>2, <2>3, <2>4, QueueMoves
<1> QED BY <1>1, <1>2 DEF Next, Done

(* A waiter comes to the head of its queue by a tick only. *)
LEMMA TurnTaken ==
  ASSUME AttemptsOK, NEW r \in Requests, pc[r] \in QueuePlaces, Step(r),
         pc'[r] \in {"poolSelect", "try"}
  PROVE  pc[r] \in {"poolSelect", "try"} \/ WaitTick(r)
<1> USE DEF QueuePlaces
<1>1. SUFFICES ASSUME pc[r] \in {"unreserve", "wait", "leave"} PROVE WaitTick(r)
  OBVIOUS
<1>2. ASSUME NEW l, Goto(r, l) PROVE pc'[r] = l
  BY <1>2, GotoFacts
<1>3. CASE Unreserve(r)
  BY <1>2, <1>3 DEF Unreserve
<1>4. CASE LeaveQueue(r)
  BY <1>2, <1>4 DEF LeaveQueue
<1>5. CASE WaitEnds(r)
  BY <1>2, <1>5 DEF WaitEnds
<1>6. CASE ReleaseAccountSlot(r) \/ ReleaseChannelSlot(r)
  BY <1>1, <1>6 DEF ReleaseAccountSlot, ReleaseChannelSlot
<1>7. ASSUME NEW p \in Plans, NEW t \in Targets, SelectSmart(r, p, t) \/ SelectLegacy(r, p, t)
      PROVE  FALSE
  BY <1>1, <1>7 DEF SelectSmart, SelectLegacy
<1>8. ASSUME \/ SelectFails(r) \/ SetupOk(r) \/ SetupFails(r) \/ RelayRefuses(r)
             \/ TryAcquireChannelConcurrency(r) \/ PreUnreserve(r)
             \/ (\E t \in Targets : PoolSelect(r, t)) \/ PoolSelectFails(r)
             \/ PoolSetup(r) \/ EnterQueue(r)
             \/ Rejected(r) \/ AfterRelease(r) \/ AfterSetupRelease(r) \/ Finish(r)
             \/ (\E ch \in Channels : FinishReservation(r, ch))
             \/ AttemptEnds(r) \/ Panic(r)
      PROVE  FALSE
  BY <1>1, <1>8 DEF SelectFails, SetupOk, SetupFails, RelayRefuses, PoolSetup, PreUnreserve,
     PoolSelect, PoolSelectFails, EnterQueue, Rejected, AfterRelease, AfterSetupRelease,
     FinishReservation, Finish, TryAcquireChannelConcurrency, AttemptEnds, Panic
<1> QED BY <1>3, <1>4, <1>5, <1>6, <1>7, <1>8 DEF Step, Proceed

LEMMA TurnsHoldStep ==
  TypeOK /\ PlacesFit /\ PlacesFit' /\ TicketsDrawn /\ TurnsHold /\ [Next]_vars => TurnsHold'
<1> SUFFICES ASSUME TypeOK, PlacesFit, PlacesFit', TicketsDrawn, TurnsHold, [Next]_vars,
                    NEW v \in Requests, NEW w \in Requests, Turn(v, w)'
             PROVE  ticket'[v] <= ticket'[w]
  BY DEF TurnsHold
<1>1. CASE UNCHANGED vars
  <2>1. Turn(v, w)
    BY <1>1 DEF vars, queueVars, planVars, Turn, InQueue, QueueKey, InPool, Channel,
                SameClass, HighPriority
  <2> QED BY <1>1, <2>1 DEF TurnsHold, vars, queueVars
<1>2. ASSUME NEW r \in Requests, Step(r) PROVE ticket'[v] <= ticket'[w]
  <2>1. InQueue(v)' /\ InQueue(w)' /\ pc'[v] \in {"poolSelect", "try"}
    BY DEF Turn
  <2>2. AttemptsOK /\ ticket \in [Requests -> Nat] /\ nextSeq \in Nat
        /\ plan \in [Requests -> Plan]
    BY TypeOKParts DEF TypeOK
  <2>3. /\ InQueue(v) /\ ticket'[v] = ticket[v] /\ plan'[v] = plan[v]
        /\ QueueKey(v)' = QueueKey(v)
    BY <1>2, <2>1, WaitersTickets
  <2>4. CASE ticket'[w] = nextSeq + 1
    BY <2>2, <2>3, <2>4 DEF TicketsDrawn
  <2>5. CASE /\ InQueue(w) /\ ticket'[w] = ticket[w] /\ plan'[w] = plan[w]
             /\ QueueKey(w)' = QueueKey(w)
    <3>1. QueueKey(w) = QueueKey(v)
      BY <2>3, <2>5 DEF Turn
    <3>2. SameClass(v, w)
      BY <2>3, <2>5 DEF Turn, SameClass, HighPriority
    <3>3. CASE pc[v] \in {"poolSelect", "try"}
      BY <2>3, <2>5, <3>1, <3>2, <3>3 DEF TurnsHold, Turn
    <3>4. CASE v = r /\ WaitTick(r)
      <4>1. w \in waiters[QueueKey(v)]
        BY <2>5, <3>1, WaiterPlace
      <4>2. v # w => Precedes(v, w)
        BY <3>4, <4>1 DEF WaitTick, IsQueueTurn
      <4>3. ~HigherClass(v, w)
        BY <2>2, <3>2 DEF HigherClass, SameClass, Plan
      <4> QED BY <2>2, <2>3, <2>5, <4>2, <4>3 DEF Precedes
    <3>5. CASE v = r
      <4>1. pc[v] \in QueuePlaces
        BY <2>3 DEF PlacesFit, Fits, WaitFits
      <4> QED BY <1>2, <2>1, <2>2, <3>3, <3>4, <3>5, <4>1, TurnTaken
    <3>6. CASE v # r
      BY <1>2, <2>1, <2>2, <3>3, <3>6, OthersPlaces
    <3> QED BY <3>5, <3>6
  <2> QED BY <1>2, <2>1, <2>4, <2>5, WaitersTickets
<1> QED BY <1>1, <1>2 DEF Next, Done

(* A waiter never gets a slot before another waiter of its queue that has    *)
(* the same priority and came first, although the turn is checked in one     *)
(* critical section and the slot taken in another.                           *)
THEOREM AdmissionNoOvertaking == Spec => NoOvertaking
<1>1. Init => TicketsDrawn /\ TurnsHold
  BY DEF Init, TicketsDrawn, TurnsHold, Turn, InQueue
<1> DEFINE Fair == \A r \in Requests : QueuedAcquire(r) =>
                     \A w \in waiters[QueueKey(r)] : SameClass(r, w) => ticket[r] <= ticket[w]
<1>2. TypeOK /\ PlacesFit /\ TurnsHold /\ [Next]_vars => [Fair]_vars
  <2> SUFFICES ASSUME TypeOK, PlacesFit, TurnsHold, Next,
                      NEW v \in Requests, QueuedAcquire(v),
                      NEW w \in waiters[QueueKey(v)], SameClass(v, w)
               PROVE  ticket[v] <= ticket[w]
    OBVIOUS
  <2>1. InQueue(v) /\ lease[v] = "none" /\ lease'[v] = "held"
    BY DEF QueuedAcquire
  <2>2. AttemptsOK /\ PlansOK /\ QueuesOK /\ LeaseFits(v)
    BY TypeOKParts DEF PlacesFit, Fits
  <2>3. PICK r \in Requests : Step(r)
    BY <2>1 DEF Next, Done, vars
  <2>4. v = r
    BY <2>1, <2>2, <2>3, OthersPlaces
  <2>5. pc[v] = "try"
    BY <2>1, <2>2, <2>3, <2>4, SlotMoves
    DEF KeepsSlots, Acquires, ReleaseChannelSlot, ReleaseAccountSlot
  <2>6. QueueKey(v) \in Queues
    BY <2>1, WaiterPlace
  <2>7. w \in Requests /\ InQueue(w) /\ QueueKey(w) = QueueKey(v)
    BY <2>2, <2>6 DEF QueuesOK, PlacesFit, Fits, WaitFits
  <2> QED BY <2>1, <2>5, <2>7 DEF TurnsHold, Turn
<1> QED BY <1>1, <1>2, TicketsDrawnStep, TurnsHoldStep, AdmissionTypeOK, PlacesFitAlways,
           PTL DEF Spec, NoOvertaking
=============================================================================
