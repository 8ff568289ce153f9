--------------------------- MODULE CircuitProofs ---------------------------
(* Proofs about CircuitBreaker, for every number of attempts, every set of *)
(* error kinds and policies, and every size of the recorder's queue.       *)
EXTENDS CircuitBreaker, FiniteSums, FiniteSetTheorems, SequenceTheorems, TLAPS

-----------------------------------------------------------------------------
(* The operations on a circuit *)

LEMMA CircuitField ==
  ASSUME NEW c \in Circuit
  PROVE  /\ c.state \in States /\ c.failures \in Nat /\ c.successes \in Nat
         /\ c.samples \in Nat /\ c.errors \in [Kinds -> Nat]
         /\ c.reason \in Kinds \cup {""} /\ c.until \in {"zero", "future", "past"}
         /\ c.probeMax \in Nat /\ c.probeIn \in Nat
  BY DEF Circuit

LEMMA QueueSizeType == QueueSize \in Nat
  BY CircuitAssumption

LEMMA ResetType == ResetCircuitState \in Circuit /\ FreshState \in Circuit
  BY CircuitAssumption DEF ResetCircuitState, FreshState, Circuit, States

LEMMA AdvanceType ==
  ASSUME NEW c \in Circuit PROVE Advance(c) \in Circuit
  BY CircuitAssumption DEF Advance, Circuit, States

LEMMA OpenedType ==
  ASSUME NEW c \in Circuit, NEW k \in Kinds PROVE Opened(c, k) \in Circuit
  BY CircuitAssumption DEF Opened, Circuit, States, Policy

LEMMA SuccessType ==
  ASSUME NEW c \in Circuit PROVE ReportSuccess(c) \in Circuit
<1>1. ASSUME NEW n \in Nat PROVE [c EXCEPT !.successes = n] \in Circuit
  BY DEF Circuit
<1>2. ASSUME NEW f \in Nat, NEW n \in Nat, NEW m \in Nat
      PROVE [c EXCEPT !.failures = f, !.successes = n, !.samples = m] \in Circuit
  BY DEF Circuit
<1>3. /\ (IF c.failures > 0 THEN c.failures - 1 ELSE 0) \in Nat
      /\ c.successes + 1 \in Nat /\ c.samples + 1 \in Nat
  <2>1. c.failures \in Nat /\ c.successes \in Nat /\ c.samples \in Nat
    BY CircuitField
  <2>2. QED
    BY <2>1
<1>4. QED
  BY <1>1, <1>2, <1>3, ResetType DEF ReportSuccess

LEMMA CountType ==
  ASSUME NEW c \in Circuit, NEW k \in Kinds PROVE CountFailure(c, k) \in Circuit
<1>1. ASSUME NEW f \in Nat, NEW n \in Nat, NEW e \in [Kinds -> Nat]
      PROVE [c EXCEPT !.failures = f, !.samples = n, !.errors = e] \in Circuit
  BY DEF Circuit
<1>2. c.failures \in Nat /\ c.samples \in Nat /\ c.errors \in [Kinds -> Nat]
  BY CircuitField
<1>3. /\ c.failures + 1 \in Nat /\ c.samples + 1 \in Nat
      /\ [c.errors EXCEPT ![k] = c.errors[k] + 1] \in [Kinds -> Nat]
  BY <1>2
<1>4. QED
  BY <1>1, <1>2, <1>3 DEF CountFailure

LEMMA FailureType ==
  ASSUME NEW c \in Circuit, NEW k \in Kinds PROVE ReportFailure(c, k) \in Circuit
  BY OpenedType, CountType DEF ReportFailure

LEMMA CountedType ==
  ASSUME NEW o \in Outcomes, Counted(o) PROVE o = "ok" \/ o \in Kinds
  BY CircuitAssumption DEF Counted

LEMMA ResultType ==
  ASSUME NEW c \in Circuit, NEW o \in Outcomes, Counted(o)
  PROVE  ReportResult(c, o) \in Circuit
  BY CountedType, SuccessType, FailureType DEF ReportResult

-----------------------------------------------------------------------------
(* Type correctness *)

(* What the actions have in common: the circuit becomes another circuit,   *)
(* an attempt moves on.                                                    *)
LEMMA BecomesType ==
  ASSUME TypeOK, NEW d \in Circuit, Becomes(d)
  PROVE  circuit' \in Circuit /\ episode' \in Nat /\ openings' \in Nat
  BY DEF Becomes, TypeOK, TypeHistory

LEMMA GotoType ==
  ASSUME TypeOK, NEW a \in Attempts, NEW l \in Labels, Goto(a, l)
  PROVE  pc' \in [Attempts -> Labels]
  BY DEF Goto, TypeOK, TypeAttempts

LEMMA ChosenType ==
  ASSUME TypeOK, NEW a \in Attempts, NEW d \in Circuit, Chosen(a, d)
  PROVE  TypeAttempts'
<1>1. d.state \in States
  BY CircuitField
<1>2. pc' \in [Attempts -> Labels]
  BY GotoType DEF Chosen, Labels
<1>3. seen' \in [Attempts -> States]
  BY <1>1 DEF Chosen, TypeOK, TypeAttempts
<1>4. seenAt' \in [Attempts -> Nat]
  BY DEF Chosen, TypeOK, TypeAttempts, TypeHistory
<1>5. QED
  BY <1>2, <1>3, <1>4 DEF TypeAttempts

LEMMA ActsType ==
  ASSUME TypeOK, NEW a \in Attempts, NEW l \in Labels, Acts(a, l)
  PROVE  TypeAttempts'
<1>1. "closed" \in States
  BY DEF States
<1>2. pc' \in [Attempts -> Labels]
  BY GotoType DEF Acts
<1>3. seen' \in [Attempts -> States] /\ seenAt' \in [Attempts -> Nat]
  BY <1>1 DEF Acts, TypeOK, TypeAttempts
<1>4. QED
  BY <1>2, <1>3 DEF TypeAttempts

(* Asking for a slot counts it, or leaves the advanced circuit alone. *)
LEMMA ProbeType ==
  ASSUME NEW c \in Circuit
  PROVE  [c EXCEPT !.probeIn = c.probeIn + 1] \in Circuit
<1>1. ASSUME NEW n \in Nat PROVE [c EXCEPT !.probeIn = n] \in Circuit
  BY DEF Circuit
<1>2. c.probeIn \in Nat
  BY CircuitField
<1>3. c.probeIn + 1 \in Nat
  BY <1>2
<1>4. QED
  BY <1>1, <1>3

(* Each action keeps the circuit, the attempts, the recorder and the       *)
(* history in their types.                                                 *)
LEMMA TypeStep == TypeOK /\ [Next]_vars => TypeOK'
<1> SUFFICES ASSUME TypeOK, [Next]_vars PROVE TypeOK'
  OBVIOUS
<1> USE DEF attemptVars, recorderVars, historyVars
<1> /\ "idle" \in Labels /\ "chosen" \in Labels /\ "running" \in Labels /\ "reported" \in Labels
    /\ "unplanned" \in Labels /\ "legacy" \in Labels
  BY DEF Labels
<1>1. ASSUME NEW a \in Attempts, Snapshot(a) PROVE TypeOK'
  <2> DEFINE c == Advance(circuit)
  <2>1. c \in Circuit
    BY AdvanceType DEF TypeOK
  <2> HIDE DEF c
  <2>2. Becomes(c) /\ (Chosen(a, c) \/ Acts(a, "unplanned"))
    BY <1>1 DEF Snapshot, c
  <2>3. circuit' \in Circuit /\ episode' \in Nat /\ openings' \in Nat
    BY <2>1, <2>2, BecomesType
  <2>4. TypeAttempts'
    BY <2>1, <2>2, ChosenType, ActsType
  <2>5. QED
    BY <1>1, <2>3, <2>4 DEF Snapshot, TypeOK, TypeRecorder, TypeHistory
<1>2. ASSUME NEW a \in Attempts, Dispatch(a) PROVE TypeOK'
  <2>1. TypeAttempts'
    BY <1>2, ActsType DEF Dispatch
  <2>2. QED
    BY <1>2, <2>1 DEF Dispatch, TypeOK, TypeRecorder, TypeHistory
<1>3. ASSUME NEW a \in Attempts, AllowProbe(a) PROVE TypeOK'
  <2> DEFINE c == Advance(circuit)
             probe == c.state = "half_open" /\ c.probeIn < c.probeMax
             d == IF probe THEN [c EXCEPT !.probeIn = c.probeIn + 1] ELSE c
             l == IF probe \/ c.state = "closed" THEN "running" ELSE Refused(a)
  <2>1. c \in Circuit
    BY AdvanceType DEF TypeOK
  <2>2. d \in Circuit
    BY <2>1, ProbeType
  <2>3. Becomes(d) /\ Acts(a, l) /\ (probeOf' = probeOf \/ probeOf' = [probeOf EXCEPT ![a] = episode'])
    BY <1>3 DEF AllowProbe
  <2>4. l \in Labels
    BY DEF Refused
  <2> HIDE DEF c, probe, d, l
  <2>5. circuit' \in Circuit /\ episode' \in Nat /\ openings' \in Nat
    BY <2>2, <2>3, BecomesType
  <2>6. TypeAttempts'
    BY <2>3, <2>4, ActsType
  <2>7. TypeHistory'
    BY <1>3, <2>3, <2>5 DEF AllowProbe, TypeOK, TypeHistory
  <2>8. QED
    BY <1>3, <2>5, <2>6, <2>7 DEF AllowProbe, TypeOK, TypeRecorder
<1>4. ASSUME NEW a \in Attempts, Abandon(a) PROVE TypeOK'
  <2>1. pc' \in [Attempts -> Labels]
    BY <1>4, GotoType DEF Abandon
  <2>2. QED
    BY <1>4, <2>1 DEF Abandon, TypeOK, TypeAttempts, TypeRecorder, TypeHistory
<1>5. ASSUME NEW a \in Attempts, NEW o \in Outcomes, Offer(a, o) PROVE TypeOK'
  <2> DEFINE e == [attempt |-> a, outcome |-> o]
  <2>1. e \in Events
    BY DEF Events
  <2>2. \/ Len(queue) < QueueSize /\ queue' = Append(queue, e) /\ UNCHANGED overflow
        \/ overflow' = overflow \cup {e} /\ UNCHANGED queue
    BY <1>5 DEF Offer
  <2> HIDE DEF e
  <2>3. Append(queue, e) \in Seq(Events) /\ Len(Append(queue, e)) = Len(queue) + 1
        /\ Len(queue) \in Nat
    <3>1. queue \in Seq(Events)
      BY DEF TypeOK, TypeRecorder
    <3>2. QED
      BY <2>1, <3>1, AppendProperties, LenProperties
  <2>4. queue' \in Seq(Events) /\ Len(queue') <= QueueSize
    BY <2>2, <2>3, QueueSizeType DEF TypeOK, TypeRecorder
  <2>5. overflow' \in SUBSET Events
    BY <2>1, <2>2 DEF TypeOK, TypeRecorder
  <2>6. pc' \in [Attempts -> Labels]
    BY <1>5, GotoType DEF Offer
  <2>7. QED
    BY <1>5, <2>4, <2>5, <2>6 DEF Offer, TypeOK, TypeAttempts, TypeRecorder, TypeHistory
<1>6. CASE Dequeue
  <2>1. /\ Head(queue) \in Events /\ Tail(queue) \in Seq(Events)
        /\ Len(Tail(queue)) = Len(queue) - 1 /\ Len(queue) \in Nat
    <3>1. queue \in Seq(Events) /\ queue # <<>>
      BY <1>6 DEF Dequeue, TypeOK, TypeRecorder
    <3>2. QED
      BY <3>1, HeadTailProperties, LenProperties
  <2>2. Len(Tail(queue)) <= QueueSize
    BY <2>1, QueueSizeType DEF TypeOK, TypeRecorder
  <2>3. TypeRecorder'
    BY <1>6, <2>1, <2>2 DEF Dequeue, TypeOK, TypeRecorder
  <2>4. QED
    BY <1>6, <2>3 DEF Dequeue, TypeOK, TypeAttempts, TypeHistory
<1>7. ASSUME NEW e \in working \cup overflow, Report(e) PROVE TypeOK'
  <2>1. e \in Events
    BY DEF TypeOK, TypeRecorder
  <2>2. e.attempt \in Attempts /\ e.outcome \in Outcomes
    BY <2>1 DEF Events
  <2>3. PICK d \in Circuit : Becomes(d)
    BY <1>7, <2>2, AdvanceType, ResultType DEF Report, TypeOK
  <2>4. circuit' \in Circuit /\ episode' \in Nat /\ openings' \in Nat
    BY <2>3, BecomesType
  <2>5. TypeRecorder'
    BY <1>7 DEF Report, TypeOK, TypeRecorder
  <2>6. QED
    BY <1>7, <2>2, <2>4, <2>5 DEF Report, TypeOK, TypeAttempts, TypeHistory
<1>8. CASE TimePasses
  <2>1. [circuit EXCEPT !.until = "past"] \in Circuit
    BY DEF Circuit, TypeOK
  <2>2. QED
    BY <1>8, <2>1 DEF TimePasses, TypeOK, TypeAttempts, TypeRecorder, TypeHistory
<1>9. CASE ResetChannel
  <2>1. circuit' \in Circuit /\ episode' \in Nat /\ openings' \in Nat
    BY <1>9, ResetType, BecomesType DEF ResetChannel
  <2>2. QED
    BY <1>9, <2>1 DEF ResetChannel, TypeOK, TypeAttempts, TypeRecorder, TypeHistory
<1>10. CASE UNCHANGED vars
  BY <1>10 DEF vars, TypeOK, TypeAttempts, TypeRecorder, TypeHistory
<1>11. ASSUME NEW a \in Attempts, LegacySelect(a) \/ Elsewhere(a) PROVE TypeOK'
  <2>1. TypeAttempts'
    BY <1>11, ActsType DEF LegacySelect, Elsewhere
  <2>2. QED
    BY <1>11, <2>1 DEF LegacySelect, Elsewhere, TypeOK, TypeRecorder, TypeHistory
<1>12. ASSUME NEW a \in Attempts, LegacyEnds(a) PROVE TypeOK'
  <2>1. pc' \in [Attempts -> Labels]
    BY <1>12, GotoType DEF LegacyEnds
  <2>2. QED
    BY <1>12, <2>1 DEF LegacyEnds, TypeOK, TypeAttempts, TypeRecorder, TypeHistory
<1>13. QED
  BY <1>1, <1>2, <1>3, <1>4, <1>5, <1>6, <1>7, <1>8, <1>9, <1>10, <1>11, <1>12 DEF Next, Done

(* The circuit, its recorder and its attempts stay in their types: the     *)
(* counters of a circuit never become negative, and the recorder's queue   *)
(* never exceeds its capacity.                                             *)
THEOREM CircuitTypeCorrect == Spec => []TypeOK
<1>1. Init => TypeOK
  <2> SUFFICES ASSUME Init PROVE TypeOK
    OBVIOUS
  <2>1. TypeAttempts
    BY DEF Init, TypeAttempts, Labels, States
  <2>2. TypeRecorder
    <3>1. <<>> \in Seq(Events) /\ Len(<<>>) = 0
      BY EmptySeq
    <3>2. QED
      BY <3>1, QueueSizeType DEF Init, TypeRecorder
  <2>3. TypeHistory
    BY DEF Init, TypeHistory
  <2>4. QED
    BY <2>1, <2>2, <2>3, ResetType DEF Init, TypeOK
<1>2. QED
  BY <1>1, TypeStep, PTL DEF Spec

-----------------------------------------------------------------------------
(* The probe budget *)

(* A change of the circuit that takes no probe slot: a half-open period    *)
(* keeps its used slots and its budget, and a new one begins with none     *)
(* used.                                                                   *)
TakesNoProbe(c, d) ==
  d.state = "half_open" =>
    IF c.state = "half_open" THEN d.probeIn = c.probeIn /\ d.probeMax >= c.probeMax
    ELSE d.probeIn = 0

LEMMA AdvanceTakesNoProbe ==
  ASSUME NEW c \in Circuit
  PROVE  TakesNoProbe(c, Advance(c))
<1>1. c.probeMax \in Nat /\ c.probeIn \in Nat
  BY CircuitField
<1>2. ProbeCount \in Nat
  BY CircuitAssumption
<1>3. Advance(c).probeMax >= c.probeMax
  <2>1. \/ Advance(c).probeMax = c.probeMax
        \/ c.probeMax = 0 /\ Advance(c).probeMax = ProbeCount
    BY DEF Advance, Circuit
  <2>2. QED
    BY <1>1, <1>2, <2>1
<1>4. Advance(c).state = "half_open" =>
        IF c.state = "half_open" THEN Advance(c).probeIn = c.probeIn
        ELSE Advance(c).probeIn = 0
  BY DEF Advance, Circuit
<1>5. QED
  BY <1>3, <1>4 DEF TakesNoProbe

(* A circuit that is not half-open is not made half-open by a result. *)
LEMMA ResultTakesNoProbe ==
  ASSUME NEW c \in Circuit, NEW o \in Outcomes, Counted(o)
  PROVE  LET d == ReportResult(c, o)
         IN  d.state = "half_open" =>
               c.state = "half_open" /\ d.probeIn = c.probeIn /\ d.probeMax = c.probeMax
<1>1. CASE o = "ok"
  BY <1>1 DEF ReportResult, ReportSuccess, ResetCircuitState, Circuit
<1>2. CASE o # "ok"
  <2>1. o \in Kinds
    BY <1>2, CountedType
  <2>2. ReportResult(c, o).state # "half_open"
    BY <1>2, <2>1 DEF ReportResult, ReportFailure, Opened, CountFailure, Circuit
  <2>3. QED
    BY <2>2
<1>3. QED
  BY <1>1, <1>2

(* A report advances the circuit and applies the result. *)
LEMMA ReportTakesNoProbe ==
  ASSUME NEW c \in Circuit, NEW o \in Outcomes, Counted(o)
  PROVE  TakesNoProbe(c, ReportResult(Advance(c), o))
<1> DEFINE a == Advance(c)
           d == ReportResult(a, o)
<1>1. a \in Circuit /\ TakesNoProbe(c, a)
  BY AdvanceType, AdvanceTakesNoProbe
<1>2. d.state = "half_open" =>
        a.state = "half_open" /\ d.probeIn = a.probeIn /\ d.probeMax = a.probeMax
  BY <1>1, ResultTakesNoProbe
<1> HIDE DEF a, d
<1>3. TakesNoProbe(c, d)
  BY <1>1, <1>2 DEF TakesNoProbe
<1>4. QED
  BY <1>3 DEF a, d

(* The inductive invariant: an attempt without a decision has no slot, a   *)
(* slot belongs to this or an earlier half-open period, and a half-open    *)
(* circuit is in a period.                                                 *)
ProbeInv ==
  /\ \A a \in Attempts : pc[a] \in {"idle", "chosen", "unplanned", "legacy"} => probeOf[a] = 0
  /\ \A a \in Attempts : probeOf[a] <= episode
  /\ circuit.state = "half_open" => episode > 0
  /\ ProbeBudget

LEMMA ProbesFinite ==
  IsFiniteSet(Probes) /\ Cardinality(Probes) \in Nat
<1>1. IsFiniteSet(Attempts) /\ Probes \in SUBSET Attempts
  BY CircuitAssumption DEF Probes
<1>2. IsFiniteSet(Probes)
  BY <1>1, FS_Subset
<1>3. QED
  BY <1>2, FS_CardinalityType

LEMMA NoProbeStep ==
  ASSUME TypeOK, TypeOK', ProbeInv, NEW d \in Circuit,
         TakesNoProbe(circuit, d), Becomes(d), probeOf' = probeOf,
         \A a \in Attempts : pc'[a] \in {"idle", "chosen", "unplanned", "legacy"} => pc[a] \in {"idle", "chosen", "unplanned", "legacy"}
  PROVE  ProbeInv'
<1> USE DEF ProbeInv
<1>1. /\ episode \in Nat /\ probeOf \in [Attempts -> Nat]
      /\ circuit \in Circuit /\ circuit' = d
      /\ episode' = IF circuit.state # "half_open" /\ d.state = "half_open"
                    THEN episode + 1 ELSE episode
  BY DEF TypeOK, TypeHistory, Becomes
<1>2. \A a \in Attempts : pc'[a] \in {"idle", "chosen", "unplanned", "legacy"} => probeOf'[a] = 0
  OBVIOUS
<1>3. \A a \in Attempts : probeOf'[a] <= episode'
  BY <1>1
<1>4. circuit'.state = "half_open" => episode' > 0
  BY <1>1
<1>5. ProbeBudget'
  <2> SUFFICES ASSUME d.state = "half_open"
               PROVE Cardinality(Probes') = d.probeIn /\ d.probeIn <= d.probeMax
    BY <1>1 DEF ProbeBudget
  <2>1. CASE circuit.state = "half_open"
    <3>1. Probes' = Probes
      BY <1>1, <2>1 DEF Probes
    <3>2. /\ Cardinality(Probes) = circuit.probeIn /\ circuit.probeIn <= circuit.probeMax
          /\ d.probeIn = circuit.probeIn /\ d.probeMax >= circuit.probeMax
      BY <2>1 DEF ProbeBudget, TakesNoProbe
    <3>3. /\ circuit.probeMax \in Nat /\ circuit.probeIn \in Nat
          /\ d.probeMax \in Nat /\ d.probeIn \in Nat
      BY <1>1, CircuitField
    <3>4. QED
      BY <3>1, <3>2, <3>3
  <2>2. CASE circuit.state # "half_open"
    <3>1. \A a \in Attempts : probeOf'[a] # episode'
      BY <1>1, <2>2
    <3>2. Probes' = {}
      BY <3>1 DEF Probes
    <3>3. d.probeIn = 0
      BY <2>2 DEF TakesNoProbe
    <3>4. d.probeMax \in Nat
      BY CircuitField
    <3>5. QED
      BY <3>2, <3>3, <3>4, FS_EmptySet
  <2>3. QED
    BY <2>1, <2>2
<1>6. QED
  BY <1>2, <1>3, <1>4, <1>5

(* An attempt that asks for a slot: the circuit is advanced, which takes   *)
(* none, and the slot is one more attempt of the period.                   *)
LEMMA AllowProbeStep ==
  ASSUME TypeOK, TypeOK', ProbeInv, NEW a \in Attempts, AllowProbe(a)
  PROVE  ProbeInv'
<1> DEFINE c == Advance(circuit)
           probe == c.state = "half_open" /\ c.probeIn < c.probeMax
           d == [c EXCEPT !.probeIn = c.probeIn + 1]
<1>1. c \in Circuit /\ TakesNoProbe(circuit, c)
  BY AdvanceType, AdvanceTakesNoProbe DEF TypeOK
<1>2. /\ pc[a] = "chosen"
      /\ Becomes(IF probe THEN d ELSE c)
      /\ probeOf' = IF probe THEN [probeOf EXCEPT ![a] = episode'] ELSE probeOf
      /\ Acts(a, IF probe \/ c.state = "closed" THEN "running" ELSE Refused(a))
  BY DEF AllowProbe
<1>3. /\ pc \in [Attempts -> Labels] /\ probeOf \in [Attempts -> Nat]
      /\ episode \in Nat /\ circuit \in Circuit
  BY DEF TypeOK, TypeAttempts, TypeHistory
<1>4. CASE ~probe
  <2>1. Becomes(c) /\ probeOf' = probeOf
    BY <1>2, <1>4
  <2>2. \A b \in Attempts : pc'[b] \in {"idle", "chosen", "unplanned", "legacy"} => pc[b] \in {"idle", "chosen", "unplanned", "legacy"}
    <3>1. \A b \in Attempts : b # a => pc'[b] = pc[b]
      BY <1>2, <1>3 DEF Acts, Goto
    <3>2. QED
      BY <1>2, <3>1
  <2> HIDE DEF c
  <2>3. QED
    BY <1>1, <2>1, <2>2, NoProbeStep
<1>5. CASE probe
  <2>1. /\ d.state = "half_open" /\ d.probeIn = c.probeIn + 1 /\ d.probeMax = c.probeMax
    BY <1>1, <1>5 DEF Circuit
  <2>2. Becomes(d) /\ probeOf' = [probeOf EXCEPT ![a] = episode'] /\ Acts(a, "running")
    BY <1>2, <1>5
  <2>3. /\ circuit' = d
        /\ episode' = IF circuit.state # "half_open" THEN episode + 1 ELSE episode
    BY <2>1, <2>2 DEF Becomes
  <2>4. pc' = [pc EXCEPT ![a] = "running"]
    BY <2>2 DEF Acts, Goto
  <2>5. c.probeIn \in Nat /\ c.probeMax \in Nat /\ c.probeIn < c.probeMax /\ c.state = "half_open"
    BY <1>1, <1>5, CircuitField
  <2> HIDE DEF c, d, probe
  <2>6. \A b \in Attempts : pc'[b] \in {"idle", "chosen", "unplanned", "legacy"} => probeOf'[b] = 0
    BY <1>3, <2>2, <2>4 DEF ProbeInv
  <2>7. \A b \in Attempts : probeOf'[b] <= episode'
    <3>1. episode' \in Nat /\ episode <= episode'
      BY <1>3, <2>3
    <3>2. QED
      BY <1>3, <2>2, <3>1 DEF ProbeInv
  <2>8. episode' > 0
    BY <1>3, <2>3 DEF ProbeInv
  <2>9. probeOf[a] = 0
    BY <1>2 DEF ProbeInv
  <2>10. Cardinality(Probes') = c.probeIn + 1
    <3>1. CASE circuit.state = "half_open"
      <4>1. episode' = episode
        BY <2>3, <3>1
      <4>2. Probes' = Probes \cup {a} /\ a \notin Probes
        BY <1>3, <2>2, <2>8, <2>9, <4>1 DEF Probes
      <4>3. Cardinality(Probes') = Cardinality(Probes) + 1
        BY <4>2, ProbesFinite, FS_AddElement
      <4>4. Cardinality(Probes) = circuit.probeIn /\ c.probeIn = circuit.probeIn
        BY <1>1, <2>5, <3>1 DEF ProbeInv, ProbeBudget, TakesNoProbe
      <4>5. QED
        BY <4>3, <4>4
    <3>2. CASE circuit.state # "half_open"
      <4>1. episode' = episode + 1
        BY <2>3, <3>2
      <4>2. \A b \in Attempts : probeOf[b] # episode'
        BY <1>3, <4>1 DEF ProbeInv
      <4>3. Probes' = {} \cup {a}
        BY <1>3, <2>2, <4>2 DEF Probes
      <4>4. Cardinality(Probes') = 1
        BY <4>3, FS_EmptySet, FS_AddElement
      <4>5. c.probeIn = 0
        BY <1>1, <2>5, <3>2 DEF TakesNoProbe
      <4>6. QED
        BY <4>4, <4>5
    <3>3. QED
      BY <3>1, <3>2
  <2>11. ProbeBudget'
    BY <2>1, <2>3, <2>5, <2>10 DEF ProbeBudget
  <2>12. QED
    BY <2>6, <2>7, <2>8, <2>11 DEF ProbeInv
<1>6. QED
  BY <1>4, <1>5

LEMMA ProbeStep == TypeOK /\ TypeOK' /\ ProbeInv /\ [Next]_vars => ProbeInv'
<1> SUFFICES ASSUME TypeOK, TypeOK', ProbeInv, [Next]_vars PROVE ProbeInv'
  OBVIOUS
<1> DEFINE Undecided(b) == pc[b] \in {"idle", "chosen", "unplanned", "legacy"}
           Moves == \A b \in Attempts : pc'[b] \in {"idle", "chosen", "unplanned", "legacy"} => Undecided(b)
<1> USE DEF attemptVars, recorderVars, historyVars
<1>0. circuit \in Circuit /\ pc \in [Attempts -> Labels]
  BY DEF TypeOK, TypeAttempts
<1>1. ASSUME NEW d \in Circuit, TakesNoProbe(circuit, d), Becomes(d), probeOf' = probeOf, Moves
      PROVE ProbeInv'
  BY <1>1, NoProbeStep
<1>2. ASSUME circuit' = circuit, episode' = episode, probeOf' = probeOf, Moves
      PROVE ProbeInv'
  BY <1>2 DEF ProbeInv, ProbeBudget, Probes
<1>3. ASSUME NEW a \in Attempts, Snapshot(a) PROVE ProbeInv'
  <2>1. Advance(circuit) \in Circuit /\ TakesNoProbe(circuit, Advance(circuit))
    BY <1>0, AdvanceType, AdvanceTakesNoProbe
  <2>2. Becomes(Advance(circuit)) /\ probeOf' = probeOf
    BY <1>3 DEF Snapshot
  <2>3. Moves
    BY <1>0, <1>3 DEF Snapshot, Chosen, Acts, Goto
  <2>4. QED
    BY <1>1, <2>1, <2>2, <2>3
<1>4. ASSUME NEW a \in Attempts,
             \/ Dispatch(a) \/ Abandon(a) \/ \E o \in Outcomes : Offer(a, o)
             \/ LegacySelect(a) \/ Elsewhere(a) \/ LegacyEnds(a)
      PROVE ProbeInv'
  <2>1. Moves
    BY <1>0, <1>4 DEF Dispatch, Abandon, Offer, LegacySelect, Elsewhere, LegacyEnds, Acts, Goto
  <2>2. circuit' = circuit /\ episode' = episode /\ probeOf' = probeOf
    BY <1>4 DEF Dispatch, Abandon, Offer, LegacySelect, Elsewhere, LegacyEnds
  <2>3. QED
    BY <1>2, <2>1, <2>2
<1>5. ASSUME NEW a \in Attempts, AllowProbe(a) PROVE ProbeInv'
  BY <1>5, AllowProbeStep
<1>6. CASE Dequeue \/ UNCHANGED vars
  BY <1>2, <1>6 DEF Dequeue, vars
<1>7. ASSUME NEW e \in working \cup overflow, Report(e) PROVE ProbeInv'
  <2>1. e \in Events
    BY DEF TypeOK, TypeRecorder
  <2>2. e.outcome \in Outcomes
    BY <2>1 DEF Events
  <2>3. probeOf' = probeOf /\ Moves
    BY <1>7 DEF Report
  <2>4. CASE Counted(e.outcome)
    <3> DEFINE d == ReportResult(Advance(circuit), e.outcome)
    <3>1. d \in Circuit /\ TakesNoProbe(circuit, d)
      BY <1>0, <2>2, <2>4, AdvanceType, ResultType, ReportTakesNoProbe
    <3>2. Becomes(d)
      BY <1>7, <2>4 DEF Report
    <3>3. QED
      BY <1>1, <2>3, <3>1, <3>2
  <2>5. CASE ~Counted(e.outcome)
    <3>1. Becomes(circuit) \/ Becomes(Advance(circuit))
      BY <1>7, <2>5 DEF Report
    <3>2. Advance(circuit) \in Circuit /\ TakesNoProbe(circuit, Advance(circuit))
      BY <1>0, AdvanceType, AdvanceTakesNoProbe
    <3>3. Becomes(circuit) => circuit' = circuit /\ episode' = episode
      BY DEF Becomes
    <3>4. QED
      BY <1>1, <1>2, <2>3, <3>1, <3>2, <3>3
  <2>6. QED
    BY <2>4, <2>5
<1>8. CASE TimePasses
  <2>1. /\ circuit'.state = circuit.state /\ circuit'.probeIn = circuit.probeIn
        /\ circuit'.probeMax = circuit.probeMax
    BY <1>0, <1>8 DEF TimePasses, Circuit
  <2>2. episode' = episode /\ probeOf' = probeOf /\ pc' = pc
    BY <1>8 DEF TimePasses
  <2>3. Probes' = Probes
    BY <2>2 DEF Probes
  <2>4. QED
    BY <2>1, <2>2, <2>3 DEF ProbeInv, ProbeBudget
<1>9. CASE ResetChannel
  <2>1. FreshState \in Circuit /\ TakesNoProbe(circuit, FreshState)
    BY ResetType DEF FreshState, ResetCircuitState, TakesNoProbe
  <2>2. Becomes(FreshState) /\ probeOf' = probeOf /\ Moves
    BY <1>9 DEF ResetChannel
  <2>3. QED
    BY <1>1, <2>1, <2>2
<1>10. QED
  BY <1>3, <1>4, <1>5, <1>6, <1>7, <1>8, <1>9 DEF Next, Done

(* AllowProbe never admits more attempts into one half-open period than    *)
(* its budget, and the slots counted as used are those attempts, whatever  *)
(* results arrive in between.                                              *)
THEOREM ProbeBudgetHolds == Spec => []ProbeBudget
<1>1. Init => ProbeInv
  <2> SUFFICES ASSUME Init PROVE ProbeInv
    OBVIOUS
  <2>1. circuit.state = "closed"
    BY DEF Init, FreshState, ResetCircuitState
  <2>2. QED
    BY <2>1 DEF Init, ProbeInv, ProbeBudget
<1>2. TypeOK /\ TypeOK' /\ ProbeInv /\ [Next]_vars => ProbeInv'
  BY ProbeStep
<1>3. ProbeInv => ProbeBudget
  BY DEF ProbeInv
<1>4. QED
  BY <1>1, <1>2, <1>3, CircuitTypeCorrect, PTL DEF Spec

-----------------------------------------------------------------------------
(* An open circuit is respected *)

(* A request that has decided on a snapshot saw the circuit closed or      *)
(* half-open, and if the circuit is open now it was opened since.          *)
SnapshotInv ==
  \A a \in Requests : pc[a] = "chosen" =>
    /\ seen[a] # "open"
    /\ seenAt[a] <= openings
    /\ circuit.state = "open" /\ seen[a] = "closed" => seenAt[a] < openings

(* Steps that leave the snapshots alone; a circuit that is opened counts   *)
(* one opening more.                                                       *)
LEMMA OpeningStep ==
  ASSUME TypeOK, SnapshotInv, NEW d \in Circuit, Becomes(d),
         \A a \in Requests : pc'[a] = "chosen" =>
           pc[a] = "chosen" /\ seen'[a] = seen[a] /\ seenAt'[a] = seenAt[a]
  PROVE  SnapshotInv'
<1>1. /\ openings \in Nat /\ circuit' = d
      /\ openings' = IF circuit.state # "open" /\ d.state = "open"
                     THEN openings + 1 ELSE openings
  BY DEF TypeOK, TypeHistory, Becomes
<1>2. \A a \in Requests : seenAt[a] \in Nat
  BY DEF TypeOK, TypeAttempts, Attempts
<1>3. QED
  BY <1>1, <1>2 DEF SnapshotInv

LEMMA SnapshotStep == TypeOK /\ SnapshotInv /\ [Next]_vars => SnapshotInv'
<1> SUFFICES ASSUME TypeOK, SnapshotInv, [Next]_vars PROVE SnapshotInv'
  OBVIOUS
<1> DEFINE Kept == \A b \in Requests : pc'[b] = "chosen" =>
                     pc[b] = "chosen" /\ seen'[b] = seen[b] /\ seenAt'[b] = seenAt[b]
<1> USE DEF attemptVars, recorderVars, historyVars
<1>0. /\ circuit \in Circuit /\ pc \in [Attempts -> Labels]
      /\ seen \in [Attempts -> States] /\ seenAt \in [Attempts -> Nat]
      /\ Requests \subseteq Attempts /\ openings \in Nat
  BY DEF TypeOK, TypeAttempts, TypeHistory, Attempts
<1>1. ASSUME NEW d \in Circuit, Becomes(d), Kept PROVE SnapshotInv'
  BY <1>1, OpeningStep
<1>2. ASSUME circuit' = circuit, openings' = openings, Kept PROVE SnapshotInv'
  BY <1>2 DEF SnapshotInv
<1>3. ASSUME NEW a \in Attempts, Snapshot(a) PROVE SnapshotInv'
  <2> DEFINE c == Advance(circuit)
  <2>1. c \in Circuit
    BY <1>0, AdvanceType
  <2>2. /\ Becomes(c)
        /\ \/ Acts(a, "unplanned")
           \/ Chosen(a, c) /\ (a \notin Requests \/ c.state # "open")
    BY <1>3 DEF Snapshot, Unavailable
  <2>3. c.state = "open" => circuit.state = "open"
    BY <1>0 DEF Advance, Circuit
  <2> HIDE DEF c
  <2>4. CASE Acts(a, "unplanned")
    <3>1. Kept
      BY <1>0, <2>4 DEF Acts, Goto
    <3>2. QED
      BY <1>1, <2>1, <2>2, <3>1
  <2>5. CASE Chosen(a, c) /\ (a \notin Requests \/ c.state # "open")
    <3>1. circuit' = c /\ openings' = openings
      BY <2>2, <2>3 DEF Becomes
    <3>2. \A b \in Requests : b # a => pc'[b] = pc[b] /\ seen'[b] = seen[b] /\ seenAt'[b] = seenAt[b]
      BY <1>0, <2>5 DEF Chosen, Goto
    <3>3. seen'[a] = c.state /\ seenAt'[a] = openings
      BY <1>0, <2>5 DEF Chosen
    <3>4. a \in Requests => c.state # "open"
      BY <2>2, <2>5
    <3>5. c.state = "open" => circuit.state = "open"
      BY <2>3
    <3>6. QED
      BY <1>0, <3>1, <3>2, <3>3, <3>4, <3>5 DEF SnapshotInv
  <2>6. QED
    BY <2>2, <2>4, <2>5
<1>4. ASSUME NEW a \in Attempts,
             \/ Dispatch(a) \/ Abandon(a) \/ \E o \in Outcomes : Offer(a, o)
             \/ LegacySelect(a) \/ Elsewhere(a) \/ LegacyEnds(a)
      PROVE SnapshotInv'
  <2>1. Kept
    BY <1>0, <1>4 DEF Dispatch, Abandon, Offer, LegacySelect, Elsewhere, LegacyEnds, Acts, Goto
  <2>2. circuit' = circuit /\ openings' = openings
    BY <1>4 DEF Dispatch, Abandon, Offer, LegacySelect, Elsewhere, LegacyEnds
  <2>3. QED
    BY <1>2, <2>1, <2>2
<1>5. ASSUME NEW a \in Attempts, AllowProbe(a) PROVE SnapshotInv'
  <2> DEFINE c == Advance(circuit)
             probe == c.state = "half_open" /\ c.probeIn < c.probeMax
             d == IF probe THEN [c EXCEPT !.probeIn = c.probeIn + 1] ELSE c
             l == IF probe \/ c.state = "closed" THEN "running" ELSE Refused(a)
  <2>1. d \in Circuit
    BY <1>0, AdvanceType, ProbeType
  <2>2. Becomes(d) /\ Acts(a, l) /\ l # "chosen"
    BY <1>5 DEF AllowProbe, Refused
  <2> HIDE DEF c, probe, d, l
  <2>3. Kept
    BY <1>0, <2>2 DEF Acts, Goto
  <2>4. QED
    BY <1>1, <2>1, <2>2, <2>3
<1>6. CASE Dequeue \/ UNCHANGED vars
  BY <1>2, <1>6 DEF Dequeue, vars
<1>7. ASSUME NEW e \in working \cup overflow, Report(e) PROVE SnapshotInv'
  <2>1. e.outcome \in Outcomes
    BY DEF TypeOK, TypeRecorder, Events
  <2>2. \E d \in Circuit : Becomes(d)
    BY <1>0, <1>7, <2>1, AdvanceType, ResultType DEF Report
  <2>3. Kept
    BY <1>7 DEF Report
  <2>4. QED
    BY <1>1, <2>2, <2>3
<1>8. CASE TimePasses
  <2>1. circuit'.state = circuit.state
    BY <1>0, <1>8 DEF TimePasses, Circuit
  <2>2. QED
    BY <1>8, <2>1 DEF TimePasses, SnapshotInv
<1>9. CASE ResetChannel
  BY <1>1, <1>9, ResetType DEF ResetChannel
<1>10. QED
  BY <1>3, <1>4, <1>5, <1>6, <1>7, <1>8, <1>9 DEF Next, Done

(* Only the results of planned attempts are on their way to the breaker:   *)
(* whoever has an event in the recorder has ended by offering it.          *)
OfferedInv == \A e \in Pending : pc[e.attempt] = "reported"

(* The recorder gains only the event an attempt offers. *)
LEMMA PendingStep ==
  ASSUME TypeOK, [Next]_vars, NEW x \in Pending'
  PROVE  x \in Pending \/ \E a \in Attempts : pc[a] = "running" /\ pc'[a] = "reported" /\ x.attempt = a
<1> USE DEF attemptVars, recorderVars, historyVars
<1>0. queue \in Seq(Events) /\ pc \in [Attempts -> Labels]
  BY DEF TypeOK, TypeRecorder, TypeAttempts
<1>1. ASSUME NEW a \in Attempts, NEW o \in Outcomes, Offer(a, o)
      PROVE  x \in Pending \/ (pc[a] = "running" /\ pc'[a] = "reported" /\ x.attempt = a)
  <2> DEFINE e == [attempt |-> a, outcome |-> o]
  <2>1. e \in Events /\ e.attempt = a
    BY DEF Events
  <2>2. pc[a] = "running" /\ pc'[a] = "reported" /\ working' = working
    BY <1>0, <1>1 DEF Offer, Goto
  <2>3. \/ queue' = Append(queue, e) /\ overflow' = overflow
        \/ queue' = queue /\ overflow' = overflow \cup {e}
    BY <1>1 DEF Offer
  <2> HIDE DEF e
  <2>4. /\ Len(queue) \in Nat /\ DOMAIN queue = 1 .. Len(queue)
        /\ DOMAIN Append(queue, e) = 1 .. Len(queue) + 1
        /\ \A i \in 1 .. Len(queue) : Append(queue, e)[i] = queue[i]
        /\ Append(queue, e)[Len(queue) + 1] = e
    BY <1>0, <2>1, AppendProperties, LenProperties
  <2>5. \A i \in DOMAIN Append(queue, e) : Append(queue, e)[i] = e \/ (i \in DOMAIN queue /\ Append(queue, e)[i] = queue[i])
    BY <2>4
  <2>6. x \in Pending \/ x = e
    BY <2>2, <2>3, <2>5 DEF Pending
  <2>7. QED
    BY <2>1, <2>2, <2>6
<1>2. CASE Dequeue
  <2>1. /\ queue # <<>> /\ working' = {Head(queue)} /\ queue' = Tail(queue) /\ overflow' = overflow
    BY <1>2 DEF Dequeue
  <2>2. /\ Tail(queue) \in Seq(Events) /\ Len(Tail(queue)) = Len(queue) - 1
        /\ Len(queue) \in Nat \ {0} /\ DOMAIN queue = 1 .. Len(queue)
        /\ \A i \in 1 .. Len(Tail(queue)) : Tail(queue)[i] = queue[i + 1]
    BY <1>0, <2>1, HeadTailProperties, LenProperties, EmptySeq
  <2>3. DOMAIN Tail(queue) = 1 .. Len(queue) - 1
    BY <2>2, LenProperties
  <2>4. Head(queue) = queue[1] /\ 1 \in DOMAIN queue
    BY <1>0, <2>1, <2>2
  <2>5. \A i \in DOMAIN Tail(queue) : i + 1 \in DOMAIN queue /\ Tail(queue)[i] = queue[i + 1]
    BY <2>2, <2>3
  <2>6. QED
    BY <2>1, <2>4, <2>5 DEF Pending
<1>3. ASSUME NEW e \in working \cup overflow, Report(e) PROVE x \in Pending
  BY <1>3 DEF Report, Pending
<1>4. ASSUME NEW a \in Attempts,
             \/ Snapshot(a) \/ Dispatch(a) \/ AllowProbe(a) \/ Abandon(a)
             \/ LegacySelect(a) \/ Elsewhere(a) \/ LegacyEnds(a)
      PROVE  x \in Pending
  <2>1. UNCHANGED recorderVars
    BY <1>4 DEF Snapshot, Dispatch, AllowProbe, Abandon, LegacySelect, Elsewhere, LegacyEnds
  <2>2. QED
    BY <2>1 DEF Pending
<1>5. ASSUME TimePasses \/ ResetChannel \/ Done \/ UNCHANGED vars PROVE x \in Pending
  BY <1>5 DEF TimePasses, ResetChannel, Done, vars, Pending
<1>6. QED
  BY <1>1, <1>2, <1>3, <1>4, <1>5 DEF Next

(* An attempt moves only by an action of its own, and one that has ended   *)
(* does not move.                                                          *)
LEMMA ReportedStays ==
  ASSUME TypeOK, [Next]_vars, NEW a \in Attempts, pc[a] = "reported"
  PROVE  pc'[a] = "reported"
<1> USE DEF attemptVars, recorderVars, historyVars
<1>0. pc \in [Attempts -> Labels]
  BY DEF TypeOK, TypeAttempts
<1>1. ASSUME NEW b \in Attempts, NEW l \in Labels, Goto(b, l), pc[b] # "reported"
      PROVE  pc'[a] = "reported"
  BY <1>0, <1>1 DEF Goto
<1>2. ASSUME NEW b \in Attempts,
             \/ Snapshot(b) \/ Dispatch(b) \/ AllowProbe(b) \/ Abandon(b)
             \/ LegacySelect(b) \/ Elsewhere(b) \/ LegacyEnds(b) \/ \E o \in Outcomes : Offer(b, o)
      PROVE  (\E l \in Labels : Goto(b, l)) /\ pc[b] # "reported"
  BY <1>2 DEF Snapshot, Dispatch, AllowProbe, Refused, Abandon, LegacySelect, Elsewhere,
              LegacyEnds, Offer, Acts, Chosen, Labels
<1>3. ASSUME \/ Dequeue \/ TimePasses \/ ResetChannel \/ Done \/ UNCHANGED vars
             \/ \E e \in working \cup overflow : Report(e)
      PROVE  pc' = pc
  BY <1>3 DEF Dequeue, TimePasses, ResetChannel, Done, vars, Report
<1>4. QED
  BY <1>1, <1>2, <1>3 DEF Next

LEMMA OfferedStep == TypeOK /\ OfferedInv /\ [Next]_vars => OfferedInv'
<1> SUFFICES ASSUME TypeOK, OfferedInv, [Next]_vars, NEW x \in Pending'
             PROVE  pc'[x.attempt] = "reported"
  BY DEF OfferedInv
<1>1. CASE x \in Pending
  <2>1. x.attempt \in Attempts
    <3>1. \A i \in DOMAIN queue : queue[i] \in Events
      BY LenProperties DEF TypeOK, TypeRecorder
    <3>2. x \in Events
      BY <1>1, <3>1 DEF Pending, TypeOK, TypeRecorder
    <3>3. QED
      BY <3>2 DEF Events
  <2>2. QED
    BY <1>1, <2>1, ReportedStays DEF OfferedInv
<1>2. QED
  BY <1>1, PendingStep

(* What starts a request on an open circuit, whatever the interleaving: a  *)
(* smart plan made from a snapshot older than the opening (one that saw    *)
(* the circuit half-open asks AllowProbe, which refuses), or the legacy    *)
(* selector, whose attempts have no plan and never reach the breaker.      *)
THEOREM OpenCircuitRespected == Spec => OpenIsRespected
<1> DEFINE Starts == \A a \in Requests :
                       pc[a] # pc'[a] /\ pc'[a] \in {"running", "legacy"} /\ circuit'.state = "open"
                         => \/ pc[a] = "chosen" /\ seen[a] = "closed" /\ seenAt[a] < openings
                            \/ pc[a] = "unplanned" /\ pc'[a] = "legacy"
           Silent == \A a \in Requests :
                       pc[a] = "legacy" => \A e \in Pending' : e.attempt # a
<1>1. Init => SnapshotInv /\ OfferedInv
  BY DEF Init, SnapshotInv, OfferedInv, Pending, Attempts
<1>2. TypeOK /\ SnapshotInv /\ OfferedInv /\ [Next]_vars => SnapshotInv' /\ OfferedInv'
  BY SnapshotStep, OfferedStep
<1>3. ASSUME TypeOK, SnapshotInv, Next PROVE Starts
  <2> SUFFICES ASSUME NEW a \in Requests, pc[a] # pc'[a],
                      pc'[a] \in {"running", "legacy"}, circuit'.state = "open"
               PROVE  \/ pc[a] = "chosen" /\ seen[a] = "closed" /\ seenAt[a] < openings
                      \/ pc[a] = "unplanned" /\ pc'[a] = "legacy"
    OBVIOUS
  <2> USE DEF attemptVars, recorderVars, historyVars
  <2>0. /\ circuit \in Circuit /\ pc \in [Attempts -> Labels]
        /\ seen \in [Attempts -> States] /\ a \in Attempts
    BY <1>3 DEF TypeOK, TypeAttempts, Attempts
  <2>1. \A b \in Attempts : \A l : Goto(b, l) => b = a /\ l = pc'[a]
    BY <2>0 DEF Goto
  <2>2. CASE Dispatch(a)
    BY <1>3, <2>0, <2>2 DEF Dispatch, SnapshotInv, States
  <2>3. CASE AllowProbe(a)
    <3> DEFINE c == Advance(circuit)
               probe == c.state = "half_open" /\ c.probeIn < c.probeMax
               d == [c EXCEPT !.probeIn = c.probeIn + 1]
    <3>1. c \in Circuit
      BY <2>0, AdvanceType
    <3>2. /\ circuit' = IF probe THEN d ELSE c
          /\ Goto(a, IF probe \/ c.state = "closed" THEN "running" ELSE "unplanned")
      BY <2>3 DEF AllowProbe, Becomes, Acts, Refused
    <3>3. d.state = c.state
      BY <3>1 DEF Circuit
    <3> HIDE DEF c, d
    <3>4. probe \/ c.state = "closed"
      BY <2>0, <2>1, <3>2
    <3>5. QED
      BY <3>2, <3>3, <3>4
  <2>4. CASE LegacySelect(a)
    BY <2>0, <2>1, <2>4 DEF LegacySelect, Acts
  <2>5. CASE ~Dispatch(a) /\ ~AllowProbe(a) /\ ~LegacySelect(a)
    <3>1. PICK b \in Attempts :
            \/ Snapshot(b) \/ Dispatch(b) \/ AllowProbe(b) \/ Abandon(b)
            \/ LegacySelect(b) \/ Elsewhere(b) \/ LegacyEnds(b)
            \/ \E o \in Outcomes : Offer(b, o)
      <4>1. pc' # pc
        OBVIOUS
      <4>2. QED
        BY <1>3, <4>1 DEF Next, Done, vars, Dequeue, Report, TimePasses, ResetChannel
    <3>2. CASE Snapshot(b)
      <4>1. Goto(b, "chosen") \/ Goto(b, "unplanned")
        BY <3>2 DEF Snapshot, Chosen, Acts
      <4>2. QED
        BY <2>1, <4>1
    <3>3. CASE Dispatch(b) \/ AllowProbe(b) \/ LegacySelect(b)
      <4>1. \E l \in Labels : Goto(b, l)
        BY <3>3 DEF Dispatch, AllowProbe, Refused, LegacySelect, Acts, Labels
      <4>2. b = a
        BY <2>1, <4>1
      <4>3. QED
        BY <2>5, <3>3, <4>2
    <3>4. CASE Abandon(b) \/ Elsewhere(b) \/ LegacyEnds(b) \/ \E o \in Outcomes : Offer(b, o)
      <4>1. Goto(b, "reported") \/ Goto(b, "idle")
        BY <3>4 DEF Abandon, Elsewhere, LegacyEnds, Offer, Acts
      <4>2. QED
        BY <2>1, <4>1
    <3>5. QED
      BY <3>1, <3>2, <3>3, <3>4
  <2>6. QED
    BY <2>2, <2>3, <2>4, <2>5
<1>4. ASSUME TypeOK, OfferedInv, Next PROVE Silent
  <2> SUFFICES ASSUME NEW a \in Requests, pc[a] = "legacy", NEW e \in Pending', e.attempt = a
               PROVE  FALSE
    OBVIOUS
  <2>1. CASE e \in Pending
    BY <1>4, <2>1 DEF OfferedInv
  <2>2. QED
    BY <1>4, <2>1, PendingStep
<1>5. TypeOK /\ SnapshotInv /\ OfferedInv /\ [Next]_vars
        => [\A a \in Requests :
              /\ pc[a] # pc'[a] /\ pc'[a] \in {"running", "legacy"} /\ circuit'.state = "open"
                   => \/ pc[a] = "chosen" /\ seen[a] = "closed" /\ seenAt[a] < openings
                      \/ pc[a] = "unplanned" /\ pc'[a] = "legacy"
              /\ pc[a] = "legacy" => (\A e \in Pending' : e.attempt # a)]_vars
  BY <1>3, <1>4
<1>6. QED
  BY <1>1, <1>2, <1>5, CircuitTypeCorrect, PTL DEF Spec, OpenIsRespected

-----------------------------------------------------------------------------
(* What a half-open circuit waits for *)

(* A circuit that is not closed has a probe budget, an open one has        *)
(* counted no success, and a half-open one fewer than its budget.          *)
Budgeted(c) ==
  /\ c.state # "closed" => c.probeMax > 0
  /\ c.state = "open" => c.successes = 0
  /\ c.state = "half_open" => c.successes < c.probeMax

LEMMA AdvanceBudgeted ==
  ASSUME NEW c \in Circuit, Budgeted(c)
  PROVE  /\ Budgeted(Advance(c))
         /\ Advance(c).successes = c.successes
         /\ c.state = "half_open" => Advance(c).state = "half_open"
<1> DEFINE b == IF c.probeMax = 0 THEN [c EXCEPT !.probeMax = ProbeCount] ELSE c
<1>0. /\ b.successes = c.successes /\ b.state = c.state /\ b \in Circuit
      /\ b.probeMax = IF c.probeMax = 0 THEN ProbeCount ELSE c.probeMax
  BY CircuitAssumption DEF Circuit
<1>1. /\ Advance(c).successes = b.successes /\ Advance(c).probeMax = b.probeMax
      /\ Advance(c).state = b.state \/ (b.state = "open" /\ Advance(c).state = "half_open")
  <2> DEFINE h == [b EXCEPT !.state = "half_open", !.probeIn = 0]
  <2>1. Advance(c) = IF b.state = "open" /\ b.until = "past" THEN h ELSE b
    BY DEF Advance
  <2> HIDE DEF b
  <2>2. h.state = "half_open" /\ h.successes = b.successes /\ h.probeMax = b.probeMax
    BY <1>0 DEF Circuit
  <2> HIDE DEF h
  <2>3. QED
    BY <2>1, <2>2
<1> HIDE DEF b
<1>2. c.probeMax \in Nat /\ c.successes \in Nat /\ ProbeCount \in Nat \ {0}
  BY CircuitField, CircuitAssumption
<1>3. QED
  BY <1>0, <1>1, <1>2 DEF Budgeted

LEMMA OpenedBudgeted ==
  ASSUME NEW c \in Circuit, NEW k \in Kinds
  PROVE  Budgeted(Opened(c, k)) /\ Opened(c, k).state = "open"
<1> DEFINE n == IF k \in DOMAIN Policies THEN Policies[k].probes ELSE ProbeCount
<1>1. n \in Nat \ {0}
  <2>1. ProbeCount \in Nat \ {0}
    BY CircuitAssumption
  <2>2. ASSUME k \in DOMAIN Policies PROVE Policies[k].probes \in Nat \ {0}
    <3>1. Policies[k] \in Policy
      BY <2>2, CircuitAssumption
    <3>2. QED
      BY <3>1 DEF Policy
  <2>3. QED
    BY <2>1, <2>2
<1>2. /\ Opened(c, k).state = "open" /\ Opened(c, k).successes = 0
      /\ Opened(c, k).probeMax = n
  BY DEF Opened, Circuit
<1> HIDE DEF n
<1>3. QED
  BY <1>1, <1>2 DEF Budgeted

LEMMA CountBudgeted ==
  ASSUME NEW c \in Circuit, NEW k \in Kinds, Budgeted(c)
  PROVE  Budgeted(CountFailure(c, k)) /\ CountFailure(c, k).state = c.state
<1>1. /\ CountFailure(c, k).state = c.state
      /\ CountFailure(c, k).successes = c.successes
      /\ CountFailure(c, k).probeMax = c.probeMax
  BY DEF CountFailure, Circuit
<1>2. QED
  BY <1>1 DEF Budgeted

(* A result that leaves the circuit half-open is a success, and counted. *)
LEMMA ResultBudgeted ==
  ASSUME NEW c \in Circuit, Budgeted(c), NEW o \in Outcomes, Counted(o)
  PROVE  LET d == ReportResult(c, o)
         IN  /\ Budgeted(d)
             /\ d.state = "half_open" => c.state = "half_open" /\ d.successes = c.successes + 1
<1>0. c.successes \in Nat /\ c.probeMax \in Nat /\ c.state \in States
  BY CircuitField
<1>1. CASE o = "ok"
  <2>1. ResetCircuitState.state = "closed"
    BY DEF ResetCircuitState
  <2>2. Budgeted(ResetCircuitState)
    BY <2>1 DEF Budgeted
  <2>3. CASE c.state = "half_open"
    <3> DEFINE d == [c EXCEPT !.successes = c.successes + 1]
    <3>1. d.state = "half_open" /\ d.successes = c.successes + 1 /\ d.probeMax = c.probeMax
      BY <2>3 DEF Circuit
    <3> HIDE DEF d
    <3>2. ~(c.successes + 1 >= c.probeMax) => Budgeted(d)
      BY <1>0, <3>1 DEF Budgeted
    <3>3. ReportResult(c, o) = IF c.successes + 1 >= c.probeMax THEN ResetCircuitState ELSE d
      BY <1>1, <2>3 DEF ReportResult, ReportSuccess, d
    <3>4. QED
      BY <2>1, <2>2, <2>3, <3>1, <3>2, <3>3
  <2>4. CASE c.state # "half_open"
    <3>1. ReportResult(c, o).state = "closed"
      BY <1>1, <2>1, <2>4 DEF ReportResult, ReportSuccess, Circuit
    <3>2. QED
      BY <3>1 DEF Budgeted
  <2>5. QED
    BY <2>3, <2>4
<1>2. CASE o # "ok"
  <2>1. o \in Kinds
    BY <1>2, CountedType
  <2> DEFINE e == CountFailure(c, o)
  <2>2. e \in Circuit /\ Budgeted(e) /\ e.state = c.state
    BY <2>1, CountType, CountBudgeted
  <2>3. \/ ReportResult(c, o) = Opened(c, o)
        \/ ReportResult(c, o) = Opened(e, o)
        \/ c.state # "half_open" /\ ReportResult(c, o) = e
    BY <1>2 DEF ReportResult, ReportFailure
  <2> HIDE DEF e
  <2>4. QED
    BY <2>1, <2>2, <2>3, OpenedBudgeted
<1>3. QED
  BY <1>1, <1>2

(* The probes of this period whose result has been counted. *)
Answered ==
  {a \in Probes : /\ pc[a] = "reported" /\ a \notin lost
                   /\ \A e \in Pending : e.attempt # a}

(* The inductive invariant: the successes of a half-open period cover the  *)
(* probes of it that were answered.                                        *)
AnsweredInv ==
  /\ Budgeted(circuit)
  /\ circuit.state = "half_open" => Cardinality(Answered) <= circuit.successes

LEMMA AnsweredFinite ==
  ASSUME NEW S \in SUBSET Attempts
  PROVE  IsFiniteSet(S) /\ Cardinality(S) \in Nat
<1>1. IsFiniteSet(S)
  BY CircuitAssumption, FS_Subset
<1>2. QED
  BY <1>1, FS_CardinalityType

(* A step that answers no probe and counts no success. *)
LEMMA NoAnswerStep ==
  ASSUME TypeOK, AnsweredInv, Budgeted(circuit'),
         circuit'.state = "half_open" =>
           \/ /\ circuit.state = "half_open" /\ circuit'.successes = circuit.successes
              /\ Answered' \subseteq Answered
           \/ Answered' = {} /\ circuit'.successes \in Nat
  PROVE  AnsweredInv'
<1> SUFFICES ASSUME circuit'.state = "half_open"
             PROVE Cardinality(Answered') <= circuit'.successes
  BY DEF AnsweredInv
<1>1. CASE circuit.state = "half_open" /\ circuit'.successes = circuit.successes
           /\ Answered' \subseteq Answered
  <2>1. IsFiniteSet(Answered) /\ Cardinality(Answered) \in Nat
    BY AnsweredFinite DEF Answered, Probes
  <2>2. Cardinality(Answered') <= Cardinality(Answered)
    BY <1>1, <2>1, FS_Subset
  <2>3. Cardinality(Answered') \in Nat
    BY <1>1, AnsweredFinite DEF Answered, Probes
  <2>4. Cardinality(Answered) <= circuit.successes /\ circuit.successes \in Nat
    BY <1>1, CircuitField DEF AnsweredInv, TypeOK
  <2>5. QED
    BY <1>1, <2>1, <2>2, <2>3, <2>4
<1>2. CASE Answered' = {} /\ circuit'.successes \in Nat
  BY <1>2, FS_EmptySet
<1>3. QED
  BY <1>1, <1>2

(* How a step that does not report changes the answered probes. *)
LEMMA QuietAnswers ==
  ASSUME TypeOK, ProbeInv,
         episode' = IF circuit.state # "half_open" /\ circuit'.state = "half_open"
                    THEN episode + 1 ELSE episode,
         \A b \in Attempts : probeOf'[b] = probeOf[b] \/ pc'[b] # "reported",
         \A b \in Attempts : pc'[b] = "reported" /\ b \notin lost'
                              /\ (\A e \in Pending' : e.attempt # b)
           => /\ pc[b] = "reported" /\ b \notin lost
              /\ (\A e \in Pending : e.attempt # b)
  PROVE  circuit'.state = "half_open" =>
           /\ circuit.state = "half_open" => Answered' \subseteq Answered
           /\ circuit.state # "half_open" => Answered' = {}
<1>1. episode \in Nat
  BY DEF TypeOK, TypeHistory
<1>2. ASSUME circuit'.state = "half_open", circuit.state = "half_open"
      PROVE Answered' \subseteq Answered
  <2>1. episode' = episode
    BY <1>2
  <2>2. QED
    BY <2>1 DEF Answered, Probes
<1>3. ASSUME circuit'.state = "half_open", circuit.state # "half_open"
      PROVE Answered' = {}
  <2>1. episode' = episode + 1
    BY <1>3
  <2>2. \A b \in Attempts : probeOf[b] # episode'
    BY <1>1, <2>1 DEF ProbeInv, TypeOK, TypeHistory
  <2>3. QED
    BY <2>2 DEF Answered, Probes
<1>4. QED
  BY <1>2, <1>3

LEMMA AnsweredStep ==
  TypeOK /\ TypeOK' /\ ProbeInv /\ AnsweredInv /\ [Next]_vars => AnsweredInv'
<1> SUFFICES ASSUME TypeOK, TypeOK', ProbeInv, AnsweredInv, [Next]_vars PROVE AnsweredInv'
  OBVIOUS
<1> USE DEF attemptVars, recorderVars, historyVars
<1> DEFINE Waits(b) == pc[b] = "reported" /\ b \notin lost /\ (\A e \in Pending : e.attempt # b)
           Quiet == /\ \A b \in Attempts : probeOf'[b] = probeOf[b] \/ pc'[b] # "reported"
                    /\ \A b \in Attempts :
                         pc'[b] = "reported" /\ b \notin lost' /\ (\A e \in Pending' : e.attempt # b)
                           => Waits(b)
<1>0. /\ circuit \in Circuit /\ Budgeted(circuit) /\ pc \in [Attempts -> Labels]
      /\ probeOf \in [Attempts -> Nat] /\ circuit' \in Circuit /\ circuit'.successes \in Nat
  BY CircuitField DEF TypeOK, TypeAttempts, TypeHistory, AnsweredInv
<1>1. ASSUME NEW d \in Circuit, Becomes(d), Budgeted(d), Quiet,
             circuit.state = "half_open" /\ d.state = "half_open" => d.successes = circuit.successes
      PROVE AnsweredInv'
  <2>1. circuit' = d /\ episode' = IF circuit.state # "half_open" /\ circuit'.state = "half_open"
                                   THEN episode + 1 ELSE episode
    BY <1>1 DEF Becomes
  <2>2. circuit'.state = "half_open" =>
          /\ circuit.state = "half_open" => Answered' \subseteq Answered
          /\ circuit.state # "half_open" => Answered' = {}
    BY <1>1, <2>1, QuietAnswers
  <2>3. QED
    BY <1>0, <1>1, <2>1, <2>2, NoAnswerStep
<1>2. ASSUME circuit' = circuit, episode' = episode, Quiet PROVE AnsweredInv'
  <2>1. circuit'.state = "half_open" =>
          /\ circuit.state = "half_open" => Answered' \subseteq Answered
          /\ circuit.state # "half_open" => Answered' = {}
    BY <1>2, QuietAnswers
  <2>2. QED
    BY <1>0, <1>2, <2>1, NoAnswerStep
<1>3. ASSUME NEW a \in Attempts, Snapshot(a) PROVE AnsweredInv'
  <2> DEFINE c == Advance(circuit)
  <2>1. c \in Circuit /\ Budgeted(c) /\ c.successes = circuit.successes
    BY <1>0, AdvanceType, AdvanceBudgeted
  <2>2. Becomes(c) /\ probeOf' = probeOf /\ lost' = lost /\ Pending' = Pending
    BY <1>3 DEF Snapshot, Pending
  <2>3. \A b \in Attempts : pc'[b] = "reported" => pc[b] = "reported"
    BY <1>0, <1>3 DEF Snapshot, Chosen, Acts, Goto
  <2> HIDE DEF c
  <2>4. Quiet
    BY <2>2, <2>3
  <2>5. QED
    BY <1>1, <2>1, <2>2, <2>4
<1>4. ASSUME NEW a \in Attempts, Dispatch(a) \/ LegacySelect(a) \/ Elsewhere(a)
      PROVE AnsweredInv'
  <2>1. \A b \in Attempts : pc'[b] = "reported" => pc[b] = "reported"
    BY <1>0, <1>4 DEF Dispatch, LegacySelect, Elsewhere, Acts, Goto
  <2>2. circuit' = circuit /\ episode' = episode /\ probeOf' = probeOf /\ lost' = lost /\ Pending' = Pending
    BY <1>4 DEF Dispatch, LegacySelect, Elsewhere, Pending
  <2>3. QED
    BY <1>2, <2>1, <2>2
<1>5. ASSUME NEW a \in Attempts, AllowProbe(a) PROVE AnsweredInv'
  <2> DEFINE c == Advance(circuit)
             probe == c.state = "half_open" /\ c.probeIn < c.probeMax
             p == [c EXCEPT !.probeIn = c.probeIn + 1]
             d == IF probe THEN p ELSE c
  <2>1. c \in Circuit /\ Budgeted(c) /\ c.successes = circuit.successes
    BY <1>0, AdvanceType, AdvanceBudgeted
  <2>2. p.state = c.state /\ p.successes = c.successes /\ p.probeMax = c.probeMax /\ p \in Circuit
    BY <2>1, ProbeType DEF Circuit
  <2>3. Becomes(d) /\ Acts(a, IF probe \/ c.state = "closed" THEN "running" ELSE Refused(a))
        /\ (probeOf' = probeOf \/ probeOf' = [probeOf EXCEPT ![a] = episode'])
        /\ lost' = lost /\ Pending' = Pending
    BY <1>5 DEF AllowProbe, Pending
  <2> HIDE DEF c, p
  <2>4. d \in Circuit /\ d.successes = circuit.successes /\ Budgeted(d)
    BY <2>1, <2>2 DEF Budgeted
  <2>5. \E l \in {"running", "idle", "unplanned"} : pc' = [pc EXCEPT ![a] = l]
    BY <2>3 DEF Acts, Goto, Refused
  <2> HIDE DEF d
  <2>6. Quiet
    BY <1>0, <2>3, <2>5
  <2>7. QED
    BY <1>1, <2>3, <2>4, <2>6
<1>6. ASSUME NEW a \in Attempts, Abandon(a) \/ LegacyEnds(a) PROVE AnsweredInv'
  <2>1. pc' = [pc EXCEPT ![a] = "reported"] /\ lost' = lost \cup {a}
    BY <1>6 DEF Abandon, LegacyEnds, Goto
  <2>2. circuit' = circuit /\ episode' = episode /\ probeOf' = probeOf /\ Pending' = Pending
    BY <1>6 DEF Abandon, LegacyEnds, Pending
  <2>3. Quiet
    BY <1>0, <2>1, <2>2
  <2>4. QED
    BY <1>2, <2>2, <2>3
<1>7. ASSUME NEW a \in Attempts, NEW o \in Outcomes, Offer(a, o) PROVE AnsweredInv'
  <2> DEFINE e == [attempt |-> a, outcome |-> o]
  <2>1. pc' = [pc EXCEPT ![a] = "reported"] /\ lost' = lost
        /\ circuit' = circuit /\ episode' = episode /\ probeOf' = probeOf
    BY <1>7 DEF Offer, Goto
  <2>2. e.attempt = a
    OBVIOUS
  <2>3. Pending \subseteq Pending' /\ e \in Pending'
    <3>1. queue \in Seq(Events) /\ e \in Events
      BY DEF TypeOK, TypeRecorder, Events
    <3>2. working' = working
      BY <1>7 DEF Offer
    <3>3. CASE queue' = Append(queue, e) /\ overflow' = overflow
      <4>1. /\ Len(queue) \in Nat /\ DOMAIN queue = 1 .. Len(queue)
            /\ DOMAIN Append(queue, e) = 1 .. Len(queue) + 1
            /\ \A i \in 1 .. Len(queue) : Append(queue, e)[i] = queue[i]
            /\ Append(queue, e)[Len(queue) + 1] = e
        BY <3>1, AppendProperties, LenProperties
      <4> HIDE DEF e
      <4>2. \A i \in DOMAIN queue : i \in DOMAIN queue' /\ queue'[i] = queue[i]
        BY <3>3, <4>1
      <4>3. Len(queue) + 1 \in DOMAIN queue' /\ queue'[Len(queue) + 1] = e
        BY <3>3, <4>1
      <4>4. QED
        BY <3>2, <3>3, <4>2, <4>3 DEF Pending
    <3>4. CASE overflow' = overflow \cup {e} /\ queue' = queue
      BY <3>2, <3>4 DEF Pending
    <3>5. QED
      BY <1>7, <3>3, <3>4 DEF Offer
  <2> HIDE DEF e
  <2>4. Quiet
    BY <1>0, <2>1, <2>2, <2>3
  <2>5. QED
    BY <1>2, <2>1, <2>4
<1>8. CASE Dequeue
  <2>1. /\ queue \in Seq(Events) /\ queue # <<>> /\ working = {}
        /\ working' = {Head(queue)} /\ queue' = Tail(queue) /\ overflow' = overflow
    BY <1>8 DEF Dequeue, TypeOK, TypeRecorder
  <2>2. /\ Tail(queue) \in Seq(Events) /\ Len(Tail(queue)) = Len(queue) - 1
        /\ Len(queue) \in Nat \ {0} /\ DOMAIN queue = 1 .. Len(queue)
        /\ \A i \in 1 .. Len(Tail(queue)) : Tail(queue)[i] = queue[i + 1]
    BY <2>1, HeadTailProperties, LenProperties, EmptySeq
  <2>3. DOMAIN Tail(queue) = 1 .. Len(queue) - 1
    BY <2>2, LenProperties
  <2>4. Head(queue) = queue[1]
    BY <2>1
  <2>5. Pending \subseteq Pending'
    <3> SUFFICES ASSUME NEW i \in DOMAIN queue PROVE queue[i] \in Pending'
      BY <2>1 DEF Pending
    <3>1. CASE i = 1
      BY <2>1, <2>4, <3>1 DEF Pending
    <3>2. CASE i # 1
      <4>1. i - 1 \in DOMAIN Tail(queue) /\ Tail(queue)[i - 1] = queue[i]
        BY <2>2, <2>3, <3>2
      <4>2. QED
        BY <2>1, <4>1 DEF Pending
    <3>3. QED
      BY <3>1, <3>2
  <2>6. circuit' = circuit /\ episode' = episode /\ probeOf' = probeOf /\ lost' = lost /\ pc' = pc
    BY <1>8 DEF Dequeue
  <2>7. QED
    BY <1>2, <2>5, <2>6
<1>9. ASSUME NEW e \in working \cup overflow, Report(e) PROVE AnsweredInv'
  <2>1. e \in Events
    BY DEF TypeOK, TypeRecorder
  <2>2. e.outcome \in Outcomes /\ e.attempt \in Attempts
    BY <2>1 DEF Events
  <2>3. probeOf' = probeOf /\ pc' = pc /\ \A x \in Pending : x = e \/ x \in Pending'
    BY <1>9 DEF Report, Pending
  <2>4. CASE Counted(e.outcome)
    <3> DEFINE c == Advance(circuit)
               d == ReportResult(c, e.outcome)
    <3>1. c \in Circuit /\ Budgeted(c) /\ c.successes = circuit.successes
      BY <1>0, AdvanceType, AdvanceBudgeted
    <3>2. /\ d \in Circuit /\ Budgeted(d)
          /\ d.state = "half_open" => c.state = "half_open" /\ d.successes = c.successes + 1
      BY <2>2, <2>4, <3>1, ResultType, ResultBudgeted
    <3>3. Becomes(d) /\ lost' = lost
      BY <1>9, <2>4 DEF Report
    <3> HIDE DEF c, d
    <3>4. circuit' = d /\ episode' = IF circuit.state # "half_open" /\ d.state = "half_open"
                                     THEN episode + 1 ELSE episode
      BY <3>3 DEF Becomes
    <3> SUFFICES ASSUME d.state = "half_open" PROVE Cardinality(Answered') <= d.successes
      BY <3>2, <3>4 DEF AnsweredInv
    <3>5. circuit.successes \in Nat
      BY <1>0, CircuitField
    <3>6. CASE circuit.state = "half_open"
      <4>1. Answered' \subseteq Answered \cup {e.attempt}
        BY <2>3, <3>3, <3>4, <3>6 DEF Answered, Probes
      <4>2. IsFiniteSet(Answered) /\ Cardinality(Answered) \in Nat
        BY AnsweredFinite DEF Answered, Probes
      <4>3. /\ IsFiniteSet(Answered \cup {e.attempt})
            /\ Cardinality(Answered \cup {e.attempt}) <= Cardinality(Answered) + 1
            /\ Cardinality(Answered \cup {e.attempt}) \in Nat
        BY <4>2, FS_AddElement
      <4>4. Cardinality(Answered') <= Cardinality(Answered \cup {e.attempt})
        BY <4>1, <4>3, FS_Subset
      <4>5. Cardinality(Answered) <= circuit.successes
        BY <3>6 DEF AnsweredInv
      <4>6. Cardinality(Answered') \in Nat
        BY <4>1, <4>3, FS_Subset, FS_CardinalityType
      <4>7. QED
        BY <3>1, <3>2, <3>5, <4>2, <4>3, <4>4, <4>5, <4>6
    <3>7. CASE circuit.state # "half_open"
      <4>1. episode' = episode + 1 /\ episode \in Nat
        BY <3>4, <3>7 DEF TypeOK, TypeHistory
      <4>2. \A b \in Attempts : probeOf'[b] # episode'
        BY <1>0, <2>3, <4>1 DEF ProbeInv
      <4>3. Answered' = {}
        BY <4>2 DEF Answered, Probes
      <4>4. d.successes \in Nat
        BY <3>2, CircuitField
      <4>5. QED
        BY <4>3, <4>4, FS_EmptySet
    <3>8. QED
      BY <3>6, <3>7
  <2>5. CASE ~Counted(e.outcome)
    <3>1. lost' = lost \cup {e.attempt}
      BY <1>9, <2>5 DEF Report
    <3>2. Quiet
      BY <2>3, <3>1
    <3>3. Becomes(circuit) \/ Becomes(Advance(circuit))
      BY <1>9, <2>5 DEF Report
    <3>4. Advance(circuit) \in Circuit /\ Budgeted(Advance(circuit))
          /\ Advance(circuit).successes = circuit.successes
      BY <1>0, AdvanceType, AdvanceBudgeted
    <3>5. QED
      BY <1>0, <1>1, <3>2, <3>3, <3>4
  <2>6. QED
    BY <2>4, <2>5
<1>10. CASE TimePasses
  <2> DEFINE d == [circuit EXCEPT !.until = "past"]
  <2>1. d.state = circuit.state /\ d.successes = circuit.successes /\ d.probeMax = circuit.probeMax
    BY <1>0 DEF Circuit
  <2>2. circuit' = d /\ episode' = episode /\ openings' = openings
        /\ probeOf' = probeOf /\ lost' = lost /\ pc' = pc /\ Pending' = Pending
    BY <1>10 DEF TimePasses, Pending
  <2> HIDE DEF d
  <2>3. Becomes(d) /\ d \in Circuit /\ Budgeted(d)
    BY <1>0, <2>1, <2>2 DEF Becomes, Budgeted
  <2>4. QED
    BY <1>1, <2>1, <2>2, <2>3
<1>11. CASE ResetChannel
  <2>1. FreshState.state = "closed"
    BY DEF FreshState, ResetCircuitState
  <2>2. FreshState \in Circuit /\ Budgeted(FreshState)
    BY <2>1, ResetType DEF Budgeted
  <2>3. Becomes(FreshState) /\ probeOf' = probeOf /\ lost' = lost /\ pc' = pc /\ Pending' = Pending
    BY <1>11 DEF ResetChannel, Pending
  <2>4. QED
    BY <1>1, <2>1, <2>2, <2>3
<1>12. CASE UNCHANGED vars
  BY <1>2, <1>12 DEF vars, Pending
<1>13. QED
  BY <1>3, <1>4, <1>5, <1>6, <1>7, <1>8, <1>9, <1>10, <1>11, <1>12 DEF Next, Done

(* A half-open circuit without free slots always waits for a probe that    *)
(* runs, is on its way or was lost: the results reported by all its probes *)
(* close or open it, so only a probe that never reports can keep it there. *)
THEOREM OnlyLostProbesBlock == Spec => []StuckOnlyByLostProbe
<1>1. Init => ProbeInv /\ AnsweredInv
  <2> SUFFICES ASSUME Init PROVE ProbeInv /\ AnsweredInv
    OBVIOUS
  <2>1. circuit.state = "closed"
    BY DEF Init, FreshState, ResetCircuitState
  <2>2. QED
    BY <2>1 DEF Init, ProbeInv, ProbeBudget, AnsweredInv, Budgeted
<1>2. TypeOK /\ TypeOK' /\ ProbeInv /\ AnsweredInv /\ [Next]_vars => ProbeInv' /\ AnsweredInv'
  BY ProbeStep, AnsweredStep
<1>3. TypeOK /\ ProbeInv /\ AnsweredInv => StuckOnlyByLostProbe
  <2> SUFFICES ASSUME TypeOK, ProbeInv, AnsweredInv,
                      circuit.state = "half_open", Unavailable(circuit)
               PROVE \E a \in Probes :
                       a \in lost \/ pc[a] = "running" \/ (\E e \in Pending : e.attempt = a)
    BY DEF StuckOnlyByLostProbe
  <2>1. circuit.probeIn \in Nat /\ circuit.probeMax \in Nat /\ circuit.successes \in Nat
    BY CircuitField DEF TypeOK
  <2>2. /\ Cardinality(Answered) <= circuit.successes /\ circuit.successes < circuit.probeMax
        /\ Cardinality(Probes) = circuit.probeIn /\ circuit.probeMax <= circuit.probeIn
    BY <2>1 DEF AnsweredInv, Budgeted, ProbeInv, ProbeBudget, Unavailable
  <2>3. Cardinality(Answered) \in Nat
    BY AnsweredFinite DEF Answered, Probes
  <2>4. Answered # Probes
    BY <2>1, <2>2, <2>3
  <2>5. PICK a \in Probes : a \notin Answered
    BY <2>4 DEF Answered
  <2>6. a \in Attempts /\ probeOf[a] = episode /\ episode > 0 /\ episode \in Nat
    BY <2>5 DEF Probes, ProbeInv, TypeOK, TypeHistory
  <2>7. pc[a] \in {"running", "reported"}
    <3>1. probeOf[a] # 0
      BY <2>6
    <3>2. pc[a] \in Labels
      BY <2>6 DEF TypeOK, TypeAttempts
    <3>3. QED
      BY <2>6, <3>1, <3>2 DEF ProbeInv, Labels
  <2>8. QED
    BY <2>5, <2>7 DEF Answered
<1>4. QED
  BY <1>1, <1>2, <1>3, CircuitTypeCorrect, PTL DEF Spec

-----------------------------------------------------------------------------
(* The failure rates *)

(* RatesAreRates, of any circuit. *)
Rated(c) == c.failures <= SumOf(c.errors, Kinds) /\ SumOf(c.errors, Kinds) <= c.samples

LEMMA RatedIsRates == Rated(circuit) <=> RatesAreRates
  BY DEF Rated, RatesAreRates, SumOf

LEMMA ErrorSum ==
  ASSUME NEW c \in Circuit
  PROVE  /\ SumOf(c.errors, Kinds) \in Int
         /\ c.failures \in Nat /\ c.samples \in Nat
         /\ \A k \in Kinds : SumOf(CountFailure(c, k).errors, Kinds) = SumOf(c.errors, Kinds) + 1
<1>1. c.failures \in Nat /\ c.samples \in Nat /\ c.errors \in [Kinds -> Nat]
  BY CircuitField
<1>2. \A k \in Kinds : c.errors[k] \in Int
  BY <1>1
<1>3. SumOf(c.errors, Kinds) \in Int
  BY <1>2, SumOfInt, CircuitAssumption
<1>4. ASSUME NEW k \in Kinds
      PROVE  SumOf(CountFailure(c, k).errors, Kinds) = SumOf(c.errors, Kinds) + 1
  <2> DEFINE e == [c.errors EXCEPT ![k] = c.errors[k] + 1]
  <2>1. CountFailure(c, k).errors = e
    BY DEF CountFailure, Circuit
  <2>2. /\ \A j \in Kinds : e[j] \in Int
        /\ \A j \in Kinds \ {k} : c.errors[j] = e[j]
        /\ e[k] = c.errors[k] + 1
    BY <1>1
  <2>3. SumOf(e, Kinds) = SumOf(c.errors, Kinds) + e[k] - c.errors[k]
    <3> DEFINE h == c.errors
    <3>1. /\ IsFiniteSet(Kinds) /\ \A j \in Kinds : h[j] \in Int
          /\ \A j \in Kinds : e[j] \in Int
          /\ \A j \in Kinds \ {k} : h[j] = e[j]
      BY <1>2, <2>2, CircuitAssumption
    <3> HIDE DEF h, e
    <3>2. SumOf(e, Kinds) = SumOf(h, Kinds) + e[k] - h[k]
      BY <3>1, SumOfChange
    <3>3. QED
      BY <3>2 DEF h
  <2> HIDE DEF e
  <2>4. QED
    BY <1>2, <1>3, <2>1, <2>2, <2>3
<1>5. QED
  BY <1>1, <1>3, <1>4

(* A change that leaves the counters of failures alone. *)
LEMMA SameRates ==
  ASSUME NEW c, NEW d, Rated(c),
         d.failures = c.failures, d.errors = c.errors, d.samples = c.samples
  PROVE  Rated(d)
  BY DEF Rated

LEMMA ResetRated == Rated(ResetCircuitState) /\ Rated(FreshState)
<1> DEFINE z == [k \in Kinds |-> 0]
<1>1. SumOf(z, Kinds) = 0
  BY SumOfZero, CircuitAssumption
<1>2. ResetCircuitState.failures = 0 /\ ResetCircuitState.errors = z /\ ResetCircuitState.samples = 0
  BY DEF ResetCircuitState
<1>3. FreshState.failures = 0 /\ FreshState.errors = z /\ FreshState.samples = 0
  BY DEF FreshState, ResetCircuitState
<1> HIDE DEF z
<1>4. QED
  BY <1>1, <1>2, <1>3 DEF Rated

LEMMA AdvanceRated ==
  ASSUME NEW c \in Circuit, Rated(c) PROVE Rated(Advance(c))
<1>1. /\ Advance(c).failures = c.failures /\ Advance(c).errors = c.errors
      /\ Advance(c).samples = c.samples
  BY DEF Advance, Circuit
<1>2. QED
  BY <1>1, SameRates

(* A success takes a failure back or adds a sample; a failure counts in all *)
(* three.                                                                   *)
LEMMA ResultRated ==
  ASSUME NEW c \in Circuit, Rated(c), NEW o \in Outcomes, Counted(o)
  PROVE  Rated(ReportResult(c, o))
<1>1. ASSUME NEW d \in Circuit, Rated(d), NEW k \in Kinds PROVE Rated(Opened(d, k))
  <2>1. /\ Opened(d, k).failures = d.failures /\ Opened(d, k).errors = d.errors
        /\ Opened(d, k).samples = d.samples
    BY DEF Opened, Circuit
  <2>2. QED
    BY <1>1, <2>1, SameRates
<1>2. CASE o = "ok"
  <2>1. \/ ReportSuccess(c) = ResetCircuitState
        \/ ReportSuccess(c) = [c EXCEPT !.successes = c.successes + 1]
        \/ ReportSuccess(c) = [c EXCEPT !.failures = IF c.failures > 0 THEN c.failures - 1 ELSE 0,
                                        !.successes = c.successes + 1,
                                        !.samples = c.samples + 1]
    BY DEF ReportSuccess
  <2>2. CASE ReportSuccess(c) = [c EXCEPT !.successes = c.successes + 1]
    <3>1. /\ ReportSuccess(c).failures = c.failures /\ ReportSuccess(c).errors = c.errors
          /\ ReportSuccess(c).samples = c.samples
      BY <2>2 DEF Circuit
    <3>2. QED
      BY <1>2, <3>1, SameRates DEF ReportResult
  <2>3. CASE ReportSuccess(c) = [c EXCEPT !.failures = IF c.failures > 0 THEN c.failures - 1 ELSE 0,
                                          !.successes = c.successes + 1,
                                          !.samples = c.samples + 1]
    <3>1. /\ ReportSuccess(c).failures = IF c.failures > 0 THEN c.failures - 1 ELSE 0
          /\ ReportSuccess(c).errors = c.errors
          /\ ReportSuccess(c).samples = c.samples + 1
      BY <2>3 DEF Circuit
    <3>2. QED
      BY <1>2, <3>1, ErrorSum DEF ReportResult, Rated
  <2>4. QED
    BY <1>2, <2>1, <2>2, <2>3, ResetRated DEF ReportResult
<1>3. CASE o # "ok"
  <2>1. o \in Kinds
    BY <1>3, CountedType
  <2> DEFINE d == CountFailure(c, o)
  <2>2. d.failures = c.failures + 1 /\ d.samples = c.samples + 1
    BY DEF CountFailure, Circuit
  <2>3. d \in Circuit /\ Rated(d)
    BY <2>1, <2>2, CountType, ErrorSum DEF Rated
  <2>4. QED
    BY <1>1, <1>3, <2>1, <2>3 DEF ReportResult, ReportFailure
<1>4. QED
  BY <1>2, <1>3

LEMMA RatedStep == TypeOK /\ Rated(circuit) /\ [Next]_vars => Rated(circuit')
<1> SUFFICES ASSUME TypeOK, Rated(circuit), [Next]_vars PROVE Rated(circuit')
  OBVIOUS
<1> USE DEF attemptVars, recorderVars, historyVars
<1>1. circuit \in Circuit /\ Advance(circuit) \in Circuit /\ Rated(Advance(circuit))
  BY AdvanceType, AdvanceRated DEF TypeOK
<1>2. ASSUME NEW a \in Attempts, Snapshot(a) PROVE Rated(circuit')
  BY <1>1, <1>2 DEF Snapshot, Becomes
<1>3. ASSUME NEW a \in Attempts, AllowProbe(a) PROVE Rated(circuit')
  <2> DEFINE c == Advance(circuit)
             d == [c EXCEPT !.probeIn = c.probeIn + 1]
  <2>1. circuit' = c \/ circuit' = d
    BY <1>3 DEF AllowProbe, Becomes
  <2>2. d.failures = c.failures /\ d.errors = c.errors /\ d.samples = c.samples
    BY <1>1 DEF Circuit
  <2>3. QED
    BY <1>1, <2>1, <2>2, SameRates
<1>4. ASSUME NEW e \in working \cup overflow, Report(e) PROVE Rated(circuit')
  <2>1. e \in Events
    BY DEF TypeOK, TypeRecorder
  <2>2. e.outcome \in Outcomes
    BY <2>1 DEF Events
  <2>3. \/ Counted(e.outcome) /\ circuit' = ReportResult(Advance(circuit), e.outcome)
        \/ circuit' = circuit \/ circuit' = Advance(circuit)
    BY <1>4 DEF Report, Becomes
  <2>4. QED
    BY <1>1, <2>2, <2>3, ResultRated
<1>5. CASE TimePasses
  <2>1. /\ circuit'.failures = circuit.failures /\ circuit'.errors = circuit.errors
        /\ circuit'.samples = circuit.samples
    BY <1>1, <1>5 DEF TimePasses, Circuit
  <2>2. QED
    BY <2>1, SameRates
<1>6. CASE ResetChannel
  BY <1>6, ResetRated DEF ResetChannel, Becomes
<1>7. ASSUME NEW a \in Attempts,
             \/ Dispatch(a) \/ Abandon(a) \/ \E o \in Outcomes : Offer(a, o)
             \/ LegacySelect(a) \/ Elsewhere(a) \/ LegacyEnds(a)
      PROVE  UNCHANGED circuit
  BY <1>7 DEF Dispatch, Abandon, Offer, LegacySelect, Elsewhere, LegacyEnds
<1>8. Dequeue \/ Done \/ UNCHANGED vars => UNCHANGED circuit
  BY DEF Dequeue, Done, vars
<1>9. QED
  BY <1>2, <1>3, <1>4, <1>5, <1>6, <1>7, <1>8 DEF Next

(* Whatever results arrive, in whatever order, while the circuit opens,     *)
(* closes and is reset: the failures that reportFailureLocked compares with *)
(* the threshold are at most the failures counted by kind, and these at     *)
(* most the samples.                                                        *)
THEOREM FailureRatesAreRates == Spec => []RatesAreRates
<1>1. Init => RatesAreRates
  BY ResetRated, RatedIsRates DEF Init
<1>2. TypeOK /\ RatesAreRates /\ [Next]_vars => RatesAreRates'
  <2>1. Rated(circuit)' <=> RatesAreRates'
    BY RatedIsRates, PTL
  <2>2. QED
    BY <2>1, RatedIsRates, RatedStep
<1>3. QED
  BY <1>1, <1>2, CircuitTypeCorrect, PTL DEF Spec
=============================================================================
