--------------------------- MODULE CircuitBreaker ---------------------------
(***************************************************************************)
(* The circuit of one runtime key (pkg/modelgateway/scheduler/             *)
(* circuit_breaker.go), the attempts that consult it (the selector of a    *)
(* request, the selector of health probes) and the recorder that brings    *)
(* their results to it (pkg/modelgateway/recording/async_recorder.go): one *)
(* worker reads a bounded channel, and a result that finds it full is      *)
(* processed by a goroutine of its own.                                    *)
(*                                                                         *)
(* A request for which the smart selector finds no plan is sent on by the  *)
(* legacy selector, which knows no circuits, and is never reported.        *)
(*                                                                         *)
(* Every operation of the breaker runs under its mutex and is one step; an *)
(* attempt reads a snapshot in one step and acts on it in a later one.     *)
(* Every attempt is made once, so the counters are bounded by their number.*)
(***************************************************************************)
EXTENDS Integers, Sequences, FiniteSets, FiniteSetsExt

CONSTANTS
  Requests,     \* attempts of user requests on the runtime key
  HealthProbes, \* attempts of the health prober on the runtime key
  Kinds,        \* the labels of ClassifyCircuitError; one without a policy
                \* comes once for each verdict of isDefaultCircuitFailure
  DefaultKinds, \* those isDefaultCircuitFailure counts without a policy
  Policies,     \* ErrorPolicies: kind -> [min, num, den, probes]
  MinSamples, ThresholdNum, ThresholdDen,  \* the failure rate that opens it
  ProbeCount,   \* HalfOpenProbeCount
  QueueSize     \* the capacity of the recorder's channel

Attempts == Requests \cup HealthProbes

(* A result is a success, one that never reaches the breaker (the client   *)
(* aborted, a bad request, no balance, ...), or a failure of some kind.    *)
Outcomes == {"ok", "skip"} \cup Kinds

Policy == [min : Nat \ {0}, num : Nat, den : Nat \ {0}, probes : Nat \ {0}]

ASSUME CircuitAssumption ==
  /\ IsFiniteSet(Attempts) /\ Requests \cap HealthProbes = {}
  /\ IsFiniteSet(Kinds) /\ DefaultKinds \subseteq Kinds
  /\ {"ok", "skip", ""} \cap Kinds = {}
  /\ DOMAIN Policies \subseteq Kinds
  /\ \A k \in DOMAIN Policies : Policies[k] \in Policy
  /\ {MinSamples, ThresholdDen, ProbeCount} \subseteq Nat \ {0}
  /\ {ThresholdNum, QueueSize} \subseteq Nat

VARIABLES
  circuit,   \* circuitState of the key
  pc,        \* what an attempt does
  seen,      \* the state in the snapshot an attempt has read
  queue,     \* the channel of the recorder
  working,   \* the event its worker processes, at most one
  overflow,  \* the events processed out of band
  episode,   \* history: how often the circuit became half-open
  probeOf,   \* history: the episode an attempt has a probe slot of, 0 = none
  openings,  \* history: how often the circuit was opened
  seenAt,    \* history: openings when an attempt read its snapshot
  lost       \* history: attempts whose result told the breaker nothing

attemptVars == <<pc, seen, seenAt>>
recorderVars == <<queue, working, overflow>>
historyVars == <<episode, probeOf, openings, lost>>
vars == <<circuit, attemptVars, recorderVars, historyVars>>

-----------------------------------------------------------------------------
(* The circuit *)

States == {"closed", "open", "half_open"}

Circuit == [state : States, failures : Nat, successes : Nat, samples : Nat,
            errors : [Kinds -> Nat], reason : Kinds \cup {""},
            until : {"zero", "future", "past"},
            probeMax : Nat, probeIn : Nat]

(* resetCircuitState *)
ResetCircuitState ==
  [state |-> "closed", failures |-> 0, successes |-> 0, samples |-> 0,
   errors |-> [k \in Kinds |-> 0], reason |-> "", until |-> "zero",
   probeMax |-> 0, probeIn |-> 0]

(* stateForLocked: the state of a key not known before. *)
FreshState == [ResetCircuitState EXCEPT !.probeMax = ProbeCount]

ReusesProbes(c) ==  \* mutant: a new half-open period keeps the used slots
  LET d == IF c.probeMax = 0 THEN [c EXCEPT !.probeMax = ProbeCount] ELSE c
  IN  IF d.state = "open" /\ d.until = "past"
      THEN [d EXCEPT !.state = "half_open", !.probeIn = 1] ELSE d

(* advanceLocked: an open circuit whose time is over becomes half-open,    *)
(* lazily, at the next access.                                             *)
Advance(c) ==
  LET d == IF c.probeMax = 0 THEN [c EXCEPT !.probeMax = ProbeCount] ELSE c
  IN  IF d.state = "open" /\ d.until = "past"
      THEN [d EXCEPT !.state = "half_open", !.probeIn = 0] ELSE d

(* openLocked, openLockedWithPolicy *)
Opened(c, k) ==
  [c EXCEPT !.state = "open", !.reason = k, !.until = "future",
            !.probeMax = IF k \in DOMAIN Policies THEN Policies[k].probes
                         ELSE ProbeCount,
            !.probeIn = 0, !.successes = 0]

SuccessOffByOne(c) ==  \* mutant: one success more than there are slots
  IF c.state = "half_open"
  THEN IF c.successes + 1 > c.probeMax THEN ResetCircuitState
       ELSE [c EXCEPT !.successes = @ + 1]
  ELSE IF c.state = "closed"
  THEN [c EXCEPT !.failures = IF @ > 0 THEN @ - 1 ELSE 0,
                 !.successes = @ + 1, !.samples = @ + 1]
  ELSE ResetCircuitState

SuccessUnclamped(c) ==  \* mutant: a success always takes one failure back
  IF c.state = "half_open"
  THEN IF c.successes + 1 >= c.probeMax THEN ResetCircuitState
       ELSE [c EXCEPT !.successes = @ + 1]
  ELSE IF c.state = "closed"
  THEN [c EXCEPT !.failures = @ - 1, !.successes = @ + 1, !.samples = @ + 1]
  ELSE ResetCircuitState

(* reportSuccessLocked.  A success that arrives while the circuit is open  *)
(* (of an attempt admitted before, or of a health probe) closes it.        *)
ReportSuccess(c) ==
  IF c.state = "half_open"
  THEN IF c.successes + 1 >= c.probeMax THEN ResetCircuitState
       ELSE [c EXCEPT !.successes = @ + 1]
  ELSE IF c.state = "closed"
  THEN [c EXCEPT !.failures = IF @ > 0 THEN @ - 1 ELSE 0,
                 !.successes = @ + 1, !.samples = @ + 1]
  ELSE ResetCircuitState

CountsRateOnly(c, k) ==  \* mutant: a failure is not a sample
  [c EXCEPT !.failures = @ + 1, !.errors = [c.errors EXCEPT ![k] = @ + 1]]

CountFailure(c, k) ==
  [c EXCEPT !.failures = @ + 1, !.samples = @ + 1,
            !.errors = [c.errors EXCEPT ![k] = @ + 1]]

(* circuitErrorPolicyOpen when the kind has a policy, the overall failure  *)
(* rate otherwise.                                                         *)
ShouldOpen(c, k) ==
  IF k \in DOMAIN Policies
  THEN /\ c.errors[k] >= Policies[k].min
       /\ c.errors[k] * Policies[k].den >= Policies[k].num * c.samples
  ELSE /\ c.samples >= MinSamples
       /\ c.failures * ThresholdDen >= ThresholdNum * c.samples

(* reportFailureLocked *)
ReportFailure(c, k) ==
  IF c.state = "half_open" THEN Opened(c, k)
  ELSE LET d == CountFailure(c, k)
       IN  IF c.state = "closed" /\ ShouldOpen(d, k) THEN Opened(d, k) ELSE d

(* classifyFailure: what the breaker takes notice of.  A concurrency limit *)
(* is never counted, even with a policy.                                   *)
Counted(o) ==
  \/ o = "ok"
  \/ o # "concurrency_limit" /\ o \in DefaultKinds \cup DOMAIN Policies

ReportResult(c, o) == IF o = "ok" THEN ReportSuccess(c) ELSE ReportFailure(c, o)

(* applyCircuitToRuntimeSnapshot: CircuitOpen of the snapshot. *)
Unavailable(c) ==
  \/ c.state = "open"
  \/ c.state = "half_open" /\ c.probeMax > 0 /\ c.probeIn >= c.probeMax

-----------------------------------------------------------------------------

(* A request the smart selector has no plan for is "unplanned"; "legacy"   *)
(* is one the legacy selector started on the channel of the key.           *)
Labels == {"idle", "chosen", "unplanned", "legacy", "running", "reported"}
Events == [attempt : Attempts, outcome : Outcomes]

TypeAttempts ==
  /\ pc \in [Attempts -> Labels]
  /\ seen \in [Attempts -> States]
  /\ seenAt \in [Attempts -> Nat]

TypeRecorder ==
  /\ queue \in Seq(Events) /\ Len(queue) <= QueueSize
  /\ working \in SUBSET Events
  /\ overflow \in SUBSET Events

TypeHistory ==
  /\ episode \in Nat /\ openings \in Nat
  /\ probeOf \in [Attempts -> Nat]
  /\ lost \in SUBSET Attempts

(* The circuit, its attempts and its recorder stay in their types: the     *)
(* counters of reportSuccessLocked never go below zero and the recorder's  *)
(* channel never exceeds its capacity.                                     *)
TypeOK == circuit \in Circuit /\ TypeAttempts /\ TypeRecorder /\ TypeHistory

Init ==
  /\ circuit = FreshState
  /\ pc = [a \in Attempts |-> "idle"]
  /\ seen = [a \in Attempts |-> "closed"]
  /\ queue = <<>> /\ working = {} /\ overflow = {}
  /\ episode = 0 /\ openings = 0
  /\ probeOf = [a \in Attempts |-> 0]
  /\ seenAt = [a \in Attempts |-> 0]
  /\ lost = {}

Goto(a, l) == pc' = [pc EXCEPT ![a] = l]

(* The circuit becomes c; the history counts what that begins. *)
Becomes(c) ==
  /\ circuit' = c
  /\ episode' = IF circuit.state # "half_open" /\ c.state = "half_open"
                THEN episode + 1 ELSE episode
  /\ openings' = IF circuit.state # "open" /\ c.state = "open"
                 THEN openings + 1 ELSE openings

Chosen(a, c) ==
  /\ Goto(a, "chosen")
  /\ seen' = [seen EXCEPT ![a] = c.state]
  /\ seenAt' = [seenAt EXCEPT ![a] = openings]

(* The snapshot is forgotten. *)
Acts(a, l) ==
  /\ Goto(a, l)
  /\ seen' = [seen EXCEPT ![a] = "closed"]
  /\ seenAt' = [seenAt EXCEPT ![a] = 0]

IgnoresOpen(a) ==  \* mutant: an open circuit is not a reason to be dropped
  /\ pc[a] = "idle"
  /\ LET c == Advance(circuit)
     IN  Becomes(c) /\ Chosen(a, c)
  /\ UNCHANGED <<recorderVars, probeOf, lost>>

(* The enricher reads a snapshot of the circuit for each candidate; the    *)
(* selector of requests drops a candidate whose circuit is unavailable,    *)
(* and may drop it for reasons of its own (cooldown, a skipped channel).   *)
Snapshot(a) ==
  /\ pc[a] = "idle"
  /\ LET c == Advance(circuit)
     IN  /\ Becomes(c)
         /\ \/ a \in Requests /\ Acts(a, "unplanned")
            \/ ~(a \in Requests /\ Unavailable(c)) /\ Chosen(a, c)
  /\ UNCHANGED <<recorderVars, probeOf, lost>>

(* The snapshot was not half-open: nothing is asked of the breaker. *)
Dispatch(a) ==
  /\ pc[a] = "chosen" /\ seen[a] # "half_open"
  /\ Acts(a, "running")
  /\ UNCHANGED <<circuit, recorderVars, historyVars>>

(* Without a slot the health prober leaves the key for this round, and a   *)
(* request has no smart plan.                                              *)
Refused(a) == IF a \in Requests THEN "unplanned" ELSE "idle"

(* The snapshot was half-open: the selector asks for a probe slot.  The    *)
(* circuit may have been closed, or opened again, in between.              *)
AllowProbe(a) ==
  /\ pc[a] = "chosen" /\ seen[a] = "half_open"
  /\ LET c == Advance(circuit)
         probe == c.state = "half_open" /\ c.probeIn < c.probeMax
     IN  /\ Becomes(IF probe THEN [c EXCEPT !.probeIn = @ + 1] ELSE c)
         /\ probeOf' = IF probe THEN [probeOf EXCEPT ![a] = episode'] ELSE probeOf
         /\ Acts(a, IF probe \/ c.state = "closed" THEN "running" ELSE Refused(a))
  /\ UNCHANGED <<recorderVars, lost>>

(* No smart plan: the legacy selector picks a channel without looking at   *)
(* circuits, and it may be the one of this key.                            *)
LegacySelect(a) ==
  /\ pc[a] = "unplanned"
  /\ Acts(a, "legacy")
  /\ UNCHANGED <<circuit, recorderVars, historyVars>>

(* The request goes to another channel, or to none; it may come back.      *)
Elsewhere(a) ==
  /\ pc[a] = "unplanned"
  /\ Acts(a, "idle")
  /\ UNCHANGED <<circuit, recorderVars, historyVars>>

(* A legacy attempt ends.  It has no plan, so reportModelGatewayAttempt    *)
(* returns at once and the breaker learns nothing.                         *)
LegacyEnds(a) ==
  /\ pc[a] = "legacy"
  /\ Goto(a, "reported")
  /\ lost' = lost \cup {a}
  /\ UNCHANGED <<circuit, seen, seenAt, recorderVars, episode, probeOf, openings>>

(* The plan is dropped after the slot was taken (the candidate is stale,   *)
(* the request ends, the prober filters it): nothing is ever reported.     *)
Abandon(a) ==
  /\ pc[a] = "running"
  /\ Goto(a, "reported")
  /\ lost' = lost \cup {a}
  /\ UNCHANGED <<circuit, seen, seenAt, recorderVars, episode, probeOf, openings>>

(* The attempt ends and its result is offered to the recorder. *)
Offer(a, o) ==
  /\ pc[a] = "running"
  /\ Goto(a, "reported")
  /\ LET e == [attempt |-> a, outcome |-> o]
     IN  IF Len(queue) < QueueSize
         THEN queue' = Append(queue, e) /\ UNCHANGED overflow
         ELSE overflow' = overflow \cup {e} /\ UNCHANGED queue
  /\ UNCHANGED <<circuit, seen, seenAt, working, historyVars>>

(* The worker takes an event. *)
Dequeue ==
  /\ working = {} /\ queue # <<>>
  /\ working' = {Head(queue)}
  /\ queue' = Tail(queue)
  /\ UNCHANGED <<circuit, attemptVars, overflow, historyVars>>

(* An event reaches the breaker, from the worker or out of band. *)
Report(e) ==
  /\ e \in working \cup overflow
  /\ working' = working \ {e}
  /\ overflow' = overflow \ {e}
  /\ IF Counted(e.outcome)
     THEN Becomes(ReportResult(Advance(circuit), e.outcome)) /\ UNCHANGED lost
     ELSE /\ Becomes(IF e.outcome = "skip" THEN circuit ELSE Advance(circuit))
          /\ lost' = lost \cup {e.attempt}
  /\ UNCHANGED <<attemptVars, queue, probeOf>>

(* OpenDuration is over. *)
TimePasses ==
  /\ circuit.until = "future"
  /\ circuit' = [circuit EXCEPT !.until = "past"]
  /\ UNCHANGED <<attemptVars, recorderVars, historyVars>>

(* An administrator clears the channel. *)
ResetChannel ==
  /\ circuit # FreshState
  /\ Becomes(FreshState)
  /\ UNCHANGED <<attemptVars, recorderVars, probeOf, lost>>

Pending == working \cup overflow \cup {queue[i] : i \in DOMAIN queue}

Done == (\A a \in Attempts : pc[a] = "reported") /\ Pending = {} /\ UNCHANGED vars

Next ==
  \/ \E a \in Attempts :
       \/ Snapshot(a) \/ Dispatch(a) \/ AllowProbe(a) \/ Abandon(a)
       \/ LegacySelect(a) \/ Elsewhere(a) \/ LegacyEnds(a)
       \/ \E o \in Outcomes : Offer(a, o)
  \/ Dequeue
  \/ \E e \in working \cup overflow : Report(e)
  \/ TimePasses \/ ResetChannel \/ Done

Spec == Init /\ [][Next]_vars

-----------------------------------------------------------------------------
(* Properties *)

Probes == {a \in Attempts : probeOf[a] = episode}

(* While the circuit is half-open, the slots it counts as used are exactly *)
(* the attempts admitted in this half-open period, and no more than its    *)
(* budget: results that arrive late, and a circuit that opens and becomes  *)
(* half-open again between the snapshot and the slot, change nothing.      *)
ProbeBudget ==
  circuit.state = "half_open" =>
    Cardinality(Probes) = circuit.probeIn /\ circuit.probeIn <= circuit.probeMax

(* A half-open circuit that offers no more slots waits for a probe: one    *)
(* that is running or whose result is on its way, or one that ended        *)
(* without a result the breaker counts.  Only the latter can keep the      *)
(* channel out of service.                                                 *)
StuckOnlyByLostProbe ==
  circuit.state = "half_open" /\ Unavailable(circuit) =>
    \E a \in Probes :
      a \in lost \/ pc[a] = "running" \/ (\E e \in Pending : e.attempt = a)

(* The failures still counted never exceed the failures seen by kind, nor  *)
(* these the samples: a failure rate is a rate, in whatever order results  *)
(* arrive and whatever the circuit went through.                           *)
RatesAreRates ==
  LET failed == MapThenSumSet(LAMBDA k : circuit.errors[k], Kinds)
  IN  circuit.failures <= failed /\ failed <= circuit.samples

(* A request that starts while the circuit is open decided on a snapshot   *)
(* from before it was opened (one that saw it half-open asks again), or it *)
(* was started by the legacy selector, after the smart selector had no     *)
(* plan for it.  The breaker itself lets no request through, and what it   *)
(* could not keep away never reports to it: an open circuit is not closed  *)
(* by the fallback's traffic.                                              *)
OpenIsRespected ==
  [][\A a \in Requests :
       /\ pc[a] # pc'[a] /\ pc'[a] \in {"running", "legacy"} /\ circuit'.state = "open"
            => \/ pc[a] = "chosen" /\ seen[a] = "closed" /\ seenAt[a] < openings
               \/ pc[a] = "unplanned" /\ pc'[a] = "legacy"
       /\ pc[a] = "legacy" => (\A e \in Pending' : e.attempt # a)]_vars

=============================================================================
