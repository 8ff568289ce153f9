----------------------------- MODULE MCCircuit -----------------------------
(* Instances of CircuitBreaker for TLC. *)
EXTENDS CircuitBreaker, TLC

RequestSymmetry == Permutations(Requests)

(* The policy the settings always give to 429, with a smaller minimum, and *)
(* one for the kind that is never counted; none for the other kinds.       *)
SomePolicies ==
  LET p == [min |-> 1, num |-> 1, den |-> 1, probes |-> 1]
  IN  "rate_limit" :> p @@ "concurrency_limit" :> p
=============================================================================
