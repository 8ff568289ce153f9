---------------------------- MODULE MCTokenCache ----------------------------
(* Small instances of TokenCache for TLC. *)
EXTENDS TokenCache

Home == CHOOSE n \in Nodes : TRUE
Spread == CHOOSE f \in [Requests -> Nodes] : \A r, q \in Requests : (f[r] = f[q]) => r = q

Scenario(at, b, rd, how, k, t) ==
  [at |-> at, batch |-> b, redis |-> rd, user |-> Home, how |-> how,
   keep |-> k, trouble |-> t]

Alone == [r \in {CHOOSE r \in Requests : TRUE} |-> Home]
Together == [r \in Requests |-> Home]

(* Requests on the deleting node and on another one, with and without        *)
(* batches and Redis; a failed update or a crash; loads that share a flight. *)
AllScenarios ==
  {Scenario(Alone, TRUE, 1, "Delete", 0, {}),
   Scenario(Spread, FALSE, 1, "BatchDelete", 0, {}),
   Scenario(Alone, FALSE, 2, "Delete", 0, {"crash"}),
   Scenario(Alone, TRUE, 0, "Delete", 1, {"failed", "crash"}),
   Scenario(Together, FALSE, 0, "BatchDelete", 1, {"failed"}),
   Scenario(Together, FALSE, 2, "Never", 0, {})}
=============================================================================
