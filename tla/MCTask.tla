------------------------------- MODULE MCTask -------------------------------
(* Small instances of TaskBilling for TLC. *)
EXTENDS TaskBilling

Scenario(p, n, f, e) == [platform |-> p, nodes |-> n, sources |-> f, env |-> e]

One == {CHOOSE n \in Nodes : TRUE}

(* Two nodes on guarded updates; every funding on one node; a user's fetch   *)
(* beside a node; the unguarded paths; answers that contradict themselves.   *)
AllScenarios ==
  {Scenario("video", Nodes, {"wallet"}, {"crash", "timeout", "rejected"}),
   Scenario("video", One, {"subscription", "split"}, {"db", "timeout"}),
   Scenario("mj", Nodes, {"wallet"}, {"db", "timeout"}),
   Scenario("gemini", One, {"wallet"}, {"db"}),
   Scenario("suno", One, {"split"}, {"gone", "odd"}),
   Scenario("suno", One, {"wallet"}, {"db", "timeout"}),
   Scenario("mj", One, {"wallet"}, {"crash", "odd", "timeout"}),
   Scenario("mj", One, {"wallet"}, {"gone", "notify"})}

=============================================================================
