---------------------------- MODULE MCAdmission ----------------------------
(* Instances of ChannelAdmission for TLC. *)
EXTENDS ChannelAdmission, TLC

RequestSymmetry == Permutations(Requests)

SmartPlan(q, n, g) == [source |-> "smart", queue |-> q, prio |-> n, group |-> g]
LegacyPlan == [source |-> "legacy", queue |-> "none", prio |-> 0, group |-> "std"]

(* Waiting for a channel, for the pool, and not at all. *)
AllPlans ==
  {SmartPlan(q, 0, "std") : q \in {"channel", "pool"}} \cup {LegacyPlan}

(* Waiting in the queue of a channel: a normal request, one of a high      *)
(* priority group, and a normal one promoted by its retry intent.          *)
QueuePlans ==
  {SmartPlan("channel", 0, "std"), SmartPlan("channel", 0, "vip"),
   SmartPlan("channel", 2, "std")}
=============================================================================
