------------------------------ MODULE MCOrders ------------------------------
(* Small instances of Orders for TLC. *)
EXTENDS Orders, TLC

Scenario(p, r, s, f) == [provider |-> p, roles |-> r, serial |-> s, faults |-> f]

(* One process on a database without serialization: everything that takes   *)
(* the lock, with failures where the provider repeats its notification.     *)
(* The handlers without a lock on a serializing one.                        *)
OneProcess ==
  {Scenario("pancake", {"paid", "admin"}, FALSE, {"db", "crash"}),
   Scenario("creem", {"paid", "admin"}, FALSE, {"db"}),
   Scenario("creemSub", {"paid"}, FALSE, {"db"}),
   Scenario("epaySub", {"paid", "return"}, FALSE, {"db", "crash"}),
   Scenario("stripe", {"paid", "admin", "failed", "expired"}, FALSE, {"crash"}),
   Scenario("epay", {"paid", "admin"}, FALSE, {}),
   Scenario("waffo", {"paid", "failed"}, TRUE, {"db"}),
   Scenario("waffo", {"paid", "admin", "failed"}, TRUE, {}),
   Scenario("code", {"redeem"}, TRUE, {"db", "crash"})}

(* Two processes and an administrator. *)
TwoProcesses == {Scenario("waffo", {"paid", "admin"}, FALSE, {})}
=============================================================================
