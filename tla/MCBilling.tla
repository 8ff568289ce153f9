----------------------------- MODULE MCBilling -----------------------------
(* Small instances of BillingSession for TLC. *)
EXTENDS BillingSession, TLC

(* Requests are interchangeable. *)
RequestSymmetry == Permutations(Requests)

=============================================================================
