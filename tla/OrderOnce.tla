----------------------------- MODULE OrderOnce -----------------------------
(***************************************************************************)
(* What an order promises: it waits to be paid, and is then either         *)
(* completed, with its one credit in the same moment, or closed for ever   *)
(* without any.                                                            *)
(***************************************************************************)
EXTENDS Naturals

VARIABLES
  status,   \* "pending", "success", "failed" or "expired"
  credits   \* how often the user was credited

vars == <<status, credits>>

Init == status = "pending" /\ credits = 0

Complete ==
  /\ status = "pending"
  /\ status' = "success"
  /\ credits' = credits + 1

Close ==
  /\ status = "pending"
  /\ status' \in {"failed", "expired"}
  /\ UNCHANGED credits

Next == Complete \/ Close

Spec == Init /\ [][Next]_vars
=============================================================================
