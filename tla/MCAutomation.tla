---------------------------- MODULE MCAutomation ----------------------------
(* Small instances of AutomationQueue for TLC. *)
EXTENDS AutomationQueue

Budget(ws, e, o, c, f) ==
  [workers |-> ws, events |-> e, orders |-> o, crashes |-> c, errors |-> f]

One == {CHOOSE e \in Executors : TRUE} \cup Browsers

(* Two executors that lose leases to each other; a second event; an operator; *)
(* a crash and a failed store access.                                         *)
AllBudgets ==
  {Budget(Workers, 1, 0, 0, 0), Budget(One, 2, 0, 0, 0),
   Budget(One, 1, 1, 0, 0), Budget(One, 1, 0, 1, 1)}

(* One executor whose writeback fails once. *)
Quiet == {Budget(One, 1, 0, 0, 0)}
=============================================================================
