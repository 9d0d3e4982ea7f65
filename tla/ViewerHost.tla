------------------------------ MODULE ViewerHost ------------------------------
(***************************************************************************)
(* What one machine of the fleet promises the controller, whatever order   *)
(* its messages, timers and viewer processes run in.                       *)
(*                                                                         *)
(* A host holds viewers, numbered in the order they are started.  It may   *)
(* be asked at any moment for another limit and another start budget.  It  *)
(* starts a viewer only while it holds fewer than its limit and has budget *)
(* left, never reuses a number, and starts nothing once it is closing.     *)
(* Viewers end on their own, or because they were told to, in any order.   *)
(***************************************************************************)
EXTENDS Integers, FiniteSets

VARIABLES
  running,  \* the numbers of the viewers the host is holding
  started,  \* how many it has ever started; the next one's number
  limit,    \* how many it may hold
  budget,   \* how many it may ever start
  closing   \* it was told to stop, or its controller is gone

vars == <<running, started, limit, budget, closing>>

Init ==
  /\ running = {}
  /\ started = 0
  /\ limit = 0
  /\ budget = 0
  /\ closing = FALSE

(* The limit and the budget are the controller's to move, up or down. *)
Ask ==
  /\ limit' \in Nat
  /\ budget' \in Nat
  /\ UNCHANGED <<running, started, closing>>

Start ==
  /\ ~closing
  /\ Cardinality(running) < limit
  /\ started < budget
  /\ running' = running \union {started}
  /\ started' = started + 1
  /\ UNCHANGED <<limit, budget, closing>>

End(v) ==
  /\ v \in running
  /\ running' = running \ {v}
  /\ UNCHANGED <<started, limit, budget, closing>>

Close ==
  /\ closing' = TRUE
  /\ UNCHANGED <<running, started, limit, budget>>

Next ==
  \/ Ask
  \/ Start
  \/ \E v \in running : End(v)
  \/ Close

Spec == Init /\ [][Next]_vars

=============================================================================
