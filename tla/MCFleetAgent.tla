----------------------------- MODULE MCFleetAgent -----------------------------
(* One machine with room for two viewers: enough for a scale-down to have  *)
(* a newest and an oldest, and, with three starts, for a viewer that ended *)
(* to be replaced.  A target may exceed the machine's ceiling.             *)
EXTENDS FleetAgent

MCTargets == 0 .. MaxViewers + 1
MCBudgets == 0 .. MaxStarts
=============================================================================
