------------------------------ MODULE MCFleetRun ------------------------------
(* Two machines with a viewer each: the smallest fleet that can lose one   *)
(* machine, at any point, and go on with what is left.                     *)
EXTENDS FleetRun

MCMachines == 1 .. 2
MCWeight == [m \in MCMachines |-> 1]
=============================================================================
