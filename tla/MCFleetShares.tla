----------------------------- MODULE MCFleetShares -----------------------------
(* Three machines, heavy and light, and a total that does not divide: the  *)
(* smallest fleet in which rounding, a limit of a machine's own and a lost *)
(* machine meet.                                                           *)
EXTENDS FleetShares

MCMachines == 1 .. 3
MCWeights == {1, 4}
MCOwnLimits == {1, Ceiling}
=============================================================================
