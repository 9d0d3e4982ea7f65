----------------------------- MODULE AdmissionGate -----------------------------
(***************************************************************************)
(* When a machine may start its next viewer (schedule.ts): not before the  *)
(* interval since the last start is over, and not beyond the vCPU that are *)
(* committed.  The gate is a value: the last start, the interval rolled    *)
(* for the next, and what a viewer that joins, and one that watches, are   *)
(* taken to cost.                                                          *)
(***************************************************************************)
EXTENDS Integers

CONSTANTS
  MinStart,        \* config.minStartIntervalMs
  StartJitter,     \* config.startJitterMs
  PriorCost,       \* config.bootstrapVcpu
  SteadyCost,      \* config.steadyVcpu
  MeasuredCosts,   \* set: what measured('bootstrap') may come to
  MeasuredSteady,  \* set: what measured('steady') may come to
  CostCeiling      \* cores * config.targetUtilisation

ASSUME GateAssumption ==
  /\ {MinStart, StartJitter, PriorCost, SteadyCost, CostCeiling} \subseteq Nat
  /\ MeasuredCosts \cup MeasuredSteady \subseteq Nat

Long == MinStart + StartJitter
RollInterval == MinStart .. Long
NewGates ==
  [last: {-Long}, interval: RollInterval, cost: {PriorCost}, steady: {SteadyCost}]

(* A flood's gate is disabled and lets everything through.                 *)
Decide(gate, disabled, now, bootstrapping, running) ==
  \/ disabled
  \/ /\ now - gate.last >= gate.interval
     /\ bootstrapping * gate.cost + running * gate.steady + gate.cost <= CostCeiling

(* A plausible slip: the start is not noted.                               *)
NoteNothing(gate, now) == {gate}

NoteStart(gate, now) ==
  {[gate EXCEPT !.last = now, !.interval = i] : i \in RollInterval}

(* CostModel: once there are enough observations of a phase, their median. *)
Observe(gate) ==
  {[gate EXCEPT !.cost = c] : c \in MeasuredCosts}
    \cup {[gate EXCEPT !.steady = c] : c \in MeasuredSteady}
=============================================================================
