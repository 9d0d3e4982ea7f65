------------------------------ MODULE FleetShares ------------------------------
(***************************************************************************)
(* What each machine of a fleet is asked to hold, and how many viewers it  *)
(* may ever start (controller.ts connect, setTotalTarget, loseAgent).      *)
(*                                                                         *)
(* connect() fixes each machine's cap from the run's ceiling.  From then   *)
(* on every new total is divided again among the machines still in the     *)
(* fleet.  A start budget comes with it: exactly the share for a cohort,   *)
(* with spares for a ramp, and sliding from what was already started for a *)
(* session.                                                                *)
(***************************************************************************)
EXTENDS Partition

CONSTANTS
  Machines,    \* positions in the scenario's list of agents
  Weights,     \* the weights a scenario gives them
  OwnLimits,   \* the maxViewers a scenario may give a machine
  Ceiling,     \* viewerCeiling: the most viewers the run may ask for
  Spare,       \* starts beyond the share (5 in the code)
  MaxStarted   \* bound: viewers a machine starts in one behaviour

ASSUME SharesAssumption ==
  /\ Machines \subseteq Nat /\ IsFiniteSet(Machines)
  /\ Weights \subseteq Nat \ {0}
  /\ OwnLimits \subseteq Nat
  /\ Ceiling \in Nat
  /\ Spare \in Nat
  /\ MaxStarted \in Nat

VARIABLES
  mode,         \* "none", "bounded", "live": what a start budget replaces
  weight,       \* report.weight
  cap,          \* report.maxViewers
  live,         \* liveLinks()
  asked,        \* the last total set; NotAsked before the first
  target,       \* link.target
  totalStarts,  \* link.totalStarts
  started       \* link.started: viewer_started messages received

vars == <<mode, weight, cap, live, asked, target, totalStarts, started>>

NotAsked == -1
AtMost(a, b) == IF a < b THEN a ELSE b
AtLeast(a, b) == IF a < b THEN b ELSE a
Modes == {"none", "bounded", "live"}

Init ==
  /\ mode \in Modes
  /\ weight \in [Machines -> Weights]
  /\ \E own \in [Machines -> OwnLimits] :
       cap = [m \in Machines |->
                AtMost(own[m], Shares(Ceiling, weight, Machines)[m])]
  /\ live = Machines
  /\ asked = NotAsked
  /\ target = [m \in Machines |-> 0]
  /\ totalStarts = [m \in Machines |-> 0]
  /\ started = [m \in Machines |-> 0]

Capacity == SumOver(cap, live)

LoseAgentKeepsLink(m) ==
  /\ m \in live
  /\ target' = [target EXCEPT ![m] = 0]
  /\ UNCHANGED <<mode, weight, cap, live, asked, totalStarts, started>>

(* loseAgent(): out of liveLinks, its target zeroed, nobody else asked.    *)
LoseAgent(m) ==
  /\ m \in live
  /\ live' = live \ {m}
  /\ target' = [target EXCEPT ![m] = 0]
  /\ UNCHANGED <<mode, weight, cap, asked, totalStarts, started>>

(* The spares of a ramp: a quarter of the share, rounded up, and a few.    *)
WithSpares(share) == share + (share + 3) \div 4 + Spare

BudgetAccumulates(m, share) ==
  CASE mode = "live" -> started[m] + share + Spare
    [] mode = "bounded" -> totalStarts[m] + WithSpares(share)
    [] mode = "none" -> totalStarts[m] + share

Budget(m, share) ==
  CASE mode = "live" -> started[m] + share + Spare
    [] mode = "bounded" -> AtLeast(totalStarts[m], WithSpares(share))
    [] mode = "none" -> AtLeast(totalStarts[m], share)

ShareUncapped(shares, m) == shares[m]
ShareOf(shares, m) == AtMost(shares[m], cap[m])

SetTotalTarget(total) ==
  LET shares == Shares(total, weight, live)
      share(m) == ShareOf(shares, m)
  IN
  /\ asked' = total
  /\ target' = [m \in Machines |-> IF m \in live THEN share(m) ELSE target[m]]
  /\ totalStarts' = [m \in Machines |->
                       IF m \in live THEN Budget(m, share(m)) ELSE totalStarts[m]]
  /\ UNCHANGED <<mode, weight, cap, live, started>>

(* driveFixed(): once, for the whole cohort. *)
StartCohort ==
  /\ mode = "none"
  /\ asked = NotAsked
  /\ live # {}
  /\ SetTotalTarget(Ceiling)

(* driveRamp(): each step asks for more than the last. *)
RampStep(total) ==
  /\ mode = "bounded"
  /\ live # {}
  /\ total > asked
  /\ SetTotalTarget(total)

(* setViewerTarget(), clamped to what the fleet can hold, and the 30 s     *)
(* top-up, which sets the same total again.                                *)
SessionTarget(total) ==
  /\ mode = "live"
  /\ live # {}
  /\ total <= Capacity \/ total = asked
  /\ SetTotalTarget(total)

(* viewer_started.  An agent starts nothing past the budget it was sent.   *)
ViewerStarted(m) ==
  /\ m \in live
  /\ target[m] > 0
  /\ started[m] < totalStarts[m]
  /\ started[m] < MaxStarted
  /\ started' = [started EXCEPT ![m] = @ + 1]
  /\ UNCHANGED <<mode, weight, cap, live, asked, target, totalStarts>>

Next ==
  \/ StartCohort
  \/ \E total \in 0 .. Ceiling : RampStep(total) \/ SessionTarget(total)
  \/ \E m \in Machines : LoseAgent(m) \/ ViewerStarted(m)

Spec == Init /\ [][Next]_vars

-----------------------------------------------------------------------------
(* Properties.                                                             *)

TypeOK ==
  /\ mode \in Modes
  /\ weight \in [Machines -> Weights]
  /\ cap \in [Machines -> 0 .. Ceiling]
  /\ live \in SUBSET Machines
  /\ asked \in {NotAsked} \union 0 .. Ceiling
  /\ target \in [Machines -> 0 .. Ceiling]
  /\ totalStarts \in [Machines -> Nat]
  /\ started \in [Machines -> 0 .. MaxStarted]

(* Rounding neither loses nor invents a viewer, and no machine is a whole  *)
(* viewer away from its exact quota (schedule.ts partition), whichever     *)
(* machines are left.                                                      *)
QuotaRule ==
  live # {} =>
    \A total \in 0 .. Ceiling :
      LET W == SumOver(weight, live)
          shares == Shares(total, weight, live)
      IN /\ SumOver(shares, live) = total
         /\ \A m \in live : LET exact == total * weight[m]
                            IN shares[m] * W \in exact - W + 1 .. exact + W - 1

(* The fleet is never asked for more than the run asked for, and no        *)
(* machine for more than it was admitted for at the start, however many    *)
(* machines were lost in between (loseAgent: "Each was sized and admitted  *)
(* for its own").                                                          *)
NobodyTakesMore ==
  /\ asked # NotAsked => SumOver(target, live) <= asked
  /\ \A m \in Machines : target[m] <= cap[m]

(* A cohort is never replaced, and a ramp a bounded number of times in its *)
(* whole life, so a binary that dies on start-up cannot fork a machine to  *)
(* death, whatever steps and losses the totals went through.  A session    *)
(* may go on for ever, but between two requests no machine may start more  *)
(* than its cap and the spares (setTotalTarget's comment).                 *)
StartsBounded ==
  \A m \in Machines :
    /\ mode = "none" => started[m] <= cap[m]
    /\ mode = "bounded" => started[m] <= WithSpares(cap[m])
    /\ mode = "live" => totalStarts[m] - started[m] <= cap[m] + Spare

(* The target a settled cohort waits for, min(total, capacity()), is one   *)
(* the fleet was asked to reach: "taking it out of liveLinks is what lets  *)
(* the barrier open on the fleet that is actually there" (loseAgent).  So  *)
(* it is with machines of one weight, also when machines are lost before   *)
(* the cohort is asked for, or after.                                      *)
BarrierReachable ==
  (mode = "none" /\ asked # NotAsked) =>
    SumOver(target, live) >= AtMost(asked, Capacity)

BarrierReachableEqual ==
  (\A m, n \in Machines : weight[m] = weight[n]) => BarrierReachable
=============================================================================
