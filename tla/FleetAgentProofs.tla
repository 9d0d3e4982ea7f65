--------------------------- MODULE FleetAgentProofs ---------------------------
(***************************************************************************)
(* Proofs about FleetAgent, for every number of viewers, every start       *)
(* budget, every set of targets and both kinds of agent.                   *)
(*                                                                         *)
(* The safety invariants hold by one inductive invariant, IInv.  What it   *)
(* adds to them: the Map holds exactly the viewers whose exit has not been *)
(* handled (Fates), every start is either held or has ended (Counted),     *)
(* a stopping agent has asked every viewer it holds (StopsAll), and a      *)
(* target counts as asked for only once the agent is ready (AskedReady).   *)
(***************************************************************************)
EXTENDS FleetAgent, FiniteSetTheorems, TLAPS

Fates ==
  \A v \in Viewers :
    /\ v \in tracked <=> proc[v] \in {"alive", "killed", "dead", "failed"}
    /\ v < started <=> proc[v] # "unborn"

Counted == exited + Cardinality(tracked) = started

StopsAll == stopping => requested = tracked

AskedReady == asked => conf = "ready"

RoomKept == /\ Cardinality(tracked) <= MaxViewers
            /\ Cardinality(Live) <= Wanted

IInv ==
  /\ TypeOK
  /\ Fates
  /\ Counted
  /\ StopsAll
  /\ AskedReady
  /\ RoomKept
  /\ NoLostWakeup
  /\ NoStrandedViewer
  /\ ReportIsCurrent

USE BoundsAssumption, ModesAssumption

-----------------------------------------------------------------------------
(* Facts about the sets of viewers.                                        *)

(* Every set of viewers is finite and has a size.                          *)
LEMMA ViewerSets ==
  ASSUME NEW S, S \subseteq Viewers
  PROVE  IsFiniteSet(S) /\ Cardinality(S) \in Nat
<1>1. IsFiniteSet(Viewers)
  BY FS_Interval DEF Viewers
<1>2. IsFiniteSet(S)
  BY <1>1, FS_Subset
<1> QED
  BY <1>2, FS_CardinalityType

(* A set inside a set of viewers is no larger.                             *)
LEMMA Smaller ==
  ASSUME NEW S, S \subseteq Viewers, NEW T, T \subseteq S
  PROVE  Cardinality(T) <= Cardinality(S)
  BY ViewerSets, FS_Subset

(* Shedding: what a target leaves alive is at most the target, and what is *)
(* told to stop is newer than what is left.                                *)
LEMMA ShedWorks ==
  ASSUME TypeOK, NEW wanted \in Nat, Shed(wanted)
  PROVE  /\ requested \subseteq requested'
         /\ requested' \subseteq tracked
         /\ stopping => requested' = requested
         /\ ~stopping => Cardinality(tracked \ requested') <= wanted
         /\ \A d \in requested' \ requested, k \in tracked \ requested' : k < d
<1> USE DEF Live
<1>1. tracked \subseteq Viewers /\ requested \subseteq tracked
  BY DEF TypeOK
<1>2. IsFiniteSet(Live) /\ Cardinality(Live) \in Nat
  BY <1>1, ViewerSets
<1>3. CASE stopping \/ Cardinality(Live) - wanted <= 0
  <2>1. requested' = requested
    BY <1>3 DEF Shed
  <2>2. ~stopping => Cardinality(Live) <= wanted
    BY <1>2, <1>3
  <2> QED
    BY <1>1, <2>1, <2>2
<1>4. CASE ~(stopping \/ Cardinality(Live) - wanted <= 0)
  <2>1. PICK doomed \in SUBSET Live :
          /\ Cardinality(doomed) = Cardinality(Live) - wanted
          /\ \A d \in doomed, k \in Live \ doomed : k < d
          /\ requested' = requested \union doomed
    BY <1>4 DEF Shed
  <2>2. tracked \ requested' = Live \ doomed
    BY <2>1
  <2>3. Cardinality(Live \ doomed) = Cardinality(Live) - Cardinality(Live \cap doomed)
    BY <1>2, FS_Difference
  <2>4. Live \cap doomed = doomed
    BY <2>1
  <2>5. Cardinality(tracked \ requested') = wanted
    BY <1>2, <2>1, <2>2, <2>3, <2>4
  <2>6. requested' \ requested = doomed
    BY <2>1
  <2> QED
    BY <1>1, <1>4, <2>1, <2>2, <2>5, <2>6
<1> QED
  BY <1>3, <1>4

-----------------------------------------------------------------------------
(* The invariant holds at the start, and every action keeps it.            *)

(* It holds at the start.                                                  *)
LEMMA InitInv == Init => IInv
<1> SUFFICES ASSUME Init PROVE IInv
  OBVIOUS
<1>1. Cardinality({}) = 0
  BY FS_EmptySet
<1>2. TypeOK
  <2>1. /\ stage \in [Viewers -> Stages]
        /\ proc \in [Viewers -> ProcStates]
    BY DEF Init, ProcStates, Stages
  <2>2. reported \in [active : Nat, exhausted : BOOLEAN]
    BY DEF Init
  <2>3. /\ target \in Nat /\ totalStarts \in 0 .. MaxStarts
        /\ started \in 0 .. MaxStarts /\ exited \in 0 .. MaxStarts
    BY DEF Init
  <2>4. /\ tracked \in SUBSET Viewers
        /\ requested \in SUBSET tracked /\ goSent \in SUBSET tracked
    BY DEF Init
  <2>5. /\ conf \in {"hello", "configuring", "ready"} /\ open \in BOOLEAN
        /\ agentUp \in BOOLEAN /\ asked \in BOOLEAN /\ stopping \in BOOLEAN
        /\ released \in BOOLEAN /\ timer \in BOOLEAN
    BY DEF Init
  <2> QED
    BY <2>1, <2>2, <2>3, <2>4, <2>5 DEF TypeOK
<1>3. Fates
  BY DEF Init, Fates, Viewers
<1>4. Wanted = 0
  BY DEF Init, Wanted, Cap
<1>5. Live = {}
  BY DEF Init, Live
<1>6. Counted /\ StopsAll /\ AskedReady /\ RoomKept
  BY <1>1, <1>4, <1>5 DEF Init, Counted, StopsAll, AskedReady, RoomKept
<1>7. NoLostWakeup /\ NoStrandedViewer /\ ReportIsCurrent
  BY DEF Init, NoLostWakeup, NoStrandedViewer, ReportIsCurrent
<1> QED
  BY <1>2, <1>3, <1>6, <1>7 DEF IInv

(* What IInv says of the sizes of the sets.                                *)
LEMMA Sizes ==
  ASSUME IInv
  PROVE  /\ tracked \subseteq Viewers /\ IsFiniteSet(tracked)
         /\ Cardinality(tracked) \in Nat
         /\ IsFiniteSet(Live) /\ Cardinality(Live) \in Nat
         /\ Wanted \in Nat /\ Wanted <= MaxViewers
  BY ViewerSets DEF IInv, TypeOK, Live, Wanted, Cap

(* A report says what the Map holds and whether the budget is spent, and a *)
(* closed channel leaves the last one standing.                            *)
LEMMA ReportTells ==
  ASSUME reported \in [active : Nat, exhausted : BOOLEAN],
         Cardinality(tracked') \in Nat, Report
  PROVE  /\ reported' \in [active : Nat, exhausted : BOOLEAN]
         /\ open => /\ reported'.active = Cardinality(tracked')
                    /\ reported'.exhausted = (started' >= totalStarts')
<1>1. CASE open
  <2>1. reported' = [active |-> Cardinality(tracked'),
                     exhausted |-> started' >= totalStarts']
    BY <1>1 DEF Report
  <2>2. (started' >= totalStarts') \in BOOLEAN
    BY SMT
  <2> HIDE DEF Report
  <2> QED
    BY <2>1, <2>2
<1>2. CASE ~open
  BY <1>2 DEF Report
<1> QED
  BY <1>1, <1>2

(* The steps that leave alone what the machine holds, what it was asked    *)
(* and whether it is stopping.                                             *)
Quiet ==
  /\ UNCHANGED <<conf, target, totalStarts, asked, started, exited, stopping,
                 released, tracked, requested, goSent>>
  /\ open' = open /\ agentUp' = agentUp

(* A step that changes only processes keeps what is about the rest.        *)
LEMMA QuietKeeps ==
  ASSUME IInv, Quiet, stage' \in [Viewers -> Stages],
         proc' \in [Viewers -> ProcStates], Fates',
         timer' \in BOOLEAN, NoLostWakeup',
         reported' = reported \/ Report
  PROVE  IInv'
<1> USE DEF Quiet
<1>1. TypeOK'
  <2>1. reported' \in [active : Nat, exhausted : BOOLEAN]
    BY Sizes, ReportTells DEF IInv, TypeOK
  <2> QED
    BY <2>1 DEF IInv, TypeOK
<1>2. Counted' /\ StopsAll' /\ AskedReady'
  BY DEF IInv, Counted, StopsAll, AskedReady
<1>3. RoomKept'
  BY DEF IInv, RoomKept, Live, Wanted, Cap
<1>4. NoStrandedViewer'
  BY DEF IInv, NoStrandedViewer
<1>5. ReportIsCurrent'
  BY DEF IInv, ReportIsCurrent, Report
<1> QED
  BY <1>1, <1>2, <1>3, <1>4, <1>5 DEF IInv

(* A launcher pass that starts nothing, a line of a viewer and a sample.   *)
LEMMA StillKeeps ==
  ASSUME IInv,
         \/ LauncherRests \/ LauncherSpent \/ GateDenies \/ Sample
         \/ \E v \in Viewers : ViewerLinePeered(v) \/ ViewerLineReleased(v)
  PROVE  IInv'
<1>1. TypeOK /\ Fates /\ NoLostWakeup
  BY DEF IInv
<1>2. Quiet /\ proc' = proc /\ (reported' = reported \/ Report)
  BY DEF LauncherRests, LauncherSpent, GateDenies, Sample, ViewerLinePeered,
         ViewerLineReleased, Quiet, worldVars
<1>3. proc' \in [Viewers -> ProcStates] /\ Fates'
  BY <1>1, <1>2 DEF TypeOK, Fates, Quiet
<1>4. stage' \in [Viewers -> Stages]
  BY <1>1 DEF LauncherRests, LauncherSpent, GateDenies, Sample, ViewerLinePeered,
              ViewerLineReleased, worldVars, TypeOK, Stages
<1>5. timer' \in BOOLEAN
  BY <1>1 DEF LauncherRests, LauncherSpent, GateDenies, Sample, ViewerLinePeered,
              ViewerLineReleased, worldVars, TypeOK
<1>6. NoLostWakeup'
  <2>1. CASE timer' = TRUE
    BY <2>1 DEF NoLostWakeup
  <2>2. CASE timer' = timer
    BY <1>1, <1>2, <2>2 DEF NoLostWakeup, Quiet, Wanted, Cap
  <2>3. CASE LauncherRests
    <3>1. AskedReady
      BY DEF IInv
    <3>2. ~asked \/ stopping \/ ~(Cardinality(tracked) < Wanted)
      BY <2>3, <3>1, Sizes DEF LauncherRests, AskedReady
    <3> QED
      BY <1>2, <3>2 DEF NoLostWakeup, Quiet, Wanted, Cap
  <2>4. CASE LauncherSpent
    <3>1. ~(started < totalStarts)
      BY <1>1, <2>4 DEF LauncherSpent, TypeOK
    <3> QED
      BY <1>2, <3>1 DEF NoLostWakeup, Quiet
  <2> QED
    BY <2>1, <2>2, <2>3, <2>4 DEF GateDenies, Sample, ViewerLinePeered, ViewerLineReleased
<1> QED
  BY <1>2, <1>3, <1>4, <1>5, <1>6, QuietKeeps

(* A viewer ends or is killed: the Map does not know yet.                  *)
LEMMA DeathKeeps ==
  ASSUME IInv, NEW v \in Viewers,
         ViewerEnds(v) \/ ViewerKilled(v) \/ KillTimer(v)
  PROVE  IInv'
<1>1. TypeOK /\ Fates /\ NoLostWakeup
  BY DEF IInv
<1>2. Quiet /\ stage' = stage /\ timer' = timer /\ reported' = reported
  BY DEF ViewerEnds, ViewerKilled, KillTimer, Quiet, agentVars
<1>3. \E p \in {"killed", "dead"} :
        proc[v] \in {"alive", "killed"} /\ proc' = [proc EXCEPT ![v] = p]
  BY DEF ViewerEnds, ViewerKilled, KillTimer
<1>4. proc' \in [Viewers -> ProcStates]
  BY <1>1, <1>3 DEF TypeOK, ProcStates
<1>5. Fates'
  BY <1>1, <1>2, <1>3 DEF TypeOK, Fates, Quiet
<1>6. NoLostWakeup'
  BY <1>1, <1>2 DEF NoLostWakeup, Quiet, Wanted, Cap
<1>7. stage' \in [Viewers -> Stages] /\ timer' \in BOOLEAN
  BY <1>1, <1>2 DEF TypeOK
<1> QED
  BY <1>2, <1>4, <1>5, <1>6, <1>7, QuietKeeps

(* Configuring only raises the machine's ceiling, from nothing.            *)
LEMMA ConfigureKeeps ==
  ASSUME IInv, ConfigureBegin \/ ConfigureEnd
  PROVE  IInv'
<1>1. TypeOK /\ Fates /\ AskedReady /\ RoomKept
  BY DEF IInv
<1>2. /\ UNCHANGED <<target, totalStarts, asked, started, exited, stopping,
                     released, timer, tracked, requested, goSent, reported>>
      /\ UNCHANGED worldVars
      /\ \/ conf = "hello" /\ conf' = "configuring"
         \/ conf = "configuring" /\ conf' = "ready"
  BY DEF ConfigureBegin, ConfigureEnd
<1>3. ~asked /\ ~asked'
  BY <1>1, <1>2 DEF AskedReady
<1>4. TypeOK'
  BY <1>1, <1>2 DEF TypeOK, worldVars
<1>5. Fates' /\ Counted' /\ StopsAll'
  BY <1>1, <1>2 DEF IInv, Fates, Counted, StopsAll, worldVars
<1>6. RoomKept'
  <2>1. Wanted \in Nat /\ Wanted' \in Nat /\ Wanted <= Wanted'
    BY <1>1, <1>2 DEF TypeOK, Wanted, Cap
  <2>2. Cardinality(Live) \in Nat
    BY Sizes
  <2> QED
    BY <1>1, <1>2, <2>1, <2>2 DEF RoomKept, Live
<1>7. AskedReady' /\ NoLostWakeup' /\ ReportIsCurrent'
  BY <1>3 DEF AskedReady, NoLostWakeup, ReportIsCurrent
<1>8. NoStrandedViewer'
  BY <1>2 DEF IInv, NoStrandedViewer
<1> QED
  BY <1>4, <1>5, <1>6, <1>7, <1>8 DEF IInv

(* A target sheds what it leaves no room for.                              *)
LEMMA SetTargetKeeps ==
  ASSUME IInv, NEW n \in Targets, NEW b \in Budgets, SetTarget(n, b)
  PROVE  IInv'
<1> DEFINE wanted == IF n < Cap THEN n ELSE Cap
<1>1. TypeOK /\ Fates /\ StopsAll /\ AskedReady /\ RoomKept /\ NoStrandedViewer
  BY DEF IInv
<1>2. /\ UNCHANGED <<conf, started, exited, stopping, released, tracked, goSent>>
      /\ UNCHANGED worldVars
      /\ target' = n /\ totalStarts' = b /\ timer' = TRUE
      /\ asked' = (asked \/ conf = "ready")
      /\ Shed(wanted) /\ Report
  BY DEF SetTarget
<1>3. n \in Nat /\ b \in 0 .. MaxStarts /\ wanted \in Nat /\ wanted = Wanted'
  BY <1>2 DEF Cap, Wanted
<1> HIDE DEF wanted
<1>4. /\ requested \subseteq requested'
      /\ requested' \subseteq tracked
      /\ stopping => requested' = requested
      /\ ~stopping => Cardinality(tracked \ requested') <= wanted
  BY <1>1, <1>2, <1>3, ShedWorks
<1>5. Cardinality(tracked') \in Nat
  BY <1>2, Sizes
<1>6. reported' \in [active : Nat, exhausted : BOOLEAN]
  BY <1>1, <1>2, <1>5, ReportTells DEF TypeOK
<1>7. TypeOK'
  <2>1. asked' \in BOOLEAN
    BY <1>1, <1>2 DEF TypeOK
  <2> QED
    BY <1>1, <1>2, <1>3, <1>4, <1>6, <2>1 DEF TypeOK, worldVars
<1>8. Fates' /\ Counted'
  BY <1>1, <1>2 DEF IInv, Fates, Counted, worldVars
<1>9. StopsAll' /\ AskedReady'
  BY <1>1, <1>2, <1>4 DEF StopsAll, AskedReady
<1>10. RoomKept'
  <2>1. Cardinality(Live') <= wanted
    <3>1. CASE stopping
      <4>1. Live' = {}
        BY <1>1, <1>2, <1>4, <3>1 DEF StopsAll, Live
      <4> QED
        BY <1>3, <4>1, FS_EmptySet
    <3>2. CASE ~stopping
      BY <1>2, <1>4, <3>2 DEF Live
    <3> QED
      BY <1>1, <3>1, <3>2 DEF TypeOK
  <2> QED
    BY <1>1, <1>2, <1>3, <2>1 DEF RoomKept
<1>11. NoLostWakeup' /\ NoStrandedViewer'
  BY <1>1, <1>2 DEF NoLostWakeup, NoStrandedViewer
<1>12. ReportIsCurrent'
  BY <1>1, <1>2, <1>5, ReportTells DEF ReportIsCurrent, TypeOK, worldVars
<1> QED
  BY <1>7, <1>8, <1>9, <1>10, <1>11, <1>12 DEF IInv

(* A launch takes a number nobody had, into room that was there.           *)
LEMMA LaunchKeeps ==
  ASSUME IInv, LaunchOne
  PROVE  IInv'
<1>1. TypeOK /\ Fates /\ Counted /\ StopsAll /\ AskedReady /\ RoomKept /\ NoStrandedViewer
  BY DEF IInv
<1>2. PICK p \in {"alive", "failed"} : proc' = [proc EXCEPT ![started] = p]
  BY DEF LaunchOne
<1>3. /\ UNCHANGED <<conf, open, agentUp, target, totalStarts, asked, exited,
                     stopping, released, requested, stage>>
      /\ started' = started + 1
      /\ tracked' = tracked \union {started}
      /\ timer' = TRUE /\ ~stopping
      /\ started < totalStarts /\ Cardinality(tracked) < Wanted
      /\ ReleaseNew(started) /\ Report
  BY DEF LaunchOne, MayLaunch
<1>4. started \in Viewers /\ started' \in 0 .. MaxStarts
  BY <1>1, <1>3 DEF TypeOK, Viewers
<1>5. started \notin tracked /\ proc[started] = "unborn"
  BY <1>1, <1>4 DEF Fates, TypeOK
<1>6. Cardinality(tracked') = Cardinality(tracked) + 1
  BY <1>3, <1>5, Sizes, FS_AddElement
<1>7. Cardinality(tracked') \in Nat
  BY <1>6, Sizes
<1>8. TypeOK'
  <2>1. proc' \in [Viewers -> ProcStates]
    BY <1>1, <1>2 DEF TypeOK, ProcStates
  <2>2. tracked' \subseteq Viewers /\ requested' \subseteq tracked'
    BY <1>1, <1>3, <1>4 DEF TypeOK
  <2>3. goSent' \subseteq tracked'
    BY <1>1, <1>3 DEF TypeOK, ReleaseNew
  <2>4. reported' \in [active : Nat, exhausted : BOOLEAN]
    BY <1>1, <1>3, <1>7, ReportTells DEF TypeOK
  <2> QED
    BY <1>1, <1>3, <1>4, <2>1, <2>2, <2>3, <2>4 DEF TypeOK
<1>9. Fates'
  <2> SUFFICES ASSUME NEW v \in Viewers
               PROVE  /\ v \in tracked' <=> proc'[v] \in {"alive", "killed", "dead", "failed"}
                      /\ v < started' <=> proc'[v] # "unborn"
    BY DEF Fates
  <2>1. CASE v = started
    BY <1>1, <1>2, <1>3, <1>4, <2>1 DEF TypeOK, Viewers
  <2>2. CASE v # started
    <3>1. proc'[v] = proc[v] /\ (v \in tracked' <=> v \in tracked)
      BY <1>1, <1>2, <1>3, <2>2 DEF TypeOK
    <3>2. v < started' <=> v < started
      BY <1>1, <1>3, <2>2 DEF TypeOK, Viewers
    <3> QED
      BY <1>1, <3>1, <3>2 DEF Fates
  <2> QED
    BY <2>1, <2>2
<1>10. Counted'
  BY <1>1, <1>3, <1>6, Sizes DEF Counted, TypeOK
<1>11. StopsAll' /\ AskedReady' /\ NoLostWakeup'
  BY <1>1, <1>3 DEF StopsAll, AskedReady, NoLostWakeup
<1>12. RoomKept'
  <2>1. Wanted' = Wanted
    BY <1>3 DEF Wanted, Cap
  <2>2. Cardinality(tracked') <= Wanted
    BY <1>3, <1>6, Sizes
  <2>3. Cardinality(Live') <= Cardinality(tracked')
    BY <1>8, Smaller DEF TypeOK, Live
  <2>4. Cardinality(Live') \in Nat
    BY <1>8, ViewerSets DEF TypeOK, Live
  <2> QED
    BY <1>7, <2>1, <2>2, <2>3, <2>4, Sizes DEF RoomKept
<1>13. NoStrandedViewer'
  BY <1>1, <1>3 DEF NoStrandedViewer, ReleaseNew
<1>14. ReportIsCurrent'
  BY <1>1, <1>3, <1>7, ReportTells DEF ReportIsCurrent, TypeOK
<1> QED
  BY <1>8, <1>9, <1>10, <1>11, <1>12, <1>13, <1>14 DEF IInv

(* An exit takes a viewer out of everything that hung on it.               *)
LEMMA ExitKeeps ==
  ASSUME IInv, NEW v \in Viewers, ViewerExit(v)
  PROVE  IInv'
<1>1. TypeOK /\ Fates /\ Counted /\ StopsAll /\ AskedReady /\ RoomKept
      /\ NoLostWakeup /\ NoStrandedViewer
  BY DEF IInv
<1>2. /\ UNCHANGED <<conf, open, agentUp, target, totalStarts, asked, started,
                     stopping, released>>
      /\ v \in tracked /\ proc[v] = "dead"
      /\ proc' = [proc EXCEPT ![v] = "gone"]
      /\ tracked' = tracked \ {v} /\ requested' = requested \ {v}
      /\ goSent' = goSent \ {v} /\ exited' = exited + 1
      /\ stage' = [stage EXCEPT ![v] = "dialing"]
      /\ timer' = (timer \/ ~stopping) /\ Report
  BY DEF ViewerExit, WakeAfterExit
<1>3. Cardinality(tracked') = Cardinality(tracked) - 1
  BY <1>2, Sizes, FS_RemoveElement
<1>4. tracked' \subseteq Viewers /\ Cardinality(tracked') \in Nat
  <2>1. tracked' \subseteq Viewers
    BY <1>2, Sizes
  <2> QED
    BY <2>1, ViewerSets
<1>5. exited' \in 0 .. MaxStarts /\ Counted'
  BY <1>1, <1>2, <1>3, <1>4, Sizes DEF Counted, TypeOK
<1>6. TypeOK'
  <2>1. proc' \in [Viewers -> ProcStates] /\ stage' \in [Viewers -> Stages]
    BY <1>1, <1>2 DEF TypeOK, ProcStates, Stages
  <2>2. requested' \subseteq tracked' /\ goSent' \subseteq tracked'
    BY <1>1, <1>2 DEF TypeOK
  <2>3. reported' \in [active : Nat, exhausted : BOOLEAN]
    BY <1>1, <1>2, <1>4, ReportTells DEF TypeOK
  <2>4. timer' \in BOOLEAN
    BY <1>1, <1>2 DEF TypeOK
  <2> QED
    BY <1>1, <1>2, <1>4, <1>5, <2>1, <2>2, <2>3, <2>4 DEF TypeOK
<1>7. Fates'
  BY <1>1, <1>2 DEF TypeOK, Fates
<1>8. StopsAll' /\ AskedReady' /\ NoStrandedViewer'
  BY <1>1, <1>2 DEF StopsAll, AskedReady, NoStrandedViewer
<1>9. RoomKept'
  <2>1. Wanted' = Wanted
    BY <1>2 DEF Wanted, Cap
  <2>2. Live' \subseteq Live /\ Live \subseteq Viewers
    BY <1>2, Sizes DEF Live
  <2>3. Cardinality(Live') <= Cardinality(Live)
    BY <2>2, Smaller
  <2>4. Cardinality(Live') \in Nat
    BY <2>2, ViewerSets
  <2> QED
    BY <1>1, <1>3, <2>1, <2>3, <2>4, Sizes DEF RoomKept
<1>10. NoLostWakeup'
  BY <1>1, <1>2 DEF NoLostWakeup, TypeOK
<1>11. ReportIsCurrent'
  BY <1>1, <1>2, <1>4, ReportTells DEF ReportIsCurrent, TypeOK
<1> QED
  BY <1>5, <1>6, <1>7, <1>8, <1>9, <1>10, <1>11 DEF IInv

(* Opening the barrier tells every viewer the Map holds.                   *)
LEMMA ReleaseKeeps ==
  ASSUME IInv, Release
  PROVE  IInv'
<1>1. TypeOK /\ Fates /\ Counted /\ StopsAll /\ AskedReady /\ RoomKept /\ NoLostWakeup
  BY DEF IInv
<1>2. /\ UNCHANGED <<conf, target, totalStarts, asked, started, exited, stopping,
                     timer, tracked, requested>>
      /\ UNCHANGED worldVars
      /\ released' = TRUE /\ Report
      /\ goSent' = IF Hold THEN goSent \union tracked ELSE goSent
  BY DEF Release
<1>3. Cardinality(tracked') \in Nat
  BY <1>2, Sizes
<1>4. reported' \in [active : Nat, exhausted : BOOLEAN]
  BY <1>1, <1>2, <1>3, ReportTells DEF TypeOK
<1>5. TypeOK'
  <2>1. goSent' \subseteq tracked'
    BY <1>1, <1>2 DEF TypeOK
  <2> QED
    BY <1>1, <1>2, <1>4, <2>1 DEF TypeOK, worldVars
<1>6. Fates' /\ Counted' /\ StopsAll' /\ AskedReady'
  BY <1>1, <1>2 DEF Fates, Counted, StopsAll, AskedReady, worldVars
<1>7. RoomKept' /\ NoLostWakeup'
  BY <1>1, <1>2 DEF RoomKept, NoLostWakeup, Live, Wanted, Cap, worldVars
<1>8. NoStrandedViewer'
  BY <1>2 DEF NoStrandedViewer
<1>9. ReportIsCurrent'
  BY <1>1, <1>2, <1>3, ReportTells DEF ReportIsCurrent, TypeOK, worldVars
<1> QED
  BY <1>5, <1>6, <1>7, <1>8, <1>9 DEF IInv

(* Stopping, by a message or by a closed channel, asks every viewer.       *)
LEMMA StopKeeps ==
  ASSUME IInv, Stop \/ KillEverything
  PROVE  IInv'
<1>1. TypeOK /\ Fates /\ Counted /\ AskedReady /\ RoomKept /\ NoStrandedViewer
  BY DEF IInv
<1>2. /\ UNCHANGED <<conf, target, totalStarts, asked, started, exited, released,
                     tracked, goSent, stage, proc>>
      /\ stopping' = TRUE /\ requested' = tracked
      /\ timer' \in {timer, FALSE}
      /\ \/ open' = open /\ agentUp' = agentUp /\ Report
         \/ open' = FALSE /\ agentUp' = InProcess /\ reported' = reported
  BY DEF Stop, KillEverything, worldVars
<1>3. Cardinality(tracked') \in Nat
  BY <1>2, Sizes
<1>4. reported' \in [active : Nat, exhausted : BOOLEAN]
  BY <1>1, <1>2, <1>3, ReportTells DEF TypeOK
<1>5. TypeOK'
  <2>1. open' \in BOOLEAN /\ agentUp' \in BOOLEAN /\ timer' \in BOOLEAN
    BY <1>1, <1>2 DEF TypeOK
  <2> QED
    BY <1>1, <1>2, <1>4, <2>1 DEF TypeOK
<1>6. Fates' /\ Counted' /\ AskedReady' /\ NoStrandedViewer'
  BY <1>1, <1>2 DEF Fates, Counted, AskedReady, NoStrandedViewer
<1>7. StopsAll' /\ NoLostWakeup'
  BY <1>2 DEF StopsAll, NoLostWakeup
<1>8. RoomKept'
  <2>1. Live' = {}
    BY <1>2 DEF Live
  <2>2. Wanted' = Wanted
    BY <1>2 DEF Wanted, Cap
  <2> QED
    BY <1>1, <1>2, <2>1, <2>2, Sizes, FS_EmptySet DEF RoomKept
<1>9. ReportIsCurrent'
  BY <1>1, <1>2, <1>3, ReportTells DEF ReportIsCurrent, TypeOK
<1> QED
  BY <1>5, <1>6, <1>7, <1>8, <1>9 DEF IInv

(* No step, no change.                                                     *)
LEMMA StutterKeeps ==
  ASSUME IInv, UNCHANGED vars
  PROVE  IInv'
<1> USE DEF vars
<1>1. TypeOK'
  BY DEF IInv, TypeOK
<1>2. Fates' /\ Counted' /\ StopsAll' /\ AskedReady'
  BY DEF IInv, Fates, Counted, StopsAll, AskedReady
<1>3. RoomKept' /\ NoLostWakeup' /\ NoStrandedViewer' /\ ReportIsCurrent'
  BY DEF IInv, RoomKept, NoLostWakeup, NoStrandedViewer, ReportIsCurrent,
         Live, Wanted, Cap
<1> QED
  BY <1>1, <1>2, <1>3 DEF IInv

(* Every step keeps it.                                                    *)
LEMMA NextInv == IInv /\ [Next]_vars => IInv'
<1> SUFFICES ASSUME IInv, [Next]_vars PROVE IInv'
  OBVIOUS
<1>1. CASE ConfigureBegin \/ ConfigureEnd
  BY <1>1, ConfigureKeeps
<1>2. CASE \E n \in Targets, b \in Budgets : SetTarget(n, b)
  BY <1>2, SetTargetKeeps
<1>3. CASE LauncherRests \/ LauncherSpent \/ GateDenies \/ Sample
  BY <1>3, StillKeeps
<1>4. CASE LaunchOne
  BY <1>4, LaunchKeeps
<1>5. CASE \E v \in Viewers : ViewerLinePeered(v) \/ ViewerLineReleased(v)
  BY <1>5, StillKeeps
<1>6. CASE \E v \in Viewers : ViewerEnds(v) \/ ViewerKilled(v) \/ KillTimer(v)
  BY <1>6, DeathKeeps
<1>7. CASE \E v \in Viewers : ViewerExit(v)
  BY <1>7, ExitKeeps
<1>8. CASE Release
  BY <1>8, ReleaseKeeps
<1>9. CASE Stop \/ KillEverything
  BY <1>9, StopKeeps
<1>10. CASE UNCHANGED vars
  BY <1>10, StutterKeeps
<1> QED
  BY <1>1, <1>2, <1>3, <1>4, <1>5, <1>6, <1>7, <1>8, <1>9, <1>10 DEF Next

(* In every reachable state of an agent the inductive invariant holds.     *)
THEOREM Invariant == Spec => []IInv
  BY InitInv, NextInv, PTL DEF Spec

(* The agent's variables keep their types, whatever its parameters.        *)
THEOREM TypeCorrect == Spec => []TypeOK
<1>1. IInv => TypeOK
  BY DEF IInv
<1> QED
  BY <1>1, Invariant, PTL

(* A machine never runs more viewer processes than its ceiling, nor more   *)
(* it has not told to stop than it was asked for (tryLaunch, shed).        *)
THEOREM CeilingKept == Spec => []WithinTarget
<1>1. IInv => WithinTarget
  <2> SUFFICES ASSUME IInv PROVE WithinTarget
    OBVIOUS
  <2>1. Running \subseteq tracked
    BY DEF IInv, Fates, Running
  <2>2. tracked \subseteq Viewers /\ Running \subseteq Viewers
    BY Sizes DEF Running
  <2>3. Cardinality(Running) <= Cardinality(tracked)
    BY <2>1, <2>2, Smaller
  <2>4. Cardinality(Running) \in Nat
    BY <2>2, ViewerSets
  <2> QED
    BY <2>3, <2>4, Sizes DEF IInv, RoomKept, WithinTarget
<1> QED
  BY <1>1, Invariant, PTL

(* An agent below its target, with budget left, has its launcher armed.    *)
THEOREM LauncherAwake == Spec => []NoLostWakeup
<1>1. IInv => NoLostWakeup
  BY DEF IInv
<1> QED
  BY <1>1, Invariant, PTL

(* After the release every viewer the Map holds was told to go.            *)
THEOREM BarrierReachesAll == Spec => []NoStrandedViewer
<1>1. IInv => NoStrandedViewer
  BY DEF IInv
<1> QED
  BY <1>1, Invariant, PTL

(* The last state sent describes the state the agent is in.                *)
THEOREM ReportsCurrent == Spec => []ReportIsCurrent
<1>1. IInv => ReportIsCurrent
  BY DEF IInv
<1> QED
  BY <1>1, Invariant, PTL

-----------------------------------------------------------------------------
(* Which handlers ask viewers to stop.                                     *)

(* Only a set_target or a stop asks a viewer to stop, and what they leave  *)
(* alone is older than what they ask.                                      *)
LEMMA StepKeepsOldest ==
  ASSUME IInv, [Next]_vars, NEW v \in requested' \ requested,
         NEW w \in tracked' \ requested'
  PROVE  w < v
<1>1. TypeOK
  BY DEF IInv
<1>2. CASE \E n \in Targets, b \in Budgets : SetTarget(n, b)
  <2>1. PICK n \in Targets, b \in Budgets : SetTarget(n, b)
    BY <1>2
  <2> DEFINE wanted == IF n < Cap THEN n ELSE Cap
  <2>2. Shed(wanted) /\ tracked' = tracked
    BY <2>1 DEF SetTarget
  <2>3. wanted \in Nat
    BY DEF Cap
  <2> HIDE DEF wanted
  <2> QED
    BY <1>1, <2>2, <2>3, ShedWorks
<1>3. CASE Stop \/ KillEverything
  BY <1>3 DEF Stop, KillEverything
<1>4. ASSUME requested' \subseteq requested
      PROVE  FALSE
  BY <1>4
<1>5. CASE \E u \in Viewers : ViewerExit(u)
  BY <1>5, <1>4 DEF ViewerExit
<1>6. CASE requested' = requested
  BY <1>6
<1> QED
  BY <1>2, <1>3, <1>5, <1>6
  DEF Next, vars, agentVars, ConfigureBegin, ConfigureEnd, LauncherRests,
      LauncherSpent, GateDenies, LaunchOne, ViewerLinePeered, ViewerLineReleased,
      ViewerEnds, ViewerKilled, KillTimer, Release, Sample

(* A scale-down takes the newest viewers, in every behaviour.              *)
THEOREM ShedsNewest == Spec => KeepsOldest
<1>1. IInv /\ [Next]_vars =>
        [\A v \in requested' \ requested, w \in tracked' \ requested' : w < v]_vars
  BY StepKeepsOldest
<1> QED
  BY <1>1, Invariant, PTL DEF Spec, KeepsOldest

-----------------------------------------------------------------------------
(* The agent is a viewer host.                                             *)

(* Every handler is a step of the host it implements, or invisible to it.  *)
LEMMA HostStep ==
  ASSUME IInv, [Next]_vars
  PROVE  [Host!Next]_(Host!vars)
<1> USE DEF Host!vars
<1>1. TypeOK
  BY DEF IInv
<1>2. CASE \E n \in Targets, b \in Budgets : SetTarget(n, b)
  <2>1. PICK n \in Targets, b \in Budgets : SetTarget(n, b)
    BY <1>2
  <2>2. UNCHANGED <<conf, tracked, started, stopping>> /\ target' = n /\ totalStarts' = b
    BY <2>1 DEF SetTarget
  <2>3. Wanted' \in Nat /\ totalStarts' \in Nat
    BY <2>2 DEF Wanted, Cap
  <2>4. Host!Ask
    BY <2>2, <2>3 DEF Host!Ask
  <2> QED
    BY <2>4 DEF Host!Next
<1>3. CASE ConfigureBegin
  <2>1. UNCHANGED <<target, totalStarts, tracked, started, stopping>> /\ conf' = "configuring"
    BY <1>3 DEF ConfigureBegin
  <2>2. Wanted' \in Nat /\ totalStarts' \in Nat
    BY <1>1, <2>1 DEF Wanted, Cap, TypeOK
  <2>3. Host!Ask
    BY <2>1, <2>2 DEF Host!Ask
  <2> QED
    BY <2>3 DEF Host!Next
<1>4. CASE LaunchOne
  <2>1. /\ ~stopping /\ Cardinality(tracked) < Wanted /\ started < totalStarts
        /\ tracked' = tracked \union {started} /\ started' = started + 1
        /\ UNCHANGED <<conf, target, totalStarts, stopping>>
    BY <1>4 DEF LaunchOne, MayLaunch
  <2>2. Wanted' = Wanted
    BY <2>1 DEF Wanted, Cap
  <2>3. Host!Cardinality(tracked) = Cardinality(tracked)
    BY Zenon DEF Host!Cardinality, Cardinality
  <2>4. Host!Start
    BY <2>1, <2>2, <2>3 DEF Host!Start
  <2> QED
    BY <2>4 DEF Host!Next
<1>5. CASE \E v \in Viewers : ViewerExit(v)
  <2>1. PICK v \in Viewers : ViewerExit(v)
    BY <1>5
  <2>2. v \in tracked /\ Host!End(v)
    BY <2>1 DEF ViewerExit, Host!End, Wanted, Cap
  <2> QED
    BY <2>2 DEF Host!Next
<1>6. CASE Stop \/ KillEverything
  <2>1. Host!Close
    BY <1>6 DEF Stop, KillEverything, Host!Close, Wanted, Cap
  <2> QED
    BY <2>1 DEF Host!Next
<1>7. CASE ConfigureEnd
  BY <1>7 DEF ConfigureEnd, Wanted, Cap
<1>8. CASE UNCHANGED <<conf, target, totalStarts, started, stopping, tracked>>
  BY <1>8 DEF Wanted, Cap
<1> QED
  BY <1>2, <1>3, <1>4, <1>5, <1>6, <1>7, <1>8
  DEF Next, vars, agentVars, LauncherRests, LauncherSpent, GateDenies,
      ViewerLinePeered, ViewerLineReleased, ViewerEnds, ViewerKilled, KillTimer,
      Release, Sample

(* The agent implements the viewer host: it starts a viewer only below its *)
(* limit, within its budget and before it is told to stop, gives each a    *)
(* number of its own, and forgets one only when its exit was handled.      *)
THEOREM ImplementsHost == Spec => HostPromise
<1>1. Init => Host!Init
  BY DEF Init, Host!Init, Wanted, Cap
<1>2. IInv /\ [Next]_vars => [Host!Next]_(Host!vars)
  BY HostStep
<1> QED
  BY <1>1, <1>2, Invariant, PTL DEF Spec, HostPromise, Host!Spec
=============================================================================
