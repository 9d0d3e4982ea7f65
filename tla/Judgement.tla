------------------------------- MODULE Judgement -------------------------------
(***************************************************************************)
(* How a run on one machine ends and what it is worth (controller.ts): the *)
(* ramp that climbs until something breaks and replaces viewers it loses,  *)
(* the cohort that ends with its viewers, the guards that are looked at    *)
(* while it lasts and again when it is over.  The agent starts viewers     *)
(* through the admission gate.  One tick is the ramp's poll; the sampler   *)
(* and the snapshots come every second tick.                               *)
(***************************************************************************)
EXTENDS Guards, AdmissionGate

CONSTANTS
  Modes,         \* subset of "ramp", "port-ceiling", "cohort", "settled", "flood"
  RampStarts,    \* set: ramp.start
  RampStep, RampMax,  \* ramp; RampMax is the cohort's size too
  Spare,         \* bound: stands for the ceil(share / 4) + 5 spare starts of a ramp
  RampInterval,  \* ramp.intervalS
  Hold,          \* stop.holdS
  Duration,      \* durationS + stragglerGraceS
  MaxRun,        \* maxRunS
  BootstrapTimeout,  \* admission.bootstrapTimeoutMs
  MaxMishaps,    \* bound: crashes, evictions and viewers that stop playing well
  StopTime,      \* bound: ticks that stopping the viewers may take
  MaxTicks       \* bound: ticks followed

ASSUME JudgementAssumption ==
  /\ Modes \subseteq {"ramp", "port-ceiling", "cohort", "settled", "flood"}
  /\ RampStarts \subseteq 1 .. RampMax
  /\ {RampStep, RampMax, RampInterval, Hold, Duration, MaxRun, BootstrapTimeout, MaxTicks}
       \subseteq Nat \ {0}
  /\ {Spare, MaxMishaps, StopTime} \subseteq Nat

(* The agents are configured with the interval the guards judge by. *)
ASSUME OneInterval == MinStart = MinStartInterval

VARIABLES
  mode,
  timed,         \* whether durationS is set: --segments may bound the viewers instead
  pc,            \* "driving", "stopping", "stopped" or "over"
  now, polled,   \* the tick, and whether the controller has had its turn in it
  target, stepEnds,
  gate,
  viewers,       \* Seq: what is known of each viewer started
  lastJoin,      \* lastViewerJoinMs
  samples,
  mishaps,
  measuredFrom,
  breachSince,
  hung,          \* the viewers being stopped have outlived their duration
  stopped,       \* stoppedBecause
  aborted,
  invalid,       \* invalidBecause
  caveats,       \* observedCaveats, of those judge() records
  shown,         \* history: whether a snapshot showed a guard as breached
  streak         \* history: polls in a row that were breaching

configVars == <<mode, timed>>
driveVars == <<target, stepEnds, measuredFrom, breachSince, streak>>
viewerVars == <<viewers, lastJoin, mishaps>>
endVars == <<pc, hung, stopped, aborted, invalid, caveats>>
vars == <<configVars, driveVars, viewerVars, gate, samples, endVars, now, polled, shown>>

Ramping == mode \in {"ramp", "port-ceiling"}
Disabled == mode = "flood"
Active == {i \in DOMAIN viewers : viewers[i].exit = "none"}
Settling == mode = "settled" /\ measuredFrom = None
Evaluated ==
  Breached(samples, measuredFrom, viewers, now, mode \in {"port-ceiling", "flood"}, Disabled)

(* A ramp does not look at how its viewers are bounded.                    *)
Init ==
  /\ mode \in Modes
  /\ timed \in IF Ramping THEN {TRUE} ELSE BOOLEAN
  /\ pc = "driving" /\ now = 0 /\ polled = TRUE
  /\ target \in IF Ramping THEN RampStarts ELSE {RampMax}
  /\ stepEnds = RampInterval
  /\ gate \in NewGates
  /\ viewers = <<>> /\ lastJoin = 0 /\ mishaps = 0
  /\ samples = <<>>
  /\ measuredFrom = IF mode = "settled" THEN None ELSE 0
  /\ breachSince = None /\ streak = 0
  /\ hung = FALSE /\ stopped = "none" /\ aborted = FALSE
  /\ invalid = {} /\ caveats = {} /\ shown = FALSE

(* ------------------------------- the machine ----------------------------- *)

Samples == {[at |-> now', high |-> high] : high \in BOOLEAN}

(* Time, and the sampler's next sample; the first may be late, or never    *)
(* come.                                                                   *)
Tick ==
  /\ pc = "driving" /\ polled /\ now < MaxTicks
  /\ now' = now + 1 /\ polled' = FALSE
  /\ \/ now' % 2 = 0 /\ \E sample \in Samples : samples' = Append(samples, sample)
     \/ (now' % 2 # 0 \/ samples = <<>>) /\ UNCHANGED samples
  /\ UNCHANGED <<configVars, driveVars, viewerVars, endVars, gate, shown>>

(* The machine has its turn before the controller does, and until its      *)
(* viewers have been told to go.                                           *)
MachineRuns == pc = "stopping" \/ (pc = "driving" /\ ~polled)

(* admissionState(): joined, or parked with its peers, or out of time.     *)
Bootstrapping ==
  {i \in Active : /\ ~Joined(viewers[i]) /\ ~viewers[i].parked
                  /\ now - viewers[i].start < BootstrapTimeout}

(* setTotalTarget(): a ramp has spare starts for viewers it loses, a       *)
(* cohort has none.                                                        *)
TotalStarts == target + (IF Ramping THEN Spare ELSE 0)

NewViewer ==
  [start |-> now, joined |-> None, parked |-> FALSE, peers |-> "few", plays |-> "nothing",
   exit |-> "none", hadTime |-> FALSE]

Launch ==
  /\ MachineRuns
  /\ Cardinality(Active) < target /\ Len(viewers) < TotalStarts
  /\ Decide(gate, Disabled, now, Cardinality(Bootstrapping),
            Cardinality(Active \ Bootstrapping))
  /\ viewers' = Append(viewers, NewViewer)
  /\ gate' \in NoteStart(gate, now)
  /\ UNCHANGED <<configVars, driveVars, endVars, lastJoin, mishaps, samples, now, polled,
                 shown>>

(* The sampler has told what viewers cost here. *)
CostMeasured ==
  /\ MachineRuns /\ samples # <<>> /\ viewers # <<>>
  /\ gate' \in Observe(gate) \ {gate}
  /\ UNCHANGED <<configVars, driveVars, viewerVars, endVars, samples, now, polled, shown>>

Becomes(i, v) == viewers' = [viewers EXCEPT ![i] = v]
GoesWrong == mishaps < MaxMishaps /\ mishaps' = mishaps + 1
GoesRight == UNCHANGED mishaps

(* A viewer has the peers it was told to hold, or no longer does.          *)
GetsPeers(i) ==
  /\ viewers[i].peers # "held"
  /\ Becomes(i, [viewers[i] EXCEPT !.peers = "held"])
  /\ GoesRight /\ UNCHANGED lastJoin
LosesPeers(i) ==
  /\ viewers[i].peers = "held"
  /\ Becomes(i, [viewers[i] EXCEPT !.peers = "evicted"])
  /\ GoesWrong /\ UNCHANGED lastJoin

(* A viewer of a settled cohort parks until it is released.                *)
Parks(i) ==
  /\ Settling /\ ~viewers[i].parked
  /\ Becomes(i, [viewers[i] EXCEPT !.parked = TRUE])
  /\ GoesRight /\ UNCHANGED lastJoin

(* A plausible slip: that it joined is not noted.                          *)
JoinsUnnoted(i) ==
  /\ ~Settling /\ ~Joined(viewers[i])
  /\ Becomes(i, [viewers[i] EXCEPT !.joined = now, !.parked = FALSE])
  /\ GoesRight /\ UNCHANGED lastJoin

Joins(i) ==
  /\ ~Settling /\ ~Joined(viewers[i])
  /\ Becomes(i, [viewers[i] EXCEPT !.joined = now, !.parked = FALSE])
  /\ lastJoin' = now
  /\ GoesRight

(* Segments: enough of them stalled to call it degraded, or not.           *)
Plays(i) ==
  /\ Joined(viewers[i])
  /\ \/ viewers[i].plays # "well" /\ Becomes(i, [viewers[i] EXCEPT !.plays = "well"])
          /\ GoesRight
     \/ viewers[i].plays # "badly" /\ Becomes(i, [viewers[i] EXCEPT !.plays = "badly"])
          /\ GoesWrong
  /\ UNCHANGED lastJoin

Exited(v, how, at) ==
  [v EXCEPT !.exit = how, !.parked = FALSE, !.hadTime = at - v.start >= PeerJoinAllowance]

Exits(i) ==
  /\ \/ Becomes(i, Exited(viewers[i], "clean", now)) /\ GoesRight
     \/ Becomes(i, Exited(viewers[i], "crashed", now)) /\ GoesWrong
  /\ UNCHANGED lastJoin

Lives(i) ==
  /\ MachineRuns
  /\ i \in Active /\ viewers[i].start < now
  /\ GetsPeers(i) \/ LosesPeers(i) \/ Parks(i) \/ Joins(i) \/ Plays(i) \/ Exits(i)
  /\ UNCHANGED <<configVars, driveVars, endVars, gate, samples, now, polled, shown>>

(* startTicking(): the guards are evaluated for the snapshot. *)
Snapshot ==
  /\ pc = "driving" /\ ~polled /\ now % 2 = 0
  /\ shown' = (shown \/ Evaluated # {})
  /\ UNCHANGED <<configVars, driveVars, viewerVars, endVars, gate, samples, now, polled>>

(* -------------------------------- the ramp ------------------------------- *)

Stop(because) == pc' = "stopping" /\ stopped' = because

(* A plausible slip: a clean poll does not end the breach. *)
SinceFirst == IF Breaching(viewers, now) /\ breachSince = None THEN now ELSE breachSince

(* A clean poll ends the breach. *)
Since ==
  IF ~Breaching(viewers, now) THEN None
  ELSE IF breachSince = None THEN now ELSE breachSince

(* A guard that is breached ends the ramp and makes the run invalid,       *)
(* whosever machine it is.                                                 *)
GuardBreach ==
  /\ Evaluated # {}
  /\ Stop("guard breach")
  /\ invalid' = invalid \cup Evaluated
  /\ UNCHANGED <<breachSince, streak, target, stepEnds>>

HeldLong == Since # None /\ now - Since >= Hold

Poll ==
  /\ Ramping /\ pc = "driving" /\ ~polled
  /\ polled' = TRUE
  /\ \/ /\ aborted
        /\ pc' = "stopping"
        /\ UNCHANGED <<stopped, invalid, breachSince, streak, target, stepEnds>>
     \/ ~aborted /\ GuardBreach
     \/ /\ ~aborted /\ Evaluated = {}
        /\ breachSince' = Since
        /\ streak' = IF Breaching(viewers, now) THEN streak + 1 ELSE 0
        /\ UNCHANGED invalid
        /\ \/ /\ HeldLong
              /\ Stop("stop condition")
              /\ UNCHANGED <<target, stepEnds>>
           \/ /\ ~HeldLong /\ now < stepEnds /\ now < MaxRun
              /\ UNCHANGED <<pc, stopped, target, stepEnds>>
           \/ /\ ~HeldLong /\ now >= MaxRun
              /\ Stop("run ceiling")
              /\ UNCHANGED <<target, stepEnds>>
           \/ /\ ~HeldLong /\ now >= stepEnds /\ now < MaxRun
              /\ target + RampStep > RampMax
              /\ Stop("ramp ceiling")
              /\ UNCHANGED <<target, stepEnds>>
           \/ /\ ~HeldLong /\ now >= stepEnds /\ now < MaxRun
              /\ target + RampStep <= RampMax
              /\ target' = target + RampStep
              /\ stepEnds' = now + RampInterval
              /\ UNCHANGED <<pc, stopped>>
  /\ UNCHANGED <<configVars, measuredFrom, viewerVars, gate, samples, hung, aborted, caveats,
                 now, shown>>

(* ------------------------------- the cohort ------------------------------ *)

(* The barrier opens, and the measurement begins. *)
Release ==
  /\ Settling /\ pc = "driving" /\ ~polled /\ ~aborted
  /\ measuredFrom' = now
  /\ UNCHANGED <<configVars, target, stepEnds, breachSince, streak, viewerVars, gate, samples,
                 endVars, now, polled, shown>>

AllFinished == Len(viewers) >= TotalStarts /\ Active = {}
LastStart == IF viewers = <<>> THEN 0 ELSE viewers[Len(viewers)].start

(* Measured from the last start, the last join and the release.            *)
StragglersOverdue ==
  /\ timed /\ viewers # <<>> /\ Active # {}
  /\ \A from \in {LastStart, measuredFrom, lastJoin} : now >= from + Duration

Wait ==
  /\ ~Ramping /\ pc = "driving" /\ ~polled
  /\ polled' = TRUE
  /\ \/ aborted /\ pc' = "stopping" /\ UNCHANGED <<stopped, hung>>
     \/ ~aborted /\ Settling /\ UNCHANGED <<pc, stopped, hung>>
     \/ /\ ~aborted /\ ~Settling
        /\ \/ AllFinished /\ Stop("finished") /\ UNCHANGED hung
           \/ /\ ~AllFinished /\ StragglersOverdue
              /\ hung' = TRUE /\ pc' = "stopping" /\ UNCHANGED stopped
           \/ /\ ~AllFinished /\ ~StragglersOverdue /\ now >= measuredFrom + MaxRun
              /\ Stop("run ceiling") /\ UNCHANGED hung
           \/ /\ ~AllFinished /\ ~StragglersOverdue /\ now < measuredFrom + MaxRun
              /\ UNCHANGED <<pc, stopped, hung>>
  /\ UNCHANGED <<configVars, driveVars, viewerVars, gate, samples, aborted, invalid, caveats,
                 now, shown>>

(* -------------------------------- the end -------------------------------- *)

(* An interrupt, at any time until the report is written.                  *)
Abort ==
  /\ pc # "over" /\ ~aborted
  /\ aborted' = TRUE
  /\ stopped' = "aborted"
  /\ invalid' = invalid \cup {"aborted"}
  /\ UNCHANGED <<configVars, driveVars, viewerVars, gate, samples, pc, hung, caveats, now,
                 polled, shown>>

(* stopAll(): whoever is left is asked to go, joined or not, and given the *)
(* time; those who had outlived their duration spoil the run.              *)
StopAll ==
  /\ pc = "stopping"
  /\ pc' = "stopped"
  /\ now' \in now .. now + StopTime
  /\ viewers' = [i \in DOMAIN viewers |->
                   IF i \in Active THEN Exited(viewers[i], "asked", now') ELSE viewers[i]]
  /\ stopped' = IF hung THEN "finished" ELSE stopped
  /\ invalid' = invalid \cup (IF hung THEN {"hung"} ELSE {})
  /\ UNCHANGED <<configVars, driveVars, gate, samples, lastJoin, mishaps, hung, aborted,
                 caveats, polled, shown>>

(* finish(): the guards once more, a sampler that never reported, though   *)
(* the run was longer than three samples, and viewers that failed.         *)
Findings ==
  Evaluated
    \cup (IF samples = <<>> /\ now > 3 * 2 THEN {"no samples"} ELSE {})
    \cup (IF Above(Cardinality(Failed(viewers)), Len(viewers), 5)
            THEN {"viewers failed"} ELSE {})

(* judge(): on a rig a finding makes the run invalid, on a participant's   *)
(* machine it is a caveat.  The profile is looked at nowhere else here.    *)
Finish ==
  /\ pc = "stopped"
  /\ pc' = "over"
  /\ \/ invalid' = invalid \cup Findings /\ UNCHANGED caveats
     \/ caveats' = Findings /\ UNCHANGED invalid
  /\ UNCHANGED <<configVars, driveVars, viewerVars, gate, samples, hung, stopped, aborted, now,
                 polled, shown>>

Next ==
  \/ Tick \/ Launch \/ CostMeasured \/ Snapshot
  \/ \E i \in DOMAIN viewers : Lives(i)
  \/ Poll \/ Release \/ Wait \/ Abort \/ StopAll \/ Finish

Spec == Init /\ [][Next]_vars

(* ------------------------------- properties ------------------------------ *)

(* controller.ts 937-941: a ramp stops on a condition only after every     *)
(* poll of the hold time saw it, across a step's end too, and does not     *)
(* climb on once that is so; nor does it say it met no breach.             *)
StopHeld ==
  /\ stopped = "stop condition" => streak > Hold
  /\ pc = "driving" \/ stopped = "ramp ceiling" => streak <= Hold

(* controller.ts 795-818: nobody is stopped as hung while it may still be  *)
(* watching: each of those the run gives up on has had the whole duration  *)
(* and grace since it started, since it joined, and since the release.     *)
HungAreOverdue ==
  [][hung' /\ ~hung =>
       \A i \in Active : \A from \in {viewers[i].start, viewers[i].joined, measuredFrom} :
         now >= from + Duration]_vars

(* schedule.ts 10-15: while the gate is not disabled, no two starts in a   *)
(* row are closer than the interval, and so the stagger guard never calls  *)
(* a run invalid for what the gate let through.                            *)
StaggerHolds ==
  /\ ~Disabled => \A i \in 2 .. Len(viewers) :
                    viewers[i].start - viewers[i - 1].start >= MinStartInterval
  /\ "stagger_adherence" \notin invalid \cup caveats

(* guard.ts 7-9: breaches are sticky, and a run that was shown to be       *)
(* breached is reported as invalid, or with a caveat by a participant.     *)
BreachesAreSticky == pc = "over" /\ shown => invalid \cup caveats # {}

(* rollup.ts 433-436, controller.ts 937-941: a ramp that found what it     *)
(* climbed for is a result, and a viewer the runner stopped no failure.    *)
StopConditionIsAResult ==
  pc = "over" /\ stopped = "stop condition" =>
    ("viewers failed" \in invalid => \E i \in DOMAIN viewers : viewers[i].exit = "crashed")
=============================================================================
