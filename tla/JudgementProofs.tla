---------------------------- MODULE JudgementProofs ----------------------------
(***************************************************************************)
(* Proofs about Judgement, for ramps and cohorts of any size, any holding  *)
(* time, duration, interval, jitter and cost of a viewer.                  *)
(*                                                                         *)
(* A breach that is being held has been seen by every poll since it began  *)
(* (Streaked); each start came an interval after the one the gate noted,   *)
(* unless the gate is disabled, so that no evaluation finds the stagger    *)
(* broken (Spaced, Unblamed); and no viewer started after the last start   *)
(* or joined after the last join (Noticed).                                *)
(***************************************************************************)
EXTENDS Judgement, FiniteSetTheorems, TLAPS

Viewer == [start: Nat, joined: Nat \cup {None}, parked: BOOLEAN,
           peers: {"few", "held", "evicted"}, plays: {"nothing", "well", "badly"},
           exit: {"none", "crashed", "clean", "asked"}, hadTime: BOOLEAN]
Gate == [last: Int, interval: Nat, cost: Nat, steady: Nat]

(* What the steps need to know of the variables' types. *)
Typed ==
  /\ now \in Nat /\ polled \in BOOLEAN /\ streak \in Nat
  /\ breachSince \in {None} \cup Nat
  /\ measuredFrom \in {None} \cup Nat
  /\ lastJoin \in Nat
  /\ gate \in Gate
  /\ viewers \in Seq(Viewer)

LastPoll == IF polled THEN now ELSE now - 1
Streaked ==
  pc = "driving" =>
    /\ breachSince = None => streak = 0
    /\ breachSince # None => /\ Ramping
                             /\ breachSince <= LastPoll
                             /\ streak = LastPoll - breachSince + 1
                             /\ streak <= Hold

Spaced ==
  /\ gate.interval >= MinStart
  /\ viewers # <<>> => gate.last = viewers[Len(viewers)].start
  /\ ~Disabled => \A i \in 2 .. Len(viewers) :
                    viewers[i].start - viewers[i - 1].start >= MinStart

Unblamed == "stagger_adherence" \notin invalid \cup caveats

Noticed ==
  /\ lastJoin <= now
  /\ \A i \in DOMAIN viewers : /\ viewers[i].start <= now
                               /\ viewers[i].start <= LastStart
                               /\ viewers[i].joined <= lastJoin

IInv ==
  /\ Typed
  /\ Streaked
  /\ StopHeld
  /\ Spaced
  /\ Unblamed
  /\ Noticed

(* What the gate notes of a start.                                         *)
LEMMA Noted ==
  ASSUME Typed, gate' \in NoteStart(gate, now)
  PROVE  gate' \in Gate /\ gate'.last = now /\ gate'.interval >= MinStart
<1>1. gate \in Gate /\ now \in Nat
  BY DEF Typed
<1>2. PICK i \in RollInterval : gate' = [gate EXCEPT !.last = now, !.interval = i]
  BY Zenon DEF NoteStart
<1>3. i \in Nat /\ i >= MinStart
  BY <1>2, GateAssumption DEF RollInterval, Long
<1>4. now \in Int
  BY <1>1
<1>5. gate' \in Gate
  BY <1>1, <1>2, <1>3, <1>4 DEF Gate
<1>6. gate'.last = now /\ gate'.interval = i
  BY <1>1, <1>2 DEF Gate
<1> QED
  BY <1>3, <1>5, <1>6

(* What the gate observes leaves its interval and last start alone.        *)
LEMMA Observed ==
  ASSUME Typed, gate' \in Observe(gate)
  PROVE  gate' \in Gate /\ gate'.last = gate.last /\ gate'.interval = gate.interval
<1>1. gate \in Gate
  BY DEF Typed
<1>2. CASE \E c \in MeasuredCosts : gate' = [gate EXCEPT !.cost = c]
  <2>1. PICK c \in MeasuredCosts : gate' = [gate EXCEPT !.cost = c]
    BY <1>2
  <2>2. c \in Nat
    BY <2>1, GateAssumption
  <2> QED
    BY <1>1, <2>1, <2>2 DEF Gate
<1>3. CASE \E c \in MeasuredSteady : gate' = [gate EXCEPT !.steady = c]
  <2>1. PICK c \in MeasuredSteady : gate' = [gate EXCEPT !.steady = c]
    BY <1>3
  <2>2. c \in Nat
    BY <2>1, GateAssumption
  <2> QED
    BY <1>1, <2>1, <2>2 DEF Gate
<1> QED
  BY Zenon, <1>2, <1>3 DEF Observe

(* What may become of what is known of a viewer.                           *)
LEMMA Changed ==
  ASSUME NEW v \in Viewer, NEW at \in Nat
  PROVE  /\ \A p \in {"held", "evicted"} :
              LET w == [v EXCEPT !.peers = p]
              IN  w \in Viewer /\ w.start = v.start /\ w.joined = v.joined
         /\ LET w == [v EXCEPT !.parked = TRUE]
            IN  w \in Viewer /\ w.start = v.start /\ w.joined = v.joined
         /\ LET w == [v EXCEPT !.joined = at, !.parked = FALSE]
            IN  w \in Viewer /\ w.start = v.start /\ w.joined = at
         /\ \A p \in {"well", "badly"} :
              LET w == [v EXCEPT !.plays = p]
              IN  w \in Viewer /\ w.start = v.start /\ w.joined = v.joined
         /\ \A how \in {"crashed", "clean", "asked"} :
              LET w == Exited(v, how, at)
              IN  w \in Viewer /\ w.start = v.start /\ w.joined = v.joined
<1>1. ASSUME NEW p \in {"held", "evicted"}
      PROVE  LET w == [v EXCEPT !.peers = p]
             IN  w \in Viewer /\ w.start = v.start /\ w.joined = v.joined
  BY DEF Viewer
<1>2. LET w == [v EXCEPT !.parked = TRUE]
      IN  w \in Viewer /\ w.start = v.start /\ w.joined = v.joined
  BY DEF Viewer
<1>3. LET w == [v EXCEPT !.joined = at, !.parked = FALSE]
      IN  w \in Viewer /\ w.start = v.start /\ w.joined = at
  BY DEF Viewer
<1>4. ASSUME NEW p \in {"well", "badly"}
      PROVE  LET w == [v EXCEPT !.plays = p]
             IN  w \in Viewer /\ w.start = v.start /\ w.joined = v.joined
  BY DEF Viewer
<1>5. ASSUME NEW how \in {"crashed", "clean", "asked"}
      PROVE  LET w == Exited(v, how, at)
             IN  w \in Viewer /\ w.start = v.start /\ w.joined = v.joined
  <2> DEFINE late == at - v.start >= PeerJoinAllowance
             x == [v EXCEPT !.exit = how, !.parked = FALSE, !.hadTime = late]
  <2>1. late \in BOOLEAN
    BY DEF late
  <2> HIDE DEF late
  <2>2. x \in Viewer /\ x.start = v.start /\ x.joined = v.joined
    BY <2>1 DEF Viewer
  <2>3. Exited(v, how, at) = x
    BY DEF Exited, late
  <2> QED
    BY <2>2, <2>3
<1> QED
  BY <1>1, <1>2, <1>3, <1>4, <1>5

(* A viewer's life: it started when it did, and its join is noted.         *)
LEMMA Lived ==
  ASSUME Typed, NEW i \in DOMAIN viewers, Lives(i)
  PROVE  \E w \in Viewer :
           /\ viewers' = [viewers EXCEPT ![i] = w]
           /\ w.start = viewers[i].start
           /\ \/ w.joined = viewers[i].joined /\ lastJoin' = lastJoin
              \/ w.joined = now /\ lastJoin' = now
<1> DEFINE v == viewers[i]
           Fine(w) == /\ viewers' = [viewers EXCEPT ![i] = w]
                      /\ w.start = v.start
                      /\ \/ w.joined = v.joined /\ lastJoin' = lastJoin
                         \/ w.joined = now /\ lastJoin' = now
<1>1. v \in Viewer /\ now \in Nat
  BY DEF Typed
<1> HIDE DEF v
<1>2. CASE GetsPeers(i)
  <2> DEFINE w == [v EXCEPT !.peers = "held"]
  <2>1. w \in Viewer /\ w.start = v.start /\ w.joined = v.joined
    BY <1>1, Changed
  <2>2. viewers' = [viewers EXCEPT ![i] = w] /\ lastJoin' = lastJoin
    BY <1>2 DEF GetsPeers, Becomes, v
  <2> HIDE DEF w
  <2> QED
    BY <2>1, <2>2 DEF v
<1>3. CASE LosesPeers(i)
  <2> DEFINE w == [v EXCEPT !.peers = "evicted"]
  <2>1. w \in Viewer /\ w.start = v.start /\ w.joined = v.joined
    BY <1>1, Changed
  <2>2. viewers' = [viewers EXCEPT ![i] = w] /\ lastJoin' = lastJoin
    BY <1>3 DEF LosesPeers, Becomes, v
  <2> HIDE DEF w
  <2> QED
    BY <2>1, <2>2 DEF v
<1>4. CASE Parks(i)
  <2> DEFINE w == [v EXCEPT !.parked = TRUE]
  <2>1. w \in Viewer /\ w.start = v.start /\ w.joined = v.joined
    BY <1>1, Changed
  <2>2. viewers' = [viewers EXCEPT ![i] = w] /\ lastJoin' = lastJoin
    BY <1>4 DEF Parks, Becomes, v
  <2> HIDE DEF w
  <2> QED
    BY <2>1, <2>2 DEF v
<1>5. CASE Joins(i)
  <2> DEFINE w == [v EXCEPT !.joined = now, !.parked = FALSE]
  <2>1. w \in Viewer /\ w.start = v.start /\ w.joined = now
    BY <1>1, Changed
  <2>2. viewers' = [viewers EXCEPT ![i] = w] /\ lastJoin' = now
    BY <1>5 DEF Joins, Becomes, v
  <2> HIDE DEF w
  <2> QED
    BY <2>1, <2>2 DEF v
<1>6. CASE Plays(i)
  <2>1. PICK p \in {"well", "badly"} : Becomes(i, [v EXCEPT !.plays = p])
    BY Zenon, <1>6 DEF Plays, v
  <2> DEFINE w == [v EXCEPT !.plays = p]
  <2>2. w \in Viewer /\ w.start = v.start /\ w.joined = v.joined
    BY <1>1, Changed
  <2>3. viewers' = [viewers EXCEPT ![i] = w] /\ lastJoin' = lastJoin
    BY <1>6, <2>1 DEF Plays, Becomes
  <2> HIDE DEF w
  <2> QED
    BY <2>2, <2>3 DEF v
<1>7. CASE Exits(i)
  <2>1. PICK how \in {"clean", "crashed"} : Becomes(i, Exited(v, how, now))
    BY Zenon, <1>7 DEF Exits, v
  <2> DEFINE w == Exited(v, how, now)
  <2>2. how \in {"crashed", "clean", "asked"}
    OBVIOUS
  <2>3. w \in Viewer /\ w.start = v.start /\ w.joined = v.joined
    BY Zenon, <1>1, <2>2, Changed
  <2>4. viewers' = [viewers EXCEPT ![i] = w] /\ lastJoin' = lastJoin
    BY <1>7, <2>1 DEF Exits, Becomes
  <2> HIDE DEF w
  <2> QED
    BY <2>3, <2>4 DEF v
<1> QED
  BY <1>2, <1>3, <1>4, <1>5, <1>6, <1>7 DEF Lives

(* The viewers there are after a start.                                    *)
LEMMA Launched ==
  ASSUME Typed, Launch
  PROVE  /\ viewers' \in Seq(Viewer) /\ Len(viewers') = Len(viewers) + 1
         /\ viewers'[Len(viewers')].start = now /\ viewers'[Len(viewers')].joined = None
         /\ \A i \in DOMAIN viewers : viewers'[i] = viewers[i]
<1> DEFINE w == NewViewer
<1>1. w \in Viewer /\ w.start = now /\ w.joined = None
  BY DEF Typed, Viewer, NewViewer
<1>2. viewers \in Seq(Viewer) /\ viewers' = Append(viewers, w)
  BY DEF Typed, Launch
<1> HIDE DEF w
<1> QED
  BY <1>1, <1>2

(* Who is asked to go started and joined when it did.                      *)
LEMMA Asked ==
  ASSUME Typed, StopAll
  PROVE  /\ now' \in Nat /\ now' >= now
         /\ viewers' \in Seq(Viewer) /\ DOMAIN viewers' = DOMAIN viewers
         /\ Len(viewers') = Len(viewers)
         /\ \A i \in DOMAIN viewers : /\ viewers'[i].start = viewers[i].start
                                      /\ viewers'[i].joined = viewers[i].joined
<1> DEFINE w(i) == IF i \in Active THEN Exited(viewers[i], "asked", now') ELSE viewers[i]
<1>1. viewers \in Seq(Viewer) /\ viewers' = [i \in DOMAIN viewers |-> w(i)]
  BY DEF Typed, StopAll
<1>2. now' \in Nat /\ now' >= now
  BY JudgementAssumption DEF Typed, StopAll
<1>3. ASSUME NEW i \in DOMAIN viewers
      PROVE  w(i) \in Viewer /\ w(i).start = viewers[i].start /\ w(i).joined = viewers[i].joined
  <2> DEFINE v == viewers[i]
  <2>1. v \in Viewer
    BY <1>1
  <2> HIDE DEF v
  <2>2. LET x == Exited(v, "asked", now')
        IN  x \in Viewer /\ x.start = v.start /\ x.joined = v.joined
    BY <1>2, <2>1, Changed
  <2> QED
    BY <2>1, <2>2 DEF v
<1> HIDE DEF w
<1>4. DOMAIN viewers = 1 .. Len(viewers) /\ Len(viewers) \in Nat
  BY <1>1
<1>5. viewers' \in [1 .. Len(viewers) -> Viewer]
  BY <1>1, <1>3, <1>4
<1>6. viewers' \in Seq(Viewer) /\ Len(viewers') = Len(viewers)
  BY <1>4, <1>5
<1> QED
  BY <1>1, <1>2, <1>3, <1>6

(* The types the proofs rest on are kept.                                  *)
LEMMA TypedKept ==
  ASSUME IInv, [Next]_vars
  PROVE  Typed'
<1>0. Typed
  BY DEF IInv
<1>1. CASE Tick
  <2>1. /\ now' = now + 1 /\ polled' = FALSE
        /\ UNCHANGED <<streak, breachSince, measuredFrom, lastJoin, gate, viewers>>
    BY <1>1 DEF Tick, driveVars, viewerVars
  <2>2. now' \in Nat
    BY <1>0, <2>1 DEF Typed
  <2> QED
    BY Zenon, <1>0, <2>1, <2>2 DEF Typed
<1>2. CASE Launch
  <2>1. /\ UNCHANGED <<now, polled, streak, breachSince, measuredFrom, lastJoin>>
        /\ gate' \in NoteStart(gate, now)
    BY <1>2 DEF Launch, driveVars
  <2> QED
    BY <1>0, <1>2, <2>1, Noted, Launched DEF Typed
<1>3. CASE CostMeasured
  <2>1. /\ UNCHANGED <<now, polled, streak, breachSince, measuredFrom, lastJoin, viewers>>
        /\ gate' \in Observe(gate)
    BY <1>3 DEF CostMeasured, driveVars, viewerVars
  <2> QED
    BY <1>0, <2>1, Observed DEF Typed
<1>4. CASE Snapshot
  BY <1>4, <1>0 DEF Snapshot, driveVars, viewerVars, Typed
<1>5. ASSUME NEW i \in DOMAIN viewers, Lives(i)
      PROVE  Typed'
  <2>1. UNCHANGED <<now, polled, streak, breachSince, measuredFrom, gate>>
    BY <1>5 DEF Lives, driveVars
  <2>2. PICK w \in Viewer : viewers' = [viewers EXCEPT ![i] = w] /\ lastJoin' \in {lastJoin, now}
    BY <1>0, <1>5, Lived
  <2>3. viewers' \in Seq(Viewer)
    BY <1>0, <2>2 DEF Typed
  <2> QED
    BY <1>0, <2>1, <2>2, <2>3 DEF Typed
<1>6. CASE Poll
  <2>1. UNCHANGED <<now, gate, viewers, lastJoin, measuredFrom>> /\ polled' = TRUE
    BY <1>6 DEF Poll, viewerVars
  <2>2. breachSince' \in {breachSince, now, None}
    BY <1>6 DEF Poll, GuardBreach, Since
  <2>3. streak' \in {streak, streak + 1, 0}
    BY <1>6 DEF Poll, GuardBreach
  <2> QED
    BY <1>0, <2>1, <2>2, <2>3 DEF Typed
<1>7. CASE Release
  BY <1>7, <1>0 DEF Release, viewerVars, Typed
<1>8. CASE Wait
  BY <1>8, <1>0 DEF Wait, driveVars, viewerVars, Typed
<1>9. CASE Abort
  BY <1>9, <1>0 DEF Abort, driveVars, viewerVars, Typed
<1>10. CASE StopAll
  <2>1. UNCHANGED <<polled, streak, breachSince, measuredFrom, gate, lastJoin>>
    BY <1>10 DEF StopAll, driveVars
  <2> QED
    BY <1>0, <1>10, <2>1, Asked DEF Typed
<1>11. CASE Finish
  BY <1>11, <1>0 DEF Finish, driveVars, viewerVars, Typed
<1>12. CASE UNCHANGED vars
  BY <1>12, <1>0 DEF vars, driveVars, viewerVars, Typed
<1> QED
  BY <1>1, <1>2, <1>3, <1>4, <1>5, <1>6, <1>7, <1>8, <1>9, <1>10, <1>11,
     <1>12 DEF Next

(* A breach is held through every poll since it began.                     *)
LEMMA StreakedKept ==
  ASSUME IInv, [Next]_vars
  PROVE  Streaked' /\ StopHeld'
<1>0. Typed /\ Streaked /\ StopHeld /\ Hold \in Nat /\ None = -1
  BY JudgementAssumption DEF IInv, None
<1>a. ASSUME UNCHANGED <<mode, pc, stopped, streak, breachSince, polled, now>>
      PROVE  Streaked' /\ StopHeld'
  BY <1>0, <1>a DEF Streaked, StopHeld, LastPoll, Ramping
<1>1. CASE Tick
  <2>1. /\ now' = now + 1 /\ polled' = FALSE /\ polled /\ pc' = pc /\ stopped' = stopped
        /\ UNCHANGED <<mode, streak, breachSince>>
    BY <1>1 DEF Tick, configVars, driveVars, endVars
  <2>2. now \in Nat
    BY <1>0 DEF Typed
  <2>3. LastPoll' = LastPoll
    BY <2>1, <2>2 DEF LastPoll
  <2> QED
    BY <1>0, <2>1, <2>3 DEF Streaked, StopHeld, Ramping
<1>2. CASE Launch
  BY <1>2, <1>a DEF Launch, configVars, driveVars, endVars
<1>3. CASE CostMeasured
  BY <1>3, <1>a DEF CostMeasured, configVars, driveVars, endVars
<1>4. CASE Snapshot
  BY <1>4, <1>a DEF Snapshot, configVars, driveVars, endVars
<1>5. ASSUME NEW i \in DOMAIN viewers, Lives(i)
      PROVE  Streaked' /\ StopHeld'
  BY <1>5, <1>a DEF Lives, configVars, driveVars, endVars
<1>6. CASE Poll
  <2>1. /\ pc = "driving" /\ ~polled /\ polled' /\ now \in Nat /\ now' = now
        /\ Ramping /\ mode' = mode
    BY <1>0, <1>6 DEF Poll, configVars, Typed
  <2>2. LastPoll = now - 1 /\ LastPoll' = now
    BY <2>1 DEF LastPoll
  <2>3. CASE aborted \/ Evaluated # {}
    <3>1. /\ pc' = "stopping" /\ streak' = streak
          /\ stopped' = stopped \/ stopped' = "guard breach"
      BY <1>6, <2>3 DEF Poll, GuardBreach, Stop
    <3> QED
      BY <1>0, <2>1, <3>1 DEF Streaked, StopHeld
  <2>4. CASE Evaluated = {} /\ ~aborted
    <3>1. breachSince' = Since /\ streak' = IF Breaching(viewers, now) THEN streak + 1 ELSE 0
      BY <1>6, <2>4 DEF Poll, GuardBreach
    <3>2. breachSince = None => streak = 0
      BY <1>0, <2>1 DEF Streaked
    <3>3. breachSince # None => breachSince \in Nat /\ streak = now - breachSince
      BY <1>0, <2>1, <2>2 DEF Streaked, Typed
    <3>4. breachSince' # None => breachSince' \in Nat /\ breachSince' <= now
                                  /\ streak' = now - breachSince' + 1
      BY <1>0, <2>1, <2>2, <3>1, <3>2, <3>3 DEF Since, Streaked
    <3>5. breachSince' = None => streak' = 0
      BY <1>0, <2>1, <3>1 DEF Since, Typed
    <3>6. CASE HeldLong
      <4>1. pc' = "stopping" /\ stopped' = "stop condition"
        BY <1>6, <2>4, <3>6 DEF Poll, Stop, GuardBreach
      <4>2. streak' > Hold
        BY <1>0, <2>1, <3>1, <3>4, <3>6 DEF HeldLong
      <4> QED
        BY <4>1, <4>2 DEF Streaked, StopHeld
    <3>7. CASE ~HeldLong
      <4>1. stopped' # "stop condition" \/ stopped' = stopped
        BY <1>6, <2>4, <3>7 DEF Poll, Stop, GuardBreach
      <4>2. streak' <= Hold
        BY <1>0, <2>1, <3>1, <3>4, <3>5, <3>7 DEF HeldLong
      <4>3. stopped # "stop condition"
        <5>1. streak \in Nat /\ Hold \in Nat
          BY <1>0 DEF Typed
        <5>2. stopped = "stop condition" => streak > Hold
          BY <1>0 DEF StopHeld
        <5>3. streak <= Hold
          BY <1>0, <2>1, <1>6 DEF StopHeld, Poll
        <5>4. ~(streak > Hold)
          BY <5>1, <5>3
        <5> QED
          BY <5>2, <5>4
      <4>4. Ramping'
        BY <2>1 DEF Ramping
      <4> QED
        BY <2>2, <3>4, <3>5, <4>1, <4>2, <4>3, <4>4 DEF Streaked, StopHeld
    <3> QED
      BY <3>6, <3>7
  <2> QED
    BY <2>3, <2>4
<1>7. CASE Release
  BY <1>7, <1>a DEF Release, configVars, endVars
<1>8. CASE Wait
  BY <1>8, <1>0 DEF Wait, Stop, configVars, driveVars, Typed, Streaked, StopHeld,
     LastPoll, Ramping
<1>9. CASE Abort
  BY <1>9, <1>0 DEF Abort, configVars, driveVars, Typed, Streaked, StopHeld,
     LastPoll, Ramping
<1>10. CASE StopAll
  BY <1>10, <1>0 DEF StopAll, configVars, driveVars, Streaked, StopHeld
<1>11. CASE Finish
  BY <1>11, <1>0 DEF Finish, configVars, driveVars, Streaked, StopHeld
<1>12. CASE UNCHANGED vars
  BY <1>12, <1>a DEF vars, configVars, driveVars, endVars
<1> QED
  BY <1>1, <1>2, <1>3, <1>4, <1>5, <1>6, <1>7, <1>8, <1>9, <1>10, <1>11,
     <1>12 DEF Next

(* Every start is an interval after the last.                              *)
LEMMA SpacedKept ==
  ASSUME IInv, [Next]_vars
  PROVE  Spaced'
<1>0. Typed /\ Spaced
  BY DEF IInv
<1>a. ASSUME UNCHANGED <<mode, gate, viewers>>
      PROVE  Spaced'
  BY <1>0, <1>a DEF Spaced, Disabled
<1>1. CASE Tick
  BY <1>1, <1>a DEF Tick, configVars, viewerVars
<1>2. CASE Launch
  <2>1. /\ gate' \in NoteStart(gate, now) /\ mode' = mode
        /\ ~Disabled => now - gate.last >= gate.interval
    BY <1>2 DEF Launch, Decide, configVars
  <2>2. gate'.last = now /\ gate'.interval >= MinStart
    BY <1>0, <2>1, Noted
  <2> DEFINE n == Len(viewers)
  <2>3. /\ n \in Nat /\ DOMAIN viewers = 1 .. n /\ Len(viewers') = n + 1
        /\ viewers'[n + 1].start = now
        /\ \A i \in 1 .. n : viewers'[i] = viewers[i]
    BY <1>0, <1>2, Launched DEF Typed
  <2>4. ~Disabled /\ n > 0 => now - viewers[n].start >= MinStart
    BY <1>0, <2>1, GateAssumption DEF Typed, Gate, Spaced
  <2> HIDE DEF n
  <2>5. ASSUME ~Disabled
        PROVE  \A i \in 2 .. n + 1 : viewers'[i].start - viewers'[i - 1].start >= MinStart
    <3> SUFFICES ASSUME NEW i \in 2 .. n + 1
                 PROVE  viewers'[i].start - viewers'[i - 1].start >= MinStart
      OBVIOUS
    <3>1. CASE i = n + 1
      <4>1. n > 0 /\ i - 1 = n /\ viewers'[n] = viewers[n]
        BY <2>3, <3>1
      <4> QED
        BY <2>3, <2>4, <2>5, <3>1, <4>1
    <3>2. CASE i # n + 1
      <4>1. i \in 2 .. n /\ i \in 1 .. n /\ i - 1 \in 1 .. n
        BY <2>3, <3>2
      <4> QED
        BY <1>0, <2>3, <2>5, <4>1 DEF Spaced, n
    <3> QED
      BY <3>1, <3>2
  <2> QED
    BY <2>1, <2>2, <2>3, <2>5 DEF Spaced, Disabled, n
<1>3. CASE CostMeasured
  <2>1. UNCHANGED <<viewers, mode>> /\ gate' \in Observe(gate)
    BY <1>3 DEF CostMeasured, viewerVars, configVars
  <2> QED
    BY <1>0, <2>1, Observed DEF Spaced, Disabled
<1>4. CASE Snapshot
  BY <1>4, <1>a DEF Snapshot, configVars, viewerVars
<1>5. ASSUME NEW i \in DOMAIN viewers, Lives(i)
      PROVE  Spaced'
  <2>1. UNCHANGED <<gate, mode>>
    BY <1>5 DEF Lives, configVars
  <2>2. PICK w \in Viewer : /\ viewers' = [viewers EXCEPT ![i] = w]
                            /\ w.start = viewers[i].start
    BY <1>0, <1>5, Lived
  <2>3. viewers \in Seq(Viewer)
    BY <1>0 DEF Typed
  <2>4. Len(viewers') = Len(viewers) /\ (viewers' = <<>> <=> viewers = <<>>)
    BY <2>2, <2>3
  <2>5. \A k \in 1 .. Len(viewers) : viewers'[k].start = viewers[k].start
    BY <2>2, <2>3
  <2> QED
    BY <1>0, <2>1, <2>3, <2>4, <2>5 DEF Spaced, Disabled
<1>6. CASE Poll
  BY <1>6, <1>a DEF Poll, configVars, viewerVars
<1>7. CASE Release
  BY <1>7, <1>a DEF Release, configVars, viewerVars
<1>8. CASE Wait
  BY <1>8, <1>a DEF Wait, configVars, viewerVars
<1>9. CASE Abort
  BY <1>9, <1>a DEF Abort, configVars, viewerVars
<1>10. CASE StopAll
  <2>1. UNCHANGED <<gate, mode>>
    BY <1>10 DEF StopAll, configVars
  <2>2. viewers \in Seq(Viewer)
    BY <1>0 DEF Typed
  <2>3. /\ Len(viewers') = Len(viewers) /\ viewers' \in Seq(Viewer)
        /\ \A k \in 1 .. Len(viewers) : viewers'[k].start = viewers[k].start
    BY <1>0, <1>10, <2>2, Asked
  <2> QED
    BY <1>0, <2>1, <2>2, <2>3 DEF Spaced, Disabled
<1>11. CASE Finish
  BY <1>11, <1>a DEF Finish, configVars, viewerVars
<1>12. CASE UNCHANGED vars
  BY <1>12, <1>a DEF vars, configVars, viewerVars
<1> QED
  BY <1>1, <1>2, <1>3, <1>4, <1>5, <1>6, <1>7, <1>8, <1>9, <1>10, <1>11,
     <1>12 DEF Next

(* Spaced starts are no breach, whoever evaluates them.                    *)
LEMMA Adherent ==
  ASSUME Typed, Spaced
  PROVE  "stagger_adherence" \notin Evaluated
<1>1. CASE Disabled
  BY Zenon, <1>1 DEF Evaluated, Breached
<1>2. CASE ~Disabled
  <2> DEFINE close == {i \in 2 .. Len(viewers) :
                         2 * (viewers[i].start - viewers[i - 1].start) < MinStartInterval}
  <2>1. viewers \in Seq(Viewer) /\ Len(viewers) \in Nat /\ DOMAIN viewers = 1 .. Len(viewers)
    BY DEF Typed
  <2>2. \A i \in DOMAIN viewers : viewers[i].start \in Nat
    <3> SUFFICES ASSUME NEW i \in DOMAIN viewers PROVE viewers[i].start \in Nat
      OBVIOUS
    <3>1. viewers[i] \in Viewer
      BY <2>1
    <3> QED
      BY <3>1 DEF Viewer
  <2>3. ASSUME NEW i \in 2 .. Len(viewers)
        PROVE  ~(2 * (viewers[i].start - viewers[i - 1].start) < MinStartInterval)
    <3>1. i \in DOMAIN viewers /\ i - 1 \in DOMAIN viewers
      BY <2>1, <2>3
    <3>2. viewers[i].start \in Nat /\ viewers[i - 1].start \in Nat
      BY <2>2, <3>1
    <3>3. viewers[i].start - viewers[i - 1].start >= MinStart
      BY <1>2, <2>3 DEF Spaced
    <3> QED
      BY <3>2, <3>3, OneInterval, GateAssumption
  <2>4. close = {}
    BY <2>3
  <2> HIDE DEF close
  <2>5. Cardinality(close) = 0
    BY <2>4, FS_EmptySet
  <2>6. ~Above(Cardinality(close), Len(viewers) - 1, 5)
    BY <2>1, <2>5 DEF Above
  <2>7. ~StaggerAdherence(viewers)
    BY <2>6 DEF StaggerAdherence, close
  <2> QED
    BY Zenon, <2>7 DEF Evaluated, Breached
<1> QED
  BY <1>1, <1>2

(* No run is told off for its starts.                                      *)
LEMMA UnblamedKept ==
  ASSUME IInv, [Next]_vars
  PROVE  Unblamed'
<1>0. Unblamed /\ "stagger_adherence" \notin Evaluated
  BY Adherent DEF IInv
<1>a. ASSUME UNCHANGED <<invalid, caveats>>
      PROVE  Unblamed'
  BY <1>0, <1>a DEF Unblamed
<1>1. CASE Tick
  BY <1>1, <1>a DEF Tick, endVars
<1>2. CASE Launch
  BY <1>2, <1>a DEF Launch, endVars
<1>3. CASE CostMeasured
  BY <1>3, <1>a DEF CostMeasured, endVars
<1>4. CASE Snapshot
  BY <1>4, <1>a DEF Snapshot, endVars
<1>5. ASSUME NEW i \in DOMAIN viewers, Lives(i)
      PROVE  Unblamed'
  BY <1>5, <1>a DEF Lives, endVars
<1>6. CASE Poll
  BY <1>6, <1>0 DEF Poll, GuardBreach, Unblamed
<1>7. CASE Release
  BY <1>7, <1>a DEF Release, endVars
<1>8. CASE Wait
  BY <1>8, <1>a DEF Wait
<1>9. CASE Abort
  BY <1>9, <1>0 DEF Abort, Unblamed
<1>10. CASE StopAll
  BY <1>10, <1>0 DEF StopAll, Unblamed
<1>11. CASE Finish
  <2>1. "stagger_adherence" \notin Findings
    BY <1>0 DEF Findings
  <2> QED
    BY <1>11, <1>0, <2>1 DEF Finish, Unblamed
<1>12. CASE UNCHANGED vars
  BY <1>12, <1>a DEF vars, endVars
<1> QED
  BY <1>1, <1>2, <1>3, <1>4, <1>5, <1>6, <1>7, <1>8, <1>9, <1>10, <1>11,
     <1>12 DEF Next

(* What a viewer's record says of its times.                               *)
LEMMA Timed ==
  ASSUME Typed
  PROVE  /\ viewers \in Seq(Viewer) /\ Len(viewers) \in Nat
         /\ DOMAIN viewers = 1 .. Len(viewers)
         /\ \A i \in DOMAIN viewers : viewers[i].start \in Nat /\ viewers[i].joined \in Int
<1>1. viewers \in Seq(Viewer) /\ Len(viewers) \in Nat /\ DOMAIN viewers = 1 .. Len(viewers)
  BY DEF Typed
<1>2. ASSUME NEW i \in DOMAIN viewers
      PROVE  viewers[i].start \in Nat /\ viewers[i].joined \in Int
  <2>1. viewers[i] \in Viewer
    BY <1>1
  <2> QED
    BY <2>1 DEF Viewer, None
<1> QED
  BY <1>1, <1>2

(* The last start and the last join are the last.                          *)
LEMMA NoticedKept ==
  ASSUME IInv, [Next]_vars
  PROVE  Noticed'
<1>0. Typed /\ Noticed /\ now \in Nat /\ lastJoin \in Nat
  BY DEF IInv, Typed
<1>a. ASSUME UNCHANGED <<viewers, lastJoin>>, now' \in Nat, now' >= now
      PROVE  Noticed'
  BY <1>0, <1>a, Timed DEF Noticed, LastStart
<1>b. ASSUME UNCHANGED now
      PROVE  now' \in Nat /\ now' >= now
  BY <1>0, <1>b
<1>1. CASE Tick
  <2>1. now' = now + 1 /\ UNCHANGED <<viewers, lastJoin>>
    BY <1>1 DEF Tick, viewerVars
  <2>2. now' \in Nat /\ now' >= now
    BY <1>0, <2>1
  <2> QED
    BY <1>a, <2>1, <2>2
<1>2. CASE Launch
  <2>1. UNCHANGED <<now, lastJoin>>
    BY <1>2 DEF Launch
  <2> DEFINE n == Len(viewers)
  <2>2. /\ n \in Nat /\ DOMAIN viewers = 1 .. n /\ Len(viewers') = n + 1
        /\ DOMAIN viewers' = 1 .. n + 1
        /\ viewers'[n + 1].start = now /\ viewers'[n + 1].joined = None
        /\ \A i \in 1 .. n : viewers'[i] = viewers[i]
    BY <1>0, <1>2, Launched, Timed
  <2>3. LastStart' = now
    BY <2>2 DEF LastStart
  <2> HIDE DEF n
  <2>4. ASSUME NEW i \in DOMAIN viewers'
        PROVE  /\ viewers'[i].start <= now /\ viewers'[i].joined <= lastJoin
    <3>1. CASE i = n + 1
      BY <1>0, <2>2, <3>1 DEF None
    <3>2. CASE i # n + 1
      <4>1. i \in 1 .. n
        BY <2>2, <3>2
      <4> QED
        BY <1>0, <2>2, <4>1 DEF Noticed
    <3> QED
      BY <3>1, <3>2
  <2> QED
    BY <1>0, <2>1, <2>3, <2>4 DEF Noticed
<1>3. CASE CostMeasured
  BY <1>3, <1>a, <1>b DEF CostMeasured, viewerVars
<1>4. CASE Snapshot
  BY <1>4, <1>a, <1>b DEF Snapshot, viewerVars
<1>5. ASSUME NEW i \in DOMAIN viewers, Lives(i)
      PROVE  Noticed'
  <2>1. now' = now
    BY <1>5 DEF Lives
  <2>2. PICK w \in Viewer :
          /\ viewers' = [viewers EXCEPT ![i] = w]
          /\ w.start = viewers[i].start
          /\ \/ w.joined = viewers[i].joined /\ lastJoin' = lastJoin
             \/ w.joined = now /\ lastJoin' = now
    BY <1>0, <1>5, Lived
  <2>3. /\ DOMAIN viewers' = DOMAIN viewers /\ Len(viewers') = Len(viewers)
        /\ (viewers' = <<>> <=> viewers = <<>>)
        /\ \A k \in DOMAIN viewers : viewers'[k].start = viewers[k].start
        /\ \A k \in DOMAIN viewers \ {i} : viewers'[k].joined = viewers[k].joined
        /\ viewers'[i].joined = w.joined
    BY <1>0, <2>2, Timed
  <2>4. LastStart' = LastStart
    BY <1>0, <2>3, Timed DEF LastStart
  <2>5. ASSUME NEW k \in DOMAIN viewers
        PROVE  viewers'[k].joined <= lastJoin'
    BY <1>0, <2>2, <2>3, <2>5, Timed DEF Noticed
  <2>6. lastJoin' <= now
    BY <1>0, <2>2 DEF Noticed
  <2> QED
    BY <1>0, <2>1, <2>3, <2>4, <2>5, <2>6 DEF Noticed
<1>6. CASE Poll
  BY <1>6, <1>a, <1>b DEF Poll, viewerVars
<1>7. CASE Release
  BY <1>7, <1>a, <1>b DEF Release, viewerVars
<1>8. CASE Wait
  BY <1>8, <1>a, <1>b DEF Wait, viewerVars
<1>9. CASE Abort
  BY <1>9, <1>a, <1>b DEF Abort, viewerVars
<1>10. CASE StopAll
  <2>1. lastJoin' = lastJoin
    BY <1>10 DEF StopAll
  <2>2. /\ now' \in Nat /\ now' >= now
        /\ DOMAIN viewers' = DOMAIN viewers /\ Len(viewers') = Len(viewers)
        /\ viewers' \in Seq(Viewer)
        /\ \A i \in DOMAIN viewers : /\ viewers'[i].start = viewers[i].start
                                     /\ viewers'[i].joined = viewers[i].joined
    BY <1>0, <1>10, Asked
  <2>3. LastStart' = LastStart
    BY <1>0, <2>2, Timed DEF LastStart
  <2> QED
    BY <1>0, <2>1, <2>2, <2>3, Timed DEF Noticed
<1>11. CASE Finish
  BY <1>11, <1>a, <1>b DEF Finish, viewerVars
<1>12. CASE UNCHANGED vars
  BY <1>12, <1>a, <1>b DEF vars, viewerVars
<1> QED
  BY <1>1, <1>2, <1>3, <1>4, <1>5, <1>6, <1>7, <1>8, <1>9, <1>10, <1>11,
     <1>12 DEF Next

(* The invariant holds in every state.                                     *)
LEMMA Inductive == Spec => []IInv
<1>1. Init => IInv
  <2> SUFFICES ASSUME Init PROVE IInv
    OBVIOUS
  <2>1. gate \in NewGates /\ viewers = <<>> /\ now = 0 /\ polled = TRUE /\ streak = 0
        /\ breachSince = None /\ pc = "driving" /\ stopped = "none" /\ ~aborted
        /\ lastJoin = 0 /\ invalid = {} /\ caveats = {}
        /\ measuredFrom \in {None, 0}
    BY DEF Init
  <2>2. gate \in Gate /\ gate.interval >= MinStart
    BY <2>1, GateAssumption DEF NewGates, RollInterval, Long, Gate
  <2>3. <<>> \in Seq(Viewer)
    OBVIOUS
  <2>4. Typed
    BY <2>1, <2>2, <2>3 DEF Typed
  <2>5. Streaked /\ StopHeld
    BY <2>1, JudgementAssumption DEF Streaked, StopHeld
  <2>6. Spaced
    BY <2>1, <2>2 DEF Spaced
  <2>7. Unblamed /\ Noticed
    BY <2>1 DEF Unblamed, Noticed
  <2> QED
    BY <2>4, <2>5, <2>6, <2>7 DEF IInv
<1>2. IInv /\ [Next]_vars => IInv'
  BY TypedKept, StreakedKept, SpacedKept, UnblamedKept, NoticedKept DEF IInv
<1> QED
  BY <1>1, <1>2, PTL DEF Spec

(* controller.ts driveRamp: a ramp stops on its condition only after every *)
(* poll of the hold time saw it, and climbs no further once that is so.    *)
THEOREM ConditionHeld == Spec => []StopHeld
<1>1. IInv => StopHeld
  BY DEF IInv
<1> QED
  BY Inductive, <1>1, PTL

(* controller.ts stragglersOverdue: whoever is stopped as hung has had the *)
(* duration and the grace, from its start, its join and the release.       *)
THEOREM NobodyStoppedEarly == Spec => HungAreOverdue
<1>1. ASSUME IInv, [Next]_vars, hung', ~hung
      PROVE  \A i \in Active : \A from \in {viewers[i].start, viewers[i].joined, measuredFrom} :
               now >= from + Duration
  <2>1. Wait /\ StragglersOverdue
    BY <1>1 DEF Next, Tick, Launch, CostMeasured, Snapshot, Lives, Poll, Release, Wait, Abort,
       StopAll, Finish, vars, endVars
  <2>2. Typed /\ Noticed /\ now \in Nat /\ Duration \in Nat /\ lastJoin \in Nat
        /\ measuredFrom \in Int
    BY <1>1, JudgementAssumption DEF IInv, Typed, None
  <2>3. /\ viewers # <<>>
        /\ now >= LastStart + Duration
        /\ now >= measuredFrom + Duration
        /\ now >= lastJoin + Duration
    BY <2>1 DEF StragglersOverdue
  <2>4. LastStart \in Nat
    BY <2>2, <2>3, Timed DEF LastStart
  <2>5. ASSUME NEW i \in Active
        PROVE  now >= viewers[i].start + Duration /\ now >= viewers[i].joined + Duration
    <3>1. /\ i \in DOMAIN viewers
          /\ viewers[i].start <= LastStart /\ viewers[i].joined <= lastJoin
          /\ viewers[i].start \in Nat /\ viewers[i].joined \in Int
      BY <2>2, <2>5, Timed DEF Active, Noticed
    <3> QED
      BY <2>2, <2>3, <2>4, <3>1
  <2> QED
    BY <2>3, <2>5
<1>2. IInv /\ [Next]_vars =>
        [hung' /\ ~hung =>
           \A i \in Active : \A from \in {viewers[i].start, viewers[i].joined, measuredFrom} :
             now >= from + Duration]_vars
  BY <1>1
<1> QED
  BY Inductive, <1>2, PTL DEF Spec, HungAreOverdue

(* schedule.ts: no two starts are closer than the interval, and no run is  *)
(* told off for its starts, whatever the jitter and the costs.             *)
THEOREM StaggerKept == Spec => []StaggerHolds
<1>1. IInv => StaggerHolds
  BY OneInterval DEF IInv, Spaced, Unblamed, StaggerHolds
<1> QED
  BY Inductive, <1>1, PTL
=============================================================================
