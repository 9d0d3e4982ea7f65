------------------------------ MODULE MockViewer ------------------------------
(***************************************************************************)
(* One viewer process that speaks the contract (mock/viewer.ts and         *)
(* mock/standalone.ts), the pipe and channel its lines take                *)
(* (viewer/spawn.ts, agent.ts), and the record the controller folds them   *)
(* into.  `exit` and the lines are two paths out of the process: node may  *)
(* report the exit while lines are still to be read.                       *)
(*                                                                         *)
(* A turn of the playback loop is one step.  Time is simulated time, in    *)
(* ticks finer than the decimals a line gives, and moves by what the step  *)
(* sleeps.  The mock's segments are all of one length; those of a stream   *)
(* need not be, and the record is for both, so each has its own here.      *)
(***************************************************************************)
EXTENDS ViewerRecord

CONSTANTS
  SegmentTicks,  \* set: how long a segment is (config.segmentSeconds)
  FetchTicks,    \* set: what one fetch takes
  MediaGrain,    \* ticks of a hundredth of a second: toFixed(2)
  StallGrain,    \* ticks of a thousandth: toFixed(3)
  Runway,        \* config.runwaySeconds
  PeerLimit,     \* --peers; --peer-up is one
  Wanted,        \* --segments, where there is no --duration
  Duration,      \* --duration, where it is given
  MaxMishaps,    \* bound: skips and body failures
  MaxTurns,      \* bound: segments of a viewer that never finishes
  MaxPipe        \* bound: lines not read yet, before another turn

ASSUME MockAssumption ==
  /\ SegmentTicks \subseteq Nat \ {0} /\ FetchTicks \subseteq Nat \ {0}
  /\ {MediaGrain, StallGrain, PeerLimit} \subseteq Nat \ {0}
  /\ {Runway, Wanted, Duration, MaxMishaps, MaxTurns, MaxPipe} \subseteq Nat

VARIABLES
  config,   \* what the process is to end at
  pc,       \* "peering", "held", "joining", "playing", "reported" or "ended"
  told,     \* a SIGTERM reached a process that listens
  clock,    \* elapsed()
  peers,
  count,    \* the viewer's own counters
  mishaps,
  pipe,     \* lines written and not folded yet
  status,   \* how the process ended: "none", "clean", "failed", "signal",
            \* or "lost", with its machine
  asked,    \* the agent asked for the exit: "no", "term" or "kill"
  record,   \* the controller's
  agentUp,  \* its agent is there
  folded    \* history: the segments folded so far

viewerVars == <<config, pc, told, clock, peers, count, mishaps, status>>
controllerVars == <<record, agentUp, folded>>
vars == <<viewerVars, controllerVars, pipe, asked>>

Bounds == {"segments", "duration", "never"}  \* what ends it; MOCK_HANG never does
Nothing == [media |-> 0, stalledS |-> 0, stalls |-> 0, played |-> 0,
            bodyFailures |-> 0, skipped |-> 0]

Init ==
  /\ config \in Bounds
  /\ pc = "peering" /\ told = FALSE /\ clock = 0 /\ peers = 0
  /\ count = Nothing /\ mishaps = 0
  /\ pipe = <<>> /\ status = "none" /\ asked = "no"
  /\ record = NoRecord /\ agentUp = TRUE /\ folded = <<>>

(* Number(x.toFixed(d)), for a grain of 10^-d seconds: the nearest, and of *)
(* two as near the larger.                                                 *)
Rounded(x, grain) == ((2 * x + grain) \div (2 * grain)) * grain

Running == status = "none"
Emit(lines) == pipe' = pipe \o lines
PeersLine(n) == [ev |-> "peers", peers |-> n]

(* --------------------------- before the stream --------------------------- *)

(* The loops up to peer-up and at the barrier: peers arrive on the clock.  *)
PeersArrive ==
  /\ Running /\ ~told /\ Len(pipe) <= MaxPipe
  /\ pc \in {"peering", "held"} /\ peers < PeerLimit
  /\ \E n \in peers + 1 .. PeerLimit :
       /\ peers' = n
       /\ Emit(<<PeersLine(n)>>)
  /\ UNCHANGED <<config, pc, told, clock, count, mishaps, status, asked, controllerVars>>

(* With --hold it waits for the barrier, without it does not.              *)
PeerUp ==
  /\ Running /\ pc = "peering" /\ ~told /\ peers >= 1
  /\ \/ pc' = "held" /\ Emit(<<[ev |-> "held", peers |-> peers]>>)
     \/ pc' = "joining" /\ UNCHANGED pipe
  /\ UNCHANGED <<config, told, clock, peers, count, mishaps, status, asked, controllerVars>>

(* A line on stdin, or stdin closed. *)
Released ==
  /\ Running /\ pc = "held" /\ ~told
  /\ pc' = "joining"
  /\ Emit(<<[ev |-> "released", peers |-> peers]>>)
  /\ UNCHANGED <<config, told, clock, peers, count, mishaps, status, asked, controllerVars>>

(* Told to end before it joined: emitSummary() reads variables declared    *)
(* further down, so the process fails instead of reporting.                *)
EndsUnjoined ==
  /\ Running /\ pc \in {"peering", "held"} /\ told
  /\ Emit(IF pc = "held" THEN <<[ev |-> "released", peers |-> peers]>> ELSE <<>>)
  /\ pc' = "ended" /\ status' = "failed"
  /\ UNCHANGED <<config, told, clock, peers, count, mishaps, asked, controllerVars>>

Joins ==
  /\ Running /\ pc = "joining"
  /\ \/ /\ pc' = "playing" /\ Emit(<<[ev |-> "joined"]>>) /\ UNCHANGED status
     \/ /\ pc' = "ended" /\ Emit(<<[ev |-> "error"]>>) /\ status' = "failed"
  /\ UNCHANGED <<config, told, clock, peers, count, mishaps, asked, controllerVars>>

(* -------------------------------- playback ------------------------------- *)

(* The top of the loop: is there another turn?  A duration takes the place *)
(* of the segments, and a viewer that hangs has neither.                   *)
BoundReached ==
  \/ config = "segments" /\ count.played >= Wanted
  \/ config = "duration" /\ clock >= Duration

GoesOn ==
  /\ Running /\ pc = "playing" /\ ~told /\ ~BoundReached
  /\ Len(pipe) <= MaxPipe

(* Peers arrive until the limit, or connections are taken away. *)
PeersNow(n) == n \in peers .. PeerLimit \/ n = 1
Announced(n) == IF n = peers THEN <<>> ELSE <<PeersLine(n)>>

Skip ==
  /\ GoesOn /\ mishaps < MaxMishaps
  /\ \E n \in 0 .. PeerLimit :
       /\ PeersNow(n)
       /\ peers' = n
       /\ Emit(Append(Announced(n), [ev |-> "skip", from |-> 1, to |-> 4]))
  /\ count' = [count EXCEPT !.skipped = @ + 3]
  /\ mishaps' = mishaps + 1
  /\ UNCHANGED <<config, pc, told, clock, status, asked, controllerVars>>

BodyFails ==
  /\ GoesOn /\ mishaps < MaxMishaps
  /\ \E fetch \in FetchTicks, strike \in {1, 2} :
       /\ clock' = clock + fetch
       /\ Emit(<<[ev |-> "body_failure", strike |-> strike]>>
               \o IF strike = 2 THEN <<[ev |-> "gap", source |-> "local"]>> ELSE <<>>)
  /\ count' = [count EXCEPT !.bodyFailures = @ + 1]
  /\ mishaps' = mishaps + 1
  /\ UNCHANGED <<config, pc, told, peers, status, asked, controllerVars>>

(* The segment is late when it lands after everything before it was        *)
(* played; afterwards the buffer is held at the runway.                    *)
Plays ==
  /\ GoesOn /\ count.played < MaxTurns
  /\ \E segment \in SegmentTicks, fetch \in FetchTicks, n \in 0 .. PeerLimit :
       LET now == clock + fetch
           due == count.media + count.stalledS
           stalled == now > due /\ count.played > 0
           stallS == AddIf(stalled, now - due)
           ahead == count.media + segment - (now - (count.stalledS + stallS))
       IN  /\ PeersNow(n)
           /\ peers' = n
           /\ clock' = now + AddIf(ahead > Runway, ahead - Runway)
           /\ count' = [count EXCEPT !.media = @ + segment, !.played = @ + 1,
                          !.stalls = @ + AddIf(stalled, 1), !.stalledS = @ + stallS]
           /\ Emit(Append(Announced(n),
                     [ev |-> "segment", segmentS |-> segment, stalled |-> stalled,
                      stallS |-> Rounded(stallS, StallGrain), peers |-> n]))
  /\ UNCHANGED <<config, pc, told, mishaps, status, asked, controllerVars>>

(* emitSummary() *)
Summary ==
  [ev |-> "summary", segments |-> count.played, mediaS |-> Rounded(count.media, MediaGrain),
   stalls |-> count.stalls, stalledS |-> Rounded(count.stalledS, StallGrain),
   skipped |-> count.skipped, bodyFailures |-> count.bodyFailures, peers |-> peers,
   finalized |-> config = "segments" /\ count.played >= Wanted]

Ends ==
  /\ Running /\ pc = "playing"
  /\ told \/ BoundReached
  /\ pc' = "reported"
  /\ Emit(<<Summary>>)
  /\ UNCHANGED <<config, told, clock, peers, count, mishaps, status, asked, controllerVars>>

Exits ==
  /\ Running /\ pc = "reported"
  /\ pc' = "ended" /\ status' = "clean"
  /\ UNCHANGED <<config, told, clock, peers, count, mishaps, pipe, asked, controllerVars>>

(* MOCK_CRASH_AFTER_MS, at any moment. *)
Crashes ==
  /\ Running
  /\ pc' = "ended" /\ status' = "failed"
  /\ UNCHANGED <<config, told, clock, peers, count, mishaps, pipe, asked, controllerVars>>

(* ------------------------- the agent and the way ------------------------- *)

(* handle.stop(): a SIGTERM, and a SIGKILL when the grace is over. *)
Term ==
  /\ Running /\ asked = "no"
  /\ asked' = "term"
  /\ told' \in BOOLEAN  \* MOCK_IGNORE_SIGTERM
  /\ UNCHANGED <<config, pc, clock, peers, count, mishaps, status, pipe, controllerVars>>

Kill ==
  /\ Running /\ asked = "term"
  /\ asked' = "kill" /\ pc' = "ended" /\ status' = "signal"
  /\ UNCHANGED <<config, told, clock, peers, count, mishaps, pipe, controllerVars>>

(* One line arrives and is folded. *)
LineRead ==
  /\ pipe # <<>>
  /\ record' = Apply(record, Head(pipe))
  /\ folded' = IF Head(pipe).ev = "segment"
       THEN Append(folded, [media |-> Head(pipe).segmentS, stall |-> Head(pipe).stallS])
       ELSE folded
  /\ pipe' = Tail(pipe)
  /\ UNCHANGED <<viewerVars, agentUp, asked>>

(* A stray write on stdout, or an event of a newer viewer. *)
StrayLine ==
  /\ Running /\ Len(pipe) = 0 /\ mishaps < MaxMishaps
  /\ \E ev \in {"malformed", "unknown"} : Emit(<<[ev |-> ev]>>)
  /\ mishaps' = mishaps + 1
  /\ UNCHANGED <<config, pc, told, clock, peers, count, status, asked, controllerVars>>

(* viewer_exited, which the agent sends when it hears of the exit.         *)
ExitHeard ==
  /\ ~Running /\ status # "lost" /\ record.exit = "none"
  /\ record' = NoteExit(record, IF asked # "no" THEN "asked"
                                ELSE IF status = "clean" THEN "clean" ELSE "crashed")
  /\ UNCHANGED <<viewerVars, pipe, asked, agentUp, folded>>

(* The machine goes, and takes its viewer with it.  Of what was on its way *)
(* the first lines may still arrive, and so may an exit.                   *)
AgentDies ==
  /\ agentUp /\ agentUp' = FALSE
  /\ pc' = "ended" /\ status' = IF Running THEN "lost" ELSE status
  /\ \E k \in 0 .. Len(pipe) : pipe' = SubSeq(pipe, 1, k)
  /\ UNCHANGED <<config, told, clock, peers, count, mishaps, asked, record, folded>>

(* loseAgent(): the controller notices, before or after what still arrives.*)
AgentLost ==
  /\ ~agentUp /\ ~record.lost
  /\ record' = NoteAgentLost(record)
  /\ UNCHANGED <<viewerVars, pipe, asked, agentUp, folded>>

Progress == PeerUp \/ EndsUnjoined \/ Joins \/ Ends \/ Exits

Next ==
  \/ Progress \/ PeersArrive \/ Released \/ Skip \/ BodyFails \/ Plays \/ StrayLine
  \/ Crashes \/ Term \/ Kill \/ LineRead \/ ExitHeard \/ AgentDies \/ AgentLost

Spec == Init /\ [][Next]_vars

(* The process runs while it lives, what was written and is not lost is    *)
(* read, and a closed channel is noticed.  Nobody has to stop a viewer, no *)
(* peer has to arrive, and an exit need not be heard of a machine that is  *)
(* gone.                                                                   *)
Read == LineRead \/ AgentLost \/ (agentUp /\ ExitHeard)
FairSpec == Spec /\ WF_vars(Progress) /\ WF_vars(Read)

(* ------------------------------- properties ------------------------------ *)

TypeOK ==
  /\ config \in Bounds
  /\ pc \in {"peering", "held", "joining", "playing", "reported", "ended"}
  /\ told \in BOOLEAN /\ clock \in Nat /\ peers \in 0 .. PeerLimit
  /\ mishaps \in 0 .. MaxMishaps
  /\ status \in {"none", "clean", "failed", "signal", "lost"}
  /\ asked \in {"no", "term", "kill"} /\ agentUp \in BOOLEAN
  /\ (status = "none") = (pc # "ended")

(* rollup.ts 4-8: the summary is authoritative, and a viewer that dies     *)
(* without one is judged on what was folded: so where there is a summary,  *)
(* it must say what the fold already had, but for what was rounded away: a *)
(* half of the last digit of the media, and of that of each stall and of   *)
(* their total.                                                            *)
Within(a, b, twice) == 2 * a <= 2 * b + twice /\ 2 * b <= 2 * a + twice
Close(b, a) ==
  /\ \A f \in {"segments", "stalls", "skipped", "bodyFailures", "peersLast"} : a[f] = b[f]
  /\ Within(a.mediaS, b.mediaS, MediaGrain)
  /\ Within(a.stalledS, b.stalledS, StallGrain * (b.stalls + 1))
SummaryAgrees ==
  [][record'.summarySeen /\ ~record.summarySeen => Close(record, record')]_vars

(* rollup.ts 344-364: the window and its running sums are the shortest run *)
(* of the newest segments that covers Trailing seconds, or all of them.    *)
From(k) == SubSeq(folded, k, Len(folded))
MediaFrom(k) == Sum(From(k), "media")
WindowIsTrailing ==
  folded # <<>> =>
    \E k \in 1 .. Len(folded) :
      /\ record.window = [items |-> From(k), media |-> MediaFrom(k),
                          stall |-> Sum(From(k), "stall")]
      /\ k > 1 => MediaFrom(k) >= Trailing
      /\ k < Len(folded) => MediaFrom(k + 1) < Trailing

(* spawn.ts 173-179, rollup.ts 411-439: a viewer that listens ends when it *)
(* is told to, and is not taken for one that crashed, nor for a lost one   *)
(* when its exit was heard of, whether its machine was lost before, after  *)
(* or between its exit and its last lines.  Where the machine was not, and *)
(* the viewer had joined and was let end by itself, its summary is in the  *)
(* record once the last of its lines is, though its exit may have been     *)
(* known before them.                                                      *)
Accounted ==
  /\ ~Running /\ pipe = <<>>
  /\ IF record.exit = "none" THEN Outcome(record) = "agent_lost"
     ELSE Outcome(record) \in {"never_joined", "stalled_out", "killed"}
  /\ agentUp /\ record.joined /\ status = "clean" => record.summarySeen
ReportsWhenTold == told ~> Accounted
=============================================================================
