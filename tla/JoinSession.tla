----------------------------- MODULE JoinSession -----------------------------
(***************************************************************************)
(* One participant's session (loadtest/client.ts): a loop that runs one    *)
(* controller after another, each an epoch on one stream, and the          *)
(* callbacks that interrupt it: arrow keys, a key or signal that quits,    *)
(* and the server's answers to the reports.                                *)
(*                                                                         *)
(* The loop is one asynchronous function: pc names the await it is in.     *)
(* Everything between two awaits is one action, and any callback may run   *)
(* at any await.  The controller is what the client sees of it: a target,  *)
(* an agent in this very process that holds viewers, abort(), and a run    *)
(* that ends well or throws.  Its inside is FleetRun's and FleetAgent's.   *)
(*                                                                         *)
(* An answer is taken as the server gives it when the request is made, the *)
(* most stale it can be.  A request nobody answers, be it a report or a    *)
(* join, changes nothing here and is left out.                             *)
(***************************************************************************)
EXTENDS Integers, FiniteSets, FiniteSetsExt

CONSTANTS
  Streams,        \* what the publisher may be called
  Start,          \* viewers to begin with
  Ceiling,        \* the fleet's capacity: SESSION_VIEWER_CEILING
  EpochAttempts,  \* attempts at a stretch of watching
  MaxMoves,       \* bound: how often the server's stream changes
  MaxSegments     \* bound: segments pulled in the whole session

ASSUME SessionAssumption ==
  /\ Streams # {}
  /\ Ceiling \in Nat \ {0} /\ Start \in 1 .. Ceiling
  /\ EpochAttempts \in Nat \ {0}
  /\ MaxMoves \in Nat /\ MaxSegments \in Nat

NoStream == "no stream"   \* owner and topic empty: the publisher is restarting
Unknown == "unknown"      \* a 409: the server does not know this session
Nothing == "nothing"      \* no such request in flight

VARIABLES
  pc,          \* the await run() is in
  quitting,    \* this.quitting
  restarting,  \* this.restarting
  desired,     \* this.desiredTarget
  stream,      \* this.stream
  attempt,     \* of watchUntilSomethingChanges
  scenario,    \* the epoch's stream and its opening cohort
  controller,  \* this.controller: "none", "running", or "dead", a run that threw
  run,         \* what is behind it: its target, the viewers its agent is asked
               \* to hold, aborted, and whether its agent still takes targets
  orphans,     \* an agent no one refers to any more holds viewers
  counts,      \* segments: pulled in all, by this epoch, in its last snapshot
               \* (or none), carried over from finished epochs, and lost with
               \* runs that could not write their report
  report,      \* the answer on its way to report()
  join,        \* the answer on its way to rejoin()
  server,      \* the stream the server names
  moves,       \* how often it has changed
  missed       \* history: a "quit" that found no epoch to stop; a "nudge" or
               \* a "stream" that the epoch being opened does not know of;
               \* a run that "refused" to start

loopVars == <<pc, attempt, scenario>>
worldVars == <<server, moves>>
vars == <<pc, quitting, restarting, desired, stream, attempt, scenario,
          controller, run, orphans, counts, report, join, server, moves,
          missed>>

Awaits == {"waiting", "creating", "preparing", "driving", "stopping", "saving",
           "backoff", "leaving", "failing", "over", "failed"}
Ended == pc \in {"over", "failed"}

NoScenario == [stream |-> NoStream, viewers |-> 0]
NoRun == [target |-> 0, held |-> 0, aborted |-> FALSE, taking |-> FALSE]

Init ==
  /\ pc = "waiting"
  /\ quitting = FALSE
  /\ restarting = FALSE
  /\ desired = Start
  /\ stream \in Streams
  /\ server = stream
  /\ attempt = 0
  /\ scenario = NoScenario
  /\ controller = "none"
  /\ run = NoRun
  /\ orphans = FALSE
  /\ counts = [pulled |-> 0, epoch |-> 0, snapshot |-> 0, carried |-> 0,
               lost |-> 0]
  /\ report = Nothing
  /\ join = Nothing
  /\ moves = 0
  /\ missed = {}

OfTheEpoch == {"nudge", "stream"}

AtMost(n, bound) == IF n < bound THEN n ELSE bound
AtLeastOne(n) == IF n < 1 THEN 1 ELSE n

-----------------------------------------------------------------------------
(* The controller, as the client calls it.                                 *)

WithTargetAtAnyAgent(r, n) ==
  [r EXCEPT !.target = AtMost(n, Ceiling), !.held = AtMost(n, Ceiling)]

(* setViewerTarget(): the same target again is not sent, and an agent that *)
(* was told to stop starts nothing for it.                                 *)
WithTarget(r, n) ==
  LET wanted == AtMost(n, Ceiling) IN
  [r EXCEPT !.target = wanted,
            !.held = IF r.taking /\ wanted # r.target THEN wanted ELSE r.held]

(* abort(), up to its first await: the agent is told to stop.              *)
Stopped(r) == [r EXCEPT !.aborted = TRUE, !.taking = FALSE, !.held = 0]

-----------------------------------------------------------------------------
(* The loop.                                                               *)

ResolveAsStarted ==
  /\ scenario' = [stream |-> stream, viewers |-> Start]
  /\ missed' = IF desired < 1 THEN missed \union {"nudge"} ELSE missed
  /\ pc' = "creating"

(* resolveScenario(), and createRunDir() is awaited. *)
Resolve ==
  /\ scenario' = [stream |-> stream, viewers |-> AtLeastOne(desired)]
  /\ missed' = IF desired < 1 THEN missed \union {"nudge"} ELSE missed
  /\ pc' = "creating"

(* waitForWork() returns, and the first attempt begins. *)
StartEpoch ==
  /\ pc = "waiting"
  /\ ~quitting
  /\ desired >= 1
  /\ attempt' = 1
  /\ Resolve
  /\ UNCHANGED <<quitting, restarting, desired, stream, controller, run, orphans,
                 counts, report, join>>
  /\ UNCHANGED worldVars

(* After a failed attempt the same is done again, whatever happened since. *)
Retry ==
  /\ pc = "backoff"
  /\ attempt' = attempt + 1
  /\ Resolve
  /\ UNCHANGED <<quitting, restarting, desired, stream, controller, run, orphans,
                 counts, report, join>>
  /\ UNCHANGED worldVars

(* The run directory is there: the new controller takes the place of what  *)
(* was left of the last one, and its agents start in this process.         *)
RunDirMade ==
  /\ pc = "creating"
  /\ pc' = "preparing"
  /\ controller' = "running"
  /\ run' = [NoRun EXCEPT !.taking = TRUE]
  /\ orphans' = (orphans \/ run.held > 0)
  /\ restarting' = FALSE
  /\ UNCHANGED <<quitting, desired, stream, attempt, scenario, counts, report,
                 join, missed>>
  /\ UNCHANGED worldVars

(* driveSession() begins with the cohort the scenario was resolved for.    *)
Drive ==
  /\ pc = "preparing"
  /\ pc' = "driving"
  /\ run' = WithTarget(run, scenario.viewers)
  /\ UNCHANGED <<quitting, restarting, desired, stream, attempt, scenario,
                 controller, orphans, counts, report, join, missed>>
  /\ UNCHANGED worldVars

(* Aborted, or at the run ceiling: stopAll() tells the agent to stop.      *)
StopDriving(ceiling) ==
  /\ pc = "driving"
  /\ ceiling = ~run.aborted
  /\ pc' = "stopping"
  /\ run' = [run EXCEPT !.taking = FALSE, !.held = 0]
  /\ missed' = missed \ OfTheEpoch
  /\ UNCHANGED <<quitting, restarting, desired, stream, attempt, scenario,
                 controller, orphans, counts, report, join>>
  /\ UNCHANGED worldVars

CarryKeepsSnapshot ==
  counts' = [counts EXCEPT !.carried = @ + counts.epoch, !.epoch = 0]
CarryThisEpoch ==
  counts' = [counts EXCEPT !.carried = counts.epoch, !.epoch = 0, !.snapshot = 0]
(* The run's result is carried over, and its directory is written.         *)
Carry ==
  counts' = [counts EXCEPT !.carried = @ + counts.epoch, !.epoch = 0, !.snapshot = 0]

EpochEnds ==
  /\ pc = "stopping"
  /\ pc' = "saving"
  /\ Carry
  /\ controller' = "none"
  /\ run' = NoRun
  /\ scenario' = NoScenario
  /\ UNCHANGED <<quitting, restarting, desired, stream, attempt, orphans, report,
                 join, missed>>
  /\ UNCHANGED worldVars

Saved ==
  /\ pc = "saving"
  /\ pc' = "waiting"
  /\ attempt' = 0
  /\ UNCHANGED <<quitting, restarting, desired, stream, scenario,
                 controller, run, orphans, counts, report, join, missed>>
  /\ UNCHANGED worldVars

(* An attempt throws: no run directory, a run that refuses to start or     *)
(* cannot write its report, or result.json.  What the controller was doing *)
(* is left as it is.                                                       *)
EpochThrows ==
  /\ pc \in {"creating", "preparing", "stopping", "saving"}
  /\ pc' = IF attempt >= EpochAttempts \/ quitting THEN "failing" ELSE "backoff"
  /\ controller' = IF pc \in {"preparing", "stopping"} THEN "dead" ELSE controller
  /\ counts' = [counts EXCEPT !.lost = @ + counts.epoch, !.epoch = 0]
  /\ missed' = (missed \ OfTheEpoch)
                  \union (IF pc = "preparing" THEN {"refused"} ELSE {})
  /\ scenario' = NoScenario
  /\ UNCHANGED <<quitting, restarting, desired, stream, attempt, run, orphans,
                 report, join>>
  /\ UNCHANGED worldVars

(* The loop is left, and the last report is sent. *)
Leave ==
  /\ pc = "waiting"
  /\ quitting
  /\ pc' = "leaving"
  /\ UNCHANGED <<quitting, restarting, desired, stream, attempt, scenario,
                 controller, run, orphans, counts, report, join, missed>>
  /\ UNCHANGED worldVars

End ==
  /\ \/ pc = "leaving" /\ pc' = "over"
     \/ pc = "failing" /\ pc' = "failed"
  /\ UNCHANGED <<quitting, restarting, desired, stream, attempt, scenario,
                 controller, run, orphans, counts, report, join, missed>>
  /\ UNCHANGED worldVars

-----------------------------------------------------------------------------
(* Viewers pull segments while an epoch runs, and say so as they stop; the *)
(* controller's ticker passes snapshots on while it drives.                *)

Pull ==
  /\ pc \in {"driving", "stopping"}
  /\ counts.pulled < MaxSegments
  /\ counts' = [counts EXCEPT !.pulled = @ + 1, !.epoch = @ + 1]
  /\ UNCHANGED <<quitting, restarting, desired, stream, controller, run, orphans,
                 report, join, missed>>
  /\ UNCHANGED loopVars
  /\ UNCHANGED worldVars

Snapshot ==
  /\ pc = "driving"
  /\ counts' = [counts EXCEPT !.snapshot = counts.epoch]
  /\ UNCHANGED <<quitting, restarting, desired, stream, controller, run, orphans,
                 report, join, missed>>
  /\ UNCHANGED loopVars
  /\ UNCHANGED worldVars

-----------------------------------------------------------------------------
(* Keys and signals, until the loop is left.                               *)

Listening == pc \notin {"leaving", "failing"} /\ ~Ended

(* The scenario is resolved and the controller has not opened yet: it will *)
(* open with the cohort the scenario names.                                *)
Opening == pc \in {"creating", "preparing"}

(* nudge(): the ceiling is applied only when there is a controller to ask; *)
(* before, one step past it is as good as many.                            *)
Nudge(by) ==
  LET n == AtMost(IF desired + by < 0 THEN 0 ELSE desired + by, Ceiling + 1) IN
  /\ Listening
  /\ ~quitting
  /\ desired' = IF controller = "none" THEN n ELSE AtMost(n, Ceiling)
  /\ run' = IF controller = "none" THEN run ELSE WithTarget(run, n)
  /\ missed' = CASE Opening -> missed \union {"nudge"}
                 [] pc = "driving" -> missed \ {"nudge"}
                 [] OTHER -> missed
  /\ UNCHANGED <<quitting, restarting, stream, controller, orphans, counts,
                 report, join>>
  /\ UNCHANGED loopVars
  /\ UNCHANGED worldVars

QuitOnlyMarks ==
  /\ Listening
  /\ ~quitting
  /\ quitting' = TRUE
  /\ missed' = IF pc \in {"creating", "backoff"} THEN missed \union {"quit"} ELSE missed
  /\ UNCHANGED <<run, restarting, desired, stream, controller, orphans, counts,
                 report, join>>
  /\ UNCHANGED loopVars
  /\ UNCHANGED worldVars

(* quit(): it aborts the controller there is.                              *)
Quit ==
  /\ Listening
  /\ ~quitting
  /\ quitting' = TRUE
  /\ run' = IF controller = "none" THEN run ELSE Stopped(run)
  /\ missed' = IF pc \in {"creating", "backoff"} THEN missed \union {"quit"} ELSE missed
  /\ UNCHANGED <<restarting, desired, stream, controller, orphans, counts, report,
                 join>>
  /\ UNCHANGED loopVars
  /\ UNCHANGED worldVars
-----------------------------------------------------------------------------
(* The server, and its answers.                                            *)

ServerMoves(s) ==
  /\ moves < MaxMoves
  /\ s # server
  /\ server' = s
  /\ moves' = moves + 1
  /\ UNCHANGED <<quitting, restarting, desired, stream, controller, run, orphans,
                 counts, report, join, missed>>
  /\ UNCHANGED loopVars

(* The interval's report.  Its answer is a stream, or a 409 of a server     *)
(* that has forgotten this session.  An answer to a report sent after the  *)
(* quit, the last one too, changes nothing here and is left out.           *)
ReportSent ==
  /\ ~quitting /\ ~Ended
  /\ report = Nothing
  /\ report' \in {server, Unknown}
  /\ UNCHANGED <<quitting, restarting, desired, stream, controller, run, orphans,
                 counts, join, missed>>
  /\ UNCHANGED loopVars
  /\ UNCHANGED worldVars

FollowWithoutAbort(next) ==
  IF quitting \/ restarting \/ next = NoStream \/ next = stream
  THEN UNCHANGED <<stream, restarting, run, missed>>
  ELSE /\ stream' = next
       /\ restarting' = TRUE
       /\ run' = run
       /\ missed' = IF pc = "creating" THEN missed \union {"stream"} ELSE missed

(* applyStream(): a new stream ends the epoch, and the next one is on it.  *)
Follow(next) ==
  IF quitting \/ restarting \/ next = NoStream \/ next = stream
  THEN UNCHANGED <<stream, restarting, run, missed>>
  ELSE /\ stream' = next
       /\ restarting' = TRUE
       /\ run' = IF controller = "none" THEN run ELSE Stopped(run)
       /\ missed' = IF pc = "creating" THEN missed \union {"stream"} ELSE missed

(* report() goes on: a 409 is cured by joining again, once at a time.      *)
ReportReturns ==
  /\ ~Ended
  /\ report # Nothing
  /\ report' = Nothing
  /\ IF report = Unknown
     THEN /\ join' = IF join = Nothing /\ ~quitting THEN server ELSE join
          /\ UNCHANGED <<stream, restarting, run, missed>>
     ELSE /\ Follow(report)
          /\ join' = join
  /\ UNCHANGED <<quitting, desired, controller, orphans, counts>>
  /\ UNCHANGED loopVars
  /\ UNCHANGED worldVars

(* rejoin() goes on, perhaps after reports sent since were answered.       *)
JoinReturns ==
  /\ ~Ended
  /\ join # Nothing
  /\ join' = Nothing
  /\ Follow(join)
  /\ UNCHANGED <<quitting, desired, controller, orphans, counts, report>>
  /\ UNCHANGED loopVars
  /\ UNCHANGED worldVars

Loop ==
  \/ StartEpoch \/ Retry \/ RunDirMade \/ Drive \/ StopDriving(FALSE)
  \/ EpochEnds \/ Saved \/ Leave \/ End

Next ==
  \/ Loop
  \/ StopDriving(TRUE)
  \/ EpochThrows
  \/ Pull
  \/ Snapshot
  \/ Nudge(1)
  \/ Nudge(-1)
  \/ Quit
  \/ \E s \in Streams \union {NoStream} : ServerMoves(s)
  \/ ReportSent
  \/ ReportReturns
  \/ JoinReturns

Spec == Init /\ [][Next]_vars

(* The loop goes on, reports are sent and answered.  Nobody has to press a *)
(* key, and a run ceiling of twelve hours has not to be waited for.        *)
Fairness ==
  /\ WF_vars(Loop)
  /\ WF_vars(ReportSent)
  /\ WF_vars(ReportReturns)
  /\ WF_vars(JoinReturns)

FairSpec == Spec /\ Fairness

-----------------------------------------------------------------------------
(* Properties.                                                             *)

(* The type invariant. *)
TypeOK ==
  /\ pc \in Awaits
  /\ quitting \in BOOLEAN
  /\ restarting \in BOOLEAN
  /\ desired \in 0 .. Ceiling + 1
  /\ stream \in Streams
  /\ attempt \in 0 .. EpochAttempts
  /\ scenario \in [stream : Streams, viewers : 1 .. Ceiling + 1] \union {NoScenario}
  /\ controller \in {"none", "running", "dead"}
  /\ run \in [target : 0 .. Ceiling, held : 0 .. Ceiling,
              aborted : BOOLEAN, taking : BOOLEAN]
  /\ orphans \in BOOLEAN
  /\ counts \in [pulled : 0 .. MaxSegments, epoch : 0 .. MaxSegments,
                 snapshot : 0 .. MaxSegments, carried : 0 .. MaxSegments,
                 lost : 0 .. MaxSegments]
  /\ report \in Streams \union {NoStream, Unknown, Nothing}
  /\ join \in Streams \union {NoStream, Nothing}
  /\ server \in Streams \union {NoStream}
  /\ moves \in 0 .. MaxMoves
  /\ missed \subseteq {"quit", "nudge", "stream", "refused"}

(* The number on the screen is the one being held: whatever keys were      *)
(* pressed between epochs and during them, a driving epoch has the target  *)
(* that was asked for.  The exception is a key pressed while an epoch was  *)
(* opening, and an attempt retried with nothing asked for, until the next  *)
(* key (client.ts nudge, runEpoch).                                        *)
TargetShown ==
  (pc = "driving" /\ ~run.aborted) =>
    run.target = AtMost(desired, Ceiling) \/ "nudge" \in missed

(* Segments are counted once: what is reported, carried and current        *)
(* together, is never more than was pulled, and a session that ends has    *)
(* carried all of it but what was lost with runs that could not write      *)
(* their report (client.ts runEpoch, report).                              *)
Reported == counts.carried + counts.snapshot
Tally ==
  /\ Reported <= counts.pulled
  /\ pc = "over" => counts.carried + counts.lost = counts.pulled

(* The total this participant is ranked by never goes down from one report *)
(* to the next, but for the last snapshot of a run that threw: what was    *)
(* carried over, and what is shown of the epoch that is running, stay      *)
(* (client.ts runEpoch, report).                                           *)
TotalsNeverDrop ==
  [][Reported' >= counts.carried + AtMost(counts.snapshot, counts.epoch)]_vars

(* Viewers belong to the running epoch: no other agent is asked to hold    *)
(* any, neither between epochs nor at the end, as long as every run got    *)
(* past its preparations (client.ts: "the viewers are stopped              *)
(* deliberately").                                                         *)
OnlyThisEpochsViewers ==
  "refused" \notin missed =>
    /\ ~orphans
    /\ controller # "running" => run.held = 0
    /\ pc = "stopping" => run.held = 0

(* Once asked to stop the session ends, from any await, unless it was      *)
(* asked while an epoch was being created or retried.                      *)
QuitEnds == quitting ~> (Ended \/ "quit" \in missed)

(* In the end the viewers watch what the publisher publishes, through any  *)
(* moves, forgotten sessions and stale answers, unless the last move was   *)
(* learned while an epoch was being created (client.ts applyStream).       *)
FollowsPublisher ==
  <>[]((pc = "driving" /\ server # NoStream /\ ~quitting) =>
         scenario.stream = server \/ "stream" \in missed)
=============================================================================
