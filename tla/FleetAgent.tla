------------------------------ MODULE FleetAgent ------------------------------
(***************************************************************************)
(* The agent that runs one machine's viewers (agent/agent.ts) and the      *)
(* viewer processes it holds (viewer/spawn.ts).                            *)
(*                                                                         *)
(* Every callback of the agent is one action: a control message, a timer,  *)
(* a line on a viewer's stdout, a child's exit event, a sampler tick.      *)
(* Node runs each of them to its end, so each action is the whole handler, *)
(* the trailing reportState() included.  What interleaves is their order,  *)
(* with one exception: configure() awaits, and is two actions.             *)
(*                                                                         *)
(* A viewer is its ordinal.  `tracked` is the agent's Map; `proc` is what  *)
(* is really running.  The controller is the environment: any message, at  *)
(* any moment the channel is open.  When the admission gate admits is left *)
(* open here: a launcher pass may be admitted or denied.                   *)
(***************************************************************************)
EXTENDS Integers, FiniteSets

CONSTANTS
  MaxViewers,   \* configure.maxViewers: the most this machine may hold
  MaxStarts,    \* bound: the largest start budget a set_target carries
  Targets,      \* the values of set_target.concurrent
  Budgets,      \* the values of set_target.totalStarts
  Hold,         \* spec.hold: a peered viewer parks until it is released
  InProcess,    \* the agent shares the controller's process (host "local"),
                \* rather than being a process of its own behind ssh
  SpawnMayFail  \* spawn() can fail (no such binary, no more descriptors)

ASSUME BoundsAssumption ==
  /\ MaxViewers \in Nat
  /\ MaxStarts \in Nat
  /\ Targets \subseteq Nat
  /\ Budgets \subseteq 0 .. MaxStarts

ASSUME ModesAssumption ==
  /\ Hold \in BOOLEAN
  /\ InProcess \in BOOLEAN
  /\ SpawnMayFail \in BOOLEAN

Viewers == 0 .. MaxStarts - 1

VARIABLES
  conf,        \* "hello", "configuring" (awaiting mkdir, preflight), "ready"
  open,        \* the control channel is up
  agentUp,     \* the agent's own process is alive
  target,      \* set_target.concurrent
  totalStarts, \* set_target.totalStarts
  asked,       \* history: a set_target arrived after the agent was ready
  started,     \* viewers ever launched
  exited,      \* exit events handled
  stopping,    \* stop, shutdown or a closed channel: nothing more is launched
  released,    \* the barrier is open, for good
  timer,       \* launchTimer is armed
  tracked,     \* the keys of the viewers Map
  requested,   \* viewers whose handle.stop() was called
  goSent,      \* viewers whose handle.release() wrote "go"
  stage,       \* what a viewer's lines have said: "dialing", "parked", "watching"
  proc,        \* the process behind a viewer
  reported     \* the last state message: active viewers, budget spent

agentVars == <<conf, target, totalStarts, asked, started, exited, stopping,
               released, timer, tracked, requested, goSent, reported>>
worldVars == <<open, agentUp, stage, proc>>
vars == <<conf, open, agentUp, target, totalStarts, asked, started, exited,
          stopping, released, timer, tracked, requested, goSent, stage, proc,
          reported>>

(* A process nobody started yet; alive; sent SIGKILL; dead with its exit   *)
(* event still queued; dead and forgotten; or never there, because spawn() *)
(* failed.                                                                 *)
ProcStates == {"unborn", "alive", "killed", "dead", "gone", "failed"}
Stages == {"dialing", "parked", "watching"}

(* configure() assigns maxViewers before its first await. *)
Cap == IF conf = "hello" THEN 0 ELSE MaxViewers

Wanted == IF target < Cap THEN target ELSE Cap

Running == {v \in Viewers : proc[v] \in {"alive", "killed"}}

Init ==
  /\ conf = "hello"
  /\ open = TRUE
  /\ agentUp = TRUE
  /\ target = 0
  /\ totalStarts = 0
  /\ asked = FALSE
  /\ started = 0
  /\ exited = 0
  /\ stopping = FALSE
  /\ released = FALSE
  /\ timer = FALSE
  /\ tracked = {}
  /\ requested = {}
  /\ goSent = {}
  /\ stage = [v \in Viewers |-> "dialing"]
  /\ proc = [v \in Viewers |-> "unborn"]
  /\ reported = [active |-> 0, exhausted |-> FALSE]

Live == tracked \ requested

(* reportState(), called last: what it sends describes the state the       *)
(* handler leaves behind.  A closed channel drops it.                      *)
ReportBeforeUpdate ==
  reported' = IF open
              THEN [active |-> Cardinality(tracked),
                    exhausted |-> started >= totalStarts]
              ELSE reported

Report ==
  reported' = IF open
              THEN [active |-> Cardinality(tracked'),
                    exhausted |-> started' >= totalStarts']
              ELSE reported

-----------------------------------------------------------------------------
(* configure(): handled up to its first await, and ended by the `ready`    *)
(* message, the gate and the sampler.  Other messages fit in between.      *)

ConfigureBegin ==
  /\ open
  /\ conf = "hello"
  /\ conf' = "configuring"
  /\ UNCHANGED <<target, totalStarts, asked, started, exited, stopping,
                 released, timer, tracked, requested, goSent, reported>>
  /\ UNCHANGED worldVars

ConfigureEnd ==
  /\ agentUp
  /\ conf = "configuring"
  /\ conf' = "ready"
  /\ UNCHANGED <<target, totalStarts, asked, started, exited, stopping,
                 released, timer, tracked, requested, goSent, reported>>
  /\ UNCHANGED worldVars

-----------------------------------------------------------------------------
(* set_target.  shed() asks the excess live viewers, newest first, to      *)
(* stop; a viewer already stopping is not counted, and a stopping agent    *)
(* sheds nothing.                                                          *)

ShedOldestFirst(wanted) ==
  LET excess == Cardinality(Live) - wanted IN
  IF stopping \/ excess <= 0
  THEN requested' = requested
  ELSE \E doomed \in SUBSET Live :
         /\ Cardinality(doomed) = excess
         /\ \A d \in doomed, k \in Live \ doomed : d < k
         /\ requested' = requested \union doomed

ShedKeepsOneTooMany(wanted) ==
  LET excess == Cardinality(Live) - wanted IN
  IF stopping \/ excess <= 1
  THEN requested' = requested
  ELSE \E doomed \in SUBSET Live :
         /\ Cardinality(doomed) = excess
         /\ \A d \in doomed, k \in Live \ doomed : k < d
         /\ requested' = requested \union doomed

Shed(wanted) ==
  LET excess == Cardinality(Live) - wanted IN
  IF stopping \/ excess <= 0
  THEN requested' = requested
  ELSE \E doomed \in SUBSET Live :
         /\ Cardinality(doomed) = excess
         /\ \A d \in doomed, k \in Live \ doomed : k < d
         /\ requested' = requested \union doomed

SetTarget(n, b) ==
  /\ open
  /\ target' = n
  /\ totalStarts' = b
  /\ asked' = (asked \/ conf = "ready")
  /\ Shed(IF n < Cap THEN n ELSE Cap)
  /\ timer' = TRUE
  /\ UNCHANGED <<conf, started, exited, stopping, released, tracked, goSent>>
  /\ UNCHANGED worldVars
  /\ Report

-----------------------------------------------------------------------------
(* The launcher.  Firing clears launchTimer and runs tryLaunch(), which    *)
(* rests, is denied and tries again later, or launches one viewer.         *)

LauncherRests ==
  /\ agentUp
  /\ timer
  /\ \/ conf # "ready"
     \/ stopping
     \/ Cardinality(tracked) >= Wanted
  /\ timer' = FALSE
  /\ UNCHANGED <<conf, target, totalStarts, asked, started, exited, stopping,
                 released, tracked, requested, goSent, reported>>
  /\ UNCHANGED worldVars

(* Below target with the start budget spent: say so, and rest.             *)
LauncherSpent ==
  /\ agentUp
  /\ timer
  /\ conf = "ready"
  /\ ~stopping
  /\ Cardinality(tracked) < Wanted
  /\ started >= totalStarts
  /\ timer' = FALSE
  /\ UNCHANGED <<conf, target, totalStarts, asked, started, exited, stopping,
                 released, tracked, requested, goSent>>
  /\ UNCHANGED worldVars
  /\ Report

MayLaunchWhileStopping ==
  /\ conf = "ready"
  /\ Cardinality(tracked) < Wanted
  /\ started < totalStarts

MayLaunchPastBudget ==
  /\ conf = "ready"
  /\ ~stopping
  /\ Cardinality(tracked) < Wanted
  /\ started <= totalStarts

MayLaunch ==
  /\ conf = "ready"
  /\ ~stopping
  /\ Cardinality(tracked) < Wanted
  /\ started < totalStarts

(* gate.decide() said no: the same pass is armed again.                    *)
GateDenies ==
  /\ agentUp
  /\ timer
  /\ MayLaunch
  /\ timer' = TRUE
  /\ UNCHANGED <<conf, target, totalStarts, asked, started, exited, stopping,
                 released, tracked, requested, goSent>>
  /\ UNCHANGED worldVars
  /\ Report

(* A viewer started after the release is released as it starts.            *)
ReleaseNewNever(v) == goSent' = goSent
ReleaseNew(v) ==
  goSent' = IF Hold /\ released THEN goSent \union {v} ELSE goSent

(* Ordinals are never reused, so a viewer id names one process for good.   *)
LaunchOne ==
  /\ agentUp
  /\ timer
  /\ MayLaunch
  /\ started' = started + 1
  /\ tracked' = tracked \union {started}
  /\ \E p \in IF SpawnMayFail THEN {"alive", "failed"} ELSE {"alive"} :
       proc' = [proc EXCEPT ![started] = p]
  /\ ReleaseNew(started)
  /\ timer' = TRUE
  /\ UNCHANGED <<conf, open, agentUp, target, totalStarts, asked, exited,
                 stopping, released, requested, stage>>
  /\ Report

-----------------------------------------------------------------------------
(* A viewer's stdout.  Its lines may outlive it in the pipe, and are then  *)
(* read before or after its exit event: after it the Map has no entry and  *)
(* the line is only forwarded, which changes nothing here.                 *)

(* `held`, or `joined` or `segment` from a viewer that does not hold: past *)
(* bootstrap, and room in the CPU budget for the next one.                 *)
ViewerLinePeered(v) ==
  /\ agentUp
  /\ v \in tracked
  /\ proc[v] \in {"alive", "killed", "dead"}
  /\ stage[v] = "dialing"
  /\ stage' = [stage EXCEPT ![v] = IF Hold THEN "parked" ELSE "watching"]
  /\ timer' = TRUE
  /\ UNCHANGED <<conf, open, agentUp, target, totalStarts, asked, started,
                 exited, stopping, released, tracked, requested, goSent, proc>>
  /\ IF Hold THEN Report ELSE UNCHANGED reported

(* `released`: it read its "go".                                           *)
ViewerLineReleased(v) ==
  /\ agentUp
  /\ v \in tracked \intersect goSent
  /\ proc[v] \in {"alive", "killed", "dead"}
  /\ stage[v] = "parked"
  /\ stage' = [stage EXCEPT ![v] = "watching"]
  /\ UNCHANGED <<conf, open, agentUp, target, totalStarts, asked, started,
                 exited, stopping, released, timer, tracked, requested, goSent,
                 proc>>
  /\ Report

(* release: open every barrier this machine holds, now and later.          *)
Release ==
  /\ open
  /\ released' = TRUE
  /\ goSent' = IF Hold THEN goSent \union tracked ELSE goSent
  /\ UNCHANGED <<conf, target, totalStarts, asked, started, exited, stopping,
                 timer, tracked, requested>>
  /\ UNCHANGED worldVars
  /\ Report

-----------------------------------------------------------------------------
(* Viewer processes end, and the agent hears of it.                        *)

(* It finished, crashed, or honoured SIGTERM.  Nothing says it must.       *)
ViewerEnds(v) ==
  /\ proc[v] = "alive"
  /\ proc' = [proc EXCEPT ![v] = "dead"]
  /\ UNCHANGED <<open, agentUp, stage>>
  /\ UNCHANGED agentVars

(* SIGKILL is not refused.                                                 *)
ViewerKilled(v) ==
  /\ proc[v] = "killed"
  /\ proc' = [proc EXCEPT ![v] = "dead"]
  /\ UNCHANGED <<open, agentUp, stage>>
  /\ UNCHANGED agentVars

(* The grace handle.stop() gave it is over.  The timer is the agent's own: *)
(* it dies with the agent's process.                                       *)
KillTimerTermsAgain(v) ==
  /\ agentUp
  /\ v \in requested
  /\ proc[v] = "alive"
  /\ UNCHANGED vars

KillTimer(v) ==
  /\ agentUp
  /\ v \in requested
  /\ proc[v] = "alive"
  /\ proc' = [proc EXCEPT ![v] = "killed"]
  /\ UNCHANGED <<open, agentUp, stage>>
  /\ UNCHANGED agentVars

(* A viewer that finished or died frees room for the next one.             *)
WakeAfterCrashOnly(v) == timer' = (timer \/ (~stopping /\ v \notin requested))
WakeAfterExit(v) == timer' = (timer \/ ~stopping)

(* onViewerExit(): the Map entry goes, and all that hung on it.            *)
ViewerExit(v) ==
  /\ agentUp
  /\ v \in tracked
  /\ proc[v] = "dead"
  /\ proc' = [proc EXCEPT ![v] = "gone"]
  /\ tracked' = tracked \ {v}
  /\ exited' = exited + 1
  /\ requested' = requested \ {v}
  /\ goSent' = goSent \ {v}
  /\ stage' = [stage EXCEPT ![v] = "dialing"]
  /\ WakeAfterExit(v)
  /\ UNCHANGED <<conf, open, agentUp, target, totalStarts, asked, started,
                 stopping, released>>
  /\ Report

-----------------------------------------------------------------------------
(* The sampler reports on every tick, whether or not anything happened.    *)
Sample ==
  /\ open
  /\ conf = "ready"
  /\ UNCHANGED <<conf, target, totalStarts, asked, started, exited, stopping,
                 released, timer, tracked, requested, goSent>>
  /\ UNCHANGED worldVars
  /\ Report

Stop ==
  /\ open
  /\ stopping' = TRUE
  /\ timer' = FALSE
  /\ requested' = tracked
  /\ UNCHANGED <<conf, target, totalStarts, asked, started, exited, released,
                 tracked, goSent>>
  /\ UNCHANGED worldVars
  /\ Report

(* A closed pipe, a `shutdown`, or a signal to the agent: every viewer is  *)
(* asked to stop.  Behind ssh the process then exits, at once and with     *)
(* every timer it had (cli.ts resolves on close and calls process.exit).   *)
KillEverything ==
  /\ open
  /\ stopping' = TRUE
  /\ requested' = tracked
  /\ open' = FALSE
  /\ agentUp' = InProcess
  /\ UNCHANGED <<conf, target, totalStarts, asked, started, exited, released,
                 timer, tracked, goSent, stage, proc, reported>>

Next ==
  \/ ConfigureBegin
  \/ ConfigureEnd
  \/ \E n \in Targets, b \in Budgets : SetTarget(n, b)
  \/ LauncherRests
  \/ LauncherSpent
  \/ GateDenies
  \/ LaunchOne
  \/ \E v \in Viewers :
       \/ ViewerLinePeered(v)
       \/ ViewerLineReleased(v)
       \/ ViewerEnds(v)
       \/ ViewerKilled(v)
       \/ KillTimer(v)
       \/ ViewerExit(v)
  \/ Release
  \/ Sample
  \/ Stop
  \/ KillEverything

Spec == Init /\ [][Next]_vars

(* Timers fire, the kernel delivers SIGKILL and Node delivers exit events. *)
(* Nothing obliges the controller to speak or a viewer to end.             *)
Fairness ==
  /\ WF_vars(ConfigureEnd)
  /\ WF_vars(LauncherRests \/ LauncherSpent)
  /\ \A v \in Viewers :
       /\ WF_vars(KillTimer(v))
       /\ WF_vars(ViewerKilled(v))
       /\ WF_vars(ViewerExit(v))

FairSpec == Spec /\ Fairness

-----------------------------------------------------------------------------
(* Properties.                                                             *)

(* The type invariant.                                                     *)
TypeOK ==
  /\ conf \in {"hello", "configuring", "ready"}
  /\ open \in BOOLEAN
  /\ agentUp \in BOOLEAN
  /\ target \in Nat
  /\ totalStarts \in 0 .. MaxStarts
  /\ asked \in BOOLEAN
  /\ started \in 0 .. MaxStarts
  /\ exited \in 0 .. MaxStarts
  /\ stopping \in BOOLEAN
  /\ released \in BOOLEAN
  /\ timer \in BOOLEAN
  /\ tracked \in SUBSET Viewers
  /\ requested \in SUBSET tracked
  /\ goSent \in SUBSET tracked
  /\ stage \in [Viewers -> Stages]
  /\ proc \in [Viewers -> ProcStates]
  /\ reported \in [active : Nat, exhausted : BOOLEAN]

(* However targets, stops and exits interleave, the machine never runs     *)
(* more viewer processes than its ceiling, and never more that it has not  *)
(* already told to stop than the controller last asked for                 *)
(* (agent.ts tryLaunch, shed).                                             *)
WithinTarget ==
  /\ Cardinality(Running) <= MaxViewers
  /\ Cardinality(Live) <= Wanted

(* The launcher sleeps only when there is nothing to launch: while the     *)
(* agent is below target with budget left, its timer is armed, so no exit, *)
(* target or line is the wake-up that got lost.  A set_target handled      *)
(* before the agent is configured does not count: its pass finds no gate   *)
(* and is not repeated (agent.ts tryLaunch's first return).                *)
NoLostWakeup ==
  (/\ agentUp /\ asked /\ ~stopping
   /\ Cardinality(tracked) < Wanted
   /\ started < totalStarts) => timer

(* After the release no viewer waits behind a barrier nobody will open     *)
(* again: also one started later has been told to go (agent.ts released).  *)
NoStrandedViewer ==
  (Hold /\ released) => \A v \in tracked : v \in goSent

(* What the controller decides the end of a run on is never stale at the   *)
(* agent: the last state sent counts the viewers the Map holds and says    *)
(* whether the budget is spent, whichever handler ran last.                *)
ReportIsCurrent ==
  (open /\ asked) =>
    /\ reported.active = Cardinality(tracked)
    /\ reported.exhausted = (started >= totalStarts)

(* A scale-down takes the newest: no viewer is told to stop while a newer  *)
(* one is left alone (agent.ts shed's comment).                            *)
KeepsOldest ==
  [][\A v \in requested' \ requested, w \in tracked' \ requested' : w < v]_vars

(* The machine is a viewer host: it starts viewers only below its limit,   *)
(* within its budget and before it is told to stop, and never reuses a     *)
(* number.                                                                 *)
Host == INSTANCE ViewerHost WITH
          running <- tracked, started <- started, limit <- Wanted,
          budget <- totalStarts, closing <- stopping

HostPromise == Host!Spec

(* Once stopping, an agent that stays up leaves no viewer running, even    *)
(* one that ignores SIGTERM.                                               *)
StopEmptiesMachine == stopping ~> (Running = {} \/ ~agentUp)
=============================================================================
