# Verification of swarm-fleet

swarm-fleet starts and drives many `weeb-3` viewer processes over several
machines, as one measured load on a Swarm stream. It rents and prepares the
machines, can publish the stream itself, judges each run, and has a client with
which the participants of a call each contribute a few viewers. This directory
holds TLA+ specifications of these parts, the TLC configurations that check them
on small instances, and TLAPS proofs of their safety properties at any size.

Paths such as `controller.ts:753` are relative to `src/src/` of the repository.
Every definition that models code is listed in `PROJECT.json` under `map`, with
the lines it models; `hazards` lists the places where this code can go wrong in
ways a test would hardly reach, each with the properties that would notice.

To check a run: `tlc -workers 2 -config FleetAgent.cfg MCFleetAgent.tla` (the
table of runs names module and configuration of each).
To check the proofs of a module: `tlapm FleetAgentProofs.tla`.

## The system

```
   keys, signals                 report server ------ stream, 409
        |                              |
   load test client  --- epochs --- controller ---- channel ---- agent --- viewer
   (loadtest/client.ts)            (controller.ts) (transport/) (agent/)  (viewer/spawn.ts)
                                     |    |  partition, gate       |         |
                                     |    |  (schedule.ts)         |       events on stdout
      commands (cli.ts)              |    viewer records  <--- lines --------+
        |        |                   |    (viewer/rollup.ts)
   provisioning  deploy              judgement
   (provision/)  (deploy/)           (metrics/)
        |           |
     boxes <--- binaries             publisher ---> primary gateway, mirrors
                                     (publisher/)
```

`provision` rents boxes, `deploy` puts a viewer binary and the agent on them, `run`
connects a controller to the agents and has them start viewers. Where asked to, `run`
also publishes the stream the viewers watch. The controller talks to agents through
two queues each, sees viewers only through the lines they print, and decides
everything by polling what it has been told.

| component | state | operations | hard about it |
|---|---|---|---|
| agent (`agent/agent.ts`) | the Map of viewers, target, start budget, what it launched, stopping, released, one launcher timer | configure, set_target, release, stop, shutdown, collect; launcher pass, viewer line, exit, sampler tick | every callback may change what the next one assumes; one timer for all wake-ups; a report must follow every change |
| viewer processes (`viewer/spawn.ts`, `mock/viewer.ts`) | a child, its counters, its log files | spawn, SIGTERM, SIGKILL after a grace, "go" on stdin; peers, hold, join, play, summary | exits arrive before or after the last lines; a spawn may fail; timers die with the agent process |
| partition and budgets (`schedule.ts`, `controller.ts`) | caps, targets, budgets per machine | connect, setTotalTarget, the start, step and top-up of three kinds of run | rounding, machines lost between two targets |
| controller (`controller.ts`) | what it believes of every machine, a record per viewer, aborted | awaitReady, settleAndRelease, driveFixed/Ramp/Session, stopAll, collectAll, loseAgent, abort, finish | decides on reports that are on their way; machines vanish at any point; polls, samples and verdicts interleave |
| channels (`transport/`) | two queues, closed or not | send, deliver, close | a break loses a suffix, and is noticed later |
| admission gate (`schedule.ts`) | measured costs, last start | admit, note | a measurement that denies the starts which would correct it |
| viewer rollup (`viewer/rollup.ts`) | a record per viewer | note a line, an exit, a lost agent; classify | out-of-order facts about one viewer, counted twice or not at all |
| metrics (`metrics/`) | none of their own | guards, peer attainment, shares of the cohort | evaluated at different moments over data that moves |
| load test client (`loadtest/client.ts`) | epochs, target, totals, stream, quitting, restarting | nudge, quit, report, rejoin, applyStream, the epoch loop | all of these interrupt the loop at any await |
| publisher (`publisher/`) | queues per mirror, feed index, manifest window, catalog | encode, upload, manifest, drop, disable, upsert, close | mirrors that lag, writes whose answer is lost, an index claimed before it is written |
| publishing commands (`cli.ts`, `publisher/control.ts`) | a handle, signals seen | start, joinable, stop, exit | the publisher runs before the try that owns it |
| provisioning (`provision/`) | boxes rented, a record on disk | create, await, roll back, destroy | retried creates, partial rollback, a torn record |
| deploy (`deploy/deploy.ts`) | files on each host | upload, verify, mark, install | scripts that outlive the connection that feeds them |
| sizing, artifacts, reports, console | none that outlives a call | pure functions, sequential I/O | little that a unit test would not reach |

What makes each correct, in a sentence:

- **agent**: never more viewers than the ceiling or the target, never asleep with
  work to do, never a viewer behind a barrier that nobody will open, and its last
  report is the truth.
- **viewer and its record**: what was folded line by line agrees with the summary, the
  window holds exactly the trailing segments, and a viewer told to end reports before
  it is forgotten.
- **partition and budgets**: a total is divided without loss, no machine takes more
  than it was admitted for, and restarts are bounded.
- **controller**: a run that ends as finished leaves nobody behind on a machine whose
  starts it counted, the barrier opens on the fleet that is left, no wait depends on a
  machine that was written off, a stop condition was held as long as it says, and nobody
  is given up as hung while it may still be watching.
- **gate**: starts keep their distance.
- **client**: what is shown, held and reported outlives restarts; asked to stop, it
  stops; when the stream moves, it follows.
- **publisher**: a feed without holes, whose manifests name only what was uploaded; the
  catalog keeps other streams; a mirror never holds up the end.
- **provisioning**: every box the program was told of is recorded, given back or
  reported; a destroy that says it is clean is.
- **deploy**: what a successful deployment names is whole on every host, whatever earlier
  ones left running.

## The modules

| module | models | composed with |
|---|---|---|
| `ViewerHost` | what a machine promises: the abstract specification | implemented by `FleetAgent` and by each machine of `FleetRun` |
| `FleetAgent` | the agent and its viewer processes, handler by handler | `INSTANCE ViewerHost WITH ...` |
| `Partition` | `partition()`, largest remainder | extended by the next two |
| `FleetShares` | dividing and re-dividing totals while machines are lost | |
| `FleetRun` | a cohort run: controller, channels, machines | `INSTANCE ViewerHost` for each machine |
| `JoinSession` | a participant's session over many epochs | |
| `Feed` | what a viewer may rely on in a stream's feed: the abstract specification | implemented by `PublishedRun` |
| `SwarmWriter` | a primary gateway and its mirrors, written to together | extended by `Publisher` |
| `Publisher` | encoder, upload loop, manifests, feed, catalog | extended by `PublishedRun` |
| `PublishedRun` | the commands that publish, as the process around the publisher | `INSTANCE Feed WITH ...` |
| `Provision` | renting, recording, waiting, rolling back, destroying | |
| `Deploy` | deployments by any number of controllers, each to every host at once | |
| `ViewerRecord` | one viewer's lines folded into one record | extended by `MockViewer` |
| `MockViewer` | one viewer process, its pipe, and the record kept of it | |
| `AdmissionGate`, `Guards` | when a viewer may start; what a run is judged by: pure operators | extended by `Judgement` |
| `Judgement` | how a run on one machine ends and what it is worth | |
| `...Proofs` | theorems about the module of that name (`PublisherProofs`: about `PublishedRun`; `ViewerProofs`: about `MockViewer`; `PreparationProofs`: about `Provision` and `Deploy`) | `FleetRunProofs` instantiates `FleetSharesProofs` |
| `MC...` | the values TLC gives the constants | |

### FleetAgent

One action per callback of the agent: Node runs a handler to its end, so an action is
the whole handler, the trailing `reportState()` included. `configure()` awaits `mkdir`
and the preflight, so it is two actions with any other handler between them.

`tracked` is the `viewers` Map, `requested` the viewers whose handle was stopped, `timer`
the armed `launchTimer`, `reported` the last `state` message. `proc` is what really runs: a
process may be dead while its exit event is still queued, and one whose spawn failed
never has such an event. The launcher pass `tryLaunch` is four actions, one per early
return and one for the launch. `KillTimer` is the SIGKILL that follows a SIGTERM. An agent
behind ssh is a process of its own, whose timers die with it (`agentUp`); a local one is not.

Left open: whether the gate admits (any pass may be admitted or denied), the sampler's
numbers, which stream a viewer watches. `asked` is a history variable: a `set_target`
handled before the agent is ready finds no gate, its launcher pass returns, and nothing
repeats it (`agent.ts:180-184`). In a run `awaitReady` precedes every target, but a
participant's key sends one whenever it is pressed (`loadtest/client.ts:468`,
`controller.ts:694-703`). That pass is lost; the target `driveSession` sets once the agent
is ready, and its top-up every 30 s, set off another. So the properties speak of targets
after `ready`.

### Partition and FleetShares

`Shares` gives each machine the floor of its quota and the leftover to the largest
fractions, the earlier machine first. The code compares fractions as floating-point
numbers; the model compares them exactly, so where two are equal the code may, through
rounding, prefer another machine than the first. No property depends on who wins a tie.
A sum over machines is the number of units they hold between them (`SumOver`), which is
what lets the proofs reason about it. `FleetShares` models `connect`'s caps, `setTotalTarget`
in its three replacement modes, and what `driveFixed`, `driveRamp` and `driveSession` ask
for. Machines are lost at any point.

### FleetRun

`pc` is the wait the controller is in; between two polls it handles messages one at a
time (`Deliver`). Each machine is a `ViewerHost` in a few variables, and `HostsKeepPromise`
checks that: the composition uses of the agent exactly what `FleetAgent` is
checked and proved to give (`HostPromise`, `ReportIsCurrent`). Abstractions:

- An agent's message and the report after it in the same handler are one message; a
  report equal to the last is not sent again, and neither is a second `stop`.
- A channel is two FIFO queues. `Break` loses any suffix of what the agent had sent and all
  the controller had; the agent goes down. `ChannelCloses` is the controller noticing.
- A viewer that parks short of its peer threshold is one that never says `held`.
- The publisher that `onSettled` starts is an environment that succeeds or fails.
- The model ends with `collectAll`'s shutdown of the agents.
- Two orders of events, both possible in the code, are switched by constants. `EarlyTick`: a
  sampler tick falls between `ready` and the first `set_target`. `LateMessages`: a failed write
  closes the channel before the pipe was read out, so a message is handled after `loseAgent`.
  The run has the first. With the second too its space is too large (over three million states
  before liveness), and it is checked by the proofs alone: every theorem holds with either. What
  the code's comments say and these orders break has configurations of its own, `EarlyFinish.cfg`
  and `LateState.cfg` ("Known divergences").

### JoinSession

The epoch loop is one asynchronous function and `pc` names the await it is in. Keys,
signals and answers run at any await. The controller is what the client sees of it: a
target, an agent in this very process that holds viewers, `abort()`, and a `run()` that
returns or throws. A run that throws leaves `this.controller` in place ("dead"), with an
agent that may still take targets.

`missed` records what an epoch that was being opened could not learn: a quit, a nudge or a
stream that arrived between `resolveScenario` and `this.controller = controller`, and quits
during the pause before a retry. The properties except exactly those. `report` and `join`
hold answers, stale as they may be, taken when the request was made; a request nobody
answers changes nothing and is left out, as is the answer to a report sent after the quit.
A `desired` of one past the ceiling stands for all.

### SwarmWriter, Publisher and PublishedRun

`SwarmWriter` is `publisher/swarm.ts`: `FanOut` starts a write everywhere at once, the caller
goes on when the primary has answered, and a mirror's answers come later, in any order or
never. The caller makes one write at a time, so a mirror's task is the number of its write, its
key and, once answered, whether the reference agrees with the primary's. A retry ladder is
one answer, and whatever the answer says an earlier attempt may have landed.

`Publisher` is `publishLive()`: `pc` names the await it is in, and what the loop does between
two awaits is one action. The encoder runs beside it and may list a last segment after its
SIGINT. A feed index is claimed before its manifest is uploaded (`SegmentUploaded`,
`SourceEnds`) and used when the primary answers. A manifest is the first and last segment it
lists and whether it ends; the catalog is the set of streams with an entry, per index. Any
failed read of the catalog is taken for an empty one (`OpenRegistry`), as in the code.

`PublishedRun` is the process around it: `run --publish` with and without a settle phase, and
`publish`, with where the signal handlers are installed and what a throw leaves behind. The
run itself is one state; its inside is `FleetRun`'s.

### Provision

`account` is the provider's truth, `known` what the process was told, `file` the record on
disk. The retried POST may rent a box whose answer is lost (`RentRetried`, `RentFails`, `Die`);
such a box carries the fleet's tag but nobody knows it until a `destroy` lists by tag. Writing
the record makes the directory, truncates the file, and fills it: `OpenRecord` may fail at the
first (the old record stays) or leave the file `Torn`, and the write after it may fail as well.
`died` keeps where the process was ended. `destroy` is another process, later and as often as it
takes, racing the boots of what it deletes.

### Deploy

Any number of deployments of one build, each by a controller of its own and beginning whenever
it likes: one after another, at once, or beside scripts that an earlier one left. Each host's
`deployToHost()` runs beside the others', and its upload script beside it, command by command:
`mkdir` and the opening of the staging file, `cat`, `mv`; and `rm -rf` (which takes the marker
away at any point of it), its end, `mkdir`, `tar`, `touch`. A connection that breaks
(`ConnectionBreaks`, `Exit`) leaves the script running, and `cut` says that its stdin ended early,
which `cat` takes for the end of the file and `tar` for an error. Content is `absent`, `partial` or
`whole`; a hash compares equal exactly when it is whole.

Scripts at one host share their file names. `opened` is the name that the file a `cat` writes has
by now: another `cat` truncates it under its hands ("patch"), another's `mv` renames it. A `tar`
whose directory was removed is an "orphan". `disturbed` and `tainted` record which uploads have
crossed, for the property to except exactly the files they touched.

### ViewerRecord and MockViewer

`ViewerRecord` is `apply()` of the rollup for every event, the trailing window with its running
sums, exits, lost agents and `classify()`, as operators on a record. `MockViewer` is the viewer
of the contract that the repository holds (`mock/viewer.ts`), the pipe its lines travel, the
agent's signals, and the controller that folds: the lines and the exit event are two paths,
and either may be first. The machine may go at any moment (`AgentDies`: a suffix of what was on
its way is lost), and the controller notices before, between or after what still arrives
(`AgentLost`). Random draws are choices.

Time is simulated time, in ticks finer than the decimals of a line. What a line says of media is
rounded to `MediaGrain` ticks (`toFixed(2)`), what it says of stalls to `StallGrain`
(`toFixed(3)`), and so are the totals of the summary, which the viewer keeps unrounded. The mock's
segments are all of one length; those of a stream need not be, and the record is for both, so
each segment has a length of its own here.

The code slides its window in a loop that drops the oldest segment while the rest still
covers the bound. `Slide` drops the least number after which it stops, in one expression: the
same result, and one the prover can reason about, which a recursive operator is not. Sums
over a window (`Sum`) count units, as in `Partition`.

### AdmissionGate, Guards and Judgement

`Judgement` is one machine's run with time: a tick is the ramp's 500 ms poll, a sample is taken
every second tick. It is in one of five modes: a ramp for a stop condition or for the port
ceiling, a fixed cohort, one that settles behind the barrier first, and one whose admission is
disabled. Viewers launch through the gate, join, park, get into trouble and out of it, crash or
end, and a ramp replaces those it lost (`Spare`). A launch counts as bootstrapping until it has
joined, parked or outlived `bootstrapTimeoutMs`, and the gate weighs the measured costs of both
kinds. `Poll` is one round of `waitForOutcome` and `driveRamp`, `Wait` one of `driveFixed` (`timed`:
whether there is a `durationS`, `lastJoin`: `lastViewerJoinMs`, `hung`: the stragglers were given
up), `Snapshot` what `startTicking` evaluates for the console, `StopAll` and `Finish` the end and
the verdict. A finding of `judge()` makes a rig's run invalid, and is a caveat of a participant's;
both are behaviours of `Finish`. Guards that have the same form as one that is there (memory,
jitter, the clock) are left out. `streak` and `shown` are history variables.

## The runs

| run | question | result |
|---|---|---|
| `agent` | Does one machine keep its promises under any interleaving of messages, timers, lines, exits and spawn failures? | holds: 8 properties, 86 thousand states |
| `shares` | Are totals divided, capped and re-divided as intended, with two weights, own limits and losses? | holds: 4 properties, 231 thousand states |
| `run` | Does a settled cohort on two machines that may break at any point end as it should? | holds: 6 properties, 502 thousand states |
| `session` | Do target, totals, viewers, quit and stream survive any sequence of epochs, failures, keys and answers? | holds: 6 properties, 1.1 million states |
| `publisher` | Do feed and catalog stay whole, and does the end come, however the encoder, the gateways and the signals behave? | holds: 4 properties, 287 thousand states |
| `provision` | Is every box accounted for, through lost answers, failed writes, aborts, crashes and destroys? | holds: 4 properties, 392 thousand states |
| `deploy` | Is what a deployment says it installed there, whatever earlier ones left running and others do meanwhile? | holds: 1 property, 2.1 million states |
| `viewer` | Does the record tell what the viewer did, whichever of its lines, its exit and the loss of its machine comes first? | holds: 3 properties, 1.2 million states |
| `judgement` | Do stop condition, stragglers and stagger mean what they say, with polls, samples, starts and replacements in any order? | holds: 3 properties, 15.8 million states |
| `breach_sticky`, `stop_invalid`, `publisher_left` | Does a comment of the code hold? | violated, see the findings |

Module and configuration of each run are in `PROJECT.json`. Every property of a passing run
has a mutant there: a plausible bug in the definition it names makes TLC report that
property.

### The properties

`FleetAgent`: `WithinTarget` (ceiling and target, counting processes that really run),
`NoLostWakeup`, `NoStrandedViewer`, `ReportIsCurrent`, `KeepsOldest` (a scale-down takes the
newest), `HostPromise` (refinement of `ViewerHost`), `StopEmptiesMachine` (liveness: a stop
leaves no process, even one that ignores SIGTERM).

`FleetShares`: `QuotaRule` (for every total and surviving set: nothing lost, nobody a whole
viewer off), `NobodyTakesMore`, `StartsBounded`, `BarrierReachableEqual` (with equal weights the
settle phase waits for what was asked for).

`FleetRun`: `FinishedLeavesNobody` (a run that ends as finished leaves nobody on a machine all of
whose starts it counted, whatever is still on its way), `SettledUnlessMasked`, `BeliefCatchesUp`
(with nothing in flight the controller's numbers are the machine's), `HostsKeepPromise`,
`BarrierOpens` and `RunEndsWithViewers` (liveness: no wait needs its timeout).

`JoinSession`: `TargetShown`, `Tally` (segments counted once across snapshot, result and carried
total), `TotalsNeverDrop` (but for the last snapshot of a run that threw),
`OnlyThisEpochsViewers` (unless a run failed in its preparations), `QuitEnds` and
`FollowsPublisher` (liveness).

`PublishedRun`: `NoHoleAhead` (no gateway holds an update in front of one the primary misses),
`CatalogKeepsOthers` (unless the catalog's read failed), `FeedPromise` (refinement of `Feed`:
indices once and in order, manifests that grow by one and shed at the front, one that ends and
is the last), `EndsDespiteMirrors` (liveness: told to stop, it ends).

`Provision`: `NothingForgotten` (wherever the process was ended, but for two places: while it wrote
the record, which is then torn or lacks the one box, and in the rollback before the box's turn),
`CleanIsClean`, `ReadyMeansReady`, `AbortEnds` (liveness).

`Deploy`: `DeployedRunnable` (excepted are a binary or an agent another upload of which was under
way when the deployment last looked, or began later, and a directory in which two unpacks crossed
or a removal broke off).

`MockViewer`: `WindowIsTrailing` (against its definition from the whole history),
`SummaryAgrees` (the summary says what the fold already had: counts exactly, seconds but for half
a last digit of each number that was rounded), `ReportsWhenTold` (liveness: told to end, it ends, is
not taken for a crash, and its summary is read though its exit came first; a lost machine's
viewer is lost only if its exit was not heard of).

`Judgement`: `StopHeld` (a ramp stops on its condition only after every poll of the hold time saw
it, and does not climb on after that), `HungAreOverdue` (who is given up has had the whole
duration and grace since it started, since it joined and since the release), `StaggerHolds`
(starts are spaced as the guard wants them, so it blames no run).

### Bounds, and why they are enough

- `FleetAgent.cfg`: ceiling 2, three starts, targets 0..3, budgets 0..3. Two viewers are the
  least with a newest and an oldest; the third start replaces one; a target can exceed the
  ceiling.
- `FleetShares.cfg`: three machines of weight 1 or 4, own limit 1 or none, total up to 3, one
  spare. The least with leftovers, a cut to a cap and a survivor with two peers to lose.
- `FleetRun.cfg`: two machines of one viewer, so that one may be lost at each point while the
  other goes on; reports may precede the first target (`EarlyTick`), and none is handled after
  `loseAgent` (`LateMessages`, which only the proofs cover).
- `JoinSession.cfg`: two streams, one move, a ceiling of two, two attempts an epoch, one
  segment. Epochs, keys, failures and answers are unbounded: sessions are cyclic. One move
  is enough for a stale answer, since a join may carry the stream from before it; a move may
  also be to no stream, and then the property asks nothing. One segment is enough to be
  counted twice, or lost.
- `PublishedRun.cfg`: three segments in a window of two, so that the window slides once and the
  closing manifest goes back to the start; one mirror, retired by two failures in a row, with
  one write in flight, so that it falls behind at once; a runway of two.
- `Provision.cfg`: two boxes, one rented behind a lost answer, one retry: a box may be lost
  before, between and after those that are known.
- `Deploy.cfg`: one host, since hosts meet only where a deployment waits for all of them (the
  proof is for any set of hosts). Three deployments, which are interchangeable (`SYMMETRY`): two
  may cross while a third meets what they left.
- `Viewer.cfg`: segments of two and five ticks in any order, over a window of four: the push of a
  long one drives out several at once, two short ones replace each other singly or not at all,
  and a long one exceeds the window alone. A fetch takes one tick or five, early or late; the
  grains (four and three ticks) divide neither, so lines and totals are rounded up and down. A
  viewer of two segments, of five ticks, or one that never finishes, in three turns; one mishap.
  `MaxPipe` = 0 lets a turn begin when its earlier lines were read; lines of one turn, and the
  summary, still queue while exits are heard and machines are lost.
- `Judgement.cfg`: the five modes, two viewers and one spare, a ramp that begins at one or two, a
  step and a hold of two ticks, four ticks followed, a ceiling of three, one mishap. The hold
  straddles the end of a step, a step ends while held, a duration of one can expire before the
  ceiling, and stopping may take a tick, over which guards move once more. A measured cost
  equal to the ceiling lets in one bootstrap at a time. `Hold` and `Duration` are the least at which
  one poll or one event too early shows.

The proofs remove these bounds for the safety properties they cover.

Deadlock is not checked where the system ends: an agent after its stop, a run that is
over, a session that was left, a command that exited, a fleet that is gone, a viewer that
ended, and totals at their bound.

### Fairness

- `FleetAgent`: Node runs armed timers (`LauncherRests`, `LauncherSpent`, `KillTimer`), the kernel
  delivers SIGKILL, exit events are delivered, `mkdir` returns. Nothing obliges the
  controller to speak, a viewer to end, or the gate to admit.
- `FleetRun`: everything that happens without a timeout: messages and closed pipes arrive,
  agents do as asked, viewers find peers, watching ones reach their bound, and the
  controller's polls see conditions that hold. One weak fairness over their disjunction is
  enough, since each happens finitely often in a run. Timeouts are possible but not fair:
  `RunEndsWithViewers` says they are not needed.
- `JoinSession`: the loop goes on, reports are sent and answered, joins are answered. No key
  has to be pressed, no ceiling has to be reached, nothing has to fail.
- `PublishedRun`: the event loop runs what is ready, an encoder that got a SIGINT exits (one that
  got none may encode for ever, so a stop that does not interrupt it is noticed), and the primary
  answers every request one way or the other: that is assumed, the code gives its
  requests no deadline. Nothing is assumed of mirrors, of the deadline of `stop()`, or of the user.
- `Provision`: the process's own steps. The provider answers one way or the other, an ssh
  returns; no box has to boot and no deadline has to pass.
- `MockViewer`: the process runs while it lives, what it wrote and was not lost is read, and a
  closed channel is noticed. Nobody has to stop it, no peer has to arrive, and the exit on a
  machine that is gone need not be heard of.

`FleetShares`, `Deploy` and `Judgement` state safety only.

## Findings

Disagreements between the code and what its comments say, each with a run that shows it:

1. `breach_sticky`: a cohort whose peer guard was breached on the console and had recovered when
   `finish()` looked is reported valid; "breaches are sticky" (`metrics/guard.ts:7-9`,
   `controller.ts:1403`).
2. `stop_invalid`: a ramp that stops on its condition ends the viewers that are still joining,
   counts them as never joined, and with enough of them calls itself invalid; "`killed` is not a
   failure" (`viewer/rollup.ts:433-434`, `controller.ts:1549`).
3. `publisher_left`: `run --publish` starts the publisher before the `try` that stops it; a
   scenario or run directory that throws in between leaves ffmpeg encoding
   (`cli.ts:340-342`, `cli.ts:288`).

### Known divergences

Corners where the code does less than a comment or a reader expects, and which the passing runs
except. Four have a property and a configuration of their own, in which TLC shows them
(`tlc -config <file> <module>`):

- `EarlyFinish.cfg` (`MCFleetRun`, `FinishedMeansFinished`): "the run is over when every requested
  viewer has started and none is left" (`controller.ts:744-746`). "0 of 0 starts spent, none
  active", reported before the first target, reads as a finished cohort, and the run ends at once
  (`controller.ts:753`). `FinishedLeavesNobody` is what holds nevertheless.
- `LateState.cfg` (`MCFleetRun`, `LostCountersZero`): "Zeroing them keeps every 'how many viewers are
  up' sum honest, and stopAll from waiting out a grace period for viewers that cannot answer"
  (`loseAgent`'s comment). A `state` handled after `loseAgent` brings the count back
  (`controller.ts:1221`), and `stopAll` waits its timeout for it: the exception in
  `RunEndsWithViewers` and `NoWaitIsStuck`.
- `RacingDeploys.cfg` (`Deploy`, `RacingIsHarmless`): "two deploys racing on one host are two deploys of
  identical bytes, and `mv` is atomic" (`deploy.ts:342-344`). They share one `.part`: the second
  `cat` truncates what the first has written, whose `mv` then installs the hole, and the hash fails
  a deployment in which nothing broke.
- `TornRecord.cfg` (`Provision`, `CrashLeavesRecord`): "a crash on the next one still leaves a file
  naming everything created so far" (`provision.ts:136-137`). The write truncates the file first
  (`provision.ts:393-396`), so a crash inside it leaves a file that names nothing.

The others are exceptions in a property, or steps of a model that no property forbids:

- Weights that differ: a machine lost before the cohort is asked for can make the settle phase
  wait for more viewers than were asked for (`BarrierReachable` in `FleetShares`, which does not
  hold; `controller.ts:548`). It costs the settle phase its deadline, not the run.
- When the channel of an ssh agent closes, the process exits and takes its SIGKILL timers along;
  a viewer that ignores SIGTERM stays (`cli.ts:503`). `StopEmptiesMachine` speaks of agents that
  stay up, so nothing is checked of it.
- A failed spawn leaves its viewer in the Map, and `stopAll` waits its whole timeout for it
  (`viewer/spawn.ts:169`). The agent reports it as it reports any other.
- `SettledUnlessMasked` excepts a viewer that held, exited and whose machine was lost afterwards:
  it still counts as ready (`controller.ts:861`).
- A quit, a key or a new stream during `createRunDir`, or a quit during the pause before a retry,
  is not passed to the epoch that opens next (`loadtest/client.ts:360`, `:483`; `missed` in
  `JoinSession`); the run ceiling ends an epoch, and the loop starts the next (`:272`).
- An epoch whose run fails in its preparations leaves an agent that still takes targets; viewers
  started by a key during the pause belong to no epoch (`loadtest/client.ts:330`; `refused`).
- Any failed read of the catalog counts as "never used" (`registry.ts:49`), and the next upsert
  writes over the others' entries; `CatalogKeepsOthers` excepts it.

Noticed while modelling, without a property of their own:

- A mock viewer told to end before it joined reads variables declared further down and exits 1
  without a summary (`EndsUnjoined`; `mock/viewer.ts`).
- Lines may be written to a viewer's events file after its exit closed it (`viewer/spawn.ts:177`).
- A known event that fails its schema falls through to the contract's `UnknownEvent`; its fields
  are then not checked.
- A viewer stopped before it joined is `never_joined`, a failure, whoever stopped it.
- "No half-written binary" (`deploy.ts:19-20`) is true of a deployment that succeeded, as
  `DeployedRunnable` says, and not of what a cut one leaves: `cat` takes the early end for the end
  of the file and `mv` installs it. The hash finds it out the next time.
- A rollback leaves boxes whose POST answer was lost, since it knows only what it was told
  (`provision.ts:14-17`, `vultr.ts:317-318`); `destroy` by tag finds them, and `CleanIsClean` covers them.
- `run --fleet` on the record of a provisioning that crashed can name a box without an address;
  `ReadyMeansReady` speaks of fleets that were announced.
- The ramp reports its ceiling reached without a breach though starts may still be pending. A
  guard breached while it climbs makes a participant's run invalid too (`GuardBreach`), where the
  same breach found at the end is a caveat (`judge()`).
- A measured cost above the ceiling denies every start on an idle machine (`schedule.ts:143`); the
  run then ends by its ceiling.
- Without ffmpeg on the path, `source.ts:44` raises an 'error' event nobody handles.
- `planStream` derives the owner without `SWARM_FLEET_KEY` (`publisher/control.ts:46`), while
  `startPublisher` uses it: with that key set, a settled run's viewers watch another feed than the
  one that is written.

## The proofs

Each theorem below holds for every value of the constants that satisfies the assumptions
of its module: no bound on viewers, machines, boxes, hosts, segments, mirrors, attempts or
epochs. The assumptions say that counts are natural numbers, sets are what the code has, and
switches are Booleans; TLC evaluates each of them in the run whose module declares or
extends it. Where a bound of the model (`MaxStarts`, `MaxTicks`, `Deployments`, ...) is a constant,
the theorem is for every value of it.

| module | theorem | property |
|---|---|---|
| `FleetAgentProofs` | `TypeCorrect`, `CeilingKept`, `LauncherAwake`, `BarrierReachesAll`, `ReportsCurrent`, `ShedsNewest` | `TypeOK`, `WithinTarget`, `NoLostWakeup`, `NoStrandedViewer`, `ReportIsCurrent`, `KeepsOldest` |
| | `ImplementsHost` | `HostPromise`: `Spec => Host!Spec` |
| `FleetSharesProofs` | `QuotasKept`, `NobodyOverAsked`, `StartsKept`, `BarrierIsReachable` | `QuotaRule`, `NobodyTakesMore`, `StartsBounded`, `BarrierReachableEqual` |
| `FleetRunProofs` | `BeliefIsTruth` | `BeliefCatchesUp` |
| | `FinishedIsEmptied` | `FinishedLeavesNobody` |
| | `OpensOnlySettled` | `SettledUnlessMasked` |
| | `MachinesAreHosts` | `HostsKeepPromise` |
| | `NoWaitIsStuck` | `AtRest => WaitOver \/ StillCounted`, the safety half of `RunEndsWithViewers` |
| | `BarrierCanOpen` | the settle phase's condition holds at rest: the safety half of `BarrierOpens`, given machines of one weight |
| `JoinSessionProofs` | `TypeCorrect`, `TargetsAreShown`, `SegmentsTally`, `TotalsKept`, `ViewersOfTheEpoch` | `TypeOK`, `TargetShown`, `Tally`, `TotalsNeverDrop`, `OnlyThisEpochsViewers` |
| `PublisherProofs` | `TypeCorrect`, `FeedWithoutHoles`, `OthersKept` | `TypeOK`, `NoHoleAhead`, `CatalogKeepsOthers` |
| | `ImplementsFeed` | `FeedPromise`: `Spec => StreamFeed!Spec` |
| `PreparationProofs` | `ProvisionTypeCorrect`, `RecordKept`, `DestroyedClean`, `AnnouncedWhole` | `TypeOK`, `NothingForgotten`, `CleanIsClean`, `ReadyMeansReady` |
| | `DeployTypeCorrect`, `SuccessRunnable` | `TypeOKDeploy`, `DeployedRunnable` |
| `ViewerProofs` | `TypeCorrect`, `WindowKept`, `SummaryIsFold` | `TypeOK`, `WindowIsTrailing`, `SummaryAgrees` |
| | `ToldIsAccounted` | `told /\ HeardOf => Accounted`, the safety half of `ReportsWhenTold` |
| `JudgementProofs` | `ConditionHeld`, `NobodyStoppedEarly`, `StaggerKept` | `StopHeld`, `HungAreOverdue`, `StaggerHolds` |

Hardly any of the properties is inductive alone. Each proof module states its inductive
invariant, proves that `Init` implies it and every action keeps it, one step for each
action (or one lemma for actions that change the same variables), and derives the theorems:

- **FleetAgent**: `WithinTarget` counts processes while the code counts Map entries, so `IInv`
  adds `Fates`: the Map holds exactly the viewers whose exit has not been handled, and the
  ordinals below `started` are those that were born. `ViewerExit` keeps the budget arithmetic
  only with `Counted` (every start is held or has ended). A target after a stop must not shed
  twice: `StopsAll`. A report is current, and a wake-up owed, only after the agent is ready:
  `AskedReady`. `RoomKept` is `WithinTarget` over Map entries; launching needs it to stay below
  the ceiling. `ImplementsHost` maps every action to a step of `ViewerHost` or a stutter.
- **FleetShares**: first the arithmetic of largest remainder. A sum is a number of units, so that
  sums over sets are compared by induction on finite sets; the leftover is less than the number
  of machines, so the ranks of the fractions hand out exactly that much (`Ranks`, `Partitioned`).
  `IInv` adds the types and `Budgeted` (a budget is within what the cap allows, and what was
  started is within the budget). `BarrierIsReachable` rests on `FewerGetMore`: with one weight, a
  total shared among fewer machines gives nobody less, so every survivor reaches its cap, and
  the caps are what the settle phase sums.
- **FleetRun**: seen from one machine, `Believed`. What was sent and not delivered ends in the
  truth (`LastIsTrue`), starts on their way are each told once (`Numbered`, `Told`, `Born`), and a
  machine that was written off is down (`LostIsDown`). `FinishedIsEmptied` asks what a machine's
  last word is worth while starts may be on their way: after a word of nobody active, if no start
  follows it, nobody runs (`LastWord`). With its whole share counted, no start is on its way
  (`Numbered`) and none is left to be made (`Limited`), so the zero the controller saw is the last
  word. How much a share is comes from `FleetShares`, by instantiating its proofs (`Division`): a
  cohort run is one of the runs that module divides for. `OpensOnlySettled` needs
  another view, `Recorded`: which viewers the records and the messages on their way speak of. A
  viewer is told of by its own machine only and as started before it is held or exited
  (`Orderly`), what is said of it is true or its machine is down (`HeldTrue`, `Quiet`), its
  exit is on record or on its way (`Noted`), and no machine has started more than its cap
  (`Modest`). Then it counts: the viewers that are ready lie among those that surviving machines
  were admitted for, there are exactly `Awaited` of these unless a masking viewer exists, so
  `Cardinality(Ready) >= Awaited` makes the two sets one. None of this minds messages that come
  late or a tick that comes early. `NoWaitIsStuck` and `BarrierCanOpen` speak
  of states in which none of the fair steps but the controller's own is left (`AtRest`). They
  rest on what each machine owes (`Dutiful`): a spent budget was reported (`Confessed`), the target
  it has is the controller's or on its way (`Targeted`), a stop or release that was decided is
  obeyed or in its queue (`Instructed`), what it was asked is answered (`Answers`); and on nobody
  counting as collected too early (`Uncollected`). A lost machine that late words brought back
  into the count is the one exception (`StillCounted`). The barrier adds that a viewer that had its
  peers is known or told of (`HeldKnown`) and that none is taken for lost on a live machine
  (`LossKnown`).
- **JoinSession**: the segments pulled are always the carried, the lost and the epoch's, and a
  snapshot shows no more than the last two (`Summed`); a controller runs exactly between an
  epoch's directory and its end (`Followed`); an epoch that opens knows the target or has missed
  a key (`Asked`); an agent that was told to stop takes no target (`Alone`).
- **Publisher**: where `publishLive()` stands says how many manifests were made and how many the
  primary has (`Numbered`, `Shape`); a mirror only holds, or is on its way to hold, a claimed
  index (`Claimed`); the registry's memory is the catalog's last update unless the read failed
  (`Catalogued`).
- **Provision** (`ProvisionInv`): what is known was rented (`Begun`), boxes never rented suffice
  (`Room`), what the rollback passed is gone or reported (`RolledOff`), a destroy that has not failed
  still lists all that is rented (`Sweeping`), what was taken for ready is (`AtHand`). That the
  record is right at every step but the one that writes it is `NothingForgotten` itself, with `died`
  standing for where the process was.
- **Deploy** (`DeployInv`): a script is where its deployment left it (`Attended`). Outside tainted
  hosts one unpack runs at a time, and a marked directory is whole or being removed (`Marked`). What
  nobody disturbs stays as it was found or given: no upload is under way, the binary is whole
  (`Supplied`), the agent is marked (`Equipped`). The controller's copy comes last (`RemoteFirst`).
- **Viewer** (`ViewerInv`): the window is the shortest admissible tail of what was folded
  (`Trails`), whatever the lengths. That survives a segment because the sums of tails fall, so where
  sliding stopped before, it stops no earlier after (`SlideStops`, `PushTrails`). The lines in the
  pipe lead from what the record counts to what the viewer counts (`Leads`). The viewer's total is
  within half a grain, for each stall, of the sum of what its lines said (`Written`), since a rounded
  number is that near (`RoundedNear`) and errors add up (`RoundedSum`); so the summary, the last of the
  lines, meets a record that has caught up and is `Close` to it. `ToldInv` follows a viewer that was
  told to end: its summary is in the record or in the pipe (`SummaryWaits`) unless its machine is
  gone, and an exit that was heard of (`HeardOf`) is taken for one that was asked for.
- **Judgement**: the breach's start and the streak of polls move together (`Streaked`). Starts on
  record are spaced by the interval the gate rolled (`Spaced`), so neither an evaluation in between
  nor the last one blames the stagger (`Unblamed`). Every start and every join on record is no later
  than the last of its kind (`Noticed`), from which the stragglers are measured.

Only model-checked is liveness (`StopEmptiesMachine`, `BarrierOpens`, `RunEndsWithViewers`, `QuitEnds`,
`FollowsPublisher`, `EndsDespiteMirrors`, `AbortEnds`, `ReportsWhenTold`): the prover has no rules for
fairness and ENABLED here. Every invariant and every action property that a passing run
checks is proved, without assumptions on the order of messages; `BarrierReachableEqual` and
`BarrierCanOpen` speak of machines of one weight, and "Known divergences" says what becomes of
others. For `RunEndsWithViewers`, `BarrierOpens` and
`ReportsWhenTold` the part that is not about fairness is proved: what holds once everything that
must happen has happened.

## Not modelled

- Framing, malformed lines and the oversize guard of the channels; schemas. They are sequential
  and have tests.
- The settle peer threshold, clock probes, statistics, console, reports: data or layout that
  decides none of the properties.
- The download of the artifacts, ELF and platform checks (`deploy/`): one sequential pass before
  anything else, whose outcome is a binary or an error.
- Sizing, limits, preflight, argument parsing, scenario resolution: pure, with tests over their
  boundaries.
- `joinLoadtest` before the session, and the saved identity of a participant.
- The provider's rate limiter.
- `Provision` with `Deploy`: they meet only in the record of the fleet, which `ReadyMeansReady` speaks
  of, and their product is too large for TLC.
- An abort in the first moments of a run with the summaries it may cost (`controller.ts:1037`):
  `FleetRun` has the wait, `MockViewer` the summaries.

## The plan

Done: the agent, partition, cohort run and session; the publisher and its commands;
provisioning; deploy; the viewer and its record; the gate, the guards and the verdict; and
the proofs of their safety properties.

Left, in this order:

1. `Channel`: framing, half-closed pipes and the outbox, refining the FIFO with breaks that
   `FleetRun` assumes.
2. A ramp over several machines: `Judgement`'s polls on `FleetRun`'s channels, with one machine
   lost while the condition is held.
3. What holds at rest for the other liveness properties: a session told to quit, a publisher
   told to stop, a provisioning that was aborted.
