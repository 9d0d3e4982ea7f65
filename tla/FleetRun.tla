------------------------------- MODULE FleetRun -------------------------------
(***************************************************************************)
(* One cohort run: the controller (controller.ts run, driveFixed,          *)
(* settleAndRelease, stopAll, collectAll), its machines, and the control   *)
(* channels between them.                                                  *)
(*                                                                         *)
(* The controller is one sequential program that polls: each wait is a pc, *)
(* left when its condition holds or its timeout fires.  Between two polls  *)
(* it handles the messages that arrived, one at a time.  A machine is a    *)
(* ViewerHost: the agent's own detail is module FleetAgent's.  It runs     *)
(* its handlers one at a time as well, and every handler that changed what *)
(* the agent would report ends by reporting it, so such a message carries  *)
(* the state with it (FleetAgent's ReportIsCurrent); a report that repeats *)
(* the last one changes nothing at the controller and is not sent.         *)
(*                                                                         *)
(* A channel is two FIFO queues.  It breaks at any moment, losing a suffix *)
(* of what the agent had sent and all the controller had; the agent goes   *)
(* down with it, and the controller learns of it only later.               *)
(***************************************************************************)
EXTENDS Partition, Sequences

CONSTANTS
  Machines,      \* positions in the scenario's list of agents
  Weight,        \* their weights
  Total,         \* viewers the cohort asks for
  Settle,        \* the cohort is held and released together
  Bounded,       \* --duration is given, so stragglers can be told
  EarlyTick,     \* a sampler tick may precede the first set_target
  LateMessages   \* a failed write may be noticed before the pipe is read out

ASSUME RunAssumption ==
  /\ Machines \subseteq Nat /\ IsFiniteSet(Machines) /\ Machines # {}
  /\ Weight \in [Machines -> Nat \ {0}]
  /\ Total \in Nat
  /\ {Settle, Bounded, EarlyTick, LateMessages} \subseteq BOOLEAN

(* A viewer is its machine and its number there. *)
Viewers == Machines \X (0 .. Total - 1)
On(m) == {v \in Viewers : v[1] = m}

(* report.maxViewers, fixed when the run connects. *)
Cap(m) == Shares(Total, Weight, Machines)[m]

VARIABLES
  pc,        \* where run() is
  link,      \* what the controller believes of each machine
  rollups,   \* viewers with a record; those that said `held`; that exited;
             \* and those whose machine was lost
  aborted,   \* this.aborted
  caveat,    \* the cohort was released before it had settled
  because,   \* stoppedBecause, for the endings of driveFixed
  host,      \* each machine: up, prepared, target, budget, started,
             \* stopping, released
  proc,      \* each viewer process
  last,      \* what each machine last reported
  up,        \* messages on their way to the controller
  down       \* messages on their way to each machine

controllerVars == <<pc, link, rollups, aborted, caveat, because>>
vars == <<pc, link, rollups, aborted, caveat, because, host, proc, last, up, down>>

(* The controller's waits.  "starting" is between awaitReady and the       *)
(* target; "draining" the stopAll of a run that did not end by itself;     *)
(* "stopping" the one of every run.                                        *)
Places == {"awaiting", "starting", "settling", "publishing", "measuring",
           "draining", "stopping", "collecting", "over", "failed"}

Idle == [up |-> TRUE, prepared |-> FALSE, target |-> 0, budget |-> 0,
         started |-> 0, stopping |-> FALSE, released |-> FALSE]
NoReport == [active |-> 0, exhausted |-> FALSE]

Init ==
  /\ pc = "awaiting"
  /\ link = [m \in Machines |->
               [ready |-> FALSE, lost |-> FALSE, target |-> 0, started |-> 0,
                active |-> 0, exhausted |-> FALSE, collected |-> FALSE]]
  /\ rollups = [known |-> {}, held |-> {}, exited |-> {}, lost |-> {}]
  /\ aborted = FALSE
  /\ caveat = FALSE
  /\ because = "nothing yet"
  /\ host = [m \in Machines |-> Idle]
  /\ proc = [v \in Viewers |-> "unborn"]
  /\ last = [m \in Machines |-> NoReport]
  /\ up = [m \in Machines |-> <<>>]
  /\ down = [m \in Machines |-> <<>>]

Live == {m \in Machines : ~link[m].lost}
Running(m) == {v \in On(m) : proc[v] \in {"dialing", "parked"}}

-----------------------------------------------------------------------------
(* The channels.                                                           *)

(* channel.send() on every machine of S; a lost link's is closed.  What is *)
(* written to a broken pipe goes nowhere.                                  *)
SendAll(S, message) ==
  down' = [m \in Machines |->
             IF m \in S /\ (host[m].up \/ LateMessages)
             THEN Append(down[m], message[m]) ELSE down[m]]

Saying(what) == [m \in Machines |-> [what |-> what, n |-> 0]]

Now(m) == [active |-> Cardinality(Running(m)),
           exhausted |-> host[m].started >= host[m].budget]

SayBeforeUpdate(m, what, about) ==
  /\ last' = [last EXCEPT ![m] = Now(m)]
  /\ up' = [up EXCEPT ![m] =
              Append(@, [what |-> what, about |-> about, state |-> Now(m)])]

(* A message and the report that follows it in the same handler. *)
Say(m, what, about) ==
  /\ last' = [last EXCEPT ![m] = Now(m)']
  /\ up' = [up EXCEPT ![m] =
              Append(@, [what |-> what, about |-> about, state |-> Now(m)'])]

(* reportState() alone: sent only if it says anything new. *)
Report(m) ==
  IF Now(m)' = last[m] THEN UNCHANGED <<last, up>> ELSE Say(m, "state", {})

(* The agent goes down, and its viewers are out of the run: what matters   *)
(* from here on is only how much of what it said still arrives.            *)
Break(m) ==
  /\ host[m].up
  /\ host' = [host EXCEPT ![m] = [Idle EXCEPT !.up = FALSE]]
  /\ proc' = [v \in Viewers |-> IF v \in On(m) THEN "ended" ELSE proc[v]]
  /\ last' = [last EXCEPT ![m] = NoReport]
  /\ \E k \in 0 .. Len(up[m]) : up' = [up EXCEPT ![m] = SubSeq(@, 1, k)]
  /\ down' = [down EXCEPT ![m] = <<>>]
  /\ UNCHANGED controllerVars

-----------------------------------------------------------------------------
(* A machine.                                                              *)

(* configure() is done: `ready`. *)
AgentReady(m) ==
  /\ host[m].up
  /\ ~host[m].prepared
  /\ host' = [host EXCEPT ![m].prepared = TRUE]
  /\ up' = [up EXCEPT ![m] =
              Append(@, [what |-> "ready", about |-> {}, state |-> last[m]])]
  /\ UNCHANGED <<controllerVars, proc, last, down>>

(* A sampler tick, which reports too. *)
Tick(m) ==
  /\ EarlyTick
  /\ host[m].up
  /\ host[m].prepared
  /\ UNCHANGED <<controllerVars, host, proc, down>>
  /\ Report(m)

(* A message of the controller's: set_target, release, stop or collect.    *)
HandleMessage(m) ==
  /\ host[m].up
  /\ down[m] # <<>>
  /\ down' = [down EXCEPT ![m] = Tail(@)]
  /\ LET message == Head(down[m]) IN
     /\ host' = [host EXCEPT ![m] =
          CASE message.what = "target" ->
                 [@ EXCEPT !.target = message.n, !.budget = message.n]
            [] message.what = "release" -> [@ EXCEPT !.released = TRUE]
            [] message.what = "stop" -> [@ EXCEPT !.stopping = TRUE]
            [] message.what = "collect" -> @]
     /\ UNCHANGED <<controllerVars, proc>>
     /\ IF message.what = "collect" THEN Say(m, "collected", {}) ELSE Report(m)

LaunchForgetsBudget(m) ==
  /\ host[m].up
  /\ ~host[m].stopping
  /\ Cardinality(Running(m)) < host[m].target
  /\ host[m].started < Total
  /\ host' = [host EXCEPT ![m].started = @ + 1]
  /\ proc' = [proc EXCEPT ![<<m, host[m].started>>] = "dialing"]
  /\ UNCHANGED <<controllerVars, down>>
  /\ Say(m, "started", {<<m, host[m].started>>})

Launch(m) ==
  /\ host[m].up
  /\ ~host[m].stopping
  /\ Cardinality(Running(m)) < host[m].target
  /\ host[m].started < host[m].budget
  /\ host' = [host EXCEPT ![m].started = @ + 1]
  /\ proc' = [proc EXCEPT ![<<m, host[m].started>>] = "dialing"]
  /\ UNCHANGED <<controllerVars, down>>
  /\ Say(m, "started", {<<m, host[m].started>>})

(* `held`: it has the peers asked for, and waits for its "go".  A viewer   *)
(* that parks short of them is never counted, like one that never parks.   *)
ViewerParks(v) ==
  /\ Settle
  /\ host[v[1]].up
  /\ proc[v] = "dialing"
  /\ proc' = [proc EXCEPT ![v] = "parked"]
  /\ UNCHANGED <<controllerVars, host, down>>
  /\ Say(v[1], "held", {v})

(* It finished, crashed, or was stopped, and the agent heard of its exit.  *)
ViewerEnds(v) ==
  /\ host[v[1]].up
  /\ proc[v] \in {"dialing", "parked"}
  /\ proc' = [proc EXCEPT ![v] = IF @ = "parked" THEN "ended" ELSE "died"]
  /\ UNCHANGED <<controllerVars, host, down>>
  /\ Say(v[1], "exited", {v})

-----------------------------------------------------------------------------
(* The controller's callbacks.                                             *)

Starts(message) ==
  IF message.what = "started" THEN Cardinality(message.about) ELSE 0

(* onAgentMessage() *)
Deliver(m) ==
  /\ up[m] # <<>>
  /\ LET message == Head(up[m])
         about == message.about
         news(what) == IF message.what = what THEN about ELSE {}
         l == link[m]
     IN
     /\ link' = [link EXCEPT ![m] =
          [l EXCEPT !.ready = l.ready \/ message.what = "ready",
                    !.collected = l.collected \/ message.what = "collected",
                    !.started = l.started + Starts(message),
                    !.active = message.state.active,
                    !.exhausted = message.state.exhausted]]
     /\ rollups' = [rollups EXCEPT !.known = @ \union news("started"),
                                   !.held = @ \union news("held"),
                                   !.exited = @ \union news("exited")]
  /\ up' = [up EXCEPT ![m] = Tail(@)]
  /\ UNCHANGED <<pc, aborted, caveat, because, host, proc, last, down>>

LoseAwaitsFiles(m) ==
  /\ link' = [link EXCEPT ![m] =
               [@ EXCEPT !.lost = TRUE, !.target = 0, !.active = 0,
                         !.exhausted = TRUE]]
  /\ rollups' = [rollups EXCEPT !.lost = @ \union (rollups.known \intersect On(m))]
  /\ aborted' = (aborted \/ Live = {m})

(* loseAgent(): the machine is written off, and the run goes on without.   *)
LoseAgent(m) ==
  /\ link' = [link EXCEPT ![m] =
               [@ EXCEPT !.lost = TRUE, !.target = 0, !.active = 0,
                         !.exhausted = TRUE, !.collected = TRUE]]
  /\ rollups' = [rollups EXCEPT !.lost = @ \union (rollups.known \intersect On(m))]
  /\ aborted' = (aborted \/ Live = {m})

(* The channel's onClose: the pipe was read to its end or, with LateMessages, *)
(* a write to it failed first.                                                *)
ChannelCloses(m) ==
  /\ ~host[m].up
  /\ ~link[m].lost
  /\ ~link[m].collected
  /\ up[m] = <<>> \/ (LateMessages /\ down[m] # <<>>)
  /\ LoseAgent(m)
  /\ UNCHANGED <<pc, caveat, because, host, proc, last, up, down>>

(* stopAll() up to its wait.  A second stop changes nothing at an agent    *)
(* that had the first, so only the first is sent here.                     *)
StopLive(first) ==
  /\ link' = [m \in Machines |->
               IF m \in Live THEN [link[m] EXCEPT !.target = 0] ELSE link[m]]
  /\ IF first THEN SendAll(Live, Saying("stop")) ELSE UNCHANGED down

(* abort(), from a signal.  When the run is stopping anyway it would only  *)
(* repeat the stop.                                                        *)
Abort ==
  /\ pc \notin {"draining", "stopping", "collecting"}
  /\ ~aborted
  /\ aborted' = TRUE
  /\ StopLive(TRUE)
  /\ UNCHANGED <<pc, rollups, caveat, because, host, proc, last, up>>

-----------------------------------------------------------------------------
(* The controller's program.  Each action leaves one wait.                 *)

Goto(from, to) ==
  /\ pc = from
  /\ pc' = to
  /\ UNCHANGED <<rollups, aborted, host, proc, last, up>>

TotalActive == SumOver([m \in Machines |-> link[m].active], Machines)
LiveStarted == SumOver([m \in Machines |-> link[m].started], Live)

(* awaitReady(), requireFleet() *)
AllReady ==
  /\ Goto("awaiting", "starting")
  /\ Live # {}
  /\ \A m \in Live : link[m].ready
  /\ UNCHANGED <<link, caveat, because, down>>

(* A timeout, a failed preflight, or no fleet: run() throws. *)
Refuse ==
  /\ Goto("awaiting", "failed")
  /\ UNCHANGED <<link, caveat, because, down>>

(* setTotalTarget(total, 'none') *)
StartCohort ==
  LET share == [m \in Live |-> LET s == Shares(Total, Weight, Live)[m]
                               IN IF s < Cap(m) THEN s ELSE Cap(m)]
  IN
  /\ Goto("starting", IF Settle THEN "settling" ELSE "measuring")
  /\ link' = [m \in Machines |->
               IF m \in Live THEN [link[m] EXCEPT !.target = share[m]] ELSE link[m]]
  /\ SendAll(Live, [m \in Live |-> [what |-> "target", n |-> share[m]]])
  /\ UNCHANGED <<caveat, because>>

(* settleAndRelease(): the target shrinks with the fleet; a viewer with an *)
(* exit on record is judged by it, and no longer by its machine's loss.    *)
Capacity == SumOver([m \in Machines |-> Cap(m)], Live)
AwaitedAtFirst == Total
Awaited == IF Total < Capacity THEN Total ELSE Capacity
Lost(v) == v \in rollups.lost /\ v \notin rollups.exited
ReadyAnywhere == rollups.held
Ready == {v \in rollups.held : ~Lost(v)}

Settled ==
  /\ ~aborted
  /\ LiveStarted >= Awaited
  /\ Cardinality(Ready) >= Awaited
  /\ Goto("settling", "publishing")
  /\ UNCHANGED <<link, caveat, because, down>>

SettleTimeout ==
  /\ ~aborted
  /\ Goto("settling", "publishing")
  /\ caveat' = (Cardinality(Ready) < Awaited)
  /\ UNCHANGED <<link, because, down>>

SettleAborted ==
  /\ aborted
  /\ Goto("settling", "measuring")
  /\ UNCHANGED <<link, caveat, because, down>>

(* onSettled(): the stream is up, and every barrier opens. *)
Published ==
  /\ Goto("publishing", "measuring")
  /\ SendAll(Live, Saying("release"))
  /\ UNCHANGED <<link, caveat, because>>

(* It threw, and so does run(). *)
PublishFails ==
  /\ Goto("publishing", "failed")
  /\ UNCHANGED <<link, caveat, because, down>>

(* driveFixed(), after the release. *)
Spent == \A m \in Live : link[m].exhausted \/ link[m].target = 0
FinishedOnceSpent == Spent
Finished == Spent /\ TotalActive = 0

EndRun(why, to) ==
  /\ Goto("measuring", to)
  /\ because' = why
  /\ StopLive(~aborted)
  /\ UNCHANGED caveat

RunAborted == aborted /\ EndRun("aborted", "stopping")
RunFinished == ~aborted /\ Finished /\ EndRun("finished", "stopping")

(* stragglersOverdue() *)
RunOverdue ==
  /\ Bounded
  /\ ~aborted
  /\ ~Finished
  /\ TotalActive > 0
  /\ EndRun("hung", "draining")

RunCeiling ==
  /\ ~aborted
  /\ ~Finished
  /\ EndRun("ceiling", "draining")

(* stopAll() waits for the active counts to reach zero, or for the grace.  *)
StopAgain ==
  /\ Goto("draining", "stopping")
  /\ StopLive(FALSE)
  /\ UNCHANGED <<caveat, because>>

BeginCollect ==
  /\ Goto("stopping", "collecting")
  /\ SendAll(Live, Saying("collect"))
  /\ UNCHANGED <<link, caveat, because>>

(* collectAll(), whose shutdown ends the run and this model of it.         *)
EndCollect ==
  /\ Goto("collecting", "over")
  /\ UNCHANGED <<link, caveat, because, down>>

StopWaitDone == TotalActive = 0 /\ (StopAgain \/ BeginCollect)
StopWaitTimeout == TotalActive > 0 /\ (StopAgain \/ BeginCollect)
CollectDone == (\A m \in Machines : link[m].collected) /\ EndCollect
CollectTimeout == (\E m \in Machines : ~link[m].collected) /\ EndCollect

-----------------------------------------------------------------------------
Progress ==
  \/ AllReady \/ StartCohort
  \/ Settled \/ SettleAborted \/ Published
  \/ RunAborted \/ RunFinished
  \/ StopWaitDone \/ CollectDone

Timeouts ==
  \/ Refuse \/ SettleTimeout \/ PublishFails
  \/ RunOverdue \/ RunCeiling
  \/ StopWaitTimeout \/ CollectTimeout

Agent(m) ==
  \/ AgentReady(m)
  \/ Tick(m)
  \/ HandleMessage(m)
  \/ Launch(m)

Next ==
  /\ pc \notin {"over", "failed"}
  /\ \/ Progress
     \/ Timeouts
     \/ Abort
     \/ \E m \in Machines : Agent(m) \/ Break(m) \/ Deliver(m) \/ ChannelCloses(m)
     \/ \E v \in Viewers : ViewerParks(v) \/ ViewerEnds(v)

Spec == Init /\ [][Next]_vars

(* What happens without any timeout firing: messages and closed pipes      *)
(* arrive, agents do what they were asked, viewers find their peers, one   *)
(* that is watching reaches its bound, and one told to stop is killed at   *)
(* the latest when its grace is over.                                      *)
Watching(m) == host[m].released \/ ~Settle \/ host[m].stopping

Unhurried ==
  /\ pc \notin {"over", "failed"}
  /\ \/ \E m \in Machines :
          \/ Deliver(m) \/ HandleMessage(m) \/ AgentReady(m)
          \/ ChannelCloses(m) \/ Launch(m)
     \/ \E v \in Viewers : ViewerParks(v) \/ (Watching(v[1]) /\ ViewerEnds(v))
     \/ Progress

(* Each of these happens finitely often in a run, so fairness to their     *)
(* disjunction is fairness to each of them.                                *)
Fairness == WF_vars(Unhurried)

FairSpec == Spec /\ Fairness

-----------------------------------------------------------------------------
(* Properties.                                                             *)

(* The type invariant. *)
Messages(m) ==
  [what : {"ready", "started", "held", "exited", "state", "collected"},
   about : SUBSET On(m), state : [active : 0 .. Total, exhausted : BOOLEAN]]

TypeOK ==
  /\ pc \in Places
  /\ link \in [Machines ->
       [ready : BOOLEAN, lost : BOOLEAN, target : 0 .. Total, started : 0 .. Total,
        active : 0 .. Total, exhausted : BOOLEAN, collected : BOOLEAN]]
  /\ rollups \in [known : SUBSET Viewers, held : SUBSET Viewers,
                  exited : SUBSET Viewers, lost : SUBSET Viewers]
  /\ aborted \in BOOLEAN
  /\ caveat \in BOOLEAN
  /\ because \in {"nothing yet", "aborted", "finished", "hung", "ceiling"}
  /\ host \in [Machines ->
       [up : BOOLEAN, prepared : BOOLEAN, target : 0 .. Total, budget : 0 .. Total,
        started : 0 .. Total, stopping : BOOLEAN, released : BOOLEAN]]
  /\ proc \in [Viewers -> {"unborn", "dialing", "parked", "ended", "died"}]
  /\ last \in [Machines -> [active : 0 .. Total, exhausted : BOOLEAN]]
  /\ \A m \in Machines : up[m] \in Seq(Messages(m))
  /\ \A m \in Machines : down[m] \in
       Seq([what : {"target", "release", "stop", "collect"}, n : 0 .. Total])

(* What driveFixed says of its end: "the run is over when every requested  *)
(* viewer has started and none is left".  A run that ended as finished     *)
(* had, on every machine still in the fleet, started its whole share and   *)
(* seen the last one exit.                                                 *)
Emptied(m) == host[m].started = Cap(m) /\ Running(m) = {}

FinishedMeansFinished ==
  because = "finished" => \A m \in Live : host[m].up => Emptied(m)

(* What it can rely on: its numbers were reported at different moments and *)
(* may be behind, or from before the target, but a machine whose whole     *)
(* share is among the starts counted has nobody left, whatever is still on *)
(* its way.                                                                *)
FinishedLeavesNobody ==
  [][because' = "finished" =>
       \A m \in Live : host[m].up /\ link[m].started = Cap(m) => Emptied(m)]_because

(* settleAndRelease: released without a caveat, the cohort had settled: no *)
(* viewer of a machine still in the fleet is dialing, or has yet to start, *)
(* and none died before it had its peers; unless a viewer that held and    *)
(* exited is on a machine lost since: it is counted in place of one.       *)
Opened == Settle /\ ~aborted /\ ~caveat /\ pc \in {"publishing", "measuring"}
Peered(m) ==
  host[m].up => \A i \in 0 .. Cap(m) - 1 : proc[<<m, i>>] \in {"parked", "ended"}

SettledUnlessMasked ==
  Opened => \/ \A m \in Live : Peered(m)
            \/ \E v \in rollups.held : v \in rollups.exited /\ link[v[1]].lost

(* What loseAgent says of it: "Zeroing them keeps every 'how many viewers  *)
(* are up' sum honest, and stopAll from waiting out a grace period for     *)
(* viewers that cannot answer".                                            *)
LostCountersZero ==
  \A m \in Machines : link[m].lost => link[m].active = 0 /\ link[m].target = 0

(* With nothing in flight the controller's numbers are the machine's: it   *)
(* counts every start, and every exit, however they interleave with the    *)
(* reports around them (onAgentMessage, reportState).                      *)
BeliefCatchesUp ==
  \A m \in Live : host[m].up /\ up[m] = <<>> =>
    /\ link[m].active = Cardinality(Running(m))
    /\ link[m].started = host[m].started
    /\ link[m].exhausted =>  host[m].started >= host[m].budget

(* Each machine of the run is a ViewerHost, so what the fleet is checked   *)
(* with is what the agent is checked to be (FleetAgent's HostPromise).     *)
Host(m) == INSTANCE ViewerHost WITH
             running <- {v[2] : v \in Running(m)}, started <- host[m].started,
             limit <- host[m].target, budget <- host[m].budget,
             closing <- host[m].stopping
HostsKeepPromise ==
  /\ \A m \in Machines : Host(m)!Init
  /\ [][\A m \in Machines : host'[m].up => [Host(m)!Next]_(Host(m)!vars)]_vars

(* The barrier opens on the fleet that is there: no loss of a machine, at  *)
(* any point, leaves the survivors' viewers parked until the settle        *)
(* deadline.  Only a viewer that died before it had its peers does.        *)
BarrierOpens ==
  pc = "settling" ~> (pc # "settling" \/ \E v \in Viewers : proc[v] = "died")

(* When its viewers reach their bound the run ends by itself, whatever was *)
(* lost or aborted: no wait of stopAll or collectAll needs its timeout,    *)
(* unless a machine written off is still counted (LostCountersZero).       *)
RunEndsWithViewers ==
  pc = "measuring" ~>
    (pc = "over" \/ \E m \in Machines : link[m].lost /\ link[m].active # 0)
=============================================================================
