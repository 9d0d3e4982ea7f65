----------------------------- MODULE PublishedRun -----------------------------
(***************************************************************************)
(* The commands that publish (cli.ts): `run --publish`, settled or not,    *)
(* and `publish` on its own, as the process that holds the publisher, with *)
(* the signals it gets.  What the controller does is one state, "running": *)
(* its inside is FleetRun's.  A process that exited takes the publisher    *)
(* with it, but ffmpeg is a process of its own and is not.                 *)
(***************************************************************************)
EXTENDS Publisher

CONSTANTS Modes  \* of the command: "run", "settled", "alone"

ASSUME ModesAssumption == Modes \subseteq {"run", "settled", "alone"}

VARIABLES
  mode,    \* which command this is
  cmd,     \* where it is
  handle,  \* startPublisher() gave a handle
  signals  \* signals handled

cmdVars == <<mode, cmd, handle, signals>>
vars == <<publisherVars, cmdVars>>

Init ==
  /\ InitPublisher
  /\ mode \in Modes
  /\ cmd = "begun"
  /\ handle = FALSE
  /\ signals = 0

(* The signal handlers are installed: after the publisher is joinable for  *)
(* a run that starts it first, before it for a settled one, and once the   *)
(* handle exists for `publish`.                                            *)
Handling ==
  \/ cmd \in {"running", "stopping", "watching"}
  \/ cmd \in {"joining", "giving up"} /\ mode = "settled"

(* startPublisher(), from startPublisherForRun() or from publishCommand(), *)
(* or from onSettled once the cohort is peered and nobody has aborted.     *)
Start ==
  /\ \/ cmd = "begun" /\ mode \in {"run", "alone"}
     \/ cmd = "running" /\ mode = "settled" /\ ~handle /\ signals = 0
  /\ handle' = TRUE
  /\ cmd' = IF mode = "alone" THEN "watching" ELSE "joining"
  /\ StartPublishing
  /\ UNCHANGED <<mode, signals, aborted>>

(* A settled run has nothing to start yet. *)
Defer ==
  /\ cmd = "begun" /\ mode = "settled"
  /\ cmd' = "preparing"
  /\ UNCHANGED <<mode, handle, signals, publisherVars>>

(* joinable(): a failure is thrown whatever else happened, a timeout too,  *)
(* and either makes start() stop the publisher before it throws.           *)
Joined ==
  /\ cmd = "joining" /\ told.joinable /\ pc # "failed"
  /\ cmd' = IF mode = "settled" THEN "running" ELSE "preparing"
  /\ UNCHANGED <<mode, handle, signals, publisherVars>>

GiveUp ==
  /\ cmd = "joining"
  /\ pc = "failed" \/ ~told.joinable
  /\ cmd' = "giving up"
  /\ aborted' = TRUE
  /\ UNCHANGED <<mode, handle, signals, publishVars, sourceVars, writerVars>>

(* stop() races the publisher's end against sixty seconds. *)
Stopped ==
  /\ cmd \in {"giving up", "stopping"}
  /\ handle => pc \in Ended
  /\ cmd' = IF cmd = "giving up" /\ mode = "settled" THEN "stopping" ELSE "exited"
  /\ UNCHANGED <<mode, handle, signals, publisherVars>>

StopTimesOut ==
  /\ cmd \in {"giving up", "stopping"} /\ handle /\ pc \notin Ended
  /\ cmd' = IF cmd = "giving up" /\ mode = "settled" THEN "stopping" ELSE "exited"
  /\ UNCHANGED <<mode, handle, signals, publisherVars>>

(* resolveScenario(), the run directory, the modules loaded late: whatever *)
(* throws here ends the process through main()'s catch.                    *)
Prepare ==
  /\ cmd = "preparing"
  /\ cmd' \in {"running", "exited"}
  /\ UNCHANGED <<mode, handle, signals, publisherVars>>

(* controller.run() returns or throws, and the finally tells the publisher *)
(* to stop.  A settled run that was not aborted has started it by then, or *)
(* failed before.                                                          *)
RunEnds ==
  /\ cmd = "running"
  /\ cmd' = "stopping"
  /\ aborted' = (aborted \/ handle)
  /\ UNCHANGED <<mode, handle, signals, publishVars, sourceVars, writerVars>>

(* `publish` waits for the stream's own end. *)
Finished ==
  /\ cmd = "watching" /\ pc \in Ended
  /\ cmd' = "exited"
  /\ UNCHANGED <<mode, handle, signals, publisherVars>>

(* The first signal asks, the second ends the process; one that comes      *)
(* before the handlers are there ends it too.                              *)
Up == cmd \notin {"exited", "killed"}

Signal ==
  /\ Up
  /\ \/ /\ Handling /\ signals = 0
        /\ signals' = 1
        /\ aborted' = (aborted \/ mode = "alone")
        /\ UNCHANGED cmd
     \/ /\ ~(Handling /\ signals = 0)
        /\ cmd' = "killed"
        /\ UNCHANGED <<signals, aborted>>
  /\ UNCHANGED <<mode, handle, publishVars, sourceVars, writerVars>>

(* The part of the publisher that lives in the process goes with it; what  *)
(* an encoder left behind goes on to do is no longer followed.             *)
Inside ==
  /\ Up
  /\ LoopStep \/ PrimaryStep \/ MirrorsStep
  /\ UNCHANGED cmdVars

Encoder ==
  /\ Up
  /\ Encode \/ EncoderExits
  /\ UNCHANGED cmdVars

Next ==
  \/ Start \/ Defer \/ Joined \/ GiveUp \/ Stopped \/ StopTimesOut \/ Prepare
  \/ RunEnds \/ Finished \/ Signal \/ Inside \/ Encoder

Spec == Init /\ [][Next]_vars

(* The event loop runs what is ready, the primary answers every request,   *)
(* one way or the other, and an encoder that got a SIGINT exits; one that  *)
(* got none may encode for ever.  Nothing is assumed of the mirrors, of    *)
(* stop()'s deadline, or of the user.                                      *)
FairSpec ==
  /\ Spec
  /\ WF_vars(Up /\ LoopStep /\ UNCHANGED cmdVars)
  /\ WF_vars(Up /\ PrimaryStep /\ UNCHANGED cmdVars)
  /\ WF_vars(Up /\ ffmpeg = "interrupted" /\ EncoderExits /\ UNCHANGED cmdVars)

(* ------------------------------- properties ------------------------------ *)

TypeOK ==
  /\ TypeOKPublisher
  /\ mode \in Modes
  /\ cmd \in {"begun", "joining", "giving up", "preparing", "running", "watching",
              "stopping", "exited", "killed"}
  /\ handle \in BOOLEAN
  /\ signals \in 0 .. 1

(* feed.ts 15-19: whatever lands late at a mirror, and however the primary *)
(* fails, no gateway holds an update in front of one the primary misses.   *)
NoHoleAhead ==
  /\ DOMAIN feed \in {0 .. n - 1 : n \in 0 .. nextIndex}
  /\ \A m \in Mirrors : \A i \in 0 .. mirrored[m] - 1 : i \in DOMAIN feed

(* The updates the primary holds are what a viewer may rely on. *)
StreamFeed == INSTANCE Feed WITH Window <- WindowSize
FeedPromise == StreamFeed!Spec

(* swarm.ts 24-30: a mirror must never stall the stream.  A publisher that *)
(* is told to stop comes to its end however its mirrors behave.            *)
EndsDespiteMirrors == aborted ~> (pc \in Ended \/ ~Up)

(* registry.ts 4-6: a stream joins the catalog others are in.  Unless its *)
(* read failed and index 0 was written over, the catalog's latest update   *)
(* keeps the other streams' entries and says one thing of this one.        *)
CatalogKeepsOthers ==
  LET latest == catalog[Max0(DOMAIN catalog)]
  IN Others \in catalog[0]
       => Others \in latest /\ Cardinality(latest \ {Others}) <= 1

(* cli.ts 340-342: the publisher is told to stop before a command that     *)
(* ends of itself does; an ffmpeg is not left encoding.                    *)
ToldToStop == cmd = "exited" /\ ffmpeg = "running" => aborted
=============================================================================
