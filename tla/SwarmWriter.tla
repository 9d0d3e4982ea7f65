----------------------------- MODULE SwarmWriter -----------------------------
(***************************************************************************)
(* One primary gateway and its mirrors, written to together                *)
(* (publisher/swarm.ts).  fanOut() starts a write everywhere at once; the  *)
(* caller goes on as soon as the primary has answered.  A mirror's answers *)
(* come at any later moment, in any order, or never.                       *)
(*                                                                         *)
(* The caller makes one write at a time: `current` is the write the        *)
(* primary has not answered, the others are settled.  What a write carries *)
(* is its key: a feed index, or NoIndex for a segment body and a catalog.    *)
(* A retry ladder is one answer: that of its last attempt.  Whatever the   *)
(* answer says, an earlier attempt may have landed.  The counts of a       *)
(* MirrorReport decide nothing and are left out.                           *)
(***************************************************************************)
EXTENDS Integers, FiniteSets

CONSTANTS
  Mirrors,      \* the gateways beside the primary, already deduplicated
  MaxInFlight,  \* MAX_IN_FLIGHT
  FailureLimit  \* FAILURE_LIMIT

ASSUME WriterAssumption ==
  /\ MaxInFlight \in Nat \ {0}
  /\ FailureLimit \in Nat \ {0}

NoIndex == -1  \* no update of the stream's feed

VARIABLES
  writes,   \* writes fanned out so far: the last one's number
  current,  \* the primary's part of the last write: "none", "pending", "failed"
  mirror,   \* per mirror: consecutiveFailures, disabled
  tasks,    \* per mirror: its writes in flight
  mirrored  \* per mirror: the highest feed index that reached it

writerVars == <<writes, current, mirror, tasks, mirrored>>

(* A mirror's task has not been answered, or was, with the reference the   *)
(* primary gives or with another, and waits in agree() for the primary's.  *)
Answers == {"same", "different"}
Task == [id: Nat, key: Nat \cup {NoIndex}, answer: {"none"} \cup Answers]

Settled(t) == t.id < writes \/ current # "pending"

InitWriter ==
  /\ writes = 0
  /\ current = "none"
  /\ mirror = [m \in Mirrors |-> [consecutive |-> 0, disabled |-> FALSE]]
  /\ tasks = [m \in Mirrors |-> {}]
  /\ mirrored = [m \in Mirrors |-> NoIndex]

Behind(m) == Cardinality(tasks[m]) >= MaxInFlight
Dispatched(m) == ~mirror[m].disabled /\ ~Behind(m)

(* fanOut() and, for each mirror, dispatch(): skip one that is disabled or *)
(* behind, and start the write at the others.                              *)
FanOut(key) ==
  /\ writes' = writes + 1
  /\ current' = "pending"
  /\ tasks' = [m \in Mirrors |->
       IF Dispatched(m)
         THEN tasks[m] \cup {[id |-> writes + 1, key |-> key, answer |-> "none"]}
         ELSE tasks[m]]
  /\ UNCHANGED <<mirror, mirrored>>

(* The primary's answer, with nothing fanned out in the same step.         *)
PrimaryAnswers(outcome) ==
  /\ current = "pending"
  /\ current' = outcome
  /\ UNCHANGED <<writes, mirror, tasks, mirrored>>

Landed(m, t) == IF t.key > mirrored[m] THEN t.key ELSE mirrored[m]

(* then(): the mirror took the write; agree() now awaits the primary.      *)
MirrorAccepts(m, t, answer) ==
  /\ t \in tasks[m] /\ t.answer = "none"
  /\ mirror' = [mirror EXCEPT ![m].consecutive = 0]
  /\ tasks' = [tasks EXCEPT ![m] = (@ \ {t}) \cup {[t EXCEPT !.answer = answer]}]
  /\ mirrored' = [mirrored EXCEPT ![m] = Landed(m, t)]
  /\ UNCHANGED <<writes, current>>

(* The rest of agree(), and finally(): a reference other than the one the  *)
(* primary gave retires the mirror.  When the primary failed there is none *)
(* to compare.                                                             *)
MirrorAgrees(m, t) ==
  /\ t \in tasks[m] /\ t.answer \in Answers /\ Settled(t)
  /\ mirror' = [mirror EXCEPT ![m].disabled =
       @ \/ (t.answer = "different" /\ ~(t.id = writes /\ current = "failed"))]
  /\ tasks' = [tasks EXCEPT ![m] = @ \ {t}]
  /\ UNCHANGED <<writes, current, mirrored>>

(* catch() and finally(): the failure that makes FAILURE_LIMIT in a row    *)
(* retires the mirror.                                                     *)
MirrorFails(m, t, landed) ==
  /\ t \in tasks[m] /\ t.answer = "none"
  /\ mirror' = [mirror EXCEPT ![m] =
       [consecutive |-> @.consecutive + 1,
        disabled |-> @.disabled \/ @.consecutive + 1 = FailureLimit]]
  /\ tasks' = [tasks EXCEPT ![m] = @ \ {t}]
  /\ mirrored' = IF landed THEN [mirrored EXCEPT ![m] = Landed(m, t)] ELSE mirrored
  /\ UNCHANGED <<writes, current>>

MirrorStep ==
  \E m \in Mirrors : \E t \in tasks[m] :
    \/ \E answer \in Answers : MirrorAccepts(m, t, answer)
    \/ MirrorAgrees(m, t)
    \/ \E landed \in BOOLEAN : MirrorFails(m, t, landed)

(* drain() waits for this, or for its deadline. *)
Drained == \A m \in Mirrors : tasks[m] = {}

TypeOKWriter ==
  /\ writes \in Nat
  /\ current \in {"none", "pending", "failed"}
  /\ mirror \in [Mirrors -> [consecutive: Nat, disabled: BOOLEAN]]
  /\ tasks \in [Mirrors -> SUBSET Task]
  /\ \A m \in Mirrors : Cardinality(tasks[m]) <= MaxInFlight
  /\ mirrored \in [Mirrors -> Nat \cup {NoIndex}]
=============================================================================
