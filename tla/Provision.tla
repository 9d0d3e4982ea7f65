------------------------------ MODULE Provision ------------------------------
(***************************************************************************)
(* A rented fleet (provision/provision.ts, through provision/vultr.ts):    *)
(* `provision` creates the boxes one by one, records each, waits for their *)
(* cloud-init, and gives them back when anything fails; `destroy`, a later *)
(* process, asks the provider what carries the fleet's tag.                *)
(*                                                                         *)
(* `account` is the provider's truth.  A call to it is one step, its       *)
(* retries are not: a POST that is sent again may have rented a box nobody *)
(* is told about.  Every box carries the tag, the untold ones too.         *)
(* A write of the record makes the directory, truncates the file, which is *)
(* Torn from there on, and fills it; it may fail at either.                *)
(***************************************************************************)
EXTENDS Integers, FiniteSets, FiniteSetsExt

CONSTANTS
  Count,    \* options.count
  Spare,    \* bound: boxes rented beyond those, by answers that were lost
  Retries   \* VultrClient's retries of a call that is not a delete

ASSUME ProvisionAssumption ==
  Count \in Nat \ {0} /\ Spare \in Nat /\ Retries \in Nat

Boxes == 1 .. Count + Spare
Missing == [kind |-> "missing"]
Torn == [kind |-> "torn"]
Recorded(boxes, addressed) ==
  [kind |-> "fleet", instances |-> boxes, addressed |-> addressed]

VARIABLES
  account,    \* per box: "none", "new", "up", "ready", "broken" or "gone"
  file,       \* <fleetId>.json
  pc,         \* where provisionFleet() is
  attempt,    \* callNow()'s, while a POST is made
  known,      \* fleet.instances
  addressed,  \* those whose ip is usable
  readyOnes,  \* waitForReady()'s ready set
  todo,       \* what the rollback has not come to
  forgotten,  \* boxes the rollback could not delete
  aborted,    \* options.signal
  died,       \* where the process was when it was ended, "no" while it was not
  destroy,    \* destroyFleet(): its step, what it listed, whether one failed
  destroyed   \* result of the last `destroy`: "none", "clean" or "failed"

recordVars == <<account, file>>
buildVars == <<pc, attempt, known, addressed, readyOnes, todo, forgotten, aborted, died>>
destroyVars == <<destroy, destroyed>>
provisionVars == <<recordVars, buildVars, destroyVars>>

Rented(b) == account[b] \notin {"none", "gone"}
Addressed(b) == account[b] \in {"up", "ready", "broken"}
Fresh == {b \in Boxes : account[b] = "none"}
Over == pc \in {"ready", "thrown", "dead"}
Named(b) == file.kind = "fleet" /\ b \in file.instances

Init ==
  /\ account = [b \in Boxes |-> "none"]
  /\ file = Missing
  /\ pc = "creating" /\ attempt = 0
  /\ known = {} /\ addressed = {} /\ readyOnes = {} /\ todo = {} /\ forgotten = {}
  /\ aborted = FALSE /\ died = "no"
  /\ destroy = [at |-> "idle", left |-> {}, failed |-> FALSE]
  /\ destroyed = "none"

(* The catch: with nothing created there is nothing to give back. *)
Throw ==
  /\ pc' = IF known = {} THEN "thrown" ELSE "rolling back"
  /\ todo' = known
  /\ attempt' = 0

(* ------------------------------- creating ------------------------------- *)

(* throwIfAborted(), then the POST is on its way; after the last box the   *)
(* wait begins.                                                            *)
NextBox ==
  /\ pc = "creating"
  /\ \/ /\ Cardinality(known) = Count /\ pc' = "waiting"
        /\ UNCHANGED <<todo, attempt>>
     \/ /\ Cardinality(known) < Count /\ ~aborted /\ pc' = "renting"
        /\ UNCHANGED <<todo, attempt>>
     \/ Cardinality(known) < Count /\ aborted /\ Throw
  /\ UNCHANGED <<recordVars, known, addressed, readyOnes, forgotten, aborted, died, destroyVars>>

RentedNow == LET b == Min(Fresh) IN account' = [account EXCEPT ![b] = "new"]
SpareSpent == Cardinality(Fresh) = Count - Cardinality(known)

(* A 2xx that parses: the box is known, and is to be recorded.             *)
BoxRented ==
  /\ pc = "renting"
  /\ RentedNow
  /\ known' = known \cup {Min(Fresh)}
  /\ attempt' = 0
  /\ pc' = "recording"
  /\ UNCHANGED <<file, addressed, readyOnes, todo, forgotten, aborted, died, destroyVars>>

(* 429 and 5xx are sent again until the attempts run out; a box may have   *)
(* been rented behind the latter.                                          *)
RentRetried ==
  /\ pc = "renting" /\ attempt < Retries
  /\ attempt' = attempt + 1
  /\ UNCHANGED account \/ (~SpareSpent /\ RentedNow)
  /\ UNCHANGED <<file, pc, known, addressed, readyOnes, todo, forgotten, aborted, died, destroyVars>>

(* Another 4xx, the last attempt, a connection that broke, a body that     *)
(* does not parse.                                                         *)
RentFails ==
  /\ pc = "renting"
  /\ Throw
  /\ UNCHANGED account \/ (~SpareSpent /\ RentedNow)
  /\ UNCHANGED <<file, known, addressed, readyOnes, forgotten, aborted, died, destroyVars>>

(* writeFleetState(), after a box, after the wait and after the rollback:  *)
(* mkdir() or the opening fails and leaves the file alone, or empties it.  *)
OpenRecord ==
  /\ pc \in {"recording", "saving", "emptying"} /\ file # Torn
  /\ \/ file' = Torn /\ UNCHANGED <<pc, todo, attempt>>
     \/ pc = "emptying" /\ pc' = "thrown" /\ UNCHANGED <<file, todo, attempt>>
     \/ pc # "emptying" /\ Throw /\ UNCHANGED file
  /\ UNCHANGED <<account, known, addressed, readyOnes, forgotten, aborted, died, destroyVars>>

(* A plausible slip: recording the fleet when it is complete. *)
RecordAtTheEnd ==
  /\ pc \in {"recording", "saving"} /\ file = Torn
  /\ file' = IF pc = "saving" THEN Recorded(known, addressed) ELSE Missing
  /\ pc' = IF pc = "saving" THEN "ready" ELSE "creating"
  /\ UNCHANGED <<account, attempt, todo, known, addressed, readyOnes, forgotten, aborted, died,
                 destroyVars>>

Record ==
  /\ pc \in {"recording", "saving"} /\ file = Torn
  /\ \/ /\ file' = Recorded(known, addressed)
        /\ pc' = IF pc = "saving" THEN "ready" ELSE "creating"
        /\ UNCHANGED <<todo, attempt>>
     \/ Throw /\ UNCHANGED file
  /\ UNCHANGED <<account, known, addressed, readyOnes, forgotten, aborted, died, destroyVars>>

(* ----------------------------- waitForReady() ---------------------------- *)

(* A plausible slip: taking a box that has its address for a ready one.    *)
AllAddressed ==
  /\ pc = "waiting" /\ addressed = known
  /\ pc' = "saving"
  /\ UNCHANGED <<recordVars, attempt, known, addressed, readyOnes, todo, forgotten, aborted, died,
                 destroyVars>>

AllReady ==
  /\ pc = "waiting" /\ readyOnes = known
  /\ pc' = "saving"
  /\ UNCHANGED <<recordVars, attempt, known, addressed, readyOnes, todo, forgotten, aborted, died,
                 destroyVars>>

(* The top of the loop: an abort, the deadline, or a listing that failed.  *)
WaitFails ==
  /\ pc = "waiting" /\ readyOnes # known
  /\ Throw
  /\ UNCHANGED <<recordVars, known, addressed, readyOnes, forgotten, aborted, died, destroyVars>>

(* A plausible slip: a wait that an abort does not end. *)
PollThroughAbort ==
  /\ pc = "waiting" /\ readyOnes # known
  /\ addressed' = addressed \cup {b \in known : Addressed(b)}
  /\ pc' = "probing"
  /\ UNCHANGED <<recordVars, attempt, known, readyOnes, todo, forgotten, aborted, died, destroyVars>>

(* One listing gives the addresses, one probe per box that has one and is  *)
(* not ready asks for its sentinels; an ssh that fails says "pending".     *)
Poll ==
  /\ pc = "waiting" /\ readyOnes # known /\ ~aborted
  /\ addressed' = addressed \cup {b \in known : Addressed(b)}
  /\ pc' = "probing"
  /\ UNCHANGED <<recordVars, attempt, known, readyOnes, todo, forgotten, aborted, died, destroyVars>>

Probes ==
  /\ pc = "probing"
  /\ \E answered \in SUBSET (addressed \ readyOnes) :
       /\ readyOnes' = readyOnes \cup {b \in answered : account[b] = "ready"}
       /\ IF \E b \in answered : account[b] = "broken"
            THEN Throw
            ELSE pc' = "waiting" /\ UNCHANGED <<todo, attempt>>
  /\ UNCHANGED <<recordVars, known, addressed, forgotten, aborted, died, destroyVars>>

(* ------------------------------ the rollback ----------------------------- *)

(* deleteInstance(): a 404 is as good as a 204, a 409 is retried.  One     *)
(* that fails is logged and left, deleted or not.                          *)
Gone(b) == account' = [account EXCEPT ![b] = "gone"]

RollBackOne ==
  /\ pc = "rolling back" /\ todo # {}
  /\ LET b == Min(todo)
     IN  /\ todo' = todo \ {b}
         /\ \/ Gone(b) /\ UNCHANGED forgotten
            \/ forgotten' = forgotten \cup {b} /\ (Gone(b) \/ UNCHANGED account)
  /\ UNCHANGED <<file, pc, attempt, known, addressed, readyOnes, aborted, died, destroyVars>>

(* The record is emptied whether or not the deletes succeeded. *)
RolledBack ==
  /\ pc = "rolling back" /\ todo = {}
  /\ pc' = "emptying"
  /\ UNCHANGED <<recordVars, attempt, known, addressed, readyOnes, todo, forgotten, aborted, died,
                 destroyVars>>

Emptied ==
  /\ pc = "emptying" /\ file = Torn
  /\ file' = Recorded({}, {}) \/ UNCHANGED file
  /\ pc' = "thrown"
  /\ UNCHANGED <<account, attempt, known, addressed, readyOnes, todo, forgotten, aborted, died,
                 destroyVars>>

(* The first signal aborts; a second, or a crash, ends the process, and    *)
(* the POST it had sent may still be carried out.                          *)
Abort ==
  /\ ~Over /\ ~aborted
  /\ aborted' = TRUE
  /\ UNCHANGED <<recordVars, pc, attempt, known, addressed, readyOnes, todo, forgotten, died,
                 destroyVars>>

Die ==
  /\ ~Over
  /\ pc' = "dead" /\ died' = pc
  /\ UNCHANGED account \/ (pc = "renting" /\ ~SpareSpent /\ RentedNow)
  /\ UNCHANGED <<file, attempt, known, addressed, readyOnes, todo, forgotten, aborted,
                 destroyVars>>

(* --------------------------- the provider's side ------------------------- *)

(* An address, then a cloud-init that writes one sentinel or the other.    *)
Boots(b) ==
  /\ \/ account[b] = "new" /\ account' = [account EXCEPT ![b] = "up"]
     \/ account[b] = "up" /\ \E end \in {"ready", "broken"} :
          account' = [account EXCEPT ![b] = end]
  /\ UNCHANGED <<file, buildVars, destroyVars>>

(* ----------------------------- destroyFleet() ---------------------------- *)

(* `destroy`, run once provisioning is over, as often as it takes.         *)
ListTagged ==
  /\ Over /\ destroy.at = "idle"
  /\ \/ /\ destroy' = [at |-> "deleting", failed |-> FALSE,
                       left |-> {b \in Boxes : Rented(b)}]
        /\ destroyed' = "none"
     \/ UNCHANGED destroy /\ destroyed' = "failed"
  /\ UNCHANGED <<recordVars, buildVars>>

(* A plausible slip: taking a locked box's 409 for a 404. *)
DeleteOneOrLocked ==
  /\ destroy.at = "deleting" /\ destroy.left # {}
  /\ destroy' = [destroy EXCEPT !.left = @ \ {Min(@)}]
  /\ Gone(Min(destroy.left)) \/ UNCHANGED account
  /\ UNCHANGED <<file, buildVars, destroyed>>

DeleteOne ==
  /\ destroy.at = "deleting" /\ destroy.left # {}
  /\ LET b == Min(destroy.left)
     IN  \/ Gone(b) /\ destroy' = [destroy EXCEPT !.left = @ \ {b}]
         \/ /\ destroy' = [destroy EXCEPT !.left = @ \ {b}, !.failed = TRUE]
            /\ Gone(b) \/ UNCHANGED account
  /\ UNCHANGED <<file, buildVars, destroyed>>

(* Only `--fleet` knows which record to empty, and only one that reads; a  *)
(* write that fails is thrown.                                             *)
DestroyEnds ==
  /\ destroy.at = "deleting" /\ destroy.left = {}
  /\ destroy' = [destroy EXCEPT !.at = "idle"]
  /\ \/ /\ destroyed' = IF destroy.failed THEN "failed" ELSE "clean"
        /\ \/ UNCHANGED file
           \/ ~destroy.failed /\ file.kind = "fleet" /\ file' = Recorded({}, {})
     \/ /\ ~destroy.failed /\ file.kind = "fleet" /\ destroyed' = "failed"
        /\ file' \in {file, Torn}
  /\ UNCHANGED <<account, buildVars>>

DestroyDies ==
  /\ destroy.at = "deleting"
  /\ destroy' = [destroy EXCEPT !.at = "idle"]
  /\ destroyed' = "failed"
  /\ UNCHANGED <<recordVars, buildVars>>

(* The steps of the process itself, and what may happen to it. *)
Step ==
  \/ NextBox \/ BoxRented \/ RentRetried \/ RentFails \/ OpenRecord \/ Record
  \/ AllReady \/ WaitFails \/ Poll \/ Probes
  \/ RollBackOne \/ RolledBack \/ Emptied

Next ==
  \/ Step \/ Abort \/ Die
  \/ \E b \in Boxes : Boots(b)
  \/ ListTagged \/ DeleteOne \/ DestroyEnds \/ DestroyDies

(* agentsFromArgs(): what `--fleet` connects to; a record that is missing, *)
(* unreadable or empty throws.                                             *)
Targets == IF file.kind = "fleet" THEN file.instances ELSE {}

Spec == Init /\ [][Next]_provisionVars

(* The provider answers and the disk takes a write, one way or another.    *)
(* Neither a box's boot nor the deadline is assumed.                       *)
FairSpec == Spec /\ WF_provisionVars(Step)

(* ------------------------------- properties ------------------------------ *)

Alive == {"creating", "renting", "recording", "waiting", "probing", "saving", "rolling back",
          "emptying"}

TypeOK ==
  /\ account \in [Boxes -> {"none", "new", "up", "ready", "broken", "gone"}]
  /\ \/ file \in {Missing, Torn}
     \/ \E s, t \in SUBSET Boxes : file = Recorded(s, t)
  /\ pc \in Alive \cup {"ready", "thrown", "dead"}
  /\ died \in Alive \cup {"no"}
  /\ attempt \in 0 .. Retries
  /\ known \in SUBSET Boxes /\ addressed \in SUBSET known /\ readyOnes \in SUBSET addressed
  /\ todo \in SUBSET known /\ forgotten \in SUBSET known
  /\ aborted \in BOOLEAN
  /\ destroy \in [at: {"idle", "deleting"}, left: SUBSET Boxes, failed: BOOLEAN]
  /\ destroyed \in {"none", "clean", "failed"}

(* provision.ts 133-143: a box the process was told of and still pays for  *)
(* is in the record or was reported as one the rollback could not delete,  *)
(* wherever the process was ended and whatever failed.  There are two      *)
(* exceptions: the process is, or was ended, while it wrote the record,    *)
(* which then is torn or lacks this box alone; and it is, or was ended, in *)
(* the rollback before this box's turn.                                    *)
Where == IF pc = "dead" THEN died ELSE pc
Accounted(b) == Named(b) \/ b \in forgotten

NothingForgotten ==
  \A b \in known : Rented(b) =>
    \/ Accounted(b)
    \/ /\ Where \in {"recording", "saving"}
       /\ file = Torn \/ \A c \in known \ {b} : Rented(c) => Accounted(c)
    \/ Where = "rolling back" /\ b \in todo

(* provision.ts 136-137: "a crash on the next one still leaves a file      *)
(* naming everything created so far", the box that is just being recorded  *)
(* excepted.  It does not hold: the write empties the file first.          *)
CrashLeavesRecord ==
  pc = "dead" /\ died \in {"renting", "recording"} =>
    Cardinality({b \in known : ~Named(b)}) <= IF died = "recording" THEN 1 ELSE 0

(* provision.ts 8-12: a `destroy` that reports no failure leaves nothing   *)
(* rented, whatever the process that rented the boxes knew of them.        *)
CleanIsClean == destroyed = "clean" => \A b \in Boxes : ~Rented(b)

(* provision.ts 19-24: a fleet that was announced is the whole fleet, each *)
(* box with an address and through its cloud-init, until a destroy begins. *)
ReadyMeansReady ==
  pc = "ready" /\ destroyed = "none" /\ destroy.at = "idle" =>
    /\ Cardinality(Targets) = Count
    /\ \A b \in Targets : account[b] = "ready" /\ b \in file.addressed

(* An interrupt brings the process to its end through the rollback. *)
AbortEnds == aborted ~> Over
=============================================================================
