------------------------------ MODULE Publisher ------------------------------
(***************************************************************************)
(* One live stream: ffmpeg's segments (publisher/source.ts), the loop that *)
(* uploads each and appends a manifest to the feed (publisher.ts, feed.ts, *)
(* manifest.ts), the optional catalog (registry.ts), and what a caller is  *)
(* told of it (control.ts).                                                *)
(*                                                                         *)
(* publishLive() is one asynchronous function: `pc` names the await it is  *)
(* in, and what it does between two awaits is one action.  ffmpeg and the  *)
(* mirrors run beside it.  Segments are numbered from 1.                   *)
(***************************************************************************)
EXTENDS SwarmWriter

CONSTANTS
  MaxSegments, \* bound: segments the source encodes
  WindowSize,  \* segments kept in the live manifest
  Runway,      \* segmentsBeforeViewersCanJoin(config)
  UseRegistry  \* config.registry

ASSUME PublisherAssumption ==
  /\ MaxSegments \in Nat
  /\ WindowSize \in Nat \ {0}
  /\ Runway \in Nat \ {0}
  /\ UseRegistry \in BOOLEAN

Others == "others"     \* the catalog's entries of other streams

VARIABLES
  pc,        \* the await publishLive() is in
  ffmpeg,    \* the encoder's process
  encoded,   \* segments its playlist lists
  emitted,   \* segments hlsSegments() has yielded
  added,     \* manifest.count
  nextIndex, \* FeedPublisher.nextIndex
  feed,      \* the feed as the primary has it: a manifest per index
  catalog,   \* the catalog as the primary has it: entries per index
  registry,  \* the Registry: its index and its entries; announced
  aborted,   \* controller.signal
  told       \* what control.ts keeps: segments, joinable, finalized

publishVars == <<pc, emitted, added, nextIndex, feed, catalog, registry, told>>
sourceVars == <<ffmpeg, encoded>>
publisherVars == <<publishVars, sourceVars, aborted, writerVars>>

Ended == {"done", "failed"}
Writing == {"segment", "manifest", "announce", "vod", "enlist"}

Max0(S) == CHOOSE n \in S : \A k \in S : k <= n
Lower(a, b) == IF a < b THEN a ELSE b

InitPublisher ==
  /\ InitWriter
  /\ pc = "unstarted" /\ ffmpeg = "off"
  /\ encoded = 0 /\ emitted = 0 /\ added = 0 /\ nextIndex = 0
  /\ feed = [i \in {} |-> 0]
  /\ catalog = [i \in {0} |-> {Others}]
  /\ registry = [index |-> NoIndex, entries |-> {}, announced |-> FALSE]
  /\ aborted = FALSE
  /\ told = [segments |-> 0, joinable |-> FALSE, finalized |-> FALSE]

(* ------------------------------ the encoder ------------------------------ *)

(* ffmpeg lists a segment, the last one also after a SIGINT. *)
Encode ==
  /\ ffmpeg \in {"running", "interrupted"}
  /\ encoded < MaxSegments
  /\ encoded' = encoded + 1
  /\ UNCHANGED <<ffmpeg, aborted, publishVars, writerVars>>

(* It reaches the end of its input or finishes after a SIGINT; or it dies, *)
(* with a code that is not zero, of its own accord.                        *)
EncoderExits ==
  /\ \/ ffmpeg \in {"running", "interrupted"} /\ ffmpeg' = "exited"
     \/ ffmpeg = "running" /\ ffmpeg' = "crashed"
  /\ UNCHANGED <<encoded, aborted, publishVars, writerVars>>

(* The generator's finally: an encoder still there is killed. *)
KillEncoder == ffmpeg' = IF ffmpeg \in {"running", "interrupted"} THEN "killed" ELSE ffmpeg

(* hlsSegments() wakes with nothing new to yield and the encoder alive: an *)
(* abort reaches ffmpeg as one SIGINT.                                     *)
Interrupt ==
  /\ pc = "source" /\ emitted = encoded
  /\ aborted /\ ffmpeg = "running"
  /\ ffmpeg' = "interrupted"
  /\ UNCHANGED <<encoded, aborted, publishVars, writerVars>>

(* ------------------------------- publishLive ----------------------------- *)

(* Up to the first await: the writer, signer and feed exist and "started"  *)
(* is reported.  Without a catalog the encoder is spawned at once.         *)
StartPublishing ==
  /\ pc = "unstarted"
  /\ pc' = IF UseRegistry THEN "opening" ELSE "source"
  /\ ffmpeg' = IF UseRegistry THEN "off" ELSE "running"
  /\ UNCHANGED <<encoded, emitted, added, nextIndex, feed, catalog, registry, told>>
  /\ UNCHANGED writerVars

(* Registry.open(): the latest update of the catalog.  Any error of that   *)
(* read, whatever its cause, is taken for a catalog that does not exist.   *)
OpenRegistry(read) ==
  /\ pc = "opening"
  /\ pc' = "source"
  /\ ffmpeg' = "running"
  /\ registry' = IF read
       THEN LET at == Max0(DOMAIN catalog)
            IN [registry EXCEPT !.index = at, !.entries = catalog[at]]
       ELSE registry
  /\ UNCHANGED <<encoded, emitted, added, nextIndex, feed, catalog, told, aborted>>
  /\ UNCHANGED writerVars

(* The loop takes the next segment and fans its body out. *)
TakeSegment ==
  /\ pc = "source" /\ emitted < encoded
  /\ pc' = "segment"
  /\ emitted' = emitted + 1
  /\ FanOut(NoIndex)
  /\ UNCHANGED <<added, nextIndex, feed, catalog, registry, told, aborted, sourceVars>>

(* addSegment(), buildLive(), and the first half of feed.write(): the      *)
(* index is claimed before the upload begins.                              *)
SegmentUploaded ==
  /\ pc = "segment" /\ current = "pending"
  /\ pc' = "manifest"
  /\ added' = added + 1
  /\ nextIndex' = nextIndex + 1
  /\ FanOut(nextIndex)
  /\ UNCHANGED <<emitted, feed, catalog, registry, told, aborted, sourceVars>>

LiveManifest ==
  [first |-> IF added > WindowSize THEN added - WindowSize + 1 ELSE 1,
   last |-> added, end |-> FALSE]
(* A plausible slip: the closing manifest keeps the live window. *)
VodManifestOfWindow ==
  [first |-> IF added > WindowSize THEN added - WindowSize + 1 ELSE 1,
   last |-> added, end |-> TRUE]
VodManifest == [first |-> 1, last |-> added, end |-> TRUE]

Publish(manifest) ==
  feed' = [i \in DOMAIN feed \cup {nextIndex - 1} |->
             IF i = nextIndex - 1 THEN manifest ELSE feed[i]]

(* A plausible slip: the entries are rebuilt rather than kept. *)
UpsertAlone(state) ==
  registry' = [registry EXCEPT !.entries = {state}, !.announced = TRUE]

(* upsert(): this stream's entry replaces the one it had, and the next     *)
(* index is computed before the upload, stored after it.                   *)
Upsert(state) ==
  registry' = [registry EXCEPT !.entries = (@ \cap {Others}) \cup {state},
                               !.announced = TRUE]
NextCatalogIndex == registry.index + 1
CatalogWritten ==
  /\ catalog' = [i \in DOMAIN catalog \cup {NextCatalogIndex} |->
                   IF i = NextCatalogIndex THEN registry.entries ELSE catalog[i]]
  /\ registry' = [registry EXCEPT !.index = NextCatalogIndex]

(* The report of a segment: control.ts counts it, and the one that makes   *)
(* the runway resolves joinable.                                           *)
Told == [told EXCEPT !.segments = @ + 1, !.joinable = @ \/ told.segments + 1 = Runway]

(* The first manifest is also the moment the stream is announced. *)
ManifestWritten ==
  /\ pc = "manifest" /\ current = "pending"
  /\ Publish(LiveManifest)
  /\ told' = Told
  /\ \/ /\ UseRegistry /\ ~registry.announced
        /\ pc' = "announce"
        /\ Upsert("live")
        /\ FanOut(NoIndex)
     \/ /\ ~(UseRegistry /\ ~registry.announced)
        /\ pc' = "source"
        /\ PrimaryAnswers("none")
        /\ UNCHANGED registry
  /\ UNCHANGED <<emitted, added, nextIndex, catalog, aborted, sourceVars>>

Announced ==
  /\ pc = "announce"
  /\ PrimaryAnswers("none")
  /\ pc' = "source"
  /\ CatalogWritten
  /\ UNCHANGED <<emitted, added, nextIndex, feed, told, aborted, sourceVars>>

(* ffmpeg is gone and the second look at the playlist finds nothing more:  *)
(* an error if it produced nothing and nobody asked it to stop, otherwise  *)
(* the closing update, if there is anything to close.                      *)
SourceEnds ==
  /\ pc = "source" /\ emitted = encoded
  /\ ffmpeg \in {"exited", "crashed"}
  /\ \/ /\ ffmpeg = "crashed" /\ emitted = 0
        /\ pc' = "failed"
        /\ told' = [told EXCEPT !.joinable = TRUE]
        /\ UNCHANGED <<nextIndex, writerVars>>
     \/ /\ ~(ffmpeg = "crashed" /\ emitted = 0) /\ added = 0
        /\ pc' = "done"
        /\ UNCHANGED <<nextIndex, told, writerVars>>
     \/ /\ added > 0
        /\ pc' = "vod"
        /\ nextIndex' = nextIndex + 1
        /\ FanOut(nextIndex)
        /\ UNCHANGED told
  /\ UNCHANGED <<emitted, added, feed, catalog, registry, aborted, sourceVars>>

VodWritten ==
  /\ pc = "vod" /\ current = "pending"
  /\ Publish(VodManifest)
  /\ told' = [told EXCEPT !.finalized = TRUE]
  /\ \/ UseRegistry /\ pc' = "enlist" /\ Upsert("vod") /\ FanOut(NoIndex)
     \/ ~UseRegistry /\ pc' = "draining" /\ PrimaryAnswers("none") /\ UNCHANGED registry
  /\ UNCHANGED <<emitted, added, nextIndex, catalog, aborted, sourceVars>>

Enlisted ==
  /\ pc = "enlist"
  /\ PrimaryAnswers("none")
  /\ pc' = "draining"
  /\ CatalogWritten
  /\ UNCHANGED <<emitted, added, nextIndex, feed, told, aborted, sourceVars>>

(* A plausible slip: no deadline on the mirrors. *)
DrainWhatIsOwed ==
  /\ pc = "draining"
  /\ Drained
  /\ pc' = "done"
  /\ UNCHANGED <<emitted, added, nextIndex, feed, catalog, registry, told, aborted,
                 sourceVars, writerVars>>

(* writer.drain(): the mirrors have everything, or fifteen seconds passed. *)
(* Nothing tells the two apart afterwards.                                 *)
Drain ==
  /\ pc = "draining"
  /\ pc' = "done"
  /\ UNCHANGED <<emitted, added, nextIndex, feed, catalog, registry, told, aborted,
                 sourceVars, writerVars>>

(* A plausible slip: a refused write is logged and the loop goes on. *)
PrimaryRefusalSkipped(landed) ==
  /\ pc \in {"segment", "manifest"}
  /\ PrimaryAnswers("failed")
  /\ pc' = "source"
  /\ UNCHANGED <<emitted, added, nextIndex, feed, catalog, registry, told, aborted,
                 sourceVars>>

(* The primary refused a write through all its retries: publishLive()      *)
(* rejects from where it is.  An attempt whose answer was lost may have    *)
(* left its update there.  The generator's finally and the catch of        *)
(* control.ts run; the latter resolves joinable too.                       *)
PrimaryRefuses(landed) ==
  /\ pc \in Writing
  /\ PrimaryAnswers("failed")
  /\ pc' = "failed"
  /\ KillEncoder
  /\ told' = [told EXCEPT !.joinable = TRUE]
  /\ IF landed /\ pc \in {"manifest", "vod"}
       THEN Publish(IF pc = "vod" THEN VodManifest ELSE LiveManifest)
       ELSE UNCHANGED feed
  /\ UNCHANGED <<encoded, emitted, added, nextIndex, catalog, registry, aborted>>

PrimaryStep ==
  \/ SegmentUploaded \/ ManifestWritten \/ Announced \/ VodWritten \/ Enlisted
  \/ \E landed \in BOOLEAN : PrimaryRefuses(landed)

LoopStep ==
  \/ \E read \in BOOLEAN : OpenRegistry(read)
  \/ TakeSegment \/ Interrupt \/ SourceEnds \/ Drain

MirrorsStep == MirrorStep /\ UNCHANGED <<publishVars, sourceVars, aborted>>

TypeOKPublisher ==
  /\ TypeOKWriter
  /\ pc \in {"unstarted", "opening", "source", "draining"} \cup Writing \cup Ended
  /\ ffmpeg \in {"off", "running", "interrupted", "exited", "crashed", "killed"}
  /\ encoded \in 0 .. MaxSegments /\ emitted \in 0 .. encoded /\ added \in 0 .. emitted
  /\ nextIndex \in 0 .. added + 1
  /\ aborted \in BOOLEAN
  /\ registry.index \in {NoIndex} \cup Nat
  /\ told \in [segments: Nat, joinable: BOOLEAN, finalized: BOOLEAN]
=============================================================================
