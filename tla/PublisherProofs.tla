---------------------------- MODULE PublisherProofs ----------------------------
(***************************************************************************)
(* Proofs about PublishedRun: for every number of segments, every window,  *)
(* every set of mirrors and limits on them.                                *)
(*                                                                         *)
(* The argument follows one function, publishLive(): where it stands       *)
(* (`pc`) says how many manifests were made and how many the primary has   *)
(* (Numbered, Shape).  A mirror only ever holds, or is on its way to hold, *)
(* an index that was claimed (Claimed); and the registry's memory of the   *)
(* catalog is that of its last update, unless the read failed (Catalogued).*)
(***************************************************************************)
EXTENDS PublishedRun, FiniteSetTheorems, TLAPS

Entries == {Others, "live", "vod"}

(* The types, of the registry too. *)
Typed ==
  /\ TypeOK
  /\ registry \in [index: {NoIndex} \cup Nat, entries: SUBSET Entries, announced: BOOLEAN]
  /\ \A m \in Mirrors : IsFiniteSet(tasks[m])

(* Every manifest claimed an index, and the closing one claims one more. *)
Open == {"unstarted", "opening", "source", "segment", "manifest", "announce"}
Numbered ==
  /\ pc \in Open => nextIndex = added
  /\ pc \in {"manifest", "vod", "enlist", "draining"} => added >= 1
  /\ pc \in {"vod", "enlist", "draining"} => nextIndex = added + 1
  /\ pc = "segment" => added < emitted

(* What the primary has: the live manifests, one per segment. *)
LiveOf(k) ==
  [first |-> IF k > WindowSize THEN k - WindowSize + 1 ELSE 1, last |-> k, end |-> FALSE]
LiveFeed(k) == [i \in 0 .. k - 1 |-> LiveOf(i + 1)]
Shape ==
  /\ pc \in (Open \cup {"vod"}) \ {"manifest"} => feed = LiveFeed(added)
  /\ pc = "manifest" => feed = LiveFeed(added - 1)
  /\ DOMAIN feed \in {0 .. nextIndex - 2, 0 .. nextIndex - 1}

(* No mirror is ahead of the index claimed last. *)
Claimed ==
  \A m \in Mirrors :
    /\ mirrored[m] < nextIndex
    /\ \A t \in tasks[m] : t.key < nextIndex

(* The catalog ends where the registry believes, and the registry knows    *)
(* the others unless it wrote over them.                                   *)
Top == IF registry.index = NoIndex THEN 0 ELSE registry.index
Own(entries) == \E s \in {"live", "vod"} : entries \subseteq {Others, s}
Catalogued ==
  /\ pc \in {"unstarted", "opening"} =>
       registry.index = NoIndex /\ registry.entries = {} /\ catalog = [i \in {0} |-> {Others}]
  /\ DOMAIN catalog = 0 .. Top
  /\ registry.index = NoIndex => Others \notin registry.entries
  /\ registry.index # NoIndex /\ Others \in catalog[0] => Others \in registry.entries
  /\ Others \in catalog[0] => Others \in catalog[Top]
  /\ Own(registry.entries) /\ Own(catalog[Top])

IInv ==
  /\ Typed
  /\ Numbered
  /\ Shape
  /\ Claimed
  /\ Catalogued

(* The steps of the publisher, seen apart from the command that holds it. *)
Moves ==
  \/ StartPublishing /\ UNCHANGED aborted
  \/ Encode \/ EncoderExits \/ Interrupt \/ TakeSegment \/ SourceEnds \/ Drain
  \/ \E read \in BOOLEAN : OpenRegistry(read)
  \/ SegmentUploaded \/ ManifestWritten \/ Announced \/ VodWritten \/ Enlisted
  \/ \E landed \in BOOLEAN : PrimaryRefuses(landed)
  \/ MirrorsStep
  \/ UNCHANGED <<publishVars, sourceVars, writerVars>>

(* A step of a command is a step of its publisher, or none.                *)
LEMMA Seen ==
  ASSUME [Next]_vars
  PROVE  Moves
<1>1. CASE Start
  BY <1>1 DEF Start, Moves
<1>2. CASE Inside
  BY <1>2 DEF Inside, LoopStep, PrimaryStep, Moves
<1>3. CASE Encoder
  BY <1>3 DEF Encoder, Moves
<1>4. CASE Defer \/ Joined \/ GiveUp \/ Stopped \/ StopTimesOut \/ Prepare
  BY <1>4 DEF Defer, Joined, GiveUp, Stopped, StopTimesOut, Prepare, Moves, publisherVars
<1>5. CASE RunEnds \/ Finished \/ Signal
  BY <1>5 DEF RunEnds, Finished, Signal, Moves, publisherVars
<1>6. CASE UNCHANGED vars
  BY <1>6 DEF vars, Moves, publisherVars
<1> QED
  BY <1>1, <1>2, <1>3, <1>4, <1>5, <1>6 DEF Next

(* ------------------------------ the writer ------------------------------- *)

(* A mirror that is not behind takes one more write.                       *)
LEMMA FanOutKept ==
  ASSUME Typed, NEW key \in Nat \cup {NoIndex}, FanOut(key)
  PROVE  TypeOKWriter' /\ \A m \in Mirrors : IsFiniteSet(tasks'[m])
<1> DEFINE t == [id |-> writes + 1, key |-> key, answer |-> "none"]
<1>1. TypeOKWriter /\ \A m \in Mirrors : IsFiniteSet(tasks[m])
  BY DEF Typed, TypeOK, TypeOKPublisher
<1>2. t \in Task
  BY <1>1 DEF Task, TypeOKWriter
<1>3. tasks' = [m \in Mirrors |-> IF Dispatched(m) THEN tasks[m] \cup {t} ELSE tasks[m]]
  BY DEF FanOut
<1> HIDE DEF t
<1>4. tasks' \in [Mirrors -> SUBSET Task]
  BY <1>1, <1>2, <1>3 DEF TypeOKWriter
<1>5. ASSUME NEW m \in Mirrors
      PROVE  IsFiniteSet(tasks'[m]) /\ Cardinality(tasks'[m]) <= MaxInFlight
  <2>1. CASE Dispatched(m)
    <3>1. IsFiniteSet(tasks[m]) /\ Cardinality(tasks[m]) \in Nat
      BY <1>1, FS_CardinalityType
    <3>2. Cardinality(tasks[m]) < MaxInFlight
      BY <2>1, <3>1, WriterAssumption DEF Dispatched, Behind
    <3>3. /\ IsFiniteSet(tasks[m] \cup {t})
          /\ \/ Cardinality(tasks[m] \cup {t}) = Cardinality(tasks[m])
             \/ Cardinality(tasks[m] \cup {t}) = Cardinality(tasks[m]) + 1
      BY <3>1, FS_AddElement
    <3>4. tasks'[m] = tasks[m] \cup {t}
      BY <1>3, <2>1
    <3> QED
      BY <3>1, <3>2, <3>3, <3>4, WriterAssumption
  <2>2. CASE ~Dispatched(m)
    <3>1. tasks'[m] = tasks[m]
      BY <1>3, <2>2
    <3> QED
      BY <1>1, <3>1 DEF TypeOKWriter
  <2> QED
    BY <2>1, <2>2
<1>6. writes' \in Nat /\ current' = "pending" /\ UNCHANGED <<mirror, mirrored>>
  BY <1>1 DEF FanOut, TypeOKWriter
<1> QED
  BY <1>1, <1>4, <1>5, <1>6 DEF TypeOKWriter

(* The primary's answer leaves the mirrors alone.                          *)
LEMMA AnswerKept ==
  ASSUME Typed, NEW outcome \in {"none", "failed"}, PrimaryAnswers(outcome)
  PROVE  TypeOKWriter' /\ \A m \in Mirrors : IsFiniteSet(tasks'[m])
  BY DEF Typed, TypeOK, TypeOKPublisher, TypeOKWriter, PrimaryAnswers

(* A task that is answered, or over, leaves no more of them than before.   *)
LEMMA FewerTasks ==
  ASSUME NEW S, IsFiniteSet(S), Cardinality(S) <= MaxInFlight, NEW t \in S, NEW u
  PROVE  /\ IsFiniteSet(S \ {t}) /\ Cardinality(S \ {t}) <= MaxInFlight
         /\ IsFiniteSet((S \ {t}) \cup {u})
         /\ Cardinality((S \ {t}) \cup {u}) <= MaxInFlight
<1>1. /\ IsFiniteSet(S \ {t}) /\ Cardinality(S) \in Nat
      /\ Cardinality(S \ {t}) = Cardinality(S) - 1
  BY FS_RemoveElement, FS_CardinalityType
<1>2. /\ IsFiniteSet((S \ {t}) \cup {u})
      /\ \/ Cardinality((S \ {t}) \cup {u}) = Cardinality(S \ {t})
         \/ Cardinality((S \ {t}) \cup {u}) = Cardinality(S \ {t}) + 1
  BY <1>1, FS_AddElement
<1> QED
  BY <1>1, <1>2, WriterAssumption

(* A mirror's step, whichever it is.                                       *)
LEMMA MirrorKept ==
  ASSUME Typed, MirrorStep
  PROVE  TypeOKWriter' /\ \A m \in Mirrors : IsFiniteSet(tasks'[m])
<1>1. TypeOKWriter /\ \A m \in Mirrors : IsFiniteSet(tasks[m])
  BY DEF Typed, TypeOK, TypeOKPublisher
<1>2. PICK m \in Mirrors : \E t \in tasks[m] :
        \/ \E answer \in Answers : MirrorAccepts(m, t, answer)
        \/ MirrorAgrees(m, t)
        \/ \E landed \in BOOLEAN : MirrorFails(m, t, landed)
  BY DEF MirrorStep
<1>3. PICK t \in tasks[m] :
        \/ \E answer \in Answers : MirrorAccepts(m, t, answer)
        \/ MirrorAgrees(m, t)
        \/ \E landed \in BOOLEAN : MirrorFails(m, t, landed)
  BY <1>2
<1>4. t \in Task /\ t.key \in Nat \cup {NoIndex}
  BY <1>1 DEF TypeOKWriter, Task
<1>5. Landed(m, t) \in Nat \cup {NoIndex}
  BY <1>1, <1>4 DEF Landed, TypeOKWriter
<1>6. CASE MirrorAgrees(m, t)
  <2>1. tasks' = [tasks EXCEPT ![m] = @ \ {t}]
    BY <1>6 DEF MirrorAgrees
  <2>2. /\ tasks' \in [Mirrors -> SUBSET Task]
        /\ \A n \in Mirrors : IsFiniteSet(tasks'[n]) /\ Cardinality(tasks'[n]) <= MaxInFlight
    BY <1>1, <2>1, FewerTasks DEF TypeOKWriter
  <2>3. mirror' \in [Mirrors -> [consecutive: Nat, disabled: BOOLEAN]]
    BY <1>1, <1>6 DEF MirrorAgrees, TypeOKWriter
  <2> QED
    BY <1>1, <1>6, <2>2, <2>3 DEF MirrorAgrees, TypeOKWriter
<1>7. ASSUME NEW landed \in BOOLEAN, MirrorFails(m, t, landed)
      PROVE  TypeOKWriter' /\ \A n \in Mirrors : IsFiniteSet(tasks'[n])
  <2>1. tasks' = [tasks EXCEPT ![m] = @ \ {t}]
    BY <1>7 DEF MirrorFails
  <2>2. /\ tasks' \in [Mirrors -> SUBSET Task]
        /\ \A n \in Mirrors : IsFiniteSet(tasks'[n]) /\ Cardinality(tasks'[n]) <= MaxInFlight
    BY <1>1, <2>1, FewerTasks DEF TypeOKWriter
  <2>3. mirror' \in [Mirrors -> [consecutive: Nat, disabled: BOOLEAN]]
    <3> DEFINE n == mirror[m].consecutive + 1
               d == mirror[m].disabled \/ mirror[m].consecutive + 1 = FailureLimit
    <3>1. mirror' = [mirror EXCEPT ![m] = [consecutive |-> n, disabled |-> d]]
      BY <1>7 DEF MirrorFails
    <3>2. n \in Nat /\ d \in BOOLEAN
      BY <1>1 DEF TypeOKWriter
    <3> HIDE DEF n, d
    <3>3. [consecutive |-> n, disabled |-> d] \in [consecutive: Nat, disabled: BOOLEAN]
      BY <3>2
    <3> QED
      BY <1>1, <3>1, <3>3 DEF TypeOKWriter
  <2>4. mirrored' \in [Mirrors -> Nat \cup {NoIndex}]
    BY <1>1, <1>5, <1>7 DEF MirrorFails, TypeOKWriter
  <2> QED
    BY <1>1, <1>7, <2>2, <2>3, <2>4 DEF MirrorFails, TypeOKWriter
<1>8. ASSUME NEW answer \in Answers, MirrorAccepts(m, t, answer)
      PROVE  TypeOKWriter' /\ \A n \in Mirrors : IsFiniteSet(tasks'[n])
  <2> DEFINE u == [t EXCEPT !.answer = answer]
  <2>1. u \in Task
    BY <1>4 DEF Task, Answers
  <2>2. tasks' = [tasks EXCEPT ![m] = (@ \ {t}) \cup {u}]
    BY <1>8 DEF MirrorAccepts
  <2> HIDE DEF u
  <2>3. /\ tasks' \in [Mirrors -> SUBSET Task]
        /\ \A n \in Mirrors : IsFiniteSet(tasks'[n]) /\ Cardinality(tasks'[n]) <= MaxInFlight
    BY <1>1, <2>1, <2>2, FewerTasks DEF TypeOKWriter
  <2>4. mirror' \in [Mirrors -> [consecutive: Nat, disabled: BOOLEAN]]
    BY <1>1, <1>8 DEF MirrorAccepts, TypeOKWriter
  <2>5. mirrored' \in [Mirrors -> Nat \cup {NoIndex}]
    BY <1>1, <1>5, <1>8 DEF MirrorAccepts, TypeOKWriter
  <2> QED
    BY <1>1, <1>8, <2>3, <2>4, <2>5 DEF MirrorAccepts, TypeOKWriter
<1> QED
  BY <1>3, <1>6, <1>7, <1>8

(* ------------------------------- the loop -------------------------------- *)

(* What the writer keeps has its types after every step.                   *)
LEMMA WriterKept ==
  ASSUME IInv, [Next]_vars
  PROVE  TypeOKWriter' /\ \A m \in Mirrors : IsFiniteSet(tasks'[m])
<1>1. Typed /\ TypeOKWriter /\ nextIndex \in Nat
  <2>1. /\ encoded \in 0 .. MaxSegments /\ emitted \in 0 .. encoded
        /\ added \in 0 .. emitted /\ nextIndex \in 0 .. added + 1
    BY DEF IInv, Typed, TypeOK, TypeOKPublisher
  <2>2. nextIndex \in Nat
    BY <2>1, PublisherAssumption
  <2> QED
    BY <2>2 DEF IInv, Typed, TypeOK, TypeOKPublisher
<1>2. CASE \E key \in Nat \cup {NoIndex} : FanOut(key)
  BY <1>1, <1>2, FanOutKept
<1>3. CASE \E outcome \in {"none", "failed"} : PrimaryAnswers(outcome)
  BY <1>1, <1>3, AnswerKept
<1>4. CASE MirrorStep
  BY <1>1, <1>4, MirrorKept
<1>5. CASE UNCHANGED writerVars
  BY <1>1, <1>5 DEF Typed, TypeOKWriter, writerVars
<1>6. \/ \E key \in Nat \cup {NoIndex} : FanOut(key)
      \/ \E outcome \in {"none", "failed"} : PrimaryAnswers(outcome)
      \/ MirrorStep
      \/ UNCHANGED writerVars
  BY <1>1, Seen DEF Moves, StartPublishing, Encode, EncoderExits, Interrupt,
     TakeSegment, SourceEnds, Drain, OpenRegistry, SegmentUploaded, ManifestWritten,
     Announced, VodWritten, Enlisted, PrimaryRefuses, MirrorsStep
<1> QED
  BY <1>2, <1>3, <1>4, <1>5, <1>6

(* Where the loop is, and its counts. *)
Counting ==
  /\ pc \in {"unstarted", "opening", "source", "draining"} \cup Writing \cup Ended
  /\ ffmpeg \in {"off", "running", "interrupted", "exited", "crashed", "killed"}
  /\ encoded \in 0 .. MaxSegments /\ emitted \in 0 .. encoded /\ added \in 0 .. emitted
  /\ nextIndex \in 0 .. added + 1

(* Every manifest claims one index, and the closing one the last.          *)
LEMMA NumberedKept ==
  ASSUME IInv, [Next]_vars
  PROVE  Counting' /\ Numbered'
<1>0. Counting /\ Numbered
  BY DEF IInv, Typed, TypeOK, TypeOKPublisher, Counting
<1>1. CASE StartPublishing /\ UNCHANGED aborted
  BY <1>1, PublisherAssumption, <1>0 DEF StartPublishing, Counting, Numbered,
     Open, Writing, Ended
<1>2. CASE Encode
  BY <1>2, PublisherAssumption, <1>0 DEF Encode, publishVars, Counting, Numbered,
     Open, Writing, Ended
<1>3. CASE EncoderExits
  BY <1>3, PublisherAssumption, <1>0 DEF EncoderExits, publishVars, Counting,
     Numbered, Open, Writing, Ended
<1>4. CASE Interrupt
  BY <1>4, PublisherAssumption, <1>0 DEF Interrupt, publishVars, Counting,
     Numbered, Open, Writing, Ended
<1>5. CASE TakeSegment
  BY <1>5, PublisherAssumption, <1>0 DEF TakeSegment, sourceVars, Counting,
     Numbered, Open, Writing, Ended
<1>6. CASE SourceEnds
  BY <1>6, PublisherAssumption, <1>0 DEF SourceEnds, sourceVars, Counting,
     Numbered, Open, Writing, Ended
<1>7. CASE Drain
  BY <1>7, PublisherAssumption, <1>0 DEF Drain, sourceVars, Counting, Numbered,
     Open, Writing, Ended
<1>8. ASSUME NEW read \in BOOLEAN, OpenRegistry(read)
      PROVE  Counting' /\ Numbered'
  BY <1>8, PublisherAssumption, <1>0 DEF OpenRegistry, Counting, Numbered, Open,
     Writing, Ended
<1>9. CASE SegmentUploaded
  BY <1>9, PublisherAssumption, <1>0 DEF SegmentUploaded, sourceVars, Counting,
     Numbered, Open, Writing, Ended
<1>10. CASE ManifestWritten
  BY <1>10, PublisherAssumption, <1>0 DEF ManifestWritten, sourceVars, Counting,
     Numbered, Open, Writing, Ended
<1>11. CASE Announced
  BY <1>11, PublisherAssumption, <1>0 DEF Announced, sourceVars, Counting,
     Numbered, Open, Writing, Ended
<1>12. CASE VodWritten
  BY <1>12, PublisherAssumption, <1>0 DEF VodWritten, sourceVars, Counting,
     Numbered, Open, Writing, Ended
<1>13. CASE Enlisted
  BY <1>13, PublisherAssumption, <1>0 DEF Enlisted, sourceVars, Counting,
     Numbered, Open, Writing, Ended
<1>14. ASSUME NEW landed \in BOOLEAN, PrimaryRefuses(landed)
      PROVE  Counting' /\ Numbered'
  BY <1>14, PublisherAssumption, <1>0 DEF PrimaryRefuses, KillEncoder, Counting,
     Numbered, Open, Writing, Ended
<1>15. CASE MirrorsStep
  BY <1>15, PublisherAssumption, <1>0 DEF MirrorsStep, publishVars, sourceVars,
     Counting, Numbered, Open, Writing, Ended
<1>16. CASE UNCHANGED <<publishVars, sourceVars, writerVars>>
  BY <1>16, PublisherAssumption, <1>0 DEF publishVars, sourceVars, Counting,
     Numbered, Open, Writing, Ended
<1> QED
  BY Seen, <1>1, <1>2, <1>3, <1>4, <1>5, <1>6, <1>7, <1>8, <1>9, <1>10, <1>11,
     <1>12, <1>13, <1>14, <1>15, <1>16 DEF Moves

(* What a caller is told keeps its types.                                  *)
LEMMA ToldKept ==
  ASSUME IInv, [Next]_vars
  PROVE  told' \in [segments: Nat, joinable: BOOLEAN, finalized: BOOLEAN]
<1>1. CASE StartPublishing /\ UNCHANGED aborted
  BY <1>1 DEF StartPublishing, IInv, Typed, TypeOK, TypeOKPublisher
<1>2. CASE Encode
  BY <1>2 DEF Encode, publishVars, IInv, Typed, TypeOK, TypeOKPublisher
<1>3. CASE EncoderExits
  BY <1>3 DEF EncoderExits, publishVars, IInv, Typed, TypeOK, TypeOKPublisher
<1>4. CASE Interrupt
  BY <1>4 DEF Interrupt, publishVars, IInv, Typed, TypeOK, TypeOKPublisher
<1>5. CASE TakeSegment
  BY <1>5 DEF TakeSegment, IInv, Typed, TypeOK, TypeOKPublisher
<1>6. CASE SourceEnds
  BY <1>6 DEF SourceEnds, IInv, Typed, TypeOK, TypeOKPublisher
<1>7. CASE Drain
  BY <1>7 DEF Drain, IInv, Typed, TypeOK, TypeOKPublisher
<1>8. ASSUME NEW read \in BOOLEAN, OpenRegistry(read)
      PROVE  told' \in [segments: Nat, joinable: BOOLEAN, finalized: BOOLEAN]
  BY <1>8 DEF OpenRegistry, IInv, Typed, TypeOK, TypeOKPublisher
<1>9. CASE SegmentUploaded
  BY <1>9 DEF SegmentUploaded, IInv, Typed, TypeOK, TypeOKPublisher
<1>10. CASE ManifestWritten
  <2> DEFINE n == told.segments + 1
             j == told.joinable \/ told.segments + 1 = Runway
  <2>1. told \in [segments: Nat, joinable: BOOLEAN, finalized: BOOLEAN]
    BY DEF IInv, Typed, TypeOK, TypeOKPublisher
  <2>2. n \in Nat /\ j \in BOOLEAN
    BY <2>1
  <2>3. told' = [told EXCEPT !.segments = n, !.joinable = j]
    BY <1>10, Zenon DEF ManifestWritten, Told
  <2> HIDE DEF n, j
  <2> QED
    BY <2>1, <2>2, <2>3
<1>11. CASE Announced
  BY <1>11 DEF Announced, IInv, Typed, TypeOK, TypeOKPublisher
<1>12. CASE VodWritten
  BY <1>12 DEF VodWritten, IInv, Typed, TypeOK, TypeOKPublisher
<1>13. CASE Enlisted
  BY <1>13 DEF Enlisted, IInv, Typed, TypeOK, TypeOKPublisher
<1>14. ASSUME NEW landed \in BOOLEAN, PrimaryRefuses(landed)
      PROVE  told' \in [segments: Nat, joinable: BOOLEAN, finalized: BOOLEAN]
  BY <1>14 DEF PrimaryRefuses, IInv, Typed, TypeOK, TypeOKPublisher
<1>15. CASE MirrorsStep
  BY <1>15 DEF MirrorsStep, publishVars, IInv, Typed, TypeOK, TypeOKPublisher
<1>16. CASE UNCHANGED <<publishVars, sourceVars, writerVars>>
  BY <1>16 DEF publishVars, IInv, Typed, TypeOK, TypeOKPublisher
<1> QED
  BY Seen, <1>1, <1>2, <1>3, <1>4, <1>5, <1>6, <1>7, <1>8, <1>9, <1>10, <1>11,
     <1>12, <1>13, <1>14, <1>15, <1>16 DEF Moves

(* Registry.open() finds the catalog as others left it, before this stream *)
(* wrote anything.                                                         *)
LEMMA OpensAtZero ==
  ASSUME Catalogued, pc = "opening"
  PROVE  /\ Max0(DOMAIN catalog) = 0 /\ catalog[0] = {Others}
         /\ DOMAIN catalog = {0} /\ registry.index = NoIndex /\ registry.entries = {}
<1>1. catalog = [i \in {0} |-> {Others}] /\ registry.index = NoIndex /\ registry.entries = {}
  BY DEF Catalogued
<1>2. DOMAIN catalog = {0} /\ catalog[0] = {Others}
  BY <1>1
<1>3. Max0({0}) = 0
  BY DEF Max0
<1> QED
  BY <1>1, <1>2, <1>3

(* What the registry remembers keeps its types.                            *)
LEMMA RegistryKept ==
  ASSUME IInv, [Next]_vars
  PROVE  registry' \in [index: {NoIndex} \cup Nat, entries: SUBSET Entries,
                       announced: BOOLEAN]
<1>1. CASE StartPublishing /\ UNCHANGED aborted
  BY <1>1 DEF StartPublishing, IInv, Typed, Entries
<1>2. CASE Encode
  BY <1>2 DEF Encode, publishVars, IInv, Typed, Entries
<1>3. CASE EncoderExits
  BY <1>3 DEF EncoderExits, publishVars, IInv, Typed, Entries
<1>4. CASE Interrupt
  BY <1>4 DEF Interrupt, publishVars, IInv, Typed, Entries
<1>5. CASE TakeSegment
  BY <1>5 DEF TakeSegment, IInv, Typed, Entries
<1>6. CASE SourceEnds
  BY <1>6 DEF SourceEnds, IInv, Typed, Entries
<1>7. CASE Drain
  BY <1>7 DEF Drain, IInv, Typed, Entries
<1>8. ASSUME NEW read \in BOOLEAN, OpenRegistry(read)
      PROVE  registry' \in [index: {NoIndex} \cup Nat, entries: SUBSET Entries,
                       announced: BOOLEAN]
  <2>1. Max0(DOMAIN catalog) = 0 /\ catalog[0] = {Others}
    BY <1>8, OpensAtZero DEF OpenRegistry, IInv
  <2>2. \/ registry' = [registry EXCEPT !.index = 0, !.entries = {Others}]
        \/ registry' = registry
    BY <1>8, <2>1 DEF OpenRegistry
  <2>3. registry \in [index: {NoIndex} \cup Nat, entries: SUBSET Entries, announced: BOOLEAN]
    BY DEF IInv, Typed
  <2>4. {Others} \in SUBSET Entries
    BY DEF Entries
  <2>5. [registry EXCEPT !.index = 0, !.entries = {Others}]
          \in [index: {NoIndex} \cup Nat, entries: SUBSET Entries, announced: BOOLEAN]
    BY <2>3, <2>4
  <2> QED
    BY <2>2, <2>3, <2>5, Zenon
<1>9. CASE SegmentUploaded
  BY <1>9 DEF SegmentUploaded, IInv, Typed, Entries
<1>10. CASE ManifestWritten
  BY <1>10 DEF ManifestWritten, Upsert, IInv, Typed, Entries
<1>11. CASE Announced
  BY <1>11 DEF Announced, CatalogWritten, NextCatalogIndex, NoIndex, IInv, Typed, Entries
<1>12. CASE VodWritten
  BY <1>12 DEF VodWritten, Upsert, IInv, Typed, Entries
<1>13. CASE Enlisted
  BY <1>13 DEF Enlisted, CatalogWritten, NextCatalogIndex, NoIndex, IInv, Typed, Entries
<1>14. ASSUME NEW landed \in BOOLEAN, PrimaryRefuses(landed)
      PROVE  registry' \in [index: {NoIndex} \cup Nat, entries: SUBSET Entries,
                       announced: BOOLEAN]
  BY <1>14 DEF PrimaryRefuses, IInv, Typed, Entries
<1>15. CASE MirrorsStep
  BY <1>15 DEF MirrorsStep, publishVars, IInv, Typed, Entries
<1>16. CASE UNCHANGED <<publishVars, sourceVars, writerVars>>
  BY <1>16 DEF publishVars, IInv, Typed, Entries
<1> QED
  BY Seen, <1>1, <1>2, <1>3, <1>4, <1>5, <1>6, <1>7, <1>8, <1>9, <1>10, <1>11,
     <1>12, <1>13, <1>14, <1>15, <1>16 DEF Moves

(* The command's own variables keep their types. *)
Commanding ==
  /\ aborted \in BOOLEAN
  /\ mode \in Modes
  /\ cmd \in {"begun", "joining", "giving up", "preparing", "running", "watching",
              "stopping", "exited", "killed"}
  /\ handle \in BOOLEAN
  /\ signals \in 0 .. 1

(* No step of the loop, the encoder or a mirror aborts.                    *)
LEMMA InsideKeepsAborted ==
  ASSUME Inside \/ Encoder
  PROVE  UNCHANGED <<aborted, mode, cmd, handle, signals>>
  BY DEF Inside, Encoder, LoopStep, PrimaryStep, MirrorsStep, Encode, EncoderExits,
     OpenRegistry, TakeSegment, Interrupt, SourceEnds, Drain, SegmentUploaded,
     ManifestWritten, Announced, VodWritten, Enlisted, PrimaryRefuses, cmdVars

(* What the command keeps has its types after every step.                  *)
LEMMA CommandKept ==
  ASSUME IInv, [Next]_vars
  PROVE  Commanding'
<1>0. Commanding
  BY DEF IInv, Typed, TypeOK, TypeOKPublisher, Commanding
<1>1. CASE Start \/ Defer
  BY <1>0, <1>1 DEF Start, Defer, Commanding, publisherVars
<1>2. CASE Joined \/ GiveUp \/ Stopped \/ StopTimesOut \/ Prepare \/ Finished
  BY <1>0, <1>2 DEF Joined, GiveUp, Stopped, StopTimesOut, Prepare, Finished, Commanding,
     publisherVars
<1>3. CASE RunEnds
  BY <1>0, <1>3 DEF RunEnds, Commanding
<1>4. CASE Signal
  <2>1. aborted' \in BOOLEAN
    BY <1>0, <1>4 DEF Signal, Commanding
  <2>2. signals' = 1 \/ signals' = signals
    BY <1>4, Zenon DEF Signal
  <2>3. signals' \in 0 .. 1
    <3>1. 1 \in 0 .. 1
      OBVIOUS
    <3> QED
      BY <1>0, <2>2, <3>1, Zenon DEF Commanding
  <2> QED
    BY <1>0, <1>4, <2>1, <2>3 DEF Signal, Commanding
<1>5. CASE Inside \/ Encoder
  BY <1>0, <1>5, InsideKeepsAborted DEF Commanding
<1>6. CASE UNCHANGED vars
  BY <1>0, <1>6 DEF vars, cmdVars, publisherVars, Commanding
<1> QED
  BY <1>1, <1>2, <1>3, <1>4, <1>5, <1>6 DEF Next

(* The types, together. *)
LEMMA TypedKept ==
  ASSUME IInv, [Next]_vars
  PROVE  Typed'
  BY WriterKept, NumberedKept, ToldKept, RegistryKept, CommandKept
     DEF Typed, TypeOK, TypeOKPublisher, Counting, Commanding

(* The counts are numbers, before and after a step.                        *)
LEMMA CountsAreNumbers ==
  ASSUME IInv, [Next]_vars
  PROVE  added \in Nat /\ added' \in Nat /\ nextIndex \in Nat /\ nextIndex' \in Nat
<1>1. Counting /\ Counting'
  BY NumberedKept DEF IInv, Typed, TypeOK, TypeOKPublisher, Counting
<1>2. /\ encoded \in 0 .. MaxSegments /\ emitted \in 0 .. encoded
      /\ added \in 0 .. emitted /\ nextIndex \in 0 .. added + 1
  BY <1>1 DEF Counting
<1>3. /\ encoded' \in 0 .. MaxSegments /\ emitted' \in 0 .. encoded'
      /\ added' \in 0 .. emitted' /\ nextIndex' \in 0 .. added' + 1
  BY <1>1 DEF Counting
<1> QED
  BY <1>2, <1>3, PublisherAssumption

(* A mirror holds, and is sent, no index that was not claimed.             *)
LEMMA ClaimedKept ==
  ASSUME IInv, [Next]_vars
  PROVE  Claimed'
<1>0. /\ Claimed /\ TypeOKWriter
      /\ \A m \in Mirrors : mirrored[m] \in Nat \cup {-1}
      /\ \A m \in Mirrors : \A t \in tasks[m] : t.key \in Nat \cup {-1}
  <2>1. Claimed /\ TypeOKWriter
    BY DEF IInv, Typed, TypeOK, TypeOKPublisher
  <2> QED
    BY <2>1 DEF TypeOKWriter, Task, NoIndex
<1>1. nextIndex \in Nat /\ nextIndex' \in Nat
  BY CountsAreNumbers
<1>2. CASE nextIndex' >= nextIndex /\ UNCHANGED <<tasks, mirrored>>
  BY <1>0, <1>1, <1>2 DEF Claimed
<1>3. CASE FanOut(NoIndex) /\ UNCHANGED nextIndex
  BY <1>0, <1>1, <1>3 DEF Claimed, FanOut, NoIndex
<1>4. CASE FanOut(nextIndex) /\ nextIndex' = nextIndex + 1
  BY <1>0, <1>1, <1>4 DEF Claimed, FanOut
<1>5. CASE MirrorStep /\ UNCHANGED nextIndex
  <2>0. PICK m \in Mirrors : \E t \in tasks[m] :
          \/ \E answer \in Answers : MirrorAccepts(m, t, answer)
          \/ MirrorAgrees(m, t)
          \/ \E landed \in BOOLEAN : MirrorFails(m, t, landed)
    BY <1>5 DEF MirrorStep
  <2>1. PICK t \in tasks[m] :
          \/ \E answer \in Answers : MirrorAccepts(m, t, answer)
          \/ MirrorAgrees(m, t)
          \/ \E landed \in BOOLEAN : MirrorFails(m, t, landed)
    BY <2>0
  <2>2. t.key < nextIndex /\ mirrored[m] < nextIndex
    BY <1>0 DEF Claimed
  <2>3. Landed(m, t) < nextIndex
    BY <2>2 DEF Landed
  <2>4. \A n \in Mirrors : mirrored'[n] < nextIndex
    BY <1>0, <2>1, <2>3 DEF Claimed, MirrorAccepts, MirrorAgrees, MirrorFails, TypeOKWriter
  <2>5. ASSUME NEW n \in Mirrors, NEW u \in tasks'[n]
        PROVE  u.key < nextIndex
    <3>1. CASE MirrorAgrees(m, t) \/ \E landed \in BOOLEAN : MirrorFails(m, t, landed)
      <4>1. u \in tasks[n]
        BY <1>0, <2>5, <3>1 DEF MirrorAgrees, MirrorFails, TypeOKWriter
      <4> QED
        BY <1>0, <4>1 DEF Claimed
    <3>2. ASSUME NEW answer \in Answers, MirrorAccepts(m, t, answer)
          PROVE  u.key < nextIndex
      <4>1. u \in tasks[n] \/ u = [t EXCEPT !.answer = answer]
        BY <1>0, <2>5, <3>2 DEF MirrorAccepts, TypeOKWriter
      <4>2. [t EXCEPT !.answer = answer].key = t.key
        BY <1>0 DEF TypeOKWriter, Task
      <4> QED
        BY <1>0, <2>2, <4>1, <4>2 DEF Claimed
    <3> QED
      BY <2>1, <3>1, <3>2
  <2> QED
    BY <1>5, <2>4, <2>5 DEF Claimed
<1>6. \/ nextIndex' >= nextIndex /\ UNCHANGED <<tasks, mirrored>>
      \/ FanOut(NoIndex) /\ UNCHANGED nextIndex
      \/ FanOut(nextIndex) /\ nextIndex' = nextIndex + 1
      \/ MirrorStep /\ UNCHANGED nextIndex
  <2>1. nextIndex' = nextIndex => nextIndex' >= nextIndex
    BY <1>1
  <2> QED
    BY <1>1, <2>1, Seen DEF Moves, StartPublishing, Encode, EncoderExits,
       Interrupt, TakeSegment, SourceEnds, Drain, OpenRegistry, SegmentUploaded,
       ManifestWritten, Announced, VodWritten, Enlisted, PrimaryRefuses, PrimaryAnswers,
       MirrorsStep, publishVars, writerVars
<1> QED
  BY <1>2, <1>3, <1>4, <1>5, <1>6

(* The feed of k segments, and the one with the next manifest in it.       *)
LEMMA NextLive ==
  ASSUME NEW k \in Nat, k >= 1, nextIndex = k, feed = LiveFeed(k - 1),
         Publish(LiveOf(k))
  PROVE  feed' = LiveFeed(k)
<1>1. DOMAIN feed = 0 .. k - 2
  BY DEF LiveFeed
<1>2. (0 .. k - 2) \cup {k - 1} = 0 .. k - 1
  OBVIOUS
<1>3. feed' = [i \in 0 .. k - 1 |-> IF i = k - 1 THEN LiveOf(k) ELSE feed[i]]
  BY <1>1, <1>2 DEF Publish
<1>4. ASSUME NEW i \in 0 .. k - 1
      PROVE  (IF i = k - 1 THEN LiveOf(k) ELSE feed[i]) = LiveOf(i + 1)
  <2>1. CASE i = k - 1
    <3>1. i + 1 = k
      BY <2>1
    <3> QED
      BY <2>1, <3>1
  <2>2. CASE i # k - 1
    <3>1. i \in 0 .. k - 2
      BY <2>2
    <3>2. feed[i] = LiveOf(i + 1)
      BY <3>1 DEF LiveFeed
    <3> QED
      BY <2>2, <3>2
  <2> QED
    BY <2>1, <2>2
<1> QED
  BY <1>3, <1>4 DEF LiveFeed

(* An update is added where the last claimed index says.                   *)
LEMMA OneMore ==
  ASSUME nextIndex \in Nat, NEW manifest, Publish(manifest),
         DOMAIN feed \in {0 .. nextIndex - 2, 0 .. nextIndex - 1}, nextIndex >= 1
  PROVE  DOMAIN feed' = 0 .. nextIndex - 1
<1>1. DOMAIN feed' = DOMAIN feed \cup {nextIndex - 1}
  BY DEF Publish
<1>2. (0 .. nextIndex - 2) \cup {nextIndex - 1} = 0 .. nextIndex - 1
  OBVIOUS
<1>3. (0 .. nextIndex - 1) \cup {nextIndex - 1} = 0 .. nextIndex - 1
  OBVIOUS
<1> QED
  BY <1>1, <1>2, <1>3

(* The primary has a live manifest for every segment, in order.            *)
LEMMA ShapeKept ==
  ASSUME IInv, [Next]_vars
  PROVE  Shape'
<1>0. Shape /\ Numbered /\ added \in Nat /\ nextIndex \in Nat
  BY CountsAreNumbers DEF IInv
<1>1. CASE StartPublishing /\ UNCHANGED aborted
  BY <1>1, <1>0 DEF StartPublishing, IInv, Numbered, Shape, Open
<1>2. CASE Encode
  BY <1>2, <1>0 DEF Encode, publishVars, IInv, Numbered, Shape, Open
<1>3. CASE EncoderExits
  BY <1>3, <1>0 DEF EncoderExits, publishVars, IInv, Numbered, Shape, Open
<1>4. CASE Interrupt
  BY <1>4, <1>0 DEF Interrupt, publishVars, IInv, Numbered, Shape, Open
<1>5. CASE TakeSegment
  BY <1>5, <1>0 DEF TakeSegment, IInv, Numbered, Shape, Open
<1>6. CASE SourceEnds
  <2>1. /\ feed = LiveFeed(added) /\ nextIndex = added /\ UNCHANGED <<feed, added>>
        /\ \/ pc' \in {"failed", "done"} /\ nextIndex' = nextIndex
           \/ pc' = "vod" /\ nextIndex' = nextIndex + 1
    BY <1>6, <1>0 DEF SourceEnds, Numbered, Shape, Open
  <2>2. DOMAIN feed = 0 .. added - 1
    BY <2>1 DEF LiveFeed
  <2>3. CASE pc' \in {"failed", "done"} /\ nextIndex' = nextIndex
    BY <2>1, <2>2, <2>3 DEF Shape, Open
  <2>4. CASE pc' = "vod" /\ nextIndex' = nextIndex + 1
    <3>1. nextIndex' - 2 = added - 1
      BY <1>0, <2>1, <2>4
    <3> QED
      BY <2>1, <2>2, <2>4, <3>1 DEF Shape, Open
  <2> QED
    BY <2>1, <2>3, <2>4
<1>7. CASE Drain
  BY <1>7, <1>0 DEF Drain, IInv, Numbered, Shape, Open
<1>8. ASSUME NEW read \in BOOLEAN, OpenRegistry(read)
      PROVE  Shape'
  BY <1>8, <1>0 DEF OpenRegistry, IInv, Numbered, Shape, Open
<1>9. CASE SegmentUploaded
  <2>1. /\ feed = LiveFeed(added) /\ nextIndex = added /\ feed' = feed
        /\ pc' = "manifest" /\ added' = added + 1 /\ nextIndex' = nextIndex + 1
    BY <1>9, <1>0 DEF SegmentUploaded, Numbered, Shape, Open
  <2>2. DOMAIN feed = 0 .. added - 1
    BY <2>1 DEF LiveFeed
  <2>3. added' - 1 = added /\ nextIndex' - 2 = added - 1
    BY <1>0, <2>1
  <2> QED
    BY <2>1, <2>2, <2>3 DEF Shape, Open
<1>10. CASE ManifestWritten
  <2>1. /\ feed = LiveFeed(added - 1) /\ nextIndex = added /\ added >= 1
        /\ Publish(LiveManifest) /\ UNCHANGED <<added, nextIndex>>
        /\ pc' \in {"announce", "source"}
    BY <1>10, <1>0 DEF ManifestWritten, Numbered, Shape, Open
  <2>2. LiveManifest = LiveOf(added)
    BY DEF LiveManifest, LiveOf
  <2>3. feed' = LiveFeed(added)
    BY <1>0, <2>1, <2>2, NextLive
  <2>4. DOMAIN feed' = 0 .. nextIndex' - 1
    BY <2>1, <2>3 DEF LiveFeed
  <2> QED
    BY <2>1, <2>3, <2>4 DEF Shape, Open
<1>11. CASE Announced
  BY <1>11, <1>0 DEF Announced, IInv, Numbered, Shape, Open
<1>12. CASE VodWritten
  <2>1. /\ nextIndex = added + 1 /\ Publish(VodManifest) /\ UNCHANGED <<added, nextIndex>>
        /\ pc' \in {"enlist", "draining"}
    BY <1>12, <1>0 DEF VodWritten, Numbered
  <2>2. DOMAIN feed' = 0 .. nextIndex' - 1
    <3>1. nextIndex >= 1
      BY <1>0, <2>1
    <3> QED
      BY <1>0, <2>1, <3>1, OneMore DEF Shape
  <2> QED
    BY <2>1, <2>2 DEF Shape, Open
<1>13. CASE Enlisted
  BY <1>13, <1>0 DEF Enlisted, IInv, Numbered, Shape, Open
<1>14. ASSUME NEW landed \in BOOLEAN, PrimaryRefuses(landed)
      PROVE  Shape'
  <2>1. pc' = "failed" /\ UNCHANGED nextIndex
    BY <1>14 DEF PrimaryRefuses
  <2>2. CASE landed /\ pc \in {"manifest", "vod"}
    <3>1. nextIndex >= 1
      BY <1>0, <2>2 DEF Numbered, Open
    <3>2. \E manifest : Publish(manifest)
      BY <1>14, <2>2 DEF PrimaryRefuses
    <3>3. DOMAIN feed' = 0 .. nextIndex - 1
      BY <1>0, <3>1, <3>2, OneMore DEF Shape
    <3> QED
      BY <2>1, <3>3 DEF Shape, Open
  <2>3. CASE ~(landed /\ pc \in {"manifest", "vod"})
    <3>1. UNCHANGED feed
      BY <1>14, <2>3 DEF PrimaryRefuses
    <3> QED
      BY <1>0, <2>1, <3>1 DEF Shape, Open
  <2> QED
    BY <2>2, <2>3
<1>15. CASE MirrorsStep
  BY <1>15, <1>0 DEF MirrorsStep, publishVars, IInv, Numbered, Shape, Open
<1>16. CASE UNCHANGED <<publishVars, sourceVars, writerVars>>
  BY <1>16, <1>0 DEF publishVars, IInv, Numbered, Shape, Open
<1> QED
  BY Seen, <1>1, <1>2, <1>3, <1>4, <1>5, <1>6, <1>7, <1>8, <1>9, <1>10, <1>11,
     <1>12, <1>13, <1>14, <1>15, <1>16 DEF Moves

(* Writing the catalog, at the index after the registry's.                 *)
LEMMA WrittenKept ==
  ASSUME Typed, Catalogued, CatalogWritten, pc' \notin {"unstarted", "opening"}
  PROVE  Catalogued'
<1>1. /\ registry \in [index: {NoIndex} \cup Nat, entries: SUBSET Entries, announced: BOOLEAN]
      /\ registry' = [registry EXCEPT !.index = NextCatalogIndex]
  BY DEF Typed, CatalogWritten
<1>2. registry'.index = NextCatalogIndex /\ registry'.entries = registry.entries
  BY <1>1
<1>3. NextCatalogIndex \in Nat /\ NextCatalogIndex # NoIndex
  BY <1>1 DEF NextCatalogIndex, NoIndex
<1>4. Top' = NextCatalogIndex
  BY <1>2, <1>3 DEF Top
<1>5. /\ DOMAIN catalog' = DOMAIN catalog \cup {NextCatalogIndex}
      /\ catalog'[NextCatalogIndex] = registry.entries
      /\ \A i \in DOMAIN catalog \ {NextCatalogIndex} : catalog'[i] = catalog[i]
  BY DEF CatalogWritten
<1>6. DOMAIN catalog' = 0 .. NextCatalogIndex
  <2>1. CASE registry.index = NoIndex
    <3>1. DOMAIN catalog = 0 .. 0 /\ NextCatalogIndex = 0
      BY <2>1 DEF Catalogued, Top, NextCatalogIndex, NoIndex
    <3>2. (0 .. 0) \cup {0} = 0 .. 0
      OBVIOUS
    <3> QED
      BY <1>5, <3>1, <3>2
  <2>2. CASE registry.index # NoIndex
    <3>1. DOMAIN catalog = 0 .. registry.index /\ registry.index \in Nat
      BY <1>1, <2>2 DEF Catalogued, Top
    <3>2. (0 .. registry.index) \cup {registry.index + 1} = 0 .. registry.index + 1
      BY <3>1
    <3> QED
      BY <1>5, <3>1, <3>2 DEF NextCatalogIndex
  <2> QED
    BY <2>1, <2>2
<1>7. Others \in catalog'[0] => Others \in registry.entries
  <2>1. CASE registry.index = NoIndex
    <3>1. NextCatalogIndex = 0
      BY <2>1 DEF NextCatalogIndex, NoIndex
    <3> QED
      BY <1>5, <3>1
  <2>2. CASE registry.index # NoIndex
    <3>1. registry.index \in Nat /\ 0 \in DOMAIN catalog
      BY <1>1, <2>2 DEF Catalogued, Top
    <3>2. NextCatalogIndex # 0
      BY <3>1 DEF NextCatalogIndex
    <3>3. catalog'[0] = catalog[0]
      BY <1>5, <3>1, <3>2
    <3> QED
      BY <2>2, <3>3 DEF Catalogued
  <2> QED
    BY <2>1, <2>2
<1> QED
  BY <1>2, <1>3, <1>4, <1>5, <1>6, <1>7 DEF Catalogued, Own

(* An upsert keeps the others the registry knows, and this stream once.    *)
LEMMA UpsertKept ==
  ASSUME Typed, Catalogued, NEW state \in {"live", "vod"}, Upsert(state), UNCHANGED catalog,
         pc' \notin {"unstarted", "opening"}
  PROVE  Catalogued'
<1>1. /\ registry \in [index: {NoIndex} \cup Nat, entries: SUBSET Entries, announced: BOOLEAN]
      /\ registry' = [registry EXCEPT !.entries = (@ \cap {Others}) \cup {state},
                                      !.announced = TRUE]
  BY DEF Typed, Upsert
<1>2. /\ registry'.index = registry.index
      /\ registry'.entries = (registry.entries \cap {Others}) \cup {state}
  BY <1>1
<1>3. Top' = Top
  BY <1>2 DEF Top
<1>4. state # Others
  BY DEF Others
<1>5. Own(registry'.entries)
  BY <1>2 DEF Own
<1> QED
  BY <1>2, <1>3, <1>4, <1>5 DEF Catalogued

(* The catalog and the registry, step by step.                             *)
LEMMA CataloguedKept ==
  ASSUME IInv, [Next]_vars
  PROVE  Catalogued'
<1>0. Typed /\ Catalogued
  BY DEF IInv
<1>1. CASE StartPublishing
  BY <1>0, <1>1 DEF StartPublishing, Catalogued, Top
<1>2. ASSUME NEW read \in BOOLEAN, OpenRegistry(read)
      PROVE  Catalogued'
  <2>1. /\ Max0(DOMAIN catalog) = 0 /\ catalog[0] = {Others} /\ DOMAIN catalog = {0}
        /\ registry.index = NoIndex /\ registry.entries = {}
    BY <1>0, <1>2, OpensAtZero DEF OpenRegistry
  <2>2. UNCHANGED catalog /\ pc' = "source"
    BY <1>2 DEF OpenRegistry
  <2>3. CASE registry' = [registry EXCEPT !.index = 0, !.entries = {Others}]
    <3>1. registry'.index = 0 /\ registry'.entries = {Others}
      BY <1>0, <2>3 DEF Typed
    <3>2. Top' = 0 /\ 0 # NoIndex /\ 0 .. 0 = {0}
      BY <3>1 DEF Top, NoIndex
    <3> QED
      BY <2>1, <2>2, <3>1, <3>2 DEF Catalogued, Own
  <2>4. CASE UNCHANGED registry
    BY <1>0, <2>2, <2>4 DEF Catalogued, Top
  <2>5. registry' = [registry EXCEPT !.index = 0, !.entries = {Others}] \/ UNCHANGED registry
    BY <1>2, <2>1 DEF OpenRegistry
  <2> QED
    BY <2>3, <2>4, <2>5
<1>3. CASE ManifestWritten
  <2>1. UNCHANGED catalog /\ pc' \in {"announce", "source"}
    BY <1>3 DEF ManifestWritten
  <2>2. CASE Upsert("live")
    BY <1>0, <2>1, <2>2, UpsertKept
  <2>3. CASE UNCHANGED registry
    BY <1>0, <2>1, <2>3 DEF Catalogued, Top
  <2> QED
    BY <1>3, <2>2, <2>3 DEF ManifestWritten
<1>4. CASE VodWritten
  <2>1. UNCHANGED catalog /\ pc' \in {"enlist", "draining"}
    BY <1>4 DEF VodWritten
  <2>2. CASE Upsert("vod")
    BY <1>0, <2>1, <2>2, UpsertKept
  <2>3. CASE UNCHANGED registry
    BY <1>0, <2>1, <2>3 DEF Catalogued, Top
  <2> QED
    BY <1>4, <2>2, <2>3 DEF VodWritten
<1>5. CASE Announced \/ Enlisted
  BY <1>0, <1>5, WrittenKept DEF Announced, Enlisted
<1>6. CASE /\ UNCHANGED <<catalog, registry>>
           /\ pc' = pc \/ pc' \notin {"unstarted", "opening"}
  BY <1>0, <1>6 DEF Catalogued, Top
<1>7. \/ StartPublishing \/ ManifestWritten \/ VodWritten \/ Announced \/ Enlisted
      \/ \E read \in BOOLEAN : OpenRegistry(read)
      \/ /\ UNCHANGED <<catalog, registry>>
         /\ pc' = pc \/ pc' \notin {"unstarted", "opening"}
  BY Seen DEF Moves, Encode, EncoderExits, Interrupt, TakeSegment, SourceEnds, Drain,
     SegmentUploaded, PrimaryRefuses, MirrorsStep, publishVars
<1> QED
  BY <1>1, <1>2, <1>3, <1>4, <1>5, <1>6, <1>7

(* The invariant holds at the start.                                       *)
LEMMA Initially == Init => IInv
<1> SUFFICES ASSUME Init PROVE IInv
  OBVIOUS
<1>1. Typed
  <2>1. TypeOKWriter /\ \A m \in Mirrors : IsFiniteSet(tasks[m])
    BY FS_EmptySet, WriterAssumption DEF Init, InitPublisher, InitWriter, TypeOKWriter
  <2>2. Counting
    <3>1. /\ 0 \in 0 .. MaxSegments /\ 0 \in 0 .. 0 /\ 0 \in 0 .. 0 + 1
      BY PublisherAssumption
    <3> QED
      BY <3>1 DEF Init, InitPublisher, Counting
  <2>3. Commanding
    <3>1. 0 \in 0 .. 1
      OBVIOUS
    <3> QED
      BY <3>1 DEF Init, InitPublisher, Commanding
  <2>4. told \in [segments: Nat, joinable: BOOLEAN, finalized: BOOLEAN]
    BY DEF Init, InitPublisher
  <2>5. registry \in [index: {NoIndex} \cup Nat, entries: SUBSET Entries, announced: BOOLEAN]
    BY DEF Init, InitPublisher
  <2> QED
    BY <2>1, <2>2, <2>3, <2>4, <2>5
       DEF Typed, TypeOK, TypeOKPublisher, Counting, Commanding
<1>2. Numbered
  BY DEF Init, InitPublisher, Numbered, Open
<1>3. Shape
  <2>1. 0 .. 0 - 1 = {} /\ 0 .. 0 - 2 = {}
    OBVIOUS
  <2>2. feed = LiveFeed(0)
    BY <2>1 DEF Init, InitPublisher, LiveFeed
  <2>3. DOMAIN feed = 0 .. 0 - 1
    BY <2>2 DEF LiveFeed
  <2> QED
    BY <2>2, <2>3 DEF Init, InitPublisher, Shape, Open
<1>4. Claimed
  BY DEF Init, InitPublisher, InitWriter, Claimed, NoIndex
<1>5. Catalogued
  <2>1. 0 .. 0 = {0}
    OBVIOUS
  <2> QED
    BY <2>1 DEF Init, InitPublisher, Catalogued, Top, Own
<1> QED
  BY <1>1, <1>2, <1>3, <1>4, <1>5 DEF IInv

(* The invariant holds in every state.                                     *)
LEMMA Inductive == Spec => []IInv
<1>1. IInv /\ [Next]_vars => IInv'
  BY TypedKept, NumberedKept, ShapeKept, ClaimedKept, CataloguedKept DEF IInv
<1> QED
  BY Initially, <1>1, PTL DEF Spec

(* The variables of a command and its publisher keep their types.          *)
THEOREM TypeCorrect == Spec => []TypeOK
<1>1. IInv => TypeOK
  BY DEF IInv, Typed
<1> QED
  BY Inductive, <1>1, PTL

(* feed.ts 15-19: whatever lands late at a mirror, and however the primary *)
(* fails, no gateway holds an update in front of one the primary misses.   *)
THEOREM FeedWithoutHoles == Spec => []NoHoleAhead
<1>1. ASSUME IInv
      PROVE  NoHoleAhead
  <2>1. nextIndex \in Nat
    <3>1. /\ encoded \in 0 .. MaxSegments /\ emitted \in 0 .. encoded
          /\ added \in 0 .. emitted /\ nextIndex \in 0 .. added + 1
      BY <1>1 DEF IInv, Typed, TypeOK, TypeOKPublisher
    <3> QED
      BY <3>1, PublisherAssumption
  <2>2. \E n \in 0 .. nextIndex : DOMAIN feed = 0 .. n - 1
    <3>1. CASE DOMAIN feed = 0 .. nextIndex - 1
      <4>1. nextIndex \in 0 .. nextIndex
        BY <2>1
      <4> QED
        BY <3>1, <4>1
    <3>2. CASE DOMAIN feed = 0 .. nextIndex - 2
      <4>1. CASE nextIndex = 0
        <5>1. 0 .. nextIndex - 2 = 0 .. 0 - 1 /\ 0 \in 0 .. nextIndex
          BY <4>1
        <5> QED
          BY <3>2, <5>1
      <4>2. CASE nextIndex # 0
        <5>1. nextIndex - 1 \in 0 .. nextIndex /\ (nextIndex - 1) - 1 = nextIndex - 2
          BY <2>1, <4>2
        <5> QED
          BY <3>2, <5>1
      <4> QED
        BY <4>1, <4>2
    <3> QED
      BY <1>1, <3>1, <3>2 DEF IInv, Shape
  <2>3. ASSUME NEW m \in Mirrors, NEW i \in 0 .. mirrored[m] - 1
        PROVE  i \in DOMAIN feed
    <3>1. mirrored[m] < nextIndex /\ mirrored[m] \in Nat \cup {-1}
      BY <1>1 DEF IInv, Claimed, Typed, TypeOK, TypeOKPublisher, TypeOKWriter, NoIndex
    <3>2. i \in 0 .. nextIndex - 2 /\ i \in 0 .. nextIndex - 1
      BY <2>1, <2>3, <3>1
    <3> QED
      BY <1>1, <3>2 DEF IInv, Shape
  <2> QED
    BY <2>2, <2>3 DEF NoHoleAhead
<1> QED
  BY Inductive, <1>1, PTL

(* registry.ts 4-6: a stream joins the catalog others are in, and leaves   *)
(* their entries in its every update, unless it could not read it.         *)
THEOREM OthersKept == Spec => []CatalogKeepsOthers
<1>1. ASSUME IInv
      PROVE  CatalogKeepsOthers
  <2>1. registry.index \in {NoIndex} \cup Nat /\ Catalogued
    BY <1>1 DEF IInv, Typed
  <2>2. Top \in Nat
    BY <2>1 DEF Top
  <2>3. Max0(DOMAIN catalog) = Top
    <3>1. DOMAIN catalog = 0 .. Top
      BY <2>1 DEF Catalogued
    <3>2. Top \in 0 .. Top /\ \A k \in 0 .. Top : k <= Top
      BY <2>2
    <3>3. \A n \in 0 .. Top : (\A k \in 0 .. Top : k <= n) => n = Top
      BY <2>2
    <3> QED
      BY <3>1, <3>2, <3>3 DEF Max0
  <2>4. Cardinality(catalog[Top] \ {Others}) <= 1
    <3>1. PICK s \in {"live", "vod"} : catalog[Top] \subseteq {Others, s}
      BY <2>1 DEF Catalogued, Own
    <3>2. CASE catalog[Top] \ {Others} = {}
      BY <3>2, FS_EmptySet
    <3>3. CASE catalog[Top] \ {Others} = {s}
      BY <3>3, FS_Singleton
    <3> QED
      BY <3>1, <3>2, <3>3
  <2> QED
    BY <2>1, <2>3, <2>4 DEF CatalogKeepsOthers, Catalogued
<1> QED
  BY Inductive, <1>1, PTL

(* ----------------------------- the abstract feed ------------------------- *)

(* A feed of k updates has its head at k.                                  *)
LEMMA HeadAt ==
  ASSUME NEW k \in Nat, DOMAIN feed = 0 .. k - 1
  PROVE  StreamFeed!Head = k
<1>1. Cardinality(0 .. k - 1) = k
  BY FS_Interval
<1>2. StreamFeed!Head = Cardinality(DOMAIN feed)
  BY Zenon DEF StreamFeed!Head, StreamFeed!Cardinality, Cardinality
<1> QED
  BY <1>1, <1>2

(* Publishing at the head is appending there.                              *)
LEMMA PublishAppends ==
  ASSUME NEW k \in Nat, DOMAIN feed = 0 .. k - 1, nextIndex = k + 1,
         NEW manifest, Publish(manifest)
  PROVE  feed' = StreamFeed!Appended(manifest)
<1>1. StreamFeed!Head = k /\ nextIndex - 1 = k
  BY HeadAt
<1> QED
  BY <1>1 DEF Publish, StreamFeed!Appended

(* What a live manifest lists.                                             *)
LEMMA LiveLists ==
  ASSUME NEW k \in Nat
  PROVE  /\ LiveOf(k).first = IF k > WindowSize THEN k - WindowSize + 1 ELSE 1
         /\ LiveOf(k).last = k /\ ~LiveOf(k).end
  BY DEF LiveOf

(* The manifest of segment k follows the one of segment k - 1.             *)
LEMMA LiveFollows ==
  ASSUME NEW k \in Nat, k >= 1, feed = LiveFeed(k - 1), nextIndex = k, Publish(LiveOf(k))
  PROVE  StreamFeed!Next
<1> DEFINE m == LiveOf(k)
<1>0. k - 1 \in Nat /\ DOMAIN feed = 0 .. (k - 1) - 1 /\ nextIndex = (k - 1) + 1
  BY DEF LiveFeed
<1>1. StreamFeed!Head = k - 1
  BY <1>0, HeadAt
<1>2. feed' = StreamFeed!Appended(m)
  BY <1>0, PublishAppends
<1>3. /\ m.first = IF k > WindowSize THEN k - WindowSize + 1 ELSE 1
      /\ m.last = k /\ ~m.end
  BY LiveLists
<1>4. StreamFeed!Live(m)
  BY <1>3, PublisherAssumption DEF StreamFeed!Live
<1>5. StreamFeed!Follows(m)
  <2>1. CASE k = 1
    BY <1>1, <1>3, <2>1, PublisherAssumption DEF StreamFeed!Follows
  <2>2. CASE k # 1
    <3>1. StreamFeed!Latest = LiveOf(k - 1)
      <4>1. k - 2 \in 0 .. (k - 1) - 1 /\ (k - 2) + 1 = k - 1 /\ (k - 1) - 1 = k - 2
        BY <2>2
      <4>2. feed[k - 2] = LiveOf(k - 1)
        BY <4>1 DEF LiveFeed
      <4> QED
        BY <1>1, <4>1, <4>2 DEF StreamFeed!Latest
    <3>2. /\ LiveOf(k - 1).first = IF k - 1 > WindowSize THEN k - WindowSize ELSE 1
          /\ LiveOf(k - 1).last = k - 1 /\ ~LiveOf(k - 1).end
      <4>1. (k - 1) - WindowSize + 1 = k - WindowSize
        BY PublisherAssumption
      <4> QED
        BY <1>0, <4>1, LiveLists
    <3>3. m.first \in {LiveOf(k - 1).first, LiveOf(k - 1).first + 1}
      BY <1>3, <3>2, PublisherAssumption
    <3>4. k - 1 # 0 /\ m.last = LiveOf(k - 1).last + 1
      BY <1>3, <2>2, <3>2
    <3> QED
      BY <1>1, <3>1, <3>2, <3>3, <3>4 DEF StreamFeed!Follows
  <2> QED
    BY <2>1, <2>2
<1>6. m \in [first: 1 .. StreamFeed!Head + 1, last: 1 .. StreamFeed!Head + 1, end: {FALSE}]
  <2>1. 1 .. StreamFeed!Head + 1 = 1 .. k
    BY <1>1
  <2>2. m.first \in 1 .. k /\ m.last \in 1 .. k
    BY <1>3, PublisherAssumption
  <2>3. m = [first |-> m.first, last |-> m.last, end |-> FALSE]
    BY DEF LiveOf
  <2>4. [first |-> m.first, last |-> m.last, end |-> FALSE]
          \in [first: 1 .. k, last: 1 .. k, end: {FALSE}]
    <3> DEFINE a == m.first
               b == m.last
    <3>1. a \in 1 .. k /\ b \in 1 .. k
      BY <2>2
    <3> HIDE DEF a, b
    <3>2. [first |-> a, last |-> b, end |-> FALSE] \in [first: 1 .. k, last: 1 .. k, end: {FALSE}]
      BY <3>1
    <3> QED
      BY <3>2 DEF a, b
  <2> HIDE DEF m
  <2> QED
    BY <2>1, <2>3, <2>4
<1> QED
  BY <1>2, <1>4, <1>5, <1>6 DEF StreamFeed!Next, StreamFeed!Append

(* The closing manifest lists the stream from its start and ends it.       *)
LEMMA VodCloses ==
  ASSUME added \in Nat, added >= 1, feed = LiveFeed(added), nextIndex = added + 1,
         Publish(VodManifest)
  PROVE  StreamFeed!Next
<1>1. StreamFeed!Head = added
  BY HeadAt DEF LiveFeed
<1>2. feed' = StreamFeed!Appended(VodManifest)
  BY PublishAppends DEF LiveFeed
<1>3. StreamFeed!Latest = LiveOf(added)
  <2>1. added - 1 \in 0 .. added - 1 /\ (added - 1) + 1 = added
    OBVIOUS
  <2>2. feed[added - 1] = LiveOf(added)
    BY <2>1 DEF LiveFeed
  <2> QED
    BY <1>1, <2>2 DEF StreamFeed!Latest
<1>4. StreamFeed!Latest.last = added /\ ~StreamFeed!Latest.end
  BY <1>3 DEF LiveOf
<1>5. VodManifest = [first |-> 1, last |-> StreamFeed!Latest.last, end |-> TRUE]
  BY <1>4 DEF VodManifest
<1>6. StreamFeed!Close
  BY <1>1, <1>2, <1>4, <1>5 DEF StreamFeed!Close
<1> QED
  BY <1>6 DEF StreamFeed!Next

(* Every step of a publisher is a step of the abstract feed, or none.      *)
LEMMA StepRefines ==
  ASSUME IInv, [Next]_vars
  PROVE  [StreamFeed!Next]_feed
<1>0. Shape /\ Numbered /\ added \in Nat /\ nextIndex \in Nat
  BY CountsAreNumbers DEF IInv
<1>1. CASE pc = "manifest" /\ Publish(LiveManifest)
  <2>1. feed = LiveFeed(added - 1) /\ nextIndex = added /\ added >= 1
    BY <1>0, <1>1 DEF Shape, Numbered, Open
  <2>2. LiveManifest = LiveOf(added)
    BY DEF LiveManifest, LiveOf
  <2> QED
    BY <1>0, <1>1, <2>1, <2>2, LiveFollows
<1>2. CASE pc = "vod" /\ Publish(VodManifest)
  <2>1. feed = LiveFeed(added) /\ nextIndex = added + 1 /\ added >= 1
    BY <1>0, <1>2 DEF Shape, Numbered, Open
  <2> QED
    BY <1>0, <1>2, <2>1, VodCloses
<1>3. \/ pc = "manifest" /\ Publish(LiveManifest)
      \/ pc = "vod" /\ Publish(VodManifest)
      \/ UNCHANGED feed
  BY Seen DEF Moves, StartPublishing, Encode, EncoderExits, Interrupt, TakeSegment,
     SourceEnds, Drain, OpenRegistry, SegmentUploaded, ManifestWritten, Announced,
     VodWritten, Enlisted, PrimaryRefuses, MirrorsStep, publishVars
<1> QED
  BY <1>1, <1>2, <1>3

(* feed.ts 4-24, manifest.ts 11-13: what the primary holds of a stream is  *)
(* a feed a viewer may rely on, whatever the source, the gateways, the     *)
(* command and the user do.                                                *)
THEOREM ImplementsFeed == Spec => FeedPromise
<1>1. Init => StreamFeed!Init
  BY DEF Init, InitPublisher, StreamFeed!Init
<1>2. IInv /\ [Next]_vars => [StreamFeed!Next]_feed
  BY StepRefines
<1> QED
  BY Inductive, <1>1, <1>2, PTL DEF Spec, FeedPromise, StreamFeed!Spec
=============================================================================
