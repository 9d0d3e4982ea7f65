--------------------------- MODULE JoinSessionProofs ---------------------------
(***************************************************************************)
(* Proofs about JoinSession, for every set of streams, every ceiling and   *)
(* opening cohort, and any number of attempts, moves and segments.         *)
(*                                                                         *)
(* The segments of a session are always in one of three places (Summed),   *)
(* a controller runs exactly while an epoch is between its directory and   *)
(* its end (Followed), an epoch that opens knows the target that was asked *)
(* for or has missed a key (Asked), and an agent that was told to stop     *)
(* takes no target any more, whoever still refers to it (Alone).           *)
(***************************************************************************)
EXTENDS JoinSession, TLAPS

(* What is pulled is carried, lost, or the epoch's; and a snapshot that is *)
(* more than the epoch's was lost with the run it is of.                   *)
Summed ==
  /\ counts.pulled = counts.carried + counts.epoch + counts.lost
  /\ counts.snapshot <= counts.epoch + counts.lost
  /\ pc \notin {"driving", "stopping"} => counts.epoch = 0

Followed == controller = "running" <=> pc \in {"preparing", "driving", "stopping"}

Asked ==
  Opening => /\ scenario # NoScenario
             /\ scenario.viewers = desired \/ "nudge" \in missed

Retried == pc = "backoff" => attempt < EpochAttempts

Alone ==
  "refused" \notin missed =>
    /\ ~orphans
    /\ controller # "running" => run.held = 0
    /\ controller = "dead" \/ pc = "stopping" => run.held = 0 /\ ~run.taking

IInv ==
  /\ TypeOK
  /\ Summed
  /\ Followed
  /\ Asked
  /\ Retried
  /\ Alone
  /\ TargetShown

(* The types, in parts. *)
RunTyped == run \in [target : 0 .. Ceiling, held : 0 .. Ceiling,
                     aborted : BOOLEAN, taking : BOOLEAN]
WantedTyped ==
  /\ desired \in 0 .. Ceiling + 1
  /\ scenario \in [stream : Streams, viewers : 1 .. Ceiling + 1] \union {NoScenario}
CountsTyped == counts \in [pulled : 0 .. MaxSegments, epoch : 0 .. MaxSegments,
                           snapshot : 0 .. MaxSegments, carried : 0 .. MaxSegments,
                           lost : 0 .. MaxSegments]
LoopTyped ==
  /\ pc \in Awaits
  /\ quitting \in BOOLEAN
  /\ restarting \in BOOLEAN
  /\ stream \in Streams
  /\ attempt \in 0 .. EpochAttempts
  /\ controller \in {"none", "running", "dead"}
  /\ orphans \in BOOLEAN
  /\ report \in Streams \union {NoStream, Unknown, Nothing}
  /\ join \in Streams \union {NoStream, Nothing}
  /\ server \in Streams \union {NoStream}
  /\ moves \in 0 .. MaxMoves
  /\ missed \subseteq {"quit", "nudge", "stream", "refused"}

(* A target is cut to the ceiling.                                         *)
LEMMA Cut ==
  ASSUME NEW n \in Nat
  PROVE  /\ AtMost(n, Ceiling) \in 0 .. Ceiling
         /\ AtMost(AtMost(n, Ceiling), Ceiling) = AtMost(n, Ceiling)
  BY SessionAssumption DEF AtMost

(* An agent that is given a target, or told to stop, stays what it is.     *)
LEMMA RunKept ==
  ASSUME RunTyped, NEW n \in Nat
  PROVE  /\ WithTarget(run, n) \in [target : 0 .. Ceiling, held : 0 .. Ceiling,
                                    aborted : BOOLEAN, taking : BOOLEAN]
         /\ WithTarget(run, n).target = AtMost(n, Ceiling)
         /\ WithTarget(run, n).aborted = run.aborted
         /\ WithTarget(run, n).taking = run.taking
         /\ ~run.taking => WithTarget(run, n).held = run.held
         /\ Stopped(run) \in [target : 0 .. Ceiling, held : 0 .. Ceiling,
                              aborted : BOOLEAN, taking : BOOLEAN]
         /\ Stopped(run).aborted /\ ~Stopped(run).taking /\ Stopped(run).held = 0
<1>1. AtMost(n, Ceiling) \in 0 .. Ceiling /\ 0 \in 0 .. Ceiling
  BY Cut, SessionAssumption
<1> QED
  BY <1>1 DEF RunTyped, WithTarget, Stopped

(* What a key asks for.                                                    *)
Nudged(by) == AtMost(IF desired + by < 0 THEN 0 ELSE desired + by, Ceiling + 1)

(* A number that was moved by keys is still one.                           *)
LEMMA NudgedTyped ==
  ASSUME WantedTyped, NEW by \in {1, -1}
  PROVE  Nudged(by) \in Nat
<1>1. desired \in Int /\ Ceiling \in Nat /\ desired + by \in Int
  BY SessionAssumption DEF WantedTyped
<1> QED
  BY <1>1 DEF Nudged, AtMost

(* A run that opens opens with a cohort.                                   *)
LEMMA CohortTyped ==
  ASSUME IInv, Opening
  PROVE  scenario.viewers \in Nat
<1>1. scenario \in [stream : Streams, viewers : 1 .. Ceiling + 1]
  BY DEF IInv, TypeOK, Asked
<1>2. scenario.viewers \in 1 .. Ceiling + 1
  BY <1>1
<1> QED
  BY <1>2, SessionAssumption

(* The loop's variables, and the server's, keep their types.               *)
LEMMA LoopKept ==
  ASSUME IInv, [Next]_vars
  PROVE  LoopTyped'
<1>0. LoopTyped /\ Retried
  BY DEF IInv, TypeOK, LoopTyped
<1>1. CASE StartEpoch
  BY <1>1, SessionAssumption, <1>0 DEF StartEpoch, Resolve, worldVars, LoopTyped,
     Awaits, OfTheEpoch, Ended, Opening, Retried
<1>2. CASE Retry
  BY <1>2, SessionAssumption, <1>0 DEF Retry, Resolve, worldVars, LoopTyped,
     Awaits, OfTheEpoch, Ended, Opening, Retried
<1>3. CASE RunDirMade
  BY <1>3, SessionAssumption, <1>0 DEF RunDirMade, worldVars, LoopTyped, Awaits,
     OfTheEpoch, Ended, Opening, Retried
<1>4. CASE Drive
  BY <1>4, SessionAssumption, <1>0 DEF Drive, worldVars, LoopTyped, Awaits,
     OfTheEpoch, Ended, Opening, Retried
<1>5. ASSUME NEW ceiling \in BOOLEAN, StopDriving(ceiling)
      PROVE  LoopTyped'
  BY <1>5, SessionAssumption, <1>0 DEF StopDriving, worldVars, LoopTyped, Awaits,
     OfTheEpoch, Ended, Opening, Retried
<1>6. CASE EpochEnds
  BY <1>6, SessionAssumption, <1>0 DEF EpochEnds, Carry, worldVars, LoopTyped,
     Awaits, OfTheEpoch, Ended, Opening, Retried
<1>7. CASE Saved
  BY <1>7, SessionAssumption, <1>0 DEF Saved, worldVars, LoopTyped, Awaits,
     OfTheEpoch, Ended, Opening, Retried
<1>8. CASE Leave \/ End
  BY <1>8, SessionAssumption, <1>0 DEF Leave, End, worldVars, LoopTyped, Awaits,
     OfTheEpoch, Ended, Opening, Retried
<1>9. CASE EpochThrows
  BY <1>9, SessionAssumption, <1>0 DEF EpochThrows, worldVars, LoopTyped, Awaits,
     OfTheEpoch, Ended, Opening, Retried
<1>10. CASE Pull \/ Snapshot
  BY <1>10, SessionAssumption, <1>0 DEF Pull, Snapshot, loopVars, worldVars,
     LoopTyped, Awaits, OfTheEpoch, Ended, Opening, Retried
<1>11. ASSUME NEW by \in {1, -1}, Nudge(by)
      PROVE  LoopTyped'
  BY <1>11, SessionAssumption, <1>0 DEF Nudge, loopVars, worldVars, LoopTyped,
     Awaits, OfTheEpoch, Ended, Opening, Retried
<1>12. CASE Quit
  BY <1>12, SessionAssumption, <1>0 DEF Quit, loopVars, worldVars, LoopTyped,
     Awaits, OfTheEpoch, Ended, Opening, Retried
<1>13. ASSUME NEW s \in Streams \union {NoStream}, ServerMoves(s)
      PROVE  LoopTyped'
  BY <1>13, SessionAssumption, <1>0 DEF ServerMoves, loopVars, LoopTyped, Awaits,
     OfTheEpoch, Ended, Opening, Retried
<1>14. CASE ReportSent
  BY <1>14, SessionAssumption, <1>0 DEF ReportSent, loopVars, worldVars,
     LoopTyped, Awaits, OfTheEpoch, Ended, Opening, Retried
<1>15. CASE ReportReturns
  BY <1>15, SessionAssumption, <1>0 DEF ReportReturns, Follow, loopVars,
     worldVars, LoopTyped, Awaits, OfTheEpoch, Ended, Opening, Retried
<1>16. CASE JoinReturns
  BY <1>16, SessionAssumption, <1>0 DEF JoinReturns, Follow, loopVars, worldVars,
     LoopTyped, Awaits, OfTheEpoch, Ended, Opening, Retried
<1>17. CASE UNCHANGED vars
  BY <1>17, SessionAssumption, <1>0 DEF vars, LoopTyped, Awaits, OfTheEpoch,
     Ended, Opening, Retried
<1> QED
  BY <1>1, <1>2, <1>3, <1>4, <1>5, <1>6, <1>7, <1>8, <1>9, <1>10, <1>11, <1>12,
     <1>13, <1>14, <1>15, <1>16, <1>17 DEF Next, Loop

(* A segment is counted in one place.                                      *)
LEMMA CountsKept ==
  ASSUME IInv, [Next]_vars
  PROVE  CountsTyped' /\ Summed'
<1>0. CountsTyped /\ Summed
  BY DEF IInv, TypeOK, CountsTyped
<1>1. CASE StartEpoch
  BY <1>1, SessionAssumption, <1>0 DEF StartEpoch, Resolve, worldVars,
     CountsTyped, Summed
<1>2. CASE Retry
  BY <1>2, SessionAssumption, <1>0 DEF Retry, Resolve, worldVars, CountsTyped,
     Summed
<1>3. CASE RunDirMade
  BY <1>3, SessionAssumption, <1>0 DEF RunDirMade, worldVars, CountsTyped, Summed
<1>4. CASE Drive
  BY <1>4, SessionAssumption, <1>0 DEF Drive, worldVars, CountsTyped, Summed
<1>5. ASSUME NEW ceiling \in BOOLEAN, StopDriving(ceiling)
      PROVE  CountsTyped' /\ Summed'
  BY <1>5, SessionAssumption, <1>0 DEF StopDriving, worldVars, CountsTyped, Summed
<1>6. CASE EpochEnds
  <2> DEFINE n == counts.carried + counts.epoch
  <2>1. n \in 0 .. MaxSegments /\ n = counts.carried + counts.epoch /\ 0 \in 0 .. MaxSegments
    BY <1>0, SessionAssumption DEF CountsTyped, Summed
  <2>2. counts' = [counts EXCEPT !.carried = n, !.epoch = 0, !.snapshot = 0]
    BY <1>6 DEF EpochEnds, Carry
  <2> HIDE DEF n
  <2>3. CountsTyped'
    BY <1>0, <2>1, <2>2 DEF CountsTyped
  <2>4. Summed'
    BY <1>0, <1>6, <2>1, <2>2 DEF CountsTyped, Summed, EpochEnds
  <2> QED
    BY <2>3, <2>4
<1>7. CASE Saved
  BY <1>7, SessionAssumption, <1>0 DEF Saved, worldVars, CountsTyped, Summed
<1>8. CASE Leave \/ End
  BY <1>8, SessionAssumption, <1>0 DEF Leave, End, worldVars, CountsTyped, Summed
<1>9. CASE EpochThrows
  <2> DEFINE n == counts.lost + counts.epoch
  <2>1. n \in 0 .. MaxSegments /\ n = counts.lost + counts.epoch /\ 0 \in 0 .. MaxSegments
    BY <1>0, SessionAssumption DEF CountsTyped, Summed
  <2>2. counts' = [counts EXCEPT !.lost = n, !.epoch = 0]
    BY <1>9 DEF EpochThrows
  <2> HIDE DEF n
  <2>3. CountsTyped'
    BY <1>0, <2>1, <2>2 DEF CountsTyped
  <2>4. Summed'
    BY <1>0, <1>9, <2>1, <2>2 DEF CountsTyped, Summed, EpochThrows
  <2> QED
    BY <2>3, <2>4
<1>10. CASE Pull \/ Snapshot
  <2>1. CASE Snapshot
    BY <1>0, <2>1 DEF Snapshot, CountsTyped, Summed, loopVars
  <2>2. CASE Pull
    <3> DEFINE n == counts.pulled + 1
               e == counts.epoch + 1
    <3>1. counts.pulled < MaxSegments /\ pc \in {"driving", "stopping"} /\ UNCHANGED pc
      BY <2>2 DEF Pull, loopVars
    <3>2. n \in 0 .. MaxSegments /\ e \in 0 .. MaxSegments /\ n = counts.pulled + 1 /\ e = counts.epoch + 1
      BY <1>0, <3>1, SessionAssumption DEF CountsTyped, Summed
    <3>3. counts' = [counts EXCEPT !.pulled = n, !.epoch = e]
      BY <2>2 DEF Pull
    <3> HIDE DEF n, e
    <3>4. CountsTyped'
      BY <1>0, <3>2, <3>3 DEF CountsTyped
    <3>5. Summed'
      BY <1>0, <3>1, <3>2, <3>3 DEF CountsTyped, Summed
    <3> QED
      BY <3>4, <3>5
  <2> QED
    BY <1>10, <2>1, <2>2
<1>11. ASSUME NEW by \in {1, -1}, Nudge(by)
      PROVE  CountsTyped' /\ Summed'
  BY <1>11, SessionAssumption, <1>0 DEF Nudge, loopVars, worldVars, CountsTyped,
     Summed
<1>12. CASE Quit
  BY <1>12, SessionAssumption, <1>0 DEF Quit, loopVars, worldVars, CountsTyped,
     Summed
<1>13. ASSUME NEW s \in Streams \union {NoStream}, ServerMoves(s)
      PROVE  CountsTyped' /\ Summed'
  BY <1>13, SessionAssumption, <1>0 DEF ServerMoves, loopVars, CountsTyped, Summed
<1>14. CASE ReportSent
  BY <1>14, SessionAssumption, <1>0 DEF ReportSent, loopVars, worldVars,
     CountsTyped, Summed
<1>15. CASE ReportReturns
  BY <1>15, SessionAssumption, <1>0 DEF ReportReturns, Follow, loopVars,
     worldVars, CountsTyped, Summed
<1>16. CASE JoinReturns
  BY <1>16, SessionAssumption, <1>0 DEF JoinReturns, Follow, loopVars, worldVars,
     CountsTyped, Summed
<1>17. CASE UNCHANGED vars
  BY <1>17, SessionAssumption, <1>0 DEF vars, CountsTyped, Summed
<1> QED
  BY <1>1, <1>2, <1>3, <1>4, <1>5, <1>6, <1>7, <1>8, <1>9, <1>10, <1>11, <1>12,
     <1>13, <1>14, <1>15, <1>16, <1>17 DEF Next, Loop

(* A controller runs while its epoch does.                                 *)
LEMMA FollowedKept ==
  ASSUME IInv, [Next]_vars
  PROVE  Followed'
<1>0. Followed
  BY DEF IInv
<1>1. CASE StartEpoch
  BY <1>1, <1>0 DEF StartEpoch, Resolve, worldVars, Followed
<1>2. CASE Retry
  BY <1>2, <1>0 DEF Retry, Resolve, worldVars, Followed
<1>3. CASE RunDirMade
  BY <1>3, <1>0 DEF RunDirMade, worldVars, Followed
<1>4. CASE Drive
  BY <1>4, <1>0 DEF Drive, worldVars, Followed
<1>5. ASSUME NEW ceiling \in BOOLEAN, StopDriving(ceiling)
      PROVE  Followed'
  BY <1>5, <1>0 DEF StopDriving, worldVars, Followed
<1>6. CASE EpochEnds
  BY <1>6, <1>0 DEF EpochEnds, Carry, worldVars, Followed
<1>7. CASE Saved
  BY <1>7, <1>0 DEF Saved, worldVars, Followed
<1>8. CASE Leave \/ End
  BY <1>8, <1>0 DEF Leave, End, worldVars, Followed
<1>9. CASE EpochThrows
  BY <1>9, <1>0 DEF EpochThrows, worldVars, Followed
<1>10. CASE Pull \/ Snapshot
  BY <1>10, <1>0 DEF Pull, Snapshot, loopVars, worldVars, Followed
<1>11. ASSUME NEW by \in {1, -1}, Nudge(by)
      PROVE  Followed'
  BY <1>11, <1>0 DEF Nudge, loopVars, worldVars, Followed
<1>12. CASE Quit
  BY <1>12, <1>0 DEF Quit, loopVars, worldVars, Followed
<1>13. ASSUME NEW s \in Streams \union {NoStream}, ServerMoves(s)
      PROVE  Followed'
  BY <1>13, <1>0 DEF ServerMoves, loopVars, Followed
<1>14. CASE ReportSent
  BY <1>14, <1>0 DEF ReportSent, loopVars, worldVars, Followed
<1>15. CASE ReportReturns
  BY <1>15, <1>0 DEF ReportReturns, Follow, loopVars, worldVars, Followed
<1>16. CASE JoinReturns
  BY <1>16, <1>0 DEF JoinReturns, Follow, loopVars, worldVars, Followed
<1>17. CASE UNCHANGED vars
  BY <1>17, <1>0 DEF vars, Followed
<1> QED
  BY <1>1, <1>2, <1>3, <1>4, <1>5, <1>6, <1>7, <1>8, <1>9, <1>10, <1>11, <1>12,
     <1>13, <1>14, <1>15, <1>16, <1>17 DEF Next, Loop

(* There is an attempt left for every pause.                               *)
LEMMA RetriedKept ==
  ASSUME IInv, [Next]_vars
  PROVE  Retried'
<1>0. Retried /\ LoopTyped
  BY DEF IInv, TypeOK, LoopTyped
<1>1. CASE StartEpoch
  BY <1>1, SessionAssumption, <1>0 DEF StartEpoch, Resolve, worldVars, Retried,
     LoopTyped
<1>2. CASE Retry
  BY <1>2, SessionAssumption, <1>0 DEF Retry, Resolve, worldVars, Retried,
     LoopTyped
<1>3. CASE RunDirMade
  BY <1>3, SessionAssumption, <1>0 DEF RunDirMade, worldVars, Retried, LoopTyped
<1>4. CASE Drive
  BY <1>4, SessionAssumption, <1>0 DEF Drive, worldVars, Retried, LoopTyped
<1>5. ASSUME NEW ceiling \in BOOLEAN, StopDriving(ceiling)
      PROVE  Retried'
  BY <1>5, SessionAssumption, <1>0 DEF StopDriving, worldVars, Retried, LoopTyped
<1>6. CASE EpochEnds
  BY <1>6, SessionAssumption, <1>0 DEF EpochEnds, Carry, worldVars, Retried,
     LoopTyped
<1>7. CASE Saved
  BY <1>7, SessionAssumption, <1>0 DEF Saved, worldVars, Retried, LoopTyped
<1>8. CASE Leave \/ End
  BY <1>8, SessionAssumption, <1>0 DEF Leave, End, worldVars, Retried, LoopTyped
<1>9. CASE EpochThrows
  BY <1>9, SessionAssumption, <1>0 DEF EpochThrows, worldVars, Retried, LoopTyped
<1>10. CASE Pull \/ Snapshot
  BY <1>10, SessionAssumption, <1>0 DEF Pull, Snapshot, loopVars, worldVars,
     Retried, LoopTyped
<1>11. ASSUME NEW by \in {1, -1}, Nudge(by)
      PROVE  Retried'
  BY <1>11, SessionAssumption, <1>0 DEF Nudge, loopVars, worldVars, Retried,
     LoopTyped
<1>12. CASE Quit
  BY <1>12, SessionAssumption, <1>0 DEF Quit, loopVars, worldVars, Retried,
     LoopTyped
<1>13. ASSUME NEW s \in Streams \union {NoStream}, ServerMoves(s)
      PROVE  Retried'
  BY <1>13, SessionAssumption, <1>0 DEF ServerMoves, loopVars, Retried, LoopTyped
<1>14. CASE ReportSent
  BY <1>14, SessionAssumption, <1>0 DEF ReportSent, loopVars, worldVars, Retried,
     LoopTyped
<1>15. CASE ReportReturns
  BY <1>15, SessionAssumption, <1>0 DEF ReportReturns, Follow, loopVars,
     worldVars, Retried, LoopTyped
<1>16. CASE JoinReturns
  BY <1>16, SessionAssumption, <1>0 DEF JoinReturns, Follow, loopVars, worldVars,
     Retried, LoopTyped
<1>17. CASE UNCHANGED vars
  BY <1>17, SessionAssumption, <1>0 DEF vars, Retried, LoopTyped
<1> QED
  BY <1>1, <1>2, <1>3, <1>4, <1>5, <1>6, <1>7, <1>8, <1>9, <1>10, <1>11, <1>12,
     <1>13, <1>14, <1>15, <1>16, <1>17 DEF Next, Loop

(* The run is one an agent can be asked for.                               *)
LEMMA RunTypedKept ==
  ASSUME IInv, [Next]_vars
  PROVE  RunTyped'
<1>0. RunTyped /\ WantedTyped
  BY DEF IInv, TypeOK, RunTyped, WantedTyped
<1>1. CASE StartEpoch
  BY <1>1, RunKept, SessionAssumption, <1>0 DEF StartEpoch, Resolve, worldVars,
     RunTyped
<1>2. CASE Retry
  BY <1>2, RunKept, SessionAssumption, <1>0 DEF Retry, Resolve, worldVars,
     RunTyped
<1>3. CASE RunDirMade
  BY <1>3, RunKept, SessionAssumption, <1>0 DEF RunDirMade, worldVars, NoRun,
     RunTyped
<1>4. CASE Drive
  <2>1. scenario.viewers \in Nat
    BY <1>4, CohortTyped DEF Drive, Opening
  <2>2. run' = WithTarget(run, scenario.viewers)
    BY <1>4 DEF Drive
  <2> QED
    BY <1>0, <2>1, <2>2, RunKept DEF RunTyped
<1>5. ASSUME NEW ceiling \in BOOLEAN, StopDriving(ceiling)
      PROVE  RunTyped'
  BY <1>5, RunKept, SessionAssumption, <1>0 DEF StopDriving, worldVars, RunTyped
<1>6. CASE EpochEnds
  BY <1>6, RunKept, SessionAssumption, <1>0 DEF EpochEnds, Carry, worldVars,
     NoRun, RunTyped
<1>7. CASE Saved
  BY <1>7, RunKept, SessionAssumption, <1>0 DEF Saved, worldVars, RunTyped
<1>8. CASE Leave \/ End
  BY <1>8, RunKept, SessionAssumption, <1>0 DEF Leave, End, worldVars, RunTyped
<1>9. CASE EpochThrows
  BY <1>9, RunKept, SessionAssumption, <1>0 DEF EpochThrows, worldVars, RunTyped
<1>10. CASE Pull \/ Snapshot
  BY <1>10, RunKept, SessionAssumption, <1>0 DEF Pull, Snapshot, loopVars,
     worldVars, RunTyped
<1>11. ASSUME NEW by \in {1, -1}, Nudge(by)
      PROVE  RunTyped'
  <2>1. Nudged(by) \in Nat
    BY <1>0, <1>11, NudgedTyped
  <2>2. run' = IF controller = "none" THEN run ELSE WithTarget(run, Nudged(by))
    BY <1>11 DEF Nudge, Nudged

  <2> QED
    BY <1>0, <2>1, <2>2, RunKept DEF RunTyped
<1>12. CASE Quit
  BY <1>12, RunKept, SessionAssumption, <1>0 DEF Quit, loopVars, worldVars,
     RunTyped
<1>13. ASSUME NEW s \in Streams \union {NoStream}, ServerMoves(s)
      PROVE  RunTyped'
  BY <1>13, RunKept, SessionAssumption, <1>0 DEF ServerMoves, loopVars, RunTyped
<1>14. CASE ReportSent
  BY <1>14, RunKept, SessionAssumption, <1>0 DEF ReportSent, loopVars, worldVars,
     RunTyped
<1>15. CASE ReportReturns
  BY <1>15, RunKept, SessionAssumption, <1>0 DEF ReportReturns, Follow, loopVars,
     worldVars, RunTyped
<1>16. CASE JoinReturns
  BY <1>16, RunKept, SessionAssumption, <1>0 DEF JoinReturns, Follow, loopVars,
     worldVars, RunTyped
<1>17. CASE UNCHANGED vars
  BY <1>17, RunKept, SessionAssumption, <1>0 DEF vars, RunTyped
<1> QED
  BY <1>1, <1>2, <1>3, <1>4, <1>5, <1>6, <1>7, <1>8, <1>9, <1>10, <1>11, <1>12,
     <1>13, <1>14, <1>15, <1>16, <1>17 DEF Next, Loop

(* What is asked for is at most one past the ceiling.                      *)
LEMMA WantedKept ==
  ASSUME IInv, [Next]_vars
  PROVE  WantedTyped'
<1>0. WantedTyped /\ LoopTyped
  BY DEF IInv, TypeOK, LoopTyped, WantedTyped
<1>1. CASE StartEpoch
  BY <1>1, SessionAssumption, <1>0 DEF StartEpoch, Resolve, worldVars,
     AtLeastOne, LoopTyped, WantedTyped
<1>2. CASE Retry
  BY <1>2, SessionAssumption, <1>0 DEF Retry, Resolve, worldVars, AtLeastOne,
     LoopTyped, WantedTyped
<1>3. CASE RunDirMade
  BY <1>3, SessionAssumption, <1>0 DEF RunDirMade, worldVars, WantedTyped
<1>4. CASE Drive
  BY <1>4, SessionAssumption, <1>0 DEF Drive, worldVars, WantedTyped
<1>5. ASSUME NEW ceiling \in BOOLEAN, StopDriving(ceiling)
      PROVE  WantedTyped'
  BY <1>5, SessionAssumption, <1>0 DEF StopDriving, worldVars, WantedTyped
<1>6. CASE EpochEnds
  BY <1>6, SessionAssumption, <1>0 DEF EpochEnds, Carry, worldVars, WantedTyped
<1>7. CASE Saved
  BY <1>7, SessionAssumption, <1>0 DEF Saved, worldVars, WantedTyped
<1>8. CASE Leave \/ End
  BY <1>8, SessionAssumption, <1>0 DEF Leave, End, worldVars, WantedTyped
<1>9. CASE EpochThrows
  BY <1>9, SessionAssumption, <1>0 DEF EpochThrows, worldVars, WantedTyped
<1>10. CASE Pull \/ Snapshot
  BY <1>10, SessionAssumption, <1>0 DEF Pull, Snapshot, loopVars, worldVars,
     WantedTyped
<1>11. ASSUME NEW by \in {1, -1}, Nudge(by)
      PROVE  WantedTyped'
  BY <1>11, SessionAssumption, <1>0 DEF Nudge, loopVars, worldVars, AtMost,
     WantedTyped
<1>12. CASE Quit
  BY <1>12, SessionAssumption, <1>0 DEF Quit, loopVars, worldVars, WantedTyped
<1>13. ASSUME NEW s \in Streams \union {NoStream}, ServerMoves(s)
      PROVE  WantedTyped'
  BY <1>13, SessionAssumption, <1>0 DEF ServerMoves, loopVars, WantedTyped
<1>14. CASE ReportSent
  BY <1>14, SessionAssumption, <1>0 DEF ReportSent, loopVars, worldVars,
     WantedTyped
<1>15. CASE ReportReturns
  BY <1>15, SessionAssumption, <1>0 DEF ReportReturns, Follow, loopVars,
     worldVars, WantedTyped
<1>16. CASE JoinReturns
  BY <1>16, SessionAssumption, <1>0 DEF JoinReturns, Follow, loopVars, worldVars,
     WantedTyped
<1>17. CASE UNCHANGED vars
  BY <1>17, SessionAssumption, <1>0 DEF vars, WantedTyped
<1> QED
  BY <1>1, <1>2, <1>3, <1>4, <1>5, <1>6, <1>7, <1>8, <1>9, <1>10, <1>11, <1>12,
     <1>13, <1>14, <1>15, <1>16, <1>17 DEF Next, Loop

(* An epoch opens for what was asked, or a key was missed.                 *)
LEMMA AskedKept ==
  ASSUME IInv, [Next]_vars
  PROVE  Asked'
<1>0. Asked /\ WantedTyped
  BY DEF IInv, TypeOK, WantedTyped
<1>1. CASE StartEpoch
  BY <1>1, SessionAssumption, <1>0 DEF StartEpoch, Resolve, worldVars,
     AtLeastOne, WantedTyped, NoScenario, Asked, Opening
<1>2. CASE Retry
  BY <1>2, SessionAssumption, <1>0 DEF Retry, Resolve, worldVars, AtLeastOne,
     WantedTyped, NoScenario, Asked, Opening
<1>3. CASE RunDirMade
  BY <1>3, SessionAssumption, <1>0 DEF RunDirMade, worldVars, Asked, Opening
<1>4. CASE Drive
  BY <1>4, SessionAssumption, <1>0 DEF Drive, worldVars, Asked, Opening
<1>5. ASSUME NEW ceiling \in BOOLEAN, StopDriving(ceiling)
      PROVE  Asked'
  BY <1>5, SessionAssumption, <1>0 DEF StopDriving, worldVars, OfTheEpoch, Asked,
     Opening
<1>6. CASE EpochEnds
  BY <1>6, SessionAssumption, <1>0 DEF EpochEnds, Carry, worldVars, Asked, Opening
<1>7. CASE Saved
  BY <1>7, SessionAssumption, <1>0 DEF Saved, worldVars, Asked, Opening
<1>8. CASE Leave \/ End
  BY <1>8, SessionAssumption, <1>0 DEF Leave, End, worldVars, Asked, Opening
<1>9. CASE EpochThrows
  BY <1>9, SessionAssumption, <1>0 DEF EpochThrows, worldVars, OfTheEpoch, Asked,
     Opening
<1>10. CASE Pull \/ Snapshot
  BY <1>10, SessionAssumption, <1>0 DEF Pull, Snapshot, loopVars, worldVars,
     Asked, Opening
<1>11. ASSUME NEW by \in {1, -1}, Nudge(by)
      PROVE  Asked'
  BY <1>11, SessionAssumption, <1>0 DEF Nudge, loopVars, worldVars, Asked, Opening
<1>12. CASE Quit
  BY <1>12, SessionAssumption, <1>0 DEF Quit, loopVars, worldVars, Asked, Opening
<1>13. ASSUME NEW s \in Streams \union {NoStream}, ServerMoves(s)
      PROVE  Asked'
  BY <1>13, SessionAssumption, <1>0 DEF ServerMoves, loopVars, Asked, Opening
<1>14. CASE ReportSent
  BY <1>14, SessionAssumption, <1>0 DEF ReportSent, loopVars, worldVars, Asked,
     Opening
<1>15. CASE ReportReturns
  BY <1>15, SessionAssumption, <1>0 DEF ReportReturns, Follow, loopVars,
     worldVars, Asked, Opening
<1>16. CASE JoinReturns
  BY <1>16, SessionAssumption, <1>0 DEF JoinReturns, Follow, loopVars, worldVars,
     Asked, Opening
<1>17. CASE UNCHANGED vars
  BY <1>17, SessionAssumption, <1>0 DEF vars, Asked, Opening
<1> QED
  BY <1>1, <1>2, <1>3, <1>4, <1>5, <1>6, <1>7, <1>8, <1>9, <1>10, <1>11, <1>12,
     <1>13, <1>14, <1>15, <1>16, <1>17 DEF Next, Loop

(* Only the epoch's own agent holds viewers.                               *)
LEMMA AloneKept ==
  ASSUME IInv, [Next]_vars
  PROVE  Alone'
<1>0. Alone /\ Followed /\ RunTyped /\ WantedTyped /\ LoopTyped
  BY DEF IInv, TypeOK, LoopTyped, WantedTyped, RunTyped
<1>1. CASE StartEpoch
  BY <1>1, <1>0 DEF StartEpoch, Resolve, worldVars, Alone, Followed
<1>2. CASE Retry
  BY <1>2, <1>0 DEF Retry, Resolve, worldVars, Alone, Followed
<1>3. CASE RunDirMade
  <2>1. /\ pc = "creating" /\ pc' = "preparing" /\ controller' = "running"
        /\ UNCHANGED missed
    BY <1>3 DEF RunDirMade
  <2>2. orphans' <=> orphans \/ run.held > 0
    BY <1>3 DEF RunDirMade
  <2>3. "refused" \notin missed => ~orphans /\ run.held = 0
    BY <1>0, <2>1 DEF Alone, Followed
  <2>4. "refused" \notin missed => ~orphans'
    BY <2>2, <2>3
  <2> QED
    BY <2>1, <2>4 DEF Alone
<1>4. CASE Drive
  <2>1. scenario.viewers \in Nat /\ pc = "preparing" /\ pc' = "driving"
    BY <1>4, CohortTyped DEF Drive, Opening
  <2> QED
    BY <1>0, <1>4, <2>1 DEF Drive, Alone, Followed
<1>5. ASSUME NEW ceiling \in BOOLEAN, StopDriving(ceiling)
      PROVE  Alone'
  BY <1>5, <1>0 DEF StopDriving, worldVars, OfTheEpoch, RunTyped, Alone, Followed
<1>6. CASE EpochEnds
  BY <1>6, <1>0 DEF EpochEnds, Carry, worldVars, NoRun, Alone, Followed
<1>7. CASE Saved
  BY <1>7, <1>0 DEF Saved, worldVars, Alone, Followed
<1>8. CASE Leave \/ End
  BY <1>8, <1>0 DEF Leave, End, worldVars, Alone, Followed
<1>9. CASE EpochThrows
  BY <1>9, <1>0 DEF EpochThrows, worldVars, OfTheEpoch, Alone, Followed
<1>10. CASE Pull \/ Snapshot
  BY <1>10, <1>0 DEF Pull, Snapshot, loopVars, worldVars, Alone, Followed
<1>11. ASSUME NEW by \in {1, -1}, Nudge(by)
      PROVE  Alone'
  <2>1. Nudged(by) \in Nat
    BY <1>0, <1>11, NudgedTyped
  <2>2. run' = IF controller = "none" THEN run ELSE WithTarget(run, Nudged(by))
    BY <1>11 DEF Nudge, Nudged

  <2>3. controller = "dead" \/ controller = "none" \/ controller = "running"
    BY <1>0 DEF LoopTyped
  <2>4. /\ ~run.taking => WithTarget(run, Nudged(by)).held = run.held
        /\ WithTarget(run, Nudged(by)).taking = run.taking
    BY <1>0, <2>1, RunKept
  <2>5. UNCHANGED <<pc, controller, orphans>> /\ ("refused" \in missed' <=> "refused" \in missed)
    BY <1>11 DEF Nudge, loopVars
  <2> QED
    BY <1>0, <2>2, <2>3, <2>4, <2>5 DEF Alone
<1>12. CASE Quit
  <2>1. run' = run \/ (run' = Stopped(run) /\ controller # "none")
    BY <1>12 DEF Quit
  <2>2. UNCHANGED <<pc, controller, orphans>> /\ ("refused" \in missed' <=> "refused" \in missed)
    BY <1>12 DEF Quit, loopVars
  <2>3. ~Stopped(run).taking /\ Stopped(run).held = 0
    BY <1>0, RunKept
  <2> QED
    BY <1>0, <2>1, <2>2, <2>3 DEF Alone
<1>13. ASSUME NEW s \in Streams \union {NoStream}, ServerMoves(s)
      PROVE  Alone'
  BY <1>13, <1>0 DEF ServerMoves, loopVars, Alone, Followed
<1>14. CASE ReportSent
  BY <1>14, <1>0 DEF ReportSent, loopVars, worldVars, Alone, Followed
<1>15. CASE ReportReturns
  <2>1. run' = run \/ (run' = Stopped(run) /\ controller # "none")
    BY <1>15 DEF ReportReturns, Follow
  <2>2. UNCHANGED <<pc, controller, orphans>> /\ ("refused" \in missed' <=> "refused" \in missed)
    BY <1>15 DEF ReportReturns, Follow, loopVars
  <2>3. ~Stopped(run).taking /\ Stopped(run).held = 0
    BY <1>0, RunKept
  <2> QED
    BY <1>0, <2>1, <2>2, <2>3 DEF Alone
<1>16. CASE JoinReturns
  <2>1. run' = run \/ (run' = Stopped(run) /\ controller # "none")
    BY <1>16 DEF JoinReturns, Follow
  <2>2. UNCHANGED <<pc, controller, orphans>> /\ ("refused" \in missed' <=> "refused" \in missed)
    BY <1>16 DEF JoinReturns, Follow, loopVars
  <2>3. ~Stopped(run).taking /\ Stopped(run).held = 0
    BY <1>0, RunKept
  <2> QED
    BY <1>0, <2>1, <2>2, <2>3 DEF Alone
<1>17. CASE UNCHANGED vars
  BY <1>17, <1>0 DEF vars, Alone, Followed
<1> QED
  BY <1>1, <1>2, <1>3, <1>4, <1>5, <1>6, <1>7, <1>8, <1>9, <1>10, <1>11, <1>12,
     <1>13, <1>14, <1>15, <1>16, <1>17 DEF Next, Loop

(* What is asked for is what an epoch holds.                               *)
LEMMA TargetShownKept ==
  ASSUME IInv, [Next]_vars
  PROVE  TargetShown'
<1>0. TargetShown /\ Followed /\ RunTyped /\ WantedTyped
  BY DEF IInv, TypeOK, WantedTyped, RunTyped
<1>1. CASE StartEpoch
  BY <1>1, <1>0 DEF StartEpoch, Resolve, worldVars, TargetShown
<1>2. CASE Retry
  BY <1>2, <1>0 DEF Retry, Resolve, worldVars, TargetShown
<1>3. CASE RunDirMade
  BY <1>3, <1>0 DEF RunDirMade, worldVars, TargetShown
<1>4. CASE Drive
  <2>1. scenario.viewers \in Nat /\ Asked
    BY <1>4, CohortTyped DEF Drive, Opening, IInv
  <2>2. /\ run' = WithTarget(run, scenario.viewers) /\ pc = "preparing"
        /\ UNCHANGED <<desired, missed>>
    BY <1>4 DEF Drive
  <2>3. run'.target = AtMost(scenario.viewers, Ceiling)
    BY <1>0, <2>1, <2>2, RunKept
  <2> QED
    BY <2>1, <2>2, <2>3 DEF TargetShown, Asked, Opening
<1>5. ASSUME NEW ceiling \in BOOLEAN, StopDriving(ceiling)
      PROVE  TargetShown'
  BY <1>5, <1>0 DEF StopDriving, worldVars, TargetShown
<1>6. CASE EpochEnds
  BY <1>6, <1>0 DEF EpochEnds, Carry, worldVars, TargetShown
<1>7. CASE Saved
  BY <1>7, <1>0 DEF Saved, worldVars, TargetShown
<1>8. CASE Leave \/ End
  BY <1>8, <1>0 DEF Leave, End, worldVars, TargetShown
<1>9. CASE EpochThrows
  BY <1>9, <1>0 DEF EpochThrows, worldVars, TargetShown
<1>10. CASE Pull \/ Snapshot
  BY <1>10, <1>0 DEF Pull, Snapshot, loopVars, worldVars, TargetShown
<1>11. ASSUME NEW by \in {1, -1}, Nudge(by)
      PROVE  TargetShown'
  <2>1. Nudged(by) \in Nat
    BY <1>0, <1>11, NudgedTyped
  <2>2. run' = IF controller = "none" THEN run ELSE WithTarget(run, Nudged(by))
    BY <1>11 DEF Nudge, Nudged

  <2>3. CASE pc = "driving"
    <3>1. controller = "running"
      BY <1>0, <2>3 DEF Followed
    <3>2. run'.target = AtMost(Nudged(by), Ceiling)
      BY <1>0, <2>1, <2>2, <3>1, RunKept
    <3>3. desired' = AtMost(Nudged(by), Ceiling)
      BY <1>11, <3>1 DEF Nudge, Nudged
    <3>4. AtMost(desired', Ceiling) = AtMost(Nudged(by), Ceiling)
      BY <2>1, <3>3, Cut
    <3> QED
      BY <3>2, <3>4 DEF TargetShown
  <2>4. CASE pc # "driving"
    BY <1>11, <2>4 DEF Nudge, loopVars, TargetShown
  <2> QED
    BY <2>3, <2>4
<1>12. CASE Quit
  <2>1. run' = run \/ run' = Stopped(run)
    BY <1>12 DEF Quit
  <2>2. UNCHANGED <<pc, desired>> /\ missed \subseteq missed'
    BY <1>12 DEF Quit, loopVars
  <2>3. Stopped(run).aborted
    BY <1>0, RunKept
  <2> QED
    BY <1>0, <2>1, <2>2, <2>3 DEF TargetShown
<1>13. ASSUME NEW s \in Streams \union {NoStream}, ServerMoves(s)
      PROVE  TargetShown'
  BY <1>13, <1>0 DEF ServerMoves, loopVars, TargetShown
<1>14. CASE ReportSent
  BY <1>14, <1>0 DEF ReportSent, loopVars, worldVars, TargetShown
<1>15. CASE ReportReturns
  <2>1. run' = run \/ run' = Stopped(run)
    BY <1>15 DEF ReportReturns, Follow
  <2>2. UNCHANGED <<pc, desired>> /\ missed \subseteq missed'
    BY <1>15 DEF ReportReturns, Follow, loopVars
  <2>3. Stopped(run).aborted
    BY <1>0, RunKept
  <2> QED
    BY <1>0, <2>1, <2>2, <2>3 DEF TargetShown
<1>16. CASE JoinReturns
  <2>1. run' = run \/ run' = Stopped(run)
    BY <1>16 DEF JoinReturns, Follow
  <2>2. UNCHANGED <<pc, desired>> /\ missed \subseteq missed'
    BY <1>16 DEF JoinReturns, Follow, loopVars
  <2>3. Stopped(run).aborted
    BY <1>0, RunKept
  <2> QED
    BY <1>0, <2>1, <2>2, <2>3 DEF TargetShown
<1>17. CASE UNCHANGED vars
  BY <1>17, <1>0 DEF vars, TargetShown
<1> QED
  BY <1>1, <1>2, <1>3, <1>4, <1>5, <1>6, <1>7, <1>8, <1>9, <1>10, <1>11, <1>12,
     <1>13, <1>14, <1>15, <1>16, <1>17 DEF Next, Loop

(* The invariant holds in every state.                                     *)
LEMMA Inductive == Spec => []IInv
<1>1. Init => IInv
  <2> SUFFICES ASSUME Init PROVE IInv
    OBVIOUS
  <2>1. LoopTyped
    <3>1. 0 \in 0 .. EpochAttempts /\ 0 \in 0 .. MaxMoves
      BY SessionAssumption
    <3> QED
      BY <3>1 DEF Init, LoopTyped, Awaits
  <2>2. WantedTyped
    BY SessionAssumption DEF Init, WantedTyped
  <2>3. CountsTyped
    BY SessionAssumption DEF Init, CountsTyped
  <2>4. RunTyped
    BY SessionAssumption DEF Init, RunTyped, NoRun
  <2>5. TypeOK
    BY <2>1, <2>2, <2>3, <2>4 DEF TypeOK, LoopTyped, WantedTyped, CountsTyped, RunTyped
  <2>6. Summed /\ Followed /\ Asked /\ Retried
    BY DEF Init, Summed, Followed, Asked, Retried, Opening
  <2>7. Alone /\ TargetShown
    BY DEF Init, Alone, TargetShown, NoRun
  <2> QED
    BY <2>5, <2>6, <2>7 DEF IInv
<1>2. IInv /\ [Next]_vars => IInv'
  <2> SUFFICES ASSUME IInv, [Next]_vars PROVE IInv'
    OBVIOUS
  <2>1. TypeOK'
    BY LoopKept, WantedKept, CountsKept, RunTypedKept
       DEF TypeOK, LoopTyped, WantedTyped, CountsTyped, RunTyped
  <2> QED
    BY <2>1, CountsKept, FollowedKept, AskedKept, RetriedKept, AloneKept, TargetShownKept
       DEF IInv
<1> QED
  BY <1>1, <1>2, PTL DEF Spec

(* The variables of a session keep their types.                            *)
THEOREM TypeCorrect == Spec => []TypeOK
<1>1. IInv => TypeOK
  BY DEF IInv
<1> QED
  BY Inductive, <1>1, PTL

(* client.ts nudge, runEpoch: a driving epoch holds what was asked for,    *)
(* unless it missed a key, pressed while it opened or while no viewer was  *)
(* asked for, and then until the next key.                                 *)
THEOREM TargetsAreShown == Spec => []TargetShown
<1>1. IInv => TargetShown
  BY DEF IInv
<1> QED
  BY Inductive, <1>1, PTL

(* client.ts runEpoch, report: a segment is reported once at most, and in  *)
(* the end once, unless it was lost with its run.                          *)
THEOREM SegmentsTally == Spec => []Tally
<1>1. ASSUME IInv
      PROVE  Tally
  <2>1. CountsTyped /\ Summed
    BY <1>1 DEF IInv, TypeOK, CountsTyped
  <2> QED
    BY <2>1, SessionAssumption DEF Tally, Reported, CountsTyped, Summed
<1> QED
  BY Inductive, <1>1, PTL

(* The total reported never falls below what was carried over and what is  *)
(* shown of the running epoch: all it can lose in a step is what was shown *)
(* of a run that threw, when the next epoch's first snapshot comes.        *)
THEOREM TotalsKept == Spec => TotalsNeverDrop
<1> DEFINE Shown == counts.carried + AtMost(counts.snapshot, counts.epoch)
<1>1. ASSUME IInv, [Next]_vars
      PROVE  [Reported' >= Shown]_vars
  <2>1. CountsTyped /\ Summed
    BY <1>1 DEF IInv, TypeOK, CountsTyped
  <2>2. /\ counts.carried \in Nat /\ counts.snapshot \in Nat /\ counts.epoch \in Nat
        /\ counts.lost \in Nat
    BY <2>1, SessionAssumption DEF CountsTyped
  <2>3. /\ AtMost(counts.snapshot, counts.epoch) \in Nat
        /\ AtMost(counts.snapshot, counts.epoch) <= counts.snapshot
        /\ AtMost(counts.snapshot, counts.epoch) <= counts.epoch
    BY <2>2 DEF AtMost
  <2>4. CASE UNCHANGED counts
    BY <2>2, <2>3, <2>4 DEF Reported
  <2>5. CASE EpochEnds
    <3>1. counts'.carried = counts.carried + counts.epoch /\ counts'.snapshot = 0
      BY <2>1, <2>5 DEF EpochEnds, Carry, CountsTyped
    <3> QED
      BY <2>2, <2>3, <3>1 DEF Reported
  <2>6. CASE EpochThrows \/ Pull
    <3>1. counts'.carried = counts.carried /\ counts'.snapshot = counts.snapshot
      BY <2>1, <2>6 DEF EpochThrows, Pull, CountsTyped
    <3> QED
      BY <2>2, <2>3, <3>1 DEF Reported
  <2>7. CASE Snapshot
    <3>1. counts'.carried = counts.carried /\ counts'.snapshot = counts.epoch
      BY <2>1, <2>7 DEF Snapshot, CountsTyped
    <3> QED
      BY <2>2, <2>3, <3>1 DEF Reported
  <2>8. UNCHANGED counts \/ EpochEnds \/ EpochThrows \/ Pull \/ Snapshot
    BY <1>1 DEF Next, Loop, StartEpoch, Retry, Resolve, RunDirMade, Drive, StopDriving,
       Saved, Leave, End, Nudge, Quit, ServerMoves, ReportSent, ReportReturns, JoinReturns,
       vars
  <2> QED
    BY <2>4, <2>5, <2>6, <2>7, <2>8
<1> QED
  BY Inductive, <1>1, PTL DEF Spec, TotalsNeverDrop

(* client.ts runEpoch: no agent but the running epoch's holds viewers, as   *)
(* long as every run got past its preparations.                            *)
THEOREM ViewersOfTheEpoch == Spec => []OnlyThisEpochsViewers
<1>1. IInv => OnlyThisEpochsViewers
  BY DEF IInv, Alone, OnlyThisEpochsViewers
<1> QED
  BY Inductive, <1>1, PTL
=============================================================================
