--------------------------- MODULE PreparationProofs ---------------------------
(***************************************************************************)
(* Proofs about what precedes a run: Provision, for every size of fleet,   *)
(* every number of boxes lost behind unanswered calls and every number of  *)
(* retries; and Deploy, for every set of hosts and of deployments, in      *)
(* succession or at once, each of them cut off anywhere.                   *)
(*                                                                         *)
(* ProvisionInv adds to the properties what they rest on: a box that is    *)
(* known, or that a destroy has listed, was rented (Begun), the boxes not  *)
(* yet rented suffice for the rest of the fleet (Room), what the rollback  *)
(* has come to is gone or reported (RolledOff), a destroy that has not     *)
(* failed still lists all that is rented, and nothing is rented once       *)
(* provisioning is over (Sweeping), and the boxes taken for ready are,     *)
(* until a destroy begins (AtHand).                                        *)
(*                                                                         *)
(* What a deployment that is done relies on may be older than it, a marker *)
(* an earlier one left (Marked), and is kept only by what others do not    *)
(* begin (Supplied, Equipped).                                             *)
(***************************************************************************)
EXTENDS Provision, Deploy, FiniteSetTheorems, WellFoundedInduction, TLAPS

(* Where the building of the fleet is not yet over.                        *)
Busy == {"creating", "renting", "recording", "waiting", "probing", "saving"}

(* What is known, or listed by a destroy, was rented.                      *)
Begun == \A b \in known \cup destroy.left : account[b] # "none"

(* The boxes never rented suffice for those still to be created.           *)
Room ==
  /\ Cardinality(known) <= Count
  /\ pc = "renting" => Cardinality(known) < Count
  /\ pc \in {"waiting", "probing", "saving", "ready"} => Cardinality(known) = Count
  /\ Cardinality(Fresh) >= Count - Cardinality(known)

(* What the rollback has come to is deleted or reported.                   *)
RolledOff ==
  /\ pc \in {"rolling back", "emptying"} =>
       \A b \in known \ todo : Rented(b) => b \in forgotten
  /\ pc = "emptying" => todo = {}

(* A destroy that has not failed still lists all that is rented.           *)
Sweeping ==
  /\ destroy.at = "deleting" =>
       Over /\ (~destroy.failed => \A b \in Boxes : Rented(b) => b \in destroy.left)
  /\ destroyed = "clean" => Over

(* What was taken for ready is, and stays recorded once announced.         *)
AtHand ==
  /\ pc \in Busy => \A b \in readyOnes : account[b] = "ready"
  /\ pc = "saving" => readyOnes = known
  /\ pc = "ready" /\ destroyed = "none" /\ destroy.at = "idle" =>
       /\ file = Recorded(known, addressed)
       /\ readyOnes = known
       /\ \A b \in readyOnes : account[b] = "ready"

ProvisionInv ==
  /\ TypeOK
  /\ Begun
  /\ Room
  /\ RolledOff
  /\ Sweeping
  /\ AtHand
  /\ NothingForgotten
  /\ CleanIsClean

(* A set of boxes that is not empty has a least one.                       *)
LEMMA LeastOf ==
  ASSUME NEW S, S \subseteq Boxes, S # {}
  PROVE  Min(S) \in S
<1> DEFINE R == {p \in Nat \X Nat : p[1] < p[2]}
<1>1. IsWellFoundedOn(R, Nat)
  BY NatLessThanWellFounded DEF OpToRel
<1>2. PICK x \in S : \A y \in S : ~(<<y, x>> \in R)
  <2> HIDE DEF R
  <2>1. S \subseteq Nat
    BY DEF Boxes
  <2> QED
    BY <1>1, <2>1, WFMin
<1>3. ASSUME NEW y \in S PROVE x <= y
  <2>1. x \in Nat /\ y \in Nat
    BY DEF Boxes
  <2>2. ~(y < x)
    BY <1>2, <2>1
  <2> QED
    BY <2>1, <2>2
<1> QED
  BY <1>3 DEF Min

(* Every set of boxes is finite and has a size.                            *)
LEMMA BoxSets ==
  ASSUME NEW S, S \subseteq Boxes
  PROVE  IsFiniteSet(S) /\ Cardinality(S) \in Nat
<1>1. IsFiniteSet(Boxes)
  BY FS_Interval, ProvisionAssumption DEF Boxes
<1>2. IsFiniteSet(S)
  BY <1>1, FS_Subset
<1> QED
  BY <1>2, FS_CardinalityType

(* While a POST is made there is a box left to rent.                       *)
LEMMA BoxLeft ==
  ASSUME TypeOK, Room, pc = "renting"
  PROVE  Min(Fresh) \in Fresh
<1>1. Fresh \subseteq Boxes
  BY DEF Fresh
<1>2. Cardinality(Fresh) > 0
  <2>1. Cardinality(Fresh) \in Nat /\ Cardinality(known) \in Nat
    BY <1>1, BoxSets DEF TypeOK
  <2> QED
    BY <2>1, ProvisionAssumption DEF Room
<1>3. Fresh # {}
  BY <1>2, FS_EmptySet
<1> QED
  BY <1>1, <1>3, LeastOf

(* What renting does: one box, that nobody knew or had listed, is new.     *)
LEMMA NewBox ==
  ASSUME ProvisionInv, pc = "renting", RentedNow
  PROVE  /\ Min(Fresh) \in Fresh
         /\ Min(Fresh) \in Boxes \ (known \cup destroy.left)
         /\ account' = [account EXCEPT ![Min(Fresh)] = "new"]
         /\ \A b \in Boxes : b # Min(Fresh) => account'[b] = account[b]
         /\ account'[Min(Fresh)] = "new"
<1>1. Min(Fresh) \in Fresh
  BY BoxLeft DEF ProvisionInv
<1>2. Min(Fresh) \in Boxes /\ account[Min(Fresh)] = "none"
  BY <1>1 DEF Fresh
<1>3. account' = [account EXCEPT ![Min(Fresh)] = "new"]
  BY DEF RentedNow
<1> QED
  BY <1>1, <1>2, <1>3 DEF ProvisionInv, TypeOK, Begun

(* Renting takes one from the boxes that were never rented.                *)
LEMMA FewerFresh ==
  ASSUME ProvisionInv, pc = "renting", RentedNow
  PROVE  Cardinality(Fresh') = Cardinality(Fresh) - 1
<1>1. Fresh' = Fresh \ {Min(Fresh)}
  BY NewBox DEF ProvisionInv, TypeOK, Fresh
<1>2. IsFiniteSet(Fresh) /\ Min(Fresh) \in Fresh
  BY NewBox, BoxSets DEF Fresh
<1> QED
  BY <1>1, <1>2, FS_RemoveElement

(* Deleting a box that was rented takes none from them.                    *)
LEMMA GoneBox ==
  ASSUME ProvisionInv, NEW b \in known \cup destroy.left, Gone(b)
  PROVE  /\ Fresh' = Fresh
         /\ b \in Boxes
         /\ \A c \in Boxes : c # b => account'[c] = account[c]
         /\ account'[b] = "gone"
<1>1. b \in Boxes /\ account[b] # "none"
  BY DEF ProvisionInv, TypeOK, Begun
<1>2. account' = [account EXCEPT ![b] = "gone"]
  BY DEF Gone
<1> QED
  BY <1>1, <1>2 DEF ProvisionInv, TypeOK, Fresh

(* What a destroy that lists has in hand.                                  *)
LEMMA Listing ==
  ASSUME ListTagged
  PROVE  \/ /\ destroy'.at = "deleting" /\ ~destroy'.failed /\ destroyed' = "none"
            /\ \A b \in Boxes : b \in destroy'.left <=> Rented(b)
            /\ destroy'.left \subseteq Boxes
         \/ destroy' = destroy /\ destroyed' = "failed"
  BY DEF ListTagged

(* A call begins with its first attempt.                                   *)
LEMMA FirstAttempt == 0 \in 0 .. Retries
  BY ProvisionAssumption

(* Every step keeps the types.                                             *)
LEMMA TypeKept ==
  ASSUME ProvisionInv, [Next]_provisionVars
  PROVE  TypeOK'
<1>1. CASE NextBox
  BY <1>1, FirstAttempt DEF NextBox, ProvisionInv, TypeOK, Alive, recordVars, destroyVars,
       Throw
<1>2. CASE BoxRented
  <2>1. Min(Fresh) \in Boxes
    BY <1>2, BoxLeft DEF ProvisionInv, BoxRented, Fresh
  <2> QED
    BY <1>2, <2>1, FirstAttempt DEF ProvisionInv, TypeOK, Alive, BoxRented, RentedNow,
         recordVars, buildVars, destroyVars
<1>3. CASE RentRetried
  <2>1. attempt + 1 \in 0 .. Retries
    BY <1>3, ProvisionAssumption DEF ProvisionInv, TypeOK, RentRetried
  <2> QED
    BY <1>3, <2>1 DEF ProvisionInv, TypeOK, Alive, RentRetried, RentedNow, recordVars,
         buildVars, destroyVars
<1>4. CASE RentFails
  BY <1>4, FirstAttempt DEF RentFails, RentedNow, ProvisionInv, TypeOK, Alive, destroyVars,
       Throw
<1>5. CASE Record
  BY <1>5, FirstAttempt DEF Record, ProvisionInv, TypeOK, Alive, destroyVars, Throw
<1>6. CASE AllReady
  BY <1>6 DEF AllReady, ProvisionInv, TypeOK, Alive, recordVars, destroyVars
<1>7. CASE WaitFails
  BY <1>7, FirstAttempt DEF WaitFails, ProvisionInv, TypeOK, Alive, recordVars, destroyVars,
       Throw
<1>8. CASE Poll
  BY <1>8 DEF Poll, ProvisionInv, TypeOK, Alive, recordVars, destroyVars
<1>9. CASE Probes
  BY <1>9, FirstAttempt DEF Probes, ProvisionInv, TypeOK, Alive, recordVars, destroyVars, Throw
<1>10. CASE RollBackOne
  <2>1. Min(todo) \in todo /\ todo \subseteq known /\ known \subseteq Boxes
    BY <1>10, LeastOf DEF ProvisionInv, TypeOK, Alive, RollBackOne
  <2> QED
    BY <1>10, <2>1 DEF ProvisionInv, TypeOK, Alive, RollBackOne, Gone, recordVars, buildVars,
         destroyVars
<1>11. CASE RolledBack
  BY <1>11 DEF RolledBack, ProvisionInv, TypeOK, Alive, recordVars, destroyVars
<1>12. CASE Emptied
  BY <1>12 DEF Emptied, ProvisionInv, TypeOK, Alive, destroyVars
<1>13. CASE Abort
  BY <1>13 DEF Abort, ProvisionInv, TypeOK, Alive, recordVars, destroyVars
<1>14. CASE Die
  BY <1>14 DEF Die, RentedNow, Over, ProvisionInv, TypeOK, Alive, destroyVars
<1>15. CASE ListTagged
  <2> DEFINE listed == {b \in Boxes : Rented(b)}
  <2>1. listed \subseteq Boxes
    OBVIOUS
  <2>2. destroy' \in [at: {"idle", "deleting"}, left: SUBSET Boxes, failed: BOOLEAN]
    <3>1. \/ destroy' = [at |-> "deleting", failed |-> FALSE, left |-> listed]
          \/ destroy' = destroy
      BY <1>15 DEF ListTagged
    <3> HIDE DEF listed
    <3>2. destroy \in [at: {"idle", "deleting"}, left: SUBSET Boxes, failed: BOOLEAN]
      BY DEF ProvisionInv, TypeOK, Alive
    <3>3. [at |-> "deleting", failed |-> FALSE, left |-> listed]
            \in [at: {"idle", "deleting"}, left: SUBSET Boxes, failed: BOOLEAN]
      BY <2>1
    <3> QED
      BY <3>1, <3>2, <3>3, Zenon
  <2> QED
    BY <1>15, <2>2 DEF ProvisionInv, TypeOK, Alive, ListTagged, recordVars, buildVars,
         destroyVars
<1>16. CASE DeleteOne
  BY <1>16 DEF DeleteOne, Gone, ProvisionInv, TypeOK, Alive, buildVars
<1>17. CASE DestroyEnds
  BY <1>17 DEF DestroyEnds, ProvisionInv, TypeOK, Alive, buildVars
<1>18. CASE DestroyDies
  BY <1>18 DEF DestroyDies, ProvisionInv, TypeOK, Alive, recordVars, buildVars
<1>19. ASSUME NEW b \in Boxes, Boots(b) PROVE TypeOK'
  BY <1>19 DEF Boots, ProvisionInv, TypeOK, buildVars, destroyVars
<1>20. CASE UNCHANGED provisionVars
  BY <1>20 DEF provisionVars, ProvisionInv, TypeOK, Alive, recordVars, buildVars, destroyVars
<1>21. CASE OpenRecord
  BY <1>21, FirstAttempt DEF OpenRecord, ProvisionInv, TypeOK, Alive, destroyVars, Throw
<1> QED
  BY <1>1, <1>2, <1>3, <1>4, <1>5, <1>6, <1>7, <1>8, <1>9, <1>10, <1>11, <1>12,
       <1>13, <1>14, <1>15, <1>16, <1>17, <1>18, <1>19, <1>20, <1>21 DEF Next, Step

(* A box that is known or listed has been rented.                          *)
LEMMA BegunKept ==
  ASSUME ProvisionInv, [Next]_provisionVars
  PROVE  Begun'
<1>1. CASE NextBox
  BY <1>1 DEF NextBox, ProvisionInv, TypeOK, recordVars, destroyVars, Begun, Throw
<1>2. CASE BoxRented
  BY <1>2, NewBox DEF BoxRented, ProvisionInv, TypeOK, recordVars, buildVars,
       destroyVars, Throw, Begun
<1>3. CASE RentRetried
  BY <1>3 DEF RentRetried, RentedNow, ProvisionInv, TypeOK, destroyVars, Begun
<1>4. CASE RentFails
  BY <1>4 DEF RentFails, RentedNow, ProvisionInv, TypeOK, destroyVars, Begun, Throw
<1>5. CASE Record
  BY <1>5 DEF Record, ProvisionInv, TypeOK, destroyVars, Begun, Throw
<1>6. CASE AllReady
  BY <1>6 DEF AllReady, ProvisionInv, TypeOK, recordVars, destroyVars, Begun
<1>7. CASE WaitFails
  BY <1>7 DEF WaitFails, ProvisionInv, TypeOK, recordVars, destroyVars, Begun, Throw
<1>8. CASE Poll
  BY <1>8 DEF Poll, ProvisionInv, TypeOK, recordVars, destroyVars, Begun
<1>9. CASE Probes
  BY <1>9 DEF Probes, ProvisionInv, TypeOK, recordVars, destroyVars, Begun, Throw
<1>10. CASE RollBackOne
  BY <1>10 DEF RollBackOne, Gone, ProvisionInv, TypeOK, destroyVars, Begun
<1>11. CASE RolledBack
  BY <1>11 DEF RolledBack, ProvisionInv, TypeOK, recordVars, destroyVars, Begun
<1>12. CASE Emptied
  BY <1>12 DEF Emptied, ProvisionInv, TypeOK, destroyVars, Begun
<1>13. CASE Abort
  BY <1>13 DEF Abort, ProvisionInv, TypeOK, recordVars, destroyVars, Begun
<1>14. CASE Die
  BY <1>14 DEF Die, RentedNow, Over, ProvisionInv, TypeOK, destroyVars, Begun
<1>15. CASE ListTagged
  <2>1. /\ account' = account /\ UNCHANGED buildVars /\ file' = file
    BY <1>15 DEF ListTagged, recordVars
  <2> QED
    BY <1>15, <2>1, Listing DEF ProvisionInv, TypeOK, buildVars, ListTagged, Begun,
         Rented
<1>16. CASE DeleteOne
  BY <1>16 DEF DeleteOne, Gone, ProvisionInv, TypeOK, buildVars, Begun
<1>17. CASE DestroyEnds
  BY <1>17 DEF DestroyEnds, ProvisionInv, TypeOK, buildVars, Begun
<1>18. CASE DestroyDies
  BY <1>18 DEF DestroyDies, ProvisionInv, TypeOK, recordVars, buildVars, Begun
<1>19. ASSUME NEW b \in Boxes, Boots(b) PROVE Begun'
  BY <1>19 DEF Boots, ProvisionInv, TypeOK, buildVars, destroyVars, Begun
<1>20. CASE UNCHANGED provisionVars
  BY <1>20 DEF provisionVars, ProvisionInv, TypeOK, recordVars, buildVars, destroyVars,
       Begun
<1>21. CASE OpenRecord
  BY <1>21 DEF OpenRecord, ProvisionInv, TypeOK, destroyVars, Begun, Throw
<1> QED
  BY <1>1, <1>2, <1>3, <1>4, <1>5, <1>6, <1>7, <1>8, <1>9, <1>10, <1>11, <1>12,
       <1>13, <1>14, <1>15, <1>16, <1>17, <1>18, <1>19, <1>20, <1>21 DEF Next, Step

(* What the rollback has come to is gone or reported.                      *)
LEMMA RolledOffKept ==
  ASSUME ProvisionInv, [Next]_provisionVars
  PROVE  RolledOff'
<1>1. CASE NextBox
  BY <1>1 DEF NextBox, ProvisionInv, TypeOK, recordVars, destroyVars, RolledOff,
       Rented, Throw
<1>2. CASE BoxRented
  BY <1>2 DEF BoxRented, RentedNow, ProvisionInv, TypeOK, destroyVars, RolledOff, Rented
<1>3. CASE RentRetried
  BY <1>3 DEF RentRetried, RentedNow, ProvisionInv, TypeOK, destroyVars, RolledOff,
       Rented
<1>4. CASE RentFails
  BY <1>4 DEF RentFails, RentedNow, ProvisionInv, TypeOK, destroyVars, RolledOff,
       Rented, Throw
<1>5. CASE Record
  BY <1>5 DEF Record, ProvisionInv, TypeOK, destroyVars, RolledOff, Rented, Throw
<1>6. CASE AllReady
  BY <1>6 DEF AllReady, ProvisionInv, TypeOK, recordVars, destroyVars, RolledOff, Rented
<1>7. CASE WaitFails
  BY <1>7 DEF WaitFails, ProvisionInv, TypeOK, recordVars, destroyVars, RolledOff,
       Rented, Throw
<1>8. CASE Poll
  BY <1>8 DEF Poll, ProvisionInv, TypeOK, recordVars, destroyVars, RolledOff, Rented
<1>9. CASE Probes
  BY <1>9 DEF Probes, ProvisionInv, TypeOK, recordVars, destroyVars, RolledOff, Rented,
       Throw
<1>10. CASE RollBackOne
  BY <1>10 DEF RollBackOne, Gone, ProvisionInv, TypeOK, destroyVars, RolledOff, Rented
<1>11. CASE RolledBack
  BY <1>11 DEF RolledBack, ProvisionInv, TypeOK, recordVars, destroyVars, RolledOff, Rented
<1>12. CASE Emptied
  BY <1>12 DEF Emptied, ProvisionInv, TypeOK, destroyVars, RolledOff, Rented
<1>13. CASE Abort
  BY <1>13 DEF Abort, ProvisionInv, TypeOK, recordVars, destroyVars, RolledOff, Rented
<1>14. CASE Die
  BY <1>14 DEF Die, RentedNow, Over, ProvisionInv, TypeOK, destroyVars, RolledOff,
       Rented
<1>15. CASE ListTagged
  BY <1>15 DEF ListTagged, Over, ProvisionInv, TypeOK, recordVars, buildVars,
       RolledOff, Rented
<1>16. CASE DeleteOne
  BY <1>16 DEF DeleteOne, Gone, ProvisionInv, TypeOK, buildVars, RolledOff, Rented
<1>17. CASE DestroyEnds
  BY <1>17 DEF DestroyEnds, ProvisionInv, TypeOK, buildVars, RolledOff, Rented
<1>18. CASE DestroyDies
  BY <1>18 DEF DestroyDies, ProvisionInv, TypeOK, recordVars, buildVars, RolledOff,
       Rented
<1>19. ASSUME NEW b \in Boxes, Boots(b) PROVE RolledOff'
  BY <1>19 DEF Boots, ProvisionInv, TypeOK, buildVars, destroyVars, RolledOff, Rented
<1>20. CASE UNCHANGED provisionVars
  BY <1>20 DEF provisionVars, ProvisionInv, TypeOK, recordVars, buildVars, destroyVars,
       RolledOff, Rented
<1>21. CASE OpenRecord
  BY <1>21 DEF OpenRecord, ProvisionInv, TypeOK, destroyVars, RolledOff, Rented, Throw
<1> QED
  BY <1>1, <1>2, <1>3, <1>4, <1>5, <1>6, <1>7, <1>8, <1>9, <1>10, <1>11, <1>12,
       <1>13, <1>14, <1>15, <1>16, <1>17, <1>18, <1>19, <1>20, <1>21 DEF Next, Step

(* A destroy that has not failed still holds all that is rented.           *)
LEMMA SweepingKept ==
  ASSUME ProvisionInv, [Next]_provisionVars
  PROVE  Sweeping'
<1>1. CASE NextBox
  BY <1>1 DEF NextBox, ProvisionInv, TypeOK, recordVars, destroyVars, Sweeping, Over,
       Rented, Throw
<1>2. CASE BoxRented
  BY <1>2 DEF BoxRented, RentedNow, ProvisionInv, TypeOK, destroyVars, Sweeping, Over,
       Rented
<1>3. CASE RentRetried
  BY <1>3 DEF RentRetried, RentedNow, ProvisionInv, TypeOK, destroyVars, Sweeping,
       Over, Rented
<1>4. CASE RentFails
  BY <1>4 DEF RentFails, RentedNow, ProvisionInv, TypeOK, destroyVars, Sweeping, Over,
       Rented, Throw
<1>5. CASE Record
  BY <1>5 DEF Record, ProvisionInv, TypeOK, destroyVars, Sweeping, Over, Rented, Throw
<1>6. CASE AllReady
  BY <1>6 DEF AllReady, ProvisionInv, TypeOK, recordVars, destroyVars, Sweeping, Over, Rented
<1>7. CASE WaitFails
  BY <1>7 DEF WaitFails, ProvisionInv, TypeOK, recordVars, destroyVars, Sweeping, Over,
       Rented, Throw
<1>8. CASE Poll
  BY <1>8 DEF Poll, ProvisionInv, TypeOK, recordVars, destroyVars, Sweeping, Over,
       Rented
<1>9. CASE Probes
  BY <1>9 DEF Probes, ProvisionInv, TypeOK, recordVars, destroyVars, Sweeping, Over,
       Rented, Throw
<1>10. CASE RollBackOne
  BY <1>10 DEF RollBackOne, Gone, ProvisionInv, TypeOK, destroyVars, Sweeping, Over,
       Rented
<1>11. CASE RolledBack
  BY <1>11 DEF RolledBack, ProvisionInv, TypeOK, recordVars, destroyVars, Sweeping, Over,
       Rented
<1>12. CASE Emptied
  BY <1>12 DEF Emptied, ProvisionInv, TypeOK, destroyVars, Sweeping, Over, Rented
<1>13. CASE Abort
  BY <1>13 DEF Abort, ProvisionInv, TypeOK, recordVars, destroyVars, Sweeping, Over,
       Rented
<1>14. CASE Die
  BY <1>14 DEF Die, RentedNow, Over, ProvisionInv, TypeOK, destroyVars, Sweeping, Rented
<1>15. CASE ListTagged
  <2>1. /\ account' = account /\ UNCHANGED buildVars /\ file' = file
    BY <1>15 DEF ListTagged, recordVars
  <2> QED
    BY <1>15, <2>1, Listing DEF ProvisionInv, TypeOK, buildVars, ListTagged, Sweeping,
         Over, Rented
<1>16. CASE DeleteOne
  BY <1>16 DEF DeleteOne, Gone, ProvisionInv, TypeOK, buildVars, Sweeping, Over, Rented
<1>17. CASE DestroyEnds
  BY <1>17 DEF DestroyEnds, ProvisionInv, TypeOK, buildVars, Sweeping, Over, Rented
<1>18. CASE DestroyDies
  BY <1>18 DEF DestroyDies, ProvisionInv, TypeOK, recordVars, buildVars, Sweeping,
       Over, Rented
<1>19. ASSUME NEW b \in Boxes, Boots(b) PROVE Sweeping'
  BY <1>19 DEF Boots, ProvisionInv, TypeOK, buildVars, destroyVars, Sweeping, Over,
       Rented
<1>20. CASE UNCHANGED provisionVars
  BY <1>20 DEF provisionVars, ProvisionInv, TypeOK, recordVars, buildVars, destroyVars,
       Sweeping, Over, Rented
<1>21. CASE OpenRecord
  BY <1>21 DEF OpenRecord, ProvisionInv, TypeOK, destroyVars, Sweeping, Over, Rented, Throw
<1> QED
  BY <1>1, <1>2, <1>3, <1>4, <1>5, <1>6, <1>7, <1>8, <1>9, <1>10, <1>11, <1>12,
       <1>13, <1>14, <1>15, <1>16, <1>17, <1>18, <1>19, <1>20, <1>21 DEF Next, Step

(* The ready ones are ready, until a destroy begins.                       *)
LEMMA AtHandKept ==
  ASSUME ProvisionInv, [Next]_provisionVars
  PROVE  AtHand'
<1>1. CASE NextBox
  BY <1>1 DEF NextBox, ProvisionInv, TypeOK, recordVars, destroyVars, AtHand, Busy,
       Throw
<1>2. CASE BoxRented
  BY <1>2, NewBox DEF BoxRented, ProvisionInv, TypeOK, recordVars, buildVars,
       destroyVars, Throw, AtHand, Busy
<1>3. CASE RentRetried
  BY <1>3, NewBox DEF RentRetried, ProvisionInv, TypeOK, recordVars, buildVars,
       destroyVars, Throw, AtHand, Busy
<1>4. CASE RentFails
  BY <1>4 DEF RentFails, RentedNow, ProvisionInv, TypeOK, destroyVars, AtHand, Busy,
       Throw
<1>5. CASE Record
  BY <1>5 DEF Record, ProvisionInv, TypeOK, destroyVars, AtHand, Busy, Throw
<1>6. CASE AllReady
  BY <1>6 DEF AllReady, ProvisionInv, TypeOK, recordVars, destroyVars, AtHand, Busy
<1>7. CASE WaitFails
  BY <1>7 DEF WaitFails, ProvisionInv, TypeOK, recordVars, destroyVars, AtHand, Busy,
       Throw
<1>8. CASE Poll
  BY <1>8 DEF Poll, ProvisionInv, TypeOK, recordVars, destroyVars, AtHand, Busy
<1>9. CASE Probes
  BY <1>9 DEF Probes, ProvisionInv, TypeOK, recordVars, destroyVars, AtHand, Busy, Throw
<1>10. CASE RollBackOne
  BY <1>10 DEF RollBackOne, Gone, ProvisionInv, TypeOK, destroyVars, AtHand, Busy
<1>11. CASE RolledBack
  BY <1>11 DEF RolledBack, ProvisionInv, TypeOK, recordVars, destroyVars, AtHand, Busy
<1>12. CASE Emptied
  BY <1>12 DEF Emptied, ProvisionInv, TypeOK, destroyVars, AtHand, Busy
<1>13. CASE Abort
  BY <1>13 DEF Abort, ProvisionInv, TypeOK, recordVars, destroyVars, AtHand, Busy
<1>14. CASE Die
  BY <1>14 DEF Die, RentedNow, Over, ProvisionInv, TypeOK, destroyVars, AtHand, Busy
<1>15. CASE ListTagged
  <2>1. /\ account' = account /\ UNCHANGED buildVars /\ file' = file
    BY <1>15 DEF ListTagged, recordVars
  <2> QED
    BY <1>15, <2>1, Listing DEF ProvisionInv, TypeOK, buildVars, ListTagged, AtHand,
         Busy, Over
<1>16. CASE DeleteOne
  <2>1. Min(destroy.left) \in destroy.left
    BY <1>16, LeastOf DEF ProvisionInv, TypeOK, DeleteOne
  <2> QED
    BY <1>16, <2>1, GoneBox DEF ProvisionInv, TypeOK, DeleteOne, recordVars, buildVars,
         destroyVars, AtHand, Busy, Sweeping, Over
<1>17. CASE DestroyEnds
  BY <1>17 DEF DestroyEnds, ProvisionInv, TypeOK, buildVars, AtHand, Busy
<1>18. CASE DestroyDies
  BY <1>18 DEF DestroyDies, ProvisionInv, TypeOK, recordVars, buildVars, AtHand, Busy
<1>19. ASSUME NEW b \in Boxes, Boots(b) PROVE AtHand'
  BY <1>19 DEF Boots, ProvisionInv, TypeOK, buildVars, destroyVars, AtHand, Busy
<1>20. CASE UNCHANGED provisionVars
  BY <1>20 DEF provisionVars, ProvisionInv, TypeOK, recordVars, buildVars, destroyVars,
       AtHand, Busy
<1>21. CASE OpenRecord
  BY <1>21 DEF OpenRecord, ProvisionInv, TypeOK, destroyVars, AtHand, Busy, Throw
<1> QED
  BY <1>1, <1>2, <1>3, <1>4, <1>5, <1>6, <1>7, <1>8, <1>9, <1>10, <1>11, <1>12,
       <1>13, <1>14, <1>15, <1>16, <1>17, <1>18, <1>19, <1>20, <1>21 DEF Next, Step

(* Where the record stays, what was accounted for stays so, in a process   *)
(* that neither writes nor rolls back, or goes on with what it does, or    *)
(* begins to roll back.                                                    *)
LEMMA StillAccounted ==
  ASSUME NothingForgotten,
         UNCHANGED <<file, known>>, forgotten \subseteq forgotten',
         \A b \in known : Rented(b)' => Rented(b),
         \/ Where \notin {"recording", "saving", "rolling back"}
         \/ Where' = Where /\ todo' = todo
         \/ Where' = "rolling back" /\ todo' = known
  PROVE  NothingForgotten'
<1> SUFFICES ASSUME NEW b \in known, Rented(b)'
             PROVE  \/ Accounted(b)'
                    \/ /\ Where' \in {"recording", "saving"}
                       /\ \/ file' = Torn
                          \/ \A c \in known' \ {b} : Rented(c)' => Accounted(c)'
                    \/ Where' = "rolling back" /\ b \in todo'
  BY DEF NothingForgotten
<1>1. Rented(b)
  OBVIOUS
<1>2. \A c \in known : Accounted(c) => Accounted(c)'
  BY DEF Accounted, Named
<1>3. CASE Accounted(b)
  BY <1>2, <1>3
<1>4. CASE Where' = "rolling back" /\ todo' = known
  BY <1>4
<1>5. CASE ~Accounted(b) /\ Where' = Where /\ todo' = todo
  <2>1. CASE Where = "rolling back" /\ b \in todo
    BY <1>5, <2>1
  <2>2. CASE Where \in {"recording", "saving"} /\ file = Torn
    BY <1>5, <2>2
  <2>3. CASE /\ Where \in {"recording", "saving"}
             /\ \A c \in known \ {b} : Rented(c) => Accounted(c)
    BY <1>2, <1>5, <2>3
  <2> QED
    BY <1>1, <1>5, <2>1, <2>2, <2>3 DEF NothingForgotten
<1>6. CASE ~Accounted(b) /\ Where \notin {"recording", "saving", "rolling back"}
  BY <1>1, <1>6 DEF NothingForgotten
<1> QED
  BY <1>3, <1>4, <1>5, <1>6

(* The record, or a report, names every box that is known and rented.      *)
LEMMA NothingForgottenKept ==
  ASSUME ProvisionInv, [Next]_provisionVars
  PROVE  NothingForgotten'
<1> USE StillAccounted
<1>0. NothingForgotten /\ known \subseteq Boxes
  BY DEF ProvisionInv, TypeOK
<1>1. CASE NextBox
  BY <1>0, <1>1 DEF NextBox, Throw, Where, Rented, recordVars
<1>2. CASE BoxRented
  <2>1. PICK new : new = Min(Fresh)
    OBVIOUS
  <2>2. /\ pc' = "recording" /\ known' = known \cup {new} /\ Where = "renting"
        /\ UNCHANGED <<file, forgotten>> /\ Where' = "recording"
    BY <1>2, <2>1 DEF BoxRented, Where
  <2>3. \A c \in known : Rented(c)' => Rented(c)
    BY <1>0, <1>2, NewBox DEF BoxRented, Rented
  <2>4. \A c \in known : Rented(c) => Accounted(c)
    BY <1>0, <2>2 DEF NothingForgotten
  <2>5. \A c \in known : Rented(c)' => Accounted(c)'
    BY <2>2, <2>3, <2>4 DEF Accounted, Named
  <2> QED
    BY <2>2, <2>5 DEF NothingForgotten
<1>3. CASE RentRetried
  BY <1>0, <1>3, NewBox DEF RentRetried, Where, Rented
<1>4. CASE RentFails
  BY <1>0, <1>4, NewBox DEF RentFails, Throw, Where, Rented
<1>5. CASE Record
  <2>1. CASE file' = Recorded(known, addressed) /\ known' = known
    BY <2>1 DEF NothingForgotten, Accounted, Named, Recorded
  <2>2. CASE UNCHANGED file /\ Throw
    <3>1. CASE known = {}
      BY <1>5, <3>1 DEF Record, NothingForgotten
    <3>2. CASE known # {}
      BY <1>0, <1>5, <2>2, <3>2 DEF Record, Throw, Where, Rented
    <3> QED
      BY <3>1, <3>2
  <2> QED
    BY <1>5, <2>1, <2>2 DEF Record
<1>6. CASE AllReady
  BY <1>0, <1>6 DEF AllReady, Where, Rented, recordVars
<1>7. CASE WaitFails
  BY <1>0, <1>7 DEF WaitFails, Throw, Where, Rented, recordVars
<1>8. CASE Poll
  BY <1>0, <1>8 DEF Poll, Where, Rented, recordVars
<1>9. CASE Probes
  BY <1>0, <1>9 DEF Probes, Throw, Where, Rented, recordVars
<1>10. CASE RollBackOne
  <2>1. Min(todo) \in known
    BY <1>10, LeastOf DEF ProvisionInv, TypeOK, RollBackOne
  <2>2. /\ Where = "rolling back" /\ Where' = "rolling back" /\ known' = known /\ file' = file
        /\ todo' = todo \ {Min(todo)} /\ forgotten \subseteq forgotten'
    BY <1>10 DEF RollBackOne, Where
  <2>3. PICK one : one = Min(todo)
    OBVIOUS
  <2>4. \A c \in known : Rented(c)' => Rented(c)
    BY <1>0, <1>10, <2>1, <2>3 DEF RollBackOne, Gone, Rented, ProvisionInv, TypeOK
  <2>5. Rented(one)' => one \in forgotten'
    BY <1>0, <1>10, <2>1, <2>3 DEF RollBackOne, Gone, Rented, ProvisionInv, TypeOK
  <2>6. \A c \in known : Accounted(c) => Accounted(c)'
    BY <2>2 DEF Accounted, Named
  <2>7. \A c \in known : Rented(c) => Accounted(c) \/ c \in todo
    BY <1>0, <2>2 DEF NothingForgotten
  <2> QED
    <3> SUFFICES ASSUME NEW b \in known, Rented(b)'
                 PROVE  Accounted(b)' \/ b \in todo'
      BY <2>2 DEF NothingForgotten
    <3>1. CASE b = one
      BY <2>5, <3>1 DEF Accounted
    <3>2. CASE b # one
      BY <2>2, <2>4, <2>3, <2>6, <2>7, <3>2
    <3> QED
      BY <3>1, <3>2
<1>11. CASE RolledBack
  <2>1. /\ Where = "rolling back" /\ todo = {} /\ UNCHANGED <<account, file, known, forgotten>>
    BY <1>11 DEF RolledBack, Where, recordVars
  <2>2. \A c \in known : Rented(c) => Accounted(c)
    BY <1>0, <2>1 DEF NothingForgotten
  <2> QED
    BY <2>1, <2>2 DEF NothingForgotten, Accounted, Named, Rented
<1>12. CASE Emptied
  BY <1>12 DEF Emptied, ProvisionInv, RolledOff, NothingForgotten, Accounted, Rented
<1>13. CASE Abort
  BY <1>0, <1>13 DEF Abort, Where, Rented, recordVars
<1>14. CASE Die
  BY <1>0, <1>14, NewBox DEF Die, Over, Where, Rented
<1>15. CASE ListTagged
  BY <1>0, <1>15 DEF ListTagged, Where, Rented, recordVars, buildVars
<1>16. CASE DeleteOne
  <2>1. Min(destroy.left) \in destroy.left
    BY <1>16, LeastOf DEF ProvisionInv, TypeOK, DeleteOne
  <2>2. \A c \in known : Rented(c)' => Rented(c)
    BY <1>0, <1>16, <2>1, GoneBox DEF DeleteOne, Rented
  <2> QED
    BY <1>0, <1>16, <2>2 DEF DeleteOne, Where, buildVars
<1>17. CASE DestroyEnds
  <2>1. CASE UNCHANGED file
    BY <1>0, <1>17, <2>1 DEF DestroyEnds, Where, Rented, buildVars
  <2>2. CASE ~destroy.failed
    BY <1>0, <1>17, <2>2 DEF DestroyEnds, ProvisionInv, Sweeping, NothingForgotten, Rented,
         buildVars
  <2> QED
    BY <1>17, <2>1, <2>2 DEF DestroyEnds
<1>18. CASE DestroyDies
  BY <1>0, <1>18 DEF DestroyDies, Where, Rented, recordVars, buildVars
<1>19. ASSUME NEW b \in Boxes, Boots(b) PROVE NothingForgotten'
  <2>1. \A c \in known : Rented(c)' => Rented(c)
    BY <1>0, <1>19 DEF Boots, Rented, ProvisionInv, TypeOK
  <2> QED
    BY <1>0, <1>19, <2>1 DEF Boots, Where, buildVars
<1>20. CASE UNCHANGED provisionVars
  BY <1>0, <1>20 DEF provisionVars, Where, Rented, recordVars, buildVars
<1>21. CASE OpenRecord
  <2>1. CASE pc = "emptying"
    BY <1>21, <2>1 DEF OpenRecord, ProvisionInv, RolledOff, NothingForgotten, Accounted, Rented
  <2>2. CASE pc # "emptying" /\ file' = Torn /\ UNCHANGED <<pc, todo, attempt>>
    BY <1>21, <2>2 DEF OpenRecord, NothingForgotten, Where
  <2>3. CASE pc # "emptying" /\ Throw /\ UNCHANGED file
    <3>1. CASE known = {}
      BY <1>21, <3>1 DEF OpenRecord, NothingForgotten
    <3>2. CASE known # {}
      BY <1>0, <1>21, <2>3, <3>2 DEF OpenRecord, Throw, Where, Rented
    <3> QED
      BY <3>1, <3>2
  <2> QED
    BY <1>21, <2>1, <2>2, <2>3 DEF OpenRecord
<1> QED
  BY <1>1, <1>2, <1>3, <1>4, <1>5, <1>6, <1>7, <1>8, <1>9, <1>10, <1>11, <1>12,
       <1>13, <1>14, <1>15, <1>16, <1>17, <1>18, <1>19, <1>20, <1>21 DEF Next, Step

(* A destroy that ends without a failure had nothing left to list.         *)
LEMMA CleanIsCleanKept ==
  ASSUME ProvisionInv, [Next]_provisionVars
  PROVE  CleanIsClean'
<1>1. CASE NextBox
  BY <1>1 DEF NextBox, ProvisionInv, TypeOK, recordVars, destroyVars, CleanIsClean,
       Sweeping, Rented, Over, Throw
<1>2. CASE BoxRented
  BY <1>2 DEF BoxRented, RentedNow, ProvisionInv, TypeOK, destroyVars, CleanIsClean,
       Sweeping, Rented, Over
<1>3. CASE RentRetried
  BY <1>3 DEF RentRetried, RentedNow, ProvisionInv, TypeOK, destroyVars, CleanIsClean,
       Sweeping, Rented, Over
<1>4. CASE RentFails
  BY <1>4 DEF RentFails, RentedNow, ProvisionInv, TypeOK, destroyVars, CleanIsClean,
       Sweeping, Rented, Over, Throw
<1>5. CASE Record
  BY <1>5 DEF Record, ProvisionInv, TypeOK, destroyVars, CleanIsClean, Sweeping,
       Rented, Over, Throw
<1>6. CASE AllReady
  BY <1>6 DEF AllReady, ProvisionInv, TypeOK, recordVars, destroyVars, CleanIsClean, Sweeping,
       Rented, Over
<1>7. CASE WaitFails
  BY <1>7 DEF WaitFails, ProvisionInv, TypeOK, recordVars, destroyVars, CleanIsClean,
       Sweeping, Rented, Over, Throw
<1>8. CASE Poll
  BY <1>8 DEF Poll, ProvisionInv, TypeOK, recordVars, destroyVars, CleanIsClean,
       Sweeping, Rented, Over
<1>9. CASE Probes
  BY <1>9 DEF Probes, ProvisionInv, TypeOK, recordVars, destroyVars, CleanIsClean,
       Sweeping, Rented, Over, Throw
<1>10. CASE RollBackOne
  BY <1>10 DEF RollBackOne, Gone, ProvisionInv, TypeOK, destroyVars, CleanIsClean,
       Sweeping, Rented, Over
<1>11. CASE RolledBack
  BY <1>11 DEF RolledBack, ProvisionInv, TypeOK, recordVars, destroyVars, CleanIsClean,
       Sweeping,
       Rented, Over
<1>12. CASE Emptied
  BY <1>12 DEF Emptied, ProvisionInv, TypeOK, destroyVars, CleanIsClean, Sweeping,
       Rented, Over
<1>13. CASE Abort
  BY <1>13 DEF Abort, ProvisionInv, TypeOK, recordVars, destroyVars, CleanIsClean,
       Sweeping, Rented, Over
<1>14. CASE Die
  BY <1>14 DEF Die, RentedNow, Over, ProvisionInv, TypeOK, destroyVars, CleanIsClean,
       Sweeping, Rented
<1>15. CASE ListTagged
  BY <1>15 DEF ListTagged, Over, ProvisionInv, TypeOK, recordVars, buildVars,
       CleanIsClean, Sweeping, Rented
<1>16. CASE DeleteOne
  BY <1>16 DEF DeleteOne, Gone, ProvisionInv, TypeOK, buildVars, CleanIsClean,
       Sweeping, Rented, Over
<1>17. CASE DestroyEnds
  BY <1>17 DEF DestroyEnds, ProvisionInv, TypeOK, buildVars, CleanIsClean, Sweeping,
       Rented, Over
<1>18. CASE DestroyDies
  BY <1>18 DEF DestroyDies, ProvisionInv, TypeOK, recordVars, buildVars, CleanIsClean,
       Sweeping, Rented, Over
<1>19. ASSUME NEW b \in Boxes, Boots(b) PROVE CleanIsClean'
  BY <1>19 DEF Boots, ProvisionInv, TypeOK, buildVars, destroyVars, CleanIsClean,
       Sweeping, Rented, Over
<1>20. CASE UNCHANGED provisionVars
  BY <1>20 DEF provisionVars, ProvisionInv, TypeOK, recordVars, buildVars, destroyVars,
       CleanIsClean, Sweeping, Rented, Over
<1>21. CASE OpenRecord
  BY <1>21 DEF OpenRecord, ProvisionInv, TypeOK, destroyVars, CleanIsClean, Sweeping,
       Rented, Over, Throw
<1> QED
  BY <1>1, <1>2, <1>3, <1>4, <1>5, <1>6, <1>7, <1>8, <1>9, <1>10, <1>11, <1>12,
       <1>13, <1>14, <1>15, <1>16, <1>17, <1>18, <1>19, <1>20, <1>21 DEF Next, Step

(* There is a box for every one still to be created, whatever was lost.    *)
LEMMA RoomKept ==
  ASSUME ProvisionInv, [Next]_provisionVars
  PROVE  Room'
<1>1. CASE NextBox
  BY <1>1, ProvisionAssumption DEF NextBox, ProvisionInv, TypeOK, recordVars,
       destroyVars, Room, Fresh, Throw
<1>2. CASE BoxRented
  <2>1. Cardinality(Fresh) \in Nat /\ Cardinality(known) \in Nat /\ IsFiniteSet(known)
    BY BoxSets DEF ProvisionInv, TypeOK, Fresh
  <2>2. Cardinality(Fresh') = Cardinality(Fresh) - 1
    BY <1>2, FewerFresh DEF BoxRented
  <2>3. known' = known \cup {Min(Fresh)} /\ Min(Fresh) \notin known
    BY <1>2, NewBox DEF BoxRented
  <2>4. Cardinality(known') = Cardinality(known) + 1
    BY <2>1, <2>3, FS_AddElement
  <2> QED
    BY <1>2, <2>1, <2>2, <2>4, ProvisionAssumption DEF BoxRented, ProvisionInv, Room
<1>3. CASE RentRetried
  <2>1. Cardinality(Fresh) \in Nat /\ Cardinality(known) \in Nat
    BY BoxSets DEF ProvisionInv, TypeOK, Fresh
  <2>2. UNCHANGED account => Fresh' = Fresh
    BY DEF Fresh
  <2>3. pc = "renting" /\ RentedNow => Cardinality(Fresh') = Cardinality(Fresh) - 1
    BY FewerFresh
  <2> QED
    BY <1>3, <2>1, <2>2, <2>3, ProvisionAssumption DEF RentRetried, Throw,
         ProvisionInv, Room, SpareSpent
<1>4. CASE RentFails
  <2>1. Cardinality(Fresh) \in Nat /\ Cardinality(known) \in Nat
    BY BoxSets DEF ProvisionInv, TypeOK, Fresh
  <2>2. UNCHANGED account => Fresh' = Fresh
    BY DEF Fresh
  <2>3. pc = "renting" /\ RentedNow => Cardinality(Fresh') = Cardinality(Fresh) - 1
    BY FewerFresh
  <2>4. pc' \in {"thrown", "rolling back"} /\ known' = known
    BY <1>4 DEF RentFails, Throw
  <2>5. Cardinality(Fresh') >= Count - Cardinality(known)
    BY <1>4, <2>1, <2>2, <2>3, ProvisionAssumption DEF RentFails, ProvisionInv, Room,
         SpareSpent
  <2> QED
    BY <2>4, <2>5 DEF ProvisionInv, Room
<1>5. CASE Record
  BY <1>5, ProvisionAssumption DEF Record, ProvisionInv, TypeOK, destroyVars, Room,
       Fresh, Throw
<1>6. CASE AllReady
  BY <1>6, ProvisionAssumption DEF AllReady, ProvisionInv, TypeOK, recordVars,
       destroyVars, Room,
       Fresh
<1>7. CASE WaitFails
  BY <1>7, ProvisionAssumption DEF WaitFails, ProvisionInv, TypeOK, recordVars,
       destroyVars, Room, Fresh, Throw
<1>8. CASE Poll
  BY <1>8, ProvisionAssumption DEF Poll, ProvisionInv, TypeOK, recordVars, destroyVars,
       Room, Fresh
<1>9. CASE Probes
  BY <1>9, ProvisionAssumption DEF Probes, ProvisionInv, TypeOK, recordVars,
       destroyVars, Room, Fresh, Throw
<1>10. CASE RollBackOne
  <2>1. Min(todo) \in known
    BY <1>10, LeastOf DEF ProvisionInv, TypeOK, RollBackOne
  <2>2. Fresh' = Fresh
    <3>1. CASE UNCHANGED account
      BY <3>1 DEF Fresh
    <3>2. CASE Gone(Min(todo))
      BY <2>1, <3>2, GoneBox
    <3> QED
      BY <1>10, <3>1, <3>2 DEF RollBackOne
  <2> QED
    BY <1>10, <2>2 DEF RollBackOne, ProvisionInv, Room
<1>11. CASE RolledBack
  BY <1>11, ProvisionAssumption DEF RolledBack, ProvisionInv, TypeOK, recordVars, destroyVars,
       Room, Fresh
<1>12. CASE Emptied
  BY <1>12, ProvisionAssumption DEF Emptied, ProvisionInv, TypeOK, destroyVars, Room,
       Fresh
<1>13. CASE Abort
  BY <1>13, ProvisionAssumption DEF Abort, ProvisionInv, TypeOK, recordVars,
       destroyVars, Room, Fresh
<1>14. CASE Die
  <2>1. Cardinality(Fresh) \in Nat /\ Cardinality(known) \in Nat
    BY BoxSets DEF ProvisionInv, TypeOK, Fresh
  <2>2. UNCHANGED account => Fresh' = Fresh
    BY DEF Fresh
  <2>3. pc = "renting" /\ RentedNow => Cardinality(Fresh') = Cardinality(Fresh) - 1
    BY FewerFresh
  <2> QED
    BY <1>14, <2>1, <2>2, <2>3, ProvisionAssumption DEF Die, Over, Throw, ProvisionInv,
         Room, SpareSpent
<1>15. CASE ListTagged
  BY <1>15, ProvisionAssumption DEF ListTagged, Over, ProvisionInv, TypeOK, recordVars,
       buildVars, Room, Fresh
<1>16. CASE DeleteOne
  <2>1. Min(destroy.left) \in destroy.left
    BY <1>16, LeastOf DEF ProvisionInv, TypeOK, DeleteOne
  <2>2. Fresh' = Fresh
    <3>1. CASE UNCHANGED account
      BY <3>1 DEF Fresh
    <3>2. CASE Gone(Min(destroy.left))
      BY <2>1, <3>2, GoneBox
    <3> QED
      BY <1>16, <3>1, <3>2 DEF DeleteOne
  <2> QED
    BY <1>16, <2>2 DEF DeleteOne, ProvisionInv, Room, buildVars
<1>17. CASE DestroyEnds
  BY <1>17, ProvisionAssumption DEF DestroyEnds, ProvisionInv, TypeOK, buildVars, Room,
       Fresh
<1>18. CASE DestroyDies
  BY <1>18, ProvisionAssumption DEF DestroyDies, ProvisionInv, TypeOK, recordVars,
       buildVars, Room, Fresh
<1>19. ASSUME NEW b \in Boxes, Boots(b) PROVE Room'
  BY <1>19, ProvisionAssumption DEF Boots, ProvisionInv, TypeOK, buildVars,
       destroyVars, Room, Fresh
<1>20. CASE UNCHANGED provisionVars
  BY <1>20 DEF provisionVars, ProvisionInv, TypeOK, recordVars, buildVars, destroyVars,
       Room, Fresh
<1>21. CASE OpenRecord
  BY <1>21, ProvisionAssumption DEF OpenRecord, ProvisionInv, TypeOK, destroyVars, Room,
       Fresh, Throw
<1> QED
  BY <1>1, <1>2, <1>3, <1>4, <1>5, <1>6, <1>7, <1>8, <1>9, <1>10, <1>11, <1>12,
       <1>13, <1>14, <1>15, <1>16, <1>17, <1>18, <1>19, <1>20, <1>21 DEF Next, Step

(* The invariant holds before anything is rented.                          *)
LEMMA Initially == Init => ProvisionInv
<1> SUFFICES ASSUME Init PROVE ProvisionInv
  OBVIOUS
<1> USE DEF Init
<1>1. TypeOK
  <2>1. destroy \in [at: {"idle", "deleting"}, left: SUBSET Boxes, failed: BOOLEAN]
    OBVIOUS
  <2> QED
    BY <2>1, FirstAttempt DEF TypeOK, Alive
<1>2. Room
  <2>1. Fresh = Boxes
    BY DEF Fresh
  <2>2. Cardinality(Boxes) = Count + Spare
    BY FS_Interval, ProvisionAssumption DEF Boxes
  <2> QED
    BY <2>1, <2>2, FS_EmptySet, ProvisionAssumption DEF Room
<1>3. Begun /\ RolledOff /\ Sweeping /\ AtHand /\ NothingForgotten /\ CleanIsClean
  BY DEF Begun, RolledOff, Sweeping, AtHand, NothingForgotten, CleanIsClean,
       Busy
<1> QED
  BY <1>1, <1>2, <1>3 DEF ProvisionInv

(* The invariant holds in every state.                                     *)
LEMMA ProvisionInductive == Spec => []ProvisionInv
<1>1. ProvisionInv /\ [Next]_provisionVars => ProvisionInv'
  BY TypeKept, BegunKept, RoomKept, RolledOffKept, SweepingKept, AtHandKept,
     NothingForgottenKept, CleanIsCleanKept DEF ProvisionInv
<1> QED
  BY Initially, <1>1, PTL DEF Spec

(* The variables of a provisioning keep their types.                       *)
THEOREM ProvisionTypeCorrect == Spec => []TypeOK
<1>1. ProvisionInv => TypeOK
  BY DEF ProvisionInv
<1> QED
  BY ProvisionInductive, <1>1, PTL

(* provision.ts 133-143: whatever fails, and wherever the process is       *)
(* ended, a box it was told of and still pays for is in the record, or was *)
(* reported as one the rollback could not delete.  Excepted are a process  *)
(* in the middle of a write of the record, or ended there, and boxes whose *)
(* turn in the rollback has not come, or never came.                       *)
THEOREM RecordKept == Spec => []NothingForgotten
<1>1. ProvisionInv => NothingForgotten
  BY DEF ProvisionInv
<1> QED
  BY ProvisionInductive, <1>1, PTL

(* provision.ts 8-12: a destroy that reports no failure leaves nothing     *)
(* rented, the boxes behind lost answers included.                         *)
THEOREM DestroyedClean == Spec => []CleanIsClean
<1>1. ProvisionInv => CleanIsClean
  BY DEF ProvisionInv
<1> QED
  BY ProvisionInductive, <1>1, PTL

(* provision.ts 19-24: a fleet that is announced as ready is recorded      *)
(* whole, each box with an address and through its cloud-init.             *)
THEOREM AnnouncedWhole == Spec => []ReadyMeansReady
<1>1. ProvisionInv => ReadyMeansReady
  BY DEF ProvisionInv, TypeOK, Room, AtHand, ReadyMeansReady, Targets, Recorded
<1> QED
  BY ProvisionInductive, <1>1, PTL

-----------------------------------------------------------------------------
(* Deploy.                                                                 *)

(* An upload runs only where its deployment waits for it or gave up on it. *)
Attended ==
  \A d \in Deployments, h \in Hosts :
    /\ script[d][h] \in Uploads => step[d][h] \in {"uploading", "failed"}
    /\ script[d][h] \in Unpacks => step[d][h] \in {"unpacking", "failed"}
    /\ phase[d] = "idle" => step[d][h] = "none"

(* Where nothing has crossed or broken off, one unpack runs at a time, and *)
(* a directory is marked only while it is whole or being removed.          *)
Marked ==
  \A h \in Hosts \ tainted :
    /\ \A d, e \in Deployments :
         script[d][h] \in Unpacks /\ script[e][h] \in Unpacks => d = e
    /\ \A d \in Deployments :
         /\ script[d][h] # "orphan"
         /\ script[d][h] \in {"mkdir", "tar"} => ~marker[h]
         /\ script[d][h] = "touch" => agentDir[h] = "whole"
    /\ marker[h] => agentDir[h] = "whole" \/ \E d \in Deployments : script[d][h] = "rm"

(* What nobody disturbs stays as it was found, or given: the binary, ...   *)
HasBinary(h) == binary[h] = "whole" /\ \A e \in Deployments : script[e][h] \notin Uploads

Supplied ==
  \A d \in Deployments, h \in Hosts :
    step[d][h] \in {"marker", "unpacking", "done"} /\ "binary" \notin disturbed[d][h] =>
      mock[d] \/ HasBinary(h)

(* ... and the agent's marker.                                             *)
HasAgent(h) ==
  /\ \A e \in Deployments : script[e][h] \notin Unpacks
  /\ h \notin tainted => marker[h]

Equipped ==
  \A d \in Deployments, h \in Hosts :
    step[d][h] = "done" /\ "agent" \notin disturbed[d][h] => HasAgent(h)

(* The controller's own copy comes after every host.                       *)
RemoteFirst ==
  \A d \in Deployments : phase[d] \in {"copying", "done"} =>
    \A h \in targets[d] : step[d][h] = "done"

DeployInv ==
  /\ TypeOKDeploy
  /\ Attended
  /\ Marked
  /\ Supplied
  /\ Equipped
  /\ RemoteFirst

(* Every step keeps the types.                                             *)
LEMMA DeployTypeKept ==
  ASSUME DeployInv, [NextDeploy]_deployVars
  PROVE  TypeOKDeploy'
<1>1. ASSUME NEW d \in Deployments, NEW remote \in SUBSET Hosts, Begin(d, remote) PROVE TypeOKDeploy'
  BY <1>1 DEF Begin, scriptVars, fileVars, DeployInv, TypeOKDeploy, Contents, Underway,
     Uploads, Unpacks
<1>2. ASSUME NEW d \in Deployments, NEW h \in Hosts, Facts(d, h) PROVE TypeOKDeploy'
  <2>1. At(d, h, "facts") /\ Same /\ UNCHANGED <<scriptVars, fileVars, disturbed, tainted>>
    BY <1>2 DEF Facts
  <2>2. CASE /\ mock[d]
           /\ Goto(d, h, "marker")
    BY <2>1, <2>2 DEF At, Same, Goto, scriptVars, fileVars, DeployInv, TypeOKDeploy,
       Contents, Underway, Uploads, Unpacks
  <2>3. CASE /\ ~mock[d]
           /\ Goto(d, h, "hash")
    BY <2>1, <2>3 DEF At, Same, Goto, scriptVars, fileVars, DeployInv, TypeOKDeploy,
       Contents, Underway, Uploads, Unpacks
  <2>4. CASE /\ Goto(d, h, "failed")
    BY <2>1, <2>4 DEF At, Same, Goto, scriptVars, fileVars, DeployInv, TypeOKDeploy,
       Contents, Underway, Uploads, Unpacks
  <2> QED
    BY <1>2, <2>2, <2>3, <2>4 DEF Facts
<1>3. ASSUME NEW d \in Deployments, NEW h \in Hosts, Hash(d, h) PROVE TypeOKDeploy'
  <2>1. At(d, h, "hash") /\ Same
    BY <1>3 DEF Hash
  <2>2. CASE /\ binary[h] = "whole"
           /\ Goto(d, h, "marker")
           /\ Looked(d, h, "binary")
           /\ UNCHANGED <<scriptVars, fileVars, tainted>>
    BY <2>1, <2>2 DEF At, Same, Goto, Looked, scriptVars, fileVars, DeployInv,
       TypeOKDeploy, Contents, Underway, Uploads, Unpacks
  <2>3. CASE /\ Goto(d, h, "uploading")
           /\ Sends(d, h, "binary")
    BY <2>1, <2>3 DEF At, Same, Goto, Sends, Becomes, scriptVars, fileVars, DeployInv,
       TypeOKDeploy, Contents, Underway, Uploads, Unpacks
  <2> QED
    BY <1>3, <2>2, <2>3 DEF Hash
<1>4. ASSUME NEW d \in Deployments, NEW h \in Hosts, Verify(d, h) PROVE TypeOKDeploy'
  <2>1. At(d, h, "verify") /\ Same /\ Looked(d, h, "binary") /\ UNCHANGED <<scriptVars, fileVars, tainted>>
    BY <1>4 DEF Verify
  <2>2. CASE /\ binary[h] = "whole"
           /\ Goto(d, h, "marker")
    BY <2>1, <2>2 DEF At, Same, Goto, Looked, scriptVars, fileVars, DeployInv,
       TypeOKDeploy, Contents, Underway, Uploads, Unpacks
  <2>3. CASE /\ Goto(d, h, "failed")
    BY <2>1, <2>3 DEF At, Same, Goto, Looked, scriptVars, fileVars, DeployInv,
       TypeOKDeploy, Contents, Underway, Uploads, Unpacks
  <2> QED
    BY <1>4, <2>2, <2>3 DEF Verify
<1>5. ASSUME NEW d \in Deployments, NEW h \in Hosts, Marker(d, h) PROVE TypeOKDeploy'
  <2>1. At(d, h, "marker") /\ Same
    BY <1>5 DEF Marker
  <2>2. CASE /\ marker[h]
           /\ Goto(d, h, "done")
           /\ Looked(d, h, "agent")
           /\ UNCHANGED <<scriptVars, fileVars, tainted>>
    BY <2>1, <2>2 DEF At, Same, Goto, Looked, scriptVars, fileVars, DeployInv,
       TypeOKDeploy, Contents, Underway, Uploads, Unpacks
  <2>3. CASE /\ Goto(d, h, "unpacking")
           /\ Sends(d, h, "agent")
    BY <2>1, <2>3 DEF At, Same, Goto, Sends, Becomes, scriptVars, fileVars, DeployInv,
       TypeOKDeploy, Contents, Underway, Uploads, Unpacks
  <2> QED
    BY <1>5, <2>2, <2>3 DEF Marker
<1>6. ASSUME NEW d \in Deployments, NEW h \in Hosts, ConnectionBreaks(d, h) PROVE TypeOKDeploy'
  BY <1>6 DEF ConnectionBreaks, Goto, Same, scriptVars, fileVars, DeployInv,
     TypeOKDeploy, Contents, Underway, Uploads, Unpacks
<1>7. ASSUME NEW d \in Deployments, NEW h \in Hosts, OpenStaging(d, h) PROVE TypeOKDeploy'
  BY <1>7 DEF OpenStaging, Same, scriptVars, fileVars, DeployInv, TypeOKDeploy,
     Contents, Underway, Uploads, Unpacks
<1>8. ASSUME NEW d \in Deployments, NEW h \in Hosts, CatEnds(d, h) PROVE TypeOKDeploy'
  BY <1>8 DEF CatEnds, Becomes, Same, scriptVars, fileVars, DeployInv, TypeOKDeploy,
     Contents, Underway, Uploads, Unpacks
<1>9. ASSUME NEW d \in Deployments, NEW h \in Hosts, Install(d, h) PROVE TypeOKDeploy'
  <2>1. PICK s \in {"verify", "failed"} : Heard(d, h, s)
    BY <1>9 DEF Install
  <2>2. /\ script[d][h] = "mv" /\ Ends(d, h) /\ Same
        /\ UNCHANGED <<agentDir, marker, disturbed, tainted>>
    BY <1>9 DEF Install
  <2>3. step' \in [Deployments -> [Hosts -> Underway \cup {"none", "done", "failed"}]]
    BY <2>1 DEF Heard, DeployInv, TypeOKDeploy, Underway
  <2>4. /\ script' \in [Deployments -> [Hosts -> Uploads \cup Unpacks \cup {"none"}]]
        /\ cut' \in [Deployments -> [Hosts -> BOOLEAN]]
    BY <2>2 DEF Ends, Becomes, DeployInv, TypeOKDeploy, Uploads, Unpacks
  <2>5. opened' \in [Deployments -> [Hosts -> {"none", "staging", "binary"}]]
    <3>1. CASE staging[h] # "absent"
      <4>1. opened' = [e \in Deployments |-> [opened[e] EXCEPT ![h] =
                        IF e # d /\ opened[e][h] = "staging" THEN "binary" ELSE "none"]]
        BY <1>9, <3>1 DEF Install
      <4>2. opened \in [Deployments -> [Hosts -> {"none", "staging", "binary"}]]
        BY DEF DeployInv, TypeOKDeploy
      <4> QED
        BY <4>1, <4>2
    <3>2. CASE staging[h] = "absent"
      <4>1. opened' = [opened EXCEPT ![d][h] = "none"]
        BY <1>9, <3>2 DEF Install
      <4> QED
        BY <4>1 DEF DeployInv, TypeOKDeploy
    <3> QED
      BY <3>1, <3>2
  <2>6. staging' \in [Hosts -> Contents]
    BY <1>9 DEF Install, DeployInv, TypeOKDeploy, Contents
  <2>7. binary' \in [Hosts -> Contents]
    BY <1>9 DEF Install, DeployInv, TypeOKDeploy, Contents
  <2> QED
    BY <2>2, <2>3, <2>4, <2>5, <2>6, <2>7 DEF Same, DeployInv, TypeOKDeploy
<1>10. ASSUME NEW d \in Deployments, NEW h \in Hosts, Remove(d, h) PROVE TypeOKDeploy'
  BY <1>10 DEF Remove, Becomes, Same, scriptVars, fileVars, DeployInv, TypeOKDeploy,
     Contents, Underway, Uploads, Unpacks
<1>11. ASSUME NEW d \in Deployments, NEW h \in Hosts, Removed(d, h) PROVE TypeOKDeploy'
  BY <1>11 DEF Removed, Same, scriptVars, fileVars, DeployInv, TypeOKDeploy, Contents,
     Underway, Uploads, Unpacks
<1>12. ASSUME NEW d \in Deployments, NEW h \in Hosts, Mkdir(d, h) PROVE TypeOKDeploy'
  BY <1>12 DEF Mkdir, Becomes, Same, scriptVars, fileVars, DeployInv, TypeOKDeploy,
     Contents, Underway, Uploads, Unpacks
<1>13. ASSUME NEW d \in Deployments, NEW h \in Hosts, Unpack(d, h) PROVE TypeOKDeploy'
  BY <1>13 DEF Unpack, Becomes, Same, scriptVars, fileVars, DeployInv, TypeOKDeploy,
     Contents, Underway, Uploads, Unpacks
<1>14. ASSUME NEW d \in Deployments, NEW h \in Hosts, Touch(d, h) PROVE TypeOKDeploy'
  <2>1. CASE agentDir[h] # "absent"
    BY <1>14, <2>1 DEF Touch, Ends, Becomes, Same, Heard, Looked, scriptVars, fileVars,
       DeployInv, TypeOKDeploy, Contents, Underway, Uploads, Unpacks
  <2>2. CASE agentDir[h] = "absent"
    BY <1>14, <2>2 DEF Touch, Ends, Becomes, Same, Heard, Looked, scriptVars, fileVars,
       DeployInv, TypeOKDeploy, Contents, Underway, Uploads, Unpacks
  <2> QED
    BY <1>14, <2>1, <2>2
<1>15. ASSUME NEW d \in Deployments, NEW h \in Hosts, ScriptFails(d, h) PROVE TypeOKDeploy'
  <2>1. CASE script[d][h] = "rm"
    BY <1>15, <2>1 DEF ScriptFails, Ends, Becomes, Same, Heard, scriptVars, fileVars,
       DeployInv, TypeOKDeploy, Contents, Underway, Uploads, Unpacks
  <2>2. CASE script[d][h] # "rm"
    BY <1>15, <2>2 DEF ScriptFails, Ends, Becomes, Same, Heard, scriptVars, fileVars,
       DeployInv, TypeOKDeploy, Contents, Underway, Uploads, Unpacks
  <2> QED
    BY <1>15, <2>1, <2>2
<1>16. ASSUME NEW d \in Deployments, Exit(d) PROVE TypeOKDeploy'
  BY <1>16 DEF Exit, scriptVars, fileVars, DeployInv, TypeOKDeploy, Contents, Underway,
     Uploads, Unpacks
<1>17. ASSUME NEW d \in Deployments, RemotesDone(d) PROVE TypeOKDeploy'
  BY <1>17 DEF RemotesDone, scriptVars, fileVars, DeployInv, TypeOKDeploy, Contents,
     Underway, Uploads, Unpacks
<1>18. ASSUME NEW d \in Deployments, InstallLocally(d) PROVE TypeOKDeploy'
  BY <1>18 DEF InstallLocally, scriptVars, fileVars, DeployInv, TypeOKDeploy, Contents,
     Underway, Uploads, Unpacks
<1>19. CASE UNCHANGED deployVars
  BY <1>19 DEF deployVars, scriptVars, fileVars, DeployInv, TypeOKDeploy, Contents,
     Underway, Uploads, Unpacks
<1> QED
  BY <1>1, <1>2, <1>3, <1>4, <1>5, <1>6, <1>7, <1>8, <1>9, <1>10, <1>11, <1>12, <1>13,
     <1>14, <1>15, <1>16, <1>17, <1>18, <1>19 DEF NextDeploy, HostStep

(* No script runs at a host its deployment has gone past.                  *)
LEMMA AttendedKept ==
  ASSUME DeployInv, [NextDeploy]_deployVars
  PROVE  Attended'
<1>1. ASSUME NEW d \in Deployments, NEW remote \in SUBSET Hosts, Begin(d, remote) PROVE Attended'
  BY <1>1 DEF Begin, scriptVars, fileVars, DeployInv, TypeOKDeploy, Attended, Underway,
     Uploads, Unpacks
<1>2. ASSUME NEW d \in Deployments, NEW h \in Hosts, Facts(d, h) PROVE Attended'
  <2>1. At(d, h, "facts") /\ Same /\ UNCHANGED <<scriptVars, fileVars, disturbed, tainted>>
    BY <1>2 DEF Facts
  <2>2. CASE /\ mock[d]
           /\ Goto(d, h, "marker")
    BY <2>1, <2>2 DEF At, Same, Goto, scriptVars, fileVars, DeployInv, TypeOKDeploy,
       Attended, Underway, Uploads, Unpacks
  <2>3. CASE /\ ~mock[d]
           /\ Goto(d, h, "hash")
    BY <2>1, <2>3 DEF At, Same, Goto, scriptVars, fileVars, DeployInv, TypeOKDeploy,
       Attended, Underway, Uploads, Unpacks
  <2>4. CASE /\ Goto(d, h, "failed")
    BY <2>1, <2>4 DEF At, Same, Goto, scriptVars, fileVars, DeployInv, TypeOKDeploy,
       Attended, Underway, Uploads, Unpacks
  <2> QED
    BY <1>2, <2>2, <2>3, <2>4 DEF Facts
<1>3. ASSUME NEW d \in Deployments, NEW h \in Hosts, Hash(d, h) PROVE Attended'
  <2>1. At(d, h, "hash") /\ Same
    BY <1>3 DEF Hash
  <2>2. CASE /\ binary[h] = "whole"
           /\ Goto(d, h, "marker")
           /\ Looked(d, h, "binary")
           /\ UNCHANGED <<scriptVars, fileVars, tainted>>
    BY <2>1, <2>2 DEF At, Same, Goto, Looked, scriptVars, fileVars, DeployInv,
       TypeOKDeploy, Attended, Underway, Uploads, Unpacks
  <2>3. CASE /\ Goto(d, h, "uploading")
           /\ Sends(d, h, "binary")
    BY <2>1, <2>3 DEF At, Same, Goto, Sends, Becomes, scriptVars, fileVars, DeployInv,
       TypeOKDeploy, Attended, Underway, Uploads, Unpacks
  <2> QED
    BY <1>3, <2>2, <2>3 DEF Hash
<1>4. ASSUME NEW d \in Deployments, NEW h \in Hosts, Verify(d, h) PROVE Attended'
  <2>1. At(d, h, "verify") /\ Same /\ Looked(d, h, "binary") /\ UNCHANGED <<scriptVars, fileVars, tainted>>
    BY <1>4 DEF Verify
  <2>2. CASE /\ binary[h] = "whole"
           /\ Goto(d, h, "marker")
    BY <2>1, <2>2 DEF At, Same, Goto, Looked, scriptVars, fileVars, DeployInv,
       TypeOKDeploy, Attended, Underway, Uploads, Unpacks
  <2>3. CASE /\ Goto(d, h, "failed")
    BY <2>1, <2>3 DEF At, Same, Goto, Looked, scriptVars, fileVars, DeployInv,
       TypeOKDeploy, Attended, Underway, Uploads, Unpacks
  <2> QED
    BY <1>4, <2>2, <2>3 DEF Verify
<1>5. ASSUME NEW d \in Deployments, NEW h \in Hosts, Marker(d, h) PROVE Attended'
  <2>1. At(d, h, "marker") /\ Same
    BY <1>5 DEF Marker
  <2>2. CASE /\ marker[h]
           /\ Goto(d, h, "done")
           /\ Looked(d, h, "agent")
           /\ UNCHANGED <<scriptVars, fileVars, tainted>>
    BY <2>1, <2>2 DEF At, Same, Goto, Looked, scriptVars, fileVars, DeployInv,
       TypeOKDeploy, Attended, Underway, Uploads, Unpacks
  <2>3. CASE /\ Goto(d, h, "unpacking")
           /\ Sends(d, h, "agent")
    BY <2>1, <2>3 DEF At, Same, Goto, Sends, Becomes, scriptVars, fileVars, DeployInv,
       TypeOKDeploy, Attended, Underway, Uploads, Unpacks
  <2> QED
    BY <1>5, <2>2, <2>3 DEF Marker
<1>6. ASSUME NEW d \in Deployments, NEW h \in Hosts, ConnectionBreaks(d, h) PROVE Attended'
  BY <1>6 DEF ConnectionBreaks, Goto, Same, scriptVars, fileVars, DeployInv,
     TypeOKDeploy, Attended, Underway, Uploads, Unpacks
<1>7. ASSUME NEW d \in Deployments, NEW h \in Hosts, OpenStaging(d, h) PROVE Attended'
  BY <1>7 DEF OpenStaging, Same, scriptVars, fileVars, DeployInv, TypeOKDeploy,
     Attended, Underway, Uploads, Unpacks
<1>8. ASSUME NEW d \in Deployments, NEW h \in Hosts, CatEnds(d, h) PROVE Attended'
  BY <1>8 DEF CatEnds, Becomes, Same, scriptVars, fileVars, DeployInv, TypeOKDeploy,
     Attended, Underway, Uploads, Unpacks
<1>9. ASSUME NEW d \in Deployments, NEW h \in Hosts, Install(d, h) PROVE Attended'
  <2>1. CASE staging[h] # "absent"
    BY <1>9, <2>1 DEF Install, Ends, Becomes, Same, Heard, scriptVars, fileVars,
       DeployInv, TypeOKDeploy, Attended, Underway, Uploads, Unpacks
  <2>2. CASE staging[h] = "absent"
    BY <1>9, <2>2 DEF Install, Ends, Becomes, Same, Heard, scriptVars, fileVars,
       DeployInv, TypeOKDeploy, Attended, Underway, Uploads, Unpacks
  <2> QED
    BY <1>9, <2>1, <2>2
<1>10. ASSUME NEW d \in Deployments, NEW h \in Hosts, Remove(d, h) PROVE Attended'
  BY <1>10 DEF Remove, Becomes, Same, scriptVars, fileVars, DeployInv, TypeOKDeploy,
     Attended, Underway, Uploads, Unpacks
<1>11. ASSUME NEW d \in Deployments, NEW h \in Hosts, Removed(d, h) PROVE Attended'
  BY <1>11 DEF Removed, Same, scriptVars, fileVars, DeployInv, TypeOKDeploy, Attended,
     Underway, Uploads, Unpacks
<1>12. ASSUME NEW d \in Deployments, NEW h \in Hosts, Mkdir(d, h) PROVE Attended'
  BY <1>12 DEF Mkdir, Becomes, Same, scriptVars, fileVars, DeployInv, TypeOKDeploy,
     Attended, Underway, Uploads, Unpacks
<1>13. ASSUME NEW d \in Deployments, NEW h \in Hosts, Unpack(d, h) PROVE Attended'
  BY <1>13 DEF Unpack, Becomes, Same, scriptVars, fileVars, DeployInv, TypeOKDeploy,
     Attended, Underway, Uploads, Unpacks
<1>14. ASSUME NEW d \in Deployments, NEW h \in Hosts, Touch(d, h) PROVE Attended'
  <2>1. CASE agentDir[h] # "absent"
    BY <1>14, <2>1 DEF Touch, Ends, Becomes, Same, Heard, Looked, scriptVars, fileVars,
       DeployInv, TypeOKDeploy, Attended, Underway, Uploads, Unpacks
  <2>2. CASE agentDir[h] = "absent"
    BY <1>14, <2>2 DEF Touch, Ends, Becomes, Same, Heard, Looked, scriptVars, fileVars,
       DeployInv, TypeOKDeploy, Attended, Underway, Uploads, Unpacks
  <2> QED
    BY <1>14, <2>1, <2>2
<1>15. ASSUME NEW d \in Deployments, NEW h \in Hosts, ScriptFails(d, h) PROVE Attended'
  <2>1. CASE script[d][h] = "rm"
    BY <1>15, <2>1 DEF ScriptFails, Ends, Becomes, Same, Heard, scriptVars, fileVars,
       DeployInv, TypeOKDeploy, Attended, Underway, Uploads, Unpacks
  <2>2. CASE script[d][h] # "rm"
    BY <1>15, <2>2 DEF ScriptFails, Ends, Becomes, Same, Heard, scriptVars, fileVars,
       DeployInv, TypeOKDeploy, Attended, Underway, Uploads, Unpacks
  <2> QED
    BY <1>15, <2>1, <2>2
<1>16. ASSUME NEW d \in Deployments, Exit(d) PROVE Attended'
  BY <1>16 DEF Exit, scriptVars, fileVars, DeployInv, TypeOKDeploy, Attended, Underway,
     Uploads, Unpacks
<1>17. ASSUME NEW d \in Deployments, RemotesDone(d) PROVE Attended'
  BY <1>17 DEF RemotesDone, scriptVars, fileVars, DeployInv, TypeOKDeploy, Attended,
     Underway, Uploads, Unpacks
<1>18. ASSUME NEW d \in Deployments, InstallLocally(d) PROVE Attended'
  BY <1>18 DEF InstallLocally, scriptVars, fileVars, DeployInv, TypeOKDeploy, Attended,
     Underway, Uploads, Unpacks
<1>19. CASE UNCHANGED deployVars
  BY <1>19 DEF deployVars, scriptVars, fileVars, DeployInv, TypeOKDeploy, Attended,
     Underway, Uploads, Unpacks
<1> QED
  BY <1>1, <1>2, <1>3, <1>4, <1>5, <1>6, <1>7, <1>8, <1>9, <1>10, <1>11, <1>12, <1>13,
     <1>14, <1>15, <1>16, <1>17, <1>18, <1>19 DEF NextDeploy, HostStep

(* The marker goes first and comes last.                                   *)
LEMMA MarkedKept ==
  ASSUME DeployInv, [NextDeploy]_deployVars
  PROVE  Marked'
<1>1. ASSUME NEW d \in Deployments, NEW remote \in SUBSET Hosts, Begin(d, remote) PROVE Marked'
  BY <1>1 DEF Begin, scriptVars, fileVars, DeployInv, TypeOKDeploy, Marked, Attended,
     Others, ScriptsOf, Underway, Uploads, Unpacks
<1>2. ASSUME NEW d \in Deployments, NEW h \in Hosts, Facts(d, h) PROVE Marked'
  <2>1. At(d, h, "facts") /\ Same /\ UNCHANGED <<scriptVars, fileVars, disturbed, tainted>>
    BY <1>2 DEF Facts
  <2>2. CASE /\ mock[d]
           /\ Goto(d, h, "marker")
    BY <2>1, <2>2 DEF At, Same, Goto, scriptVars, fileVars, DeployInv, TypeOKDeploy,
       Marked, Attended, Others, ScriptsOf, Underway, Uploads, Unpacks
  <2>3. CASE /\ ~mock[d]
           /\ Goto(d, h, "hash")
    BY <2>1, <2>3 DEF At, Same, Goto, scriptVars, fileVars, DeployInv, TypeOKDeploy,
       Marked, Attended, Others, ScriptsOf, Underway, Uploads, Unpacks
  <2>4. CASE /\ Goto(d, h, "failed")
    BY <2>1, <2>4 DEF At, Same, Goto, scriptVars, fileVars, DeployInv, TypeOKDeploy,
       Marked, Attended, Others, ScriptsOf, Underway, Uploads, Unpacks
  <2> QED
    BY <1>2, <2>2, <2>3, <2>4 DEF Facts
<1>3. ASSUME NEW d \in Deployments, NEW h \in Hosts, Hash(d, h) PROVE Marked'
  <2>1. At(d, h, "hash") /\ Same
    BY <1>3 DEF Hash
  <2>2. CASE /\ binary[h] = "whole"
           /\ Goto(d, h, "marker")
           /\ Looked(d, h, "binary")
           /\ UNCHANGED <<scriptVars, fileVars, tainted>>
    BY <2>1, <2>2 DEF At, Same, Goto, Looked, scriptVars, fileVars, DeployInv,
       TypeOKDeploy, Marked, Attended, Others, ScriptsOf, Underway, Uploads, Unpacks
  <2>3. CASE /\ Goto(d, h, "uploading")
           /\ Sends(d, h, "binary")
    <3>1. /\ \A e \in Deployments, i \in Hosts :
               script'[e][i] \in Unpacks \/ script[e][i] \in Unpacks => script'[e][i] = script[e][i]
          /\ UNCHANGED <<agentDir, marker, tainted>>
      BY <2>1, <2>3 DEF At, Sends, Becomes, fileVars, DeployInv, TypeOKDeploy, Attended,
           Unpacks
    <3> QED
      BY <2>1, <2>3, <3>1 DEF DeployInv, Marked, Unpacks
  <2> QED
    BY <1>3, <2>2, <2>3 DEF Hash
<1>4. ASSUME NEW d \in Deployments, NEW h \in Hosts, Verify(d, h) PROVE Marked'
  <2>1. At(d, h, "verify") /\ Same /\ Looked(d, h, "binary") /\ UNCHANGED <<scriptVars, fileVars, tainted>>
    BY <1>4 DEF Verify
  <2>2. CASE /\ binary[h] = "whole"
           /\ Goto(d, h, "marker")
    BY <2>1, <2>2 DEF At, Same, Goto, Looked, scriptVars, fileVars, DeployInv,
       TypeOKDeploy, Marked, Attended, Others, ScriptsOf, Underway, Uploads, Unpacks
  <2>3. CASE /\ Goto(d, h, "failed")
    BY <2>1, <2>3 DEF At, Same, Goto, Looked, scriptVars, fileVars, DeployInv,
       TypeOKDeploy, Marked, Attended, Others, ScriptsOf, Underway, Uploads, Unpacks
  <2> QED
    BY <1>4, <2>2, <2>3 DEF Verify
<1>5. ASSUME NEW d \in Deployments, NEW h \in Hosts, Marker(d, h) PROVE Marked'
  <2>1. At(d, h, "marker") /\ Same
    BY <1>5 DEF Marker
  <2>2. CASE /\ marker[h]
           /\ Goto(d, h, "done")
           /\ Looked(d, h, "agent")
           /\ UNCHANGED <<scriptVars, fileVars, tainted>>
    BY <2>1, <2>2 DEF At, Same, Goto, Looked, scriptVars, fileVars, DeployInv,
       TypeOKDeploy, Marked, Attended, Others, ScriptsOf, Underway, Uploads, Unpacks
  <2>3. CASE /\ Goto(d, h, "unpacking")
           /\ Sends(d, h, "agent")
    <3>1. /\ \A e \in Deployments, i \in Hosts : e # d \/ i # h => script'[e][i] = script[e][i]
          /\ script'[d][h] = "sendtar" /\ script[d][h] \notin Unpacks
          /\ h \notin tainted' => h \notin tainted /\ \A e \in Deployments : script[e][h] \notin Unpacks
          /\ \A i \in Hosts : i # h => (i \in tainted <=> i \in tainted')
          /\ UNCHANGED <<agentDir, marker>>
      BY <2>1, <2>3 DEF At, Sends, Becomes, fileVars, Others, ScriptsOf, DeployInv,
           TypeOKDeploy, Attended,
         Unpacks
    <3> QED
      BY <2>1, <2>3, <3>1 DEF DeployInv, Marked, Unpacks
  <2> QED
    BY <1>5, <2>2, <2>3 DEF Marker
<1>6. ASSUME NEW d \in Deployments, NEW h \in Hosts, ConnectionBreaks(d, h) PROVE Marked'
  BY <1>6 DEF ConnectionBreaks, Goto, Same, scriptVars, fileVars, DeployInv,
     TypeOKDeploy, Marked, Attended, Others, ScriptsOf, Underway, Uploads, Unpacks
<1>7. ASSUME NEW d \in Deployments, NEW h \in Hosts, OpenStaging(d, h) PROVE Marked'
  <2>1. \A e \in Deployments, i \in Hosts :
          script'[e][i] \in Unpacks \/ script[e][i] \in Unpacks => script'[e][i] = script[e][i]
    BY <1>7 DEF OpenStaging, DeployInv, TypeOKDeploy, Unpacks
  <2>2. UNCHANGED <<agentDir, marker, tainted>>
    BY <1>7 DEF OpenStaging
  <2> QED
    BY <2>1, <2>2 DEF DeployInv, Marked, Unpacks
<1>8. ASSUME NEW d \in Deployments, NEW h \in Hosts, CatEnds(d, h) PROVE Marked'
  BY <1>8 DEF CatEnds, Becomes, Same, scriptVars, fileVars, DeployInv, TypeOKDeploy,
     Marked, Attended, Others, ScriptsOf, Underway, Uploads, Unpacks
<1>9. ASSUME NEW d \in Deployments, NEW h \in Hosts, Install(d, h) PROVE Marked'
  <2>1. CASE staging[h] # "absent"
    BY <1>9, <2>1 DEF Install, Ends, Becomes, Same, Heard, scriptVars, fileVars,
       DeployInv, TypeOKDeploy, Marked, Attended, Others, ScriptsOf, Underway, Uploads,
       Unpacks
  <2>2. CASE staging[h] = "absent"
    BY <1>9, <2>2 DEF Install, Ends, Becomes, Same, Heard, scriptVars, fileVars,
       DeployInv, TypeOKDeploy, Marked, Attended, Others, ScriptsOf, Underway, Uploads,
       Unpacks
  <2> QED
    BY <1>9, <2>1, <2>2
<1>10. ASSUME NEW d \in Deployments, NEW h \in Hosts, Remove(d, h) PROVE Marked'
  BY <1>10 DEF Remove, Becomes, Same, scriptVars, fileVars, DeployInv, TypeOKDeploy,
     Marked, Attended, Others, ScriptsOf, Underway, Uploads, Unpacks
<1>11. ASSUME NEW d \in Deployments, NEW h \in Hosts, Removed(d, h) PROVE Marked'
  BY <1>11 DEF Removed, Same, scriptVars, fileVars, DeployInv, TypeOKDeploy, Marked,
     Attended, Others, ScriptsOf, Underway, Uploads, Unpacks
<1>12. ASSUME NEW d \in Deployments, NEW h \in Hosts, Mkdir(d, h) PROVE Marked'
  BY <1>12 DEF Mkdir, Becomes, Same, scriptVars, fileVars, DeployInv, TypeOKDeploy,
     Marked, Attended, Others, ScriptsOf, Underway, Uploads, Unpacks
<1>13. ASSUME NEW d \in Deployments, NEW h \in Hosts, Unpack(d, h) PROVE Marked'
  BY <1>13 DEF Unpack, Becomes, Same, scriptVars, fileVars, DeployInv, TypeOKDeploy,
     Marked, Attended, Others, ScriptsOf, Underway, Uploads, Unpacks
<1>14. ASSUME NEW d \in Deployments, NEW h \in Hosts, Touch(d, h) PROVE Marked'
  <2>1. CASE agentDir[h] # "absent"
    BY <1>14, <2>1 DEF Touch, Ends, Becomes, Same, Heard, Looked, scriptVars, fileVars,
       DeployInv, TypeOKDeploy, Marked, Attended, Others, ScriptsOf, Underway, Uploads,
       Unpacks
  <2>2. CASE agentDir[h] = "absent"
    BY <1>14, <2>2 DEF Touch, Ends, Becomes, Same, Heard, Looked, scriptVars, fileVars,
       DeployInv, TypeOKDeploy, Marked, Attended, Others, ScriptsOf, Underway, Uploads,
       Unpacks
  <2> QED
    BY <1>14, <2>1, <2>2
<1>15. ASSUME NEW d \in Deployments, NEW h \in Hosts, ScriptFails(d, h) PROVE Marked'
  <2>1. CASE script[d][h] = "rm"
    BY <1>15, <2>1 DEF ScriptFails, Ends, Becomes, Same, Heard, scriptVars, fileVars,
       DeployInv, TypeOKDeploy, Marked, Attended, Others, ScriptsOf, Underway, Uploads,
       Unpacks
  <2>2. CASE script[d][h] # "rm"
    BY <1>15, <2>2 DEF ScriptFails, Ends, Becomes, Same, Heard, scriptVars, fileVars,
       DeployInv, TypeOKDeploy, Marked, Attended, Others, ScriptsOf, Underway, Uploads,
       Unpacks
  <2> QED
    BY <1>15, <2>1, <2>2
<1>16. ASSUME NEW d \in Deployments, Exit(d) PROVE Marked'
  BY <1>16 DEF Exit, scriptVars, fileVars, DeployInv, TypeOKDeploy, Marked, Attended,
     Others, ScriptsOf, Underway, Uploads, Unpacks
<1>17. ASSUME NEW d \in Deployments, RemotesDone(d) PROVE Marked'
  BY <1>17 DEF RemotesDone, scriptVars, fileVars, DeployInv, TypeOKDeploy, Marked,
     Attended, Others, ScriptsOf, Underway, Uploads, Unpacks
<1>18. ASSUME NEW d \in Deployments, InstallLocally(d) PROVE Marked'
  BY <1>18 DEF InstallLocally, scriptVars, fileVars, DeployInv, TypeOKDeploy, Marked,
     Attended, Others, ScriptsOf, Underway, Uploads, Unpacks
<1>19. CASE UNCHANGED deployVars
  BY <1>19 DEF deployVars, scriptVars, fileVars, DeployInv, TypeOKDeploy, Marked,
     Attended, Others, ScriptsOf, Underway, Uploads, Unpacks
<1> QED
  BY <1>1, <1>2, <1>3, <1>4, <1>5, <1>6, <1>7, <1>8, <1>9, <1>10, <1>11, <1>12, <1>13,
     <1>14, <1>15, <1>16, <1>17, <1>18, <1>19 DEF NextDeploy, HostStep

(* What a host was found to have, or was given, it keeps.                  *)
LEMMA SuppliedKept ==
  ASSUME DeployInv, [NextDeploy]_deployVars
  PROVE  Supplied'
<1> SUFFICES ASSUME NEW x \in Deployments, NEW y \in Hosts,
                    step'[x][y] \in {"marker", "unpacking", "done"},
                    "binary" \notin disturbed'[x][y], ~mock'[x]
             PROVE  HasBinary(y)'
  BY DEF Supplied
<1>1. ASSUME NEW d \in Deployments, NEW remote \in SUBSET Hosts, Begin(d, remote) PROVE HasBinary(y)'
  BY <1>1 DEF Begin, scriptVars, fileVars, DeployInv, TypeOKDeploy, Supplied, HasBinary,
     Attended, Others, ScriptsOf, Underway, Uploads, Unpacks
<1>2. ASSUME NEW d \in Deployments, NEW h \in Hosts, Facts(d, h) PROVE HasBinary(y)'
  <2>1. At(d, h, "facts") /\ Same /\ UNCHANGED <<scriptVars, fileVars, disturbed, tainted>>
    BY <1>2 DEF Facts
  <2>2. CASE /\ mock[d]
           /\ Goto(d, h, "marker")
    BY <2>1, <2>2 DEF At, Same, Goto, scriptVars, fileVars, DeployInv, TypeOKDeploy,
       Supplied, HasBinary, Attended, Others, ScriptsOf, Underway, Uploads, Unpacks
  <2>3. CASE /\ ~mock[d]
           /\ Goto(d, h, "hash")
    BY <2>1, <2>3 DEF At, Same, Goto, scriptVars, fileVars, DeployInv, TypeOKDeploy,
       Supplied, HasBinary, Attended, Others, ScriptsOf, Underway, Uploads, Unpacks
  <2>4. CASE /\ Goto(d, h, "failed")
    BY <2>1, <2>4 DEF At, Same, Goto, scriptVars, fileVars, DeployInv, TypeOKDeploy,
       Supplied, HasBinary, Attended, Others, ScriptsOf, Underway, Uploads, Unpacks
  <2> QED
    BY <1>2, <2>2, <2>3, <2>4 DEF Facts
<1>3. ASSUME NEW d \in Deployments, NEW h \in Hosts, Hash(d, h) PROVE HasBinary(y)'
  <2>1. At(d, h, "hash") /\ Same
    BY <1>3 DEF Hash
  <2>2. CASE /\ binary[h] = "whole"
           /\ Goto(d, h, "marker")
           /\ Looked(d, h, "binary")
           /\ UNCHANGED <<scriptVars, fileVars, tainted>>
    <3>1. /\ \A e \in Deployments, i \in Hosts : e # d \/ i # h =>
               step'[e][i] = step[e][i] /\ disturbed'[e][i] = disturbed[e][i]
          /\ script[d][h] \notin Uploads \cup Unpacks
          /\ UNCHANGED <<mock, script, binary, marker, tainted>>
      BY <2>1, <2>2 DEF At, Same, Goto, Looked, scriptVars, fileVars, DeployInv, TypeOKDeploy,
         Attended
    <3>2. /\ "agent" \in disturbed'[d][h] <=> "agent" \in disturbed[d][h]
          /\ "binary" \notin disturbed'[d][h] =>
               \A e \in Deployments : e # d => script[e][h] \notin ScriptsOf("binary")
          /\ step[d][h] = "hash" /\ step'[d][h] = "marker"
      BY <2>1, <2>2 DEF At, Goto, Looked, Others, DeployInv, TypeOKDeploy
    <3> QED
      BY <2>1, <2>2, <3>1, <3>2 DEF DeployInv, Supplied, HasBinary, ScriptsOf, Uploads, Unpacks
  <2>3. CASE /\ Goto(d, h, "uploading")
           /\ Sends(d, h, "binary")
    BY <2>1, <2>3 DEF At, Same, Goto, Sends, Becomes, scriptVars, fileVars, DeployInv,
       TypeOKDeploy, Supplied, HasBinary, Attended, Others, ScriptsOf, Underway,
       Uploads, Unpacks
  <2> QED
    BY <1>3, <2>2, <2>3 DEF Hash
<1>4. ASSUME NEW d \in Deployments, NEW h \in Hosts, Verify(d, h) PROVE HasBinary(y)'
  <2>1. At(d, h, "verify") /\ Same /\ Looked(d, h, "binary") /\ UNCHANGED <<scriptVars, fileVars, tainted>>
    BY <1>4 DEF Verify
  <2>2. CASE /\ binary[h] = "whole"
           /\ Goto(d, h, "marker")
    <3>1. /\ \A e \in Deployments, i \in Hosts : e # d \/ i # h =>
               step'[e][i] = step[e][i] /\ disturbed'[e][i] = disturbed[e][i]
          /\ script[d][h] \notin Uploads \cup Unpacks
          /\ UNCHANGED <<mock, script, binary, marker, tainted>>
      BY <2>1, <2>2 DEF At, Same, Goto, Looked, scriptVars, fileVars, DeployInv, TypeOKDeploy,
         Attended
    <3>2. /\ "agent" \in disturbed'[d][h] <=> "agent" \in disturbed[d][h]
          /\ "binary" \notin disturbed'[d][h] =>
               \A e \in Deployments : e # d => script[e][h] \notin ScriptsOf("binary")
          /\ step[d][h] = "verify" /\ step'[d][h] = "marker"
      BY <2>1, <2>2 DEF At, Goto, Looked, Others, DeployInv, TypeOKDeploy
    <3> QED
      BY <2>1, <2>2, <3>1, <3>2 DEF DeployInv, Supplied, HasBinary, ScriptsOf, Uploads, Unpacks
  <2>3. CASE /\ Goto(d, h, "failed")
    <3>1. /\ \A e \in Deployments, i \in Hosts : e # d \/ i # h =>
               step'[e][i] = step[e][i] /\ disturbed'[e][i] = disturbed[e][i]
          /\ script[d][h] \notin Uploads \cup Unpacks
          /\ UNCHANGED <<mock, script, binary, marker, tainted>>
      BY <2>1, <2>3 DEF At, Same, Goto, Looked, scriptVars, fileVars, DeployInv, TypeOKDeploy,
         Attended
    <3>2. /\ "agent" \in disturbed'[d][h] <=> "agent" \in disturbed[d][h]
          /\ "binary" \notin disturbed'[d][h] =>
               \A e \in Deployments : e # d => script[e][h] \notin ScriptsOf("binary")
          /\ step[d][h] = "verify" /\ step'[d][h] = "failed"
      BY <2>1, <2>3 DEF At, Goto, Looked, Others, DeployInv, TypeOKDeploy
    <3> QED
      BY <2>1, <2>3, <3>1, <3>2 DEF DeployInv, Supplied, HasBinary, ScriptsOf, Uploads, Unpacks
  <2> QED
    BY <1>4, <2>2, <2>3 DEF Verify
<1>5. ASSUME NEW d \in Deployments, NEW h \in Hosts, Marker(d, h) PROVE HasBinary(y)'
  <2>1. At(d, h, "marker") /\ Same
    BY <1>5 DEF Marker
  <2>2. CASE /\ marker[h]
           /\ Goto(d, h, "done")
           /\ Looked(d, h, "agent")
           /\ UNCHANGED <<scriptVars, fileVars, tainted>>
    <3>1. /\ \A e \in Deployments, i \in Hosts : e # d \/ i # h =>
               step'[e][i] = step[e][i] /\ disturbed'[e][i] = disturbed[e][i]
          /\ script[d][h] \notin Uploads \cup Unpacks
          /\ UNCHANGED <<mock, script, binary, marker, tainted>>
      BY <2>1, <2>2 DEF At, Same, Goto, Looked, scriptVars, fileVars, DeployInv, TypeOKDeploy,
         Attended
    <3>2. /\ "binary" \in disturbed'[d][h] <=> "binary" \in disturbed[d][h]
          /\ "agent" \notin disturbed'[d][h] =>
               \A e \in Deployments : e # d => script[e][h] \notin ScriptsOf("agent")
          /\ step[d][h] = "marker" /\ step'[d][h] = "done"
      BY <2>1, <2>2 DEF At, Goto, Looked, Others, DeployInv, TypeOKDeploy
    <3> QED
      BY <2>1, <2>2, <3>1, <3>2 DEF DeployInv, Supplied, HasBinary, ScriptsOf, Uploads, Unpacks
  <2>3. CASE /\ Goto(d, h, "unpacking")
           /\ Sends(d, h, "agent")
    BY <2>1, <2>3 DEF At, Same, Goto, Sends, Becomes, scriptVars, fileVars, DeployInv,
       TypeOKDeploy, Supplied, HasBinary, Attended, Others, ScriptsOf, Underway,
       Uploads, Unpacks
  <2> QED
    BY <1>5, <2>2, <2>3 DEF Marker
<1>6. ASSUME NEW d \in Deployments, NEW h \in Hosts, ConnectionBreaks(d, h) PROVE HasBinary(y)'
  BY <1>6 DEF ConnectionBreaks, Goto, Same, scriptVars, fileVars, DeployInv,
     TypeOKDeploy, Supplied, HasBinary, Attended, Others, ScriptsOf, Underway, Uploads,
     Unpacks
<1>7. ASSUME NEW d \in Deployments, NEW h \in Hosts, OpenStaging(d, h) PROVE HasBinary(y)'
  BY <1>7 DEF OpenStaging, Same, scriptVars, fileVars, DeployInv, TypeOKDeploy,
     Supplied, HasBinary, Attended, Others, ScriptsOf, Underway, Uploads, Unpacks
<1>8. ASSUME NEW d \in Deployments, NEW h \in Hosts, CatEnds(d, h) PROVE HasBinary(y)'
  BY <1>8 DEF CatEnds, Becomes, Same, scriptVars, fileVars, DeployInv, TypeOKDeploy,
     Supplied, HasBinary, Attended, Others, ScriptsOf, Underway, Uploads, Unpacks
<1>9. ASSUME NEW d \in Deployments, NEW h \in Hosts, Install(d, h) PROVE HasBinary(y)'
  <2>1. PICK s \in {"verify", "failed"} : Heard(d, h, s)
    BY <1>9 DEF Install
  <2>2. /\ script[d][h] = "mv" /\ Ends(d, h) /\ Same
        /\ UNCHANGED <<agentDir, marker, disturbed, tainted>>
    BY <1>9 DEF Install
  <2>3. /\ \A e \in Deployments, i \in Hosts : e # d \/ i # h =>
              step'[e][i] = step[e][i] /\ script'[e][i] = script[e][i]
        /\ step'[d][h] \in {"uploading", "failed", "verify"} /\ script'[d][h] = "none"
    BY <2>1, <2>2 DEF Ends, Becomes, Heard, DeployInv, TypeOKDeploy, Attended, Uploads
  <2>4. /\ \A i \in Hosts : i # h => binary'[i] = binary[i]
        /\ mock' = mock
    BY <1>9 DEF Install, Same, DeployInv, TypeOKDeploy
  <2> QED
    BY <2>2, <2>3, <2>4 DEF DeployInv, Supplied, HasBinary, Uploads
<1>10. ASSUME NEW d \in Deployments, NEW h \in Hosts, Remove(d, h) PROVE HasBinary(y)'
  BY <1>10 DEF Remove, Becomes, Same, scriptVars, fileVars, DeployInv, TypeOKDeploy,
     Supplied, HasBinary, Attended, Others, ScriptsOf, Underway, Uploads, Unpacks
<1>11. ASSUME NEW d \in Deployments, NEW h \in Hosts, Removed(d, h) PROVE HasBinary(y)'
  BY <1>11 DEF Removed, Same, scriptVars, fileVars, DeployInv, TypeOKDeploy, Supplied,
     HasBinary, Attended, Others, ScriptsOf, Underway, Uploads, Unpacks
<1>12. ASSUME NEW d \in Deployments, NEW h \in Hosts, Mkdir(d, h) PROVE HasBinary(y)'
  BY <1>12 DEF Mkdir, Becomes, Same, scriptVars, fileVars, DeployInv, TypeOKDeploy,
     Supplied, HasBinary, Attended, Others, ScriptsOf, Underway, Uploads, Unpacks
<1>13. ASSUME NEW d \in Deployments, NEW h \in Hosts, Unpack(d, h) PROVE HasBinary(y)'
  BY <1>13 DEF Unpack, Becomes, Same, scriptVars, fileVars, DeployInv, TypeOKDeploy,
     Supplied, HasBinary, Attended, Others, ScriptsOf, Underway, Uploads, Unpacks
<1>14. ASSUME NEW d \in Deployments, NEW h \in Hosts, Touch(d, h) PROVE HasBinary(y)'
  <2>1. CASE agentDir[h] # "absent"
    BY <1>14, <2>1 DEF Touch, Ends, Becomes, Same, Heard, Looked, scriptVars, fileVars,
       DeployInv, TypeOKDeploy, Supplied, HasBinary, Attended, Others, ScriptsOf,
       Underway, Uploads, Unpacks
  <2>2. CASE agentDir[h] = "absent"
    BY <1>14, <2>2 DEF Touch, Ends, Becomes, Same, Heard, Looked, scriptVars, fileVars,
       DeployInv, TypeOKDeploy, Supplied, HasBinary, Attended, Others, ScriptsOf,
       Underway, Uploads, Unpacks
  <2> QED
    BY <1>14, <2>1, <2>2
<1>15. ASSUME NEW d \in Deployments, NEW h \in Hosts, ScriptFails(d, h) PROVE HasBinary(y)'
  <2>1. CASE script[d][h] = "rm"
    BY <1>15, <2>1 DEF ScriptFails, Ends, Becomes, Same, Heard, scriptVars, fileVars,
       DeployInv, TypeOKDeploy, Supplied, HasBinary, Attended, Others, ScriptsOf,
       Underway, Uploads, Unpacks
  <2>2. CASE script[d][h] # "rm"
    BY <1>15, <2>2 DEF ScriptFails, Ends, Becomes, Same, Heard, scriptVars, fileVars,
       DeployInv, TypeOKDeploy, Supplied, HasBinary, Attended, Others, ScriptsOf,
       Underway, Uploads, Unpacks
  <2> QED
    BY <1>15, <2>1, <2>2
<1>16. ASSUME NEW d \in Deployments, Exit(d) PROVE HasBinary(y)'
  BY <1>16 DEF Exit, scriptVars, fileVars, DeployInv, TypeOKDeploy, Supplied, HasBinary,
     Attended, Others, ScriptsOf, Underway, Uploads, Unpacks
<1>17. ASSUME NEW d \in Deployments, RemotesDone(d) PROVE HasBinary(y)'
  BY <1>17 DEF RemotesDone, scriptVars, fileVars, DeployInv, TypeOKDeploy, Supplied,
     HasBinary, Attended, Others, ScriptsOf, Underway, Uploads, Unpacks
<1>18. ASSUME NEW d \in Deployments, InstallLocally(d) PROVE HasBinary(y)'
  BY <1>18 DEF InstallLocally, scriptVars, fileVars, DeployInv, TypeOKDeploy, Supplied,
     HasBinary, Attended, Others, ScriptsOf, Underway, Uploads, Unpacks
<1>19. CASE UNCHANGED deployVars
  BY <1>19 DEF deployVars, scriptVars, fileVars, DeployInv, TypeOKDeploy, Supplied,
     HasBinary, Attended, Others, ScriptsOf, Underway, Uploads, Unpacks
<1> QED
  BY <1>1, <1>2, <1>3, <1>4, <1>5, <1>6, <1>7, <1>8, <1>9, <1>10, <1>11, <1>12, <1>13,
     <1>14, <1>15, <1>16, <1>17, <1>18, <1>19 DEF NextDeploy, HostStep

(* The same of its marker.                                                 *)
LEMMA EquippedKept ==
  ASSUME DeployInv, [NextDeploy]_deployVars
  PROVE  Equipped'
<1> SUFFICES ASSUME NEW x \in Deployments, NEW y \in Hosts,
                    step'[x][y] = "done", "agent" \notin disturbed'[x][y]
             PROVE  HasAgent(y)'
  BY DEF Equipped
<1>1. ASSUME NEW d \in Deployments, NEW remote \in SUBSET Hosts, Begin(d, remote) PROVE HasAgent(y)'
  BY <1>1 DEF Begin, scriptVars, fileVars, DeployInv, TypeOKDeploy, Equipped, HasAgent,
     Attended, Marked, Others, ScriptsOf, Underway, Uploads, Unpacks
<1>2. ASSUME NEW d \in Deployments, NEW h \in Hosts, Facts(d, h) PROVE HasAgent(y)'
  <2>1. At(d, h, "facts") /\ Same /\ UNCHANGED <<scriptVars, fileVars, disturbed, tainted>>
    BY <1>2 DEF Facts
  <2>2. CASE /\ mock[d]
           /\ Goto(d, h, "marker")
    BY <2>1, <2>2 DEF At, Same, Goto, scriptVars, fileVars, DeployInv, TypeOKDeploy,
       Equipped, HasAgent, Attended, Marked, Others, ScriptsOf, Underway, Uploads,
       Unpacks
  <2>3. CASE /\ ~mock[d]
           /\ Goto(d, h, "hash")
    BY <2>1, <2>3 DEF At, Same, Goto, scriptVars, fileVars, DeployInv, TypeOKDeploy,
       Equipped, HasAgent, Attended, Marked, Others, ScriptsOf, Underway, Uploads,
       Unpacks
  <2>4. CASE /\ Goto(d, h, "failed")
    BY <2>1, <2>4 DEF At, Same, Goto, scriptVars, fileVars, DeployInv, TypeOKDeploy,
       Equipped, HasAgent, Attended, Marked, Others, ScriptsOf, Underway, Uploads,
       Unpacks
  <2> QED
    BY <1>2, <2>2, <2>3, <2>4 DEF Facts
<1>3. ASSUME NEW d \in Deployments, NEW h \in Hosts, Hash(d, h) PROVE HasAgent(y)'
  <2>1. At(d, h, "hash") /\ Same
    BY <1>3 DEF Hash
  <2>2. CASE /\ binary[h] = "whole"
           /\ Goto(d, h, "marker")
           /\ Looked(d, h, "binary")
           /\ UNCHANGED <<scriptVars, fileVars, tainted>>
    <3>1. /\ \A e \in Deployments, i \in Hosts : e # d \/ i # h =>
               step'[e][i] = step[e][i] /\ disturbed'[e][i] = disturbed[e][i]
          /\ script[d][h] \notin Uploads \cup Unpacks
          /\ UNCHANGED <<mock, script, binary, marker, tainted>>
      BY <2>1, <2>2 DEF At, Same, Goto, Looked, scriptVars, fileVars, DeployInv, TypeOKDeploy,
         Attended
    <3>2. /\ "agent" \in disturbed'[d][h] <=> "agent" \in disturbed[d][h]
          /\ "binary" \notin disturbed'[d][h] =>
               \A e \in Deployments : e # d => script[e][h] \notin ScriptsOf("binary")
          /\ step[d][h] = "hash" /\ step'[d][h] = "marker"
      BY <2>1, <2>2 DEF At, Goto, Looked, Others, DeployInv, TypeOKDeploy
    <3> QED
      BY <2>1, <2>2, <3>1, <3>2 DEF DeployInv, Equipped, HasAgent, ScriptsOf, Uploads, Unpacks
  <2>3. CASE /\ Goto(d, h, "uploading")
           /\ Sends(d, h, "binary")
    BY <2>1, <2>3 DEF At, Same, Goto, Sends, Becomes, scriptVars, fileVars, DeployInv,
       TypeOKDeploy, Equipped, HasAgent, Attended, Marked, Others, ScriptsOf, Underway,
       Uploads, Unpacks
  <2> QED
    BY <1>3, <2>2, <2>3 DEF Hash
<1>4. ASSUME NEW d \in Deployments, NEW h \in Hosts, Verify(d, h) PROVE HasAgent(y)'
  <2>1. At(d, h, "verify") /\ Same /\ Looked(d, h, "binary") /\ UNCHANGED <<scriptVars, fileVars, tainted>>
    BY <1>4 DEF Verify
  <2>2. CASE /\ binary[h] = "whole"
           /\ Goto(d, h, "marker")
    <3>1. /\ \A e \in Deployments, i \in Hosts : e # d \/ i # h =>
               step'[e][i] = step[e][i] /\ disturbed'[e][i] = disturbed[e][i]
          /\ script[d][h] \notin Uploads \cup Unpacks
          /\ UNCHANGED <<mock, script, binary, marker, tainted>>
      BY <2>1, <2>2 DEF At, Same, Goto, Looked, scriptVars, fileVars, DeployInv, TypeOKDeploy,
         Attended
    <3>2. /\ "agent" \in disturbed'[d][h] <=> "agent" \in disturbed[d][h]
          /\ "binary" \notin disturbed'[d][h] =>
               \A e \in Deployments : e # d => script[e][h] \notin ScriptsOf("binary")
          /\ step[d][h] = "verify" /\ step'[d][h] = "marker"
      BY <2>1, <2>2 DEF At, Goto, Looked, Others, DeployInv, TypeOKDeploy
    <3> QED
      BY <2>1, <2>2, <3>1, <3>2 DEF DeployInv, Equipped, HasAgent, ScriptsOf, Uploads, Unpacks
  <2>3. CASE /\ Goto(d, h, "failed")
    <3>1. /\ \A e \in Deployments, i \in Hosts : e # d \/ i # h =>
               step'[e][i] = step[e][i] /\ disturbed'[e][i] = disturbed[e][i]
          /\ script[d][h] \notin Uploads \cup Unpacks
          /\ UNCHANGED <<mock, script, binary, marker, tainted>>
      BY <2>1, <2>3 DEF At, Same, Goto, Looked, scriptVars, fileVars, DeployInv, TypeOKDeploy,
         Attended
    <3>2. /\ "agent" \in disturbed'[d][h] <=> "agent" \in disturbed[d][h]
          /\ "binary" \notin disturbed'[d][h] =>
               \A e \in Deployments : e # d => script[e][h] \notin ScriptsOf("binary")
          /\ step[d][h] = "verify" /\ step'[d][h] = "failed"
      BY <2>1, <2>3 DEF At, Goto, Looked, Others, DeployInv, TypeOKDeploy
    <3> QED
      BY <2>1, <2>3, <3>1, <3>2 DEF DeployInv, Equipped, HasAgent, ScriptsOf, Uploads, Unpacks
  <2> QED
    BY <1>4, <2>2, <2>3 DEF Verify
<1>5. ASSUME NEW d \in Deployments, NEW h \in Hosts, Marker(d, h) PROVE HasAgent(y)'
  <2>1. At(d, h, "marker") /\ Same
    BY <1>5 DEF Marker
  <2>2. CASE /\ marker[h]
           /\ Goto(d, h, "done")
           /\ Looked(d, h, "agent")
           /\ UNCHANGED <<scriptVars, fileVars, tainted>>
    <3>1. /\ \A e \in Deployments, i \in Hosts : e # d \/ i # h =>
               step'[e][i] = step[e][i] /\ disturbed'[e][i] = disturbed[e][i]
          /\ script[d][h] \notin Uploads \cup Unpacks
          /\ UNCHANGED <<mock, script, binary, marker, tainted>>
      BY <2>1, <2>2 DEF At, Same, Goto, Looked, scriptVars, fileVars, DeployInv, TypeOKDeploy,
         Attended
    <3>2. /\ "binary" \in disturbed'[d][h] <=> "binary" \in disturbed[d][h]
          /\ "agent" \notin disturbed'[d][h] =>
               \A e \in Deployments : e # d => script[e][h] \notin ScriptsOf("agent")
          /\ step[d][h] = "marker" /\ step'[d][h] = "done"
      BY <2>1, <2>2 DEF At, Goto, Looked, Others, DeployInv, TypeOKDeploy
    <3> QED
      BY <2>1, <2>2, <3>1, <3>2 DEF DeployInv, Equipped, HasAgent, ScriptsOf, Uploads, Unpacks
  <2>3. CASE /\ Goto(d, h, "unpacking")
           /\ Sends(d, h, "agent")
    BY <2>1, <2>3 DEF At, Same, Goto, Sends, Becomes, scriptVars, fileVars, DeployInv,
       TypeOKDeploy, Equipped, HasAgent, Attended, Marked, Others, ScriptsOf, Underway,
       Uploads, Unpacks
  <2> QED
    BY <1>5, <2>2, <2>3 DEF Marker
<1>6. ASSUME NEW d \in Deployments, NEW h \in Hosts, ConnectionBreaks(d, h) PROVE HasAgent(y)'
  BY <1>6 DEF ConnectionBreaks, Goto, Same, scriptVars, fileVars, DeployInv,
     TypeOKDeploy, Equipped, HasAgent, Attended, Marked, Others, ScriptsOf, Underway,
     Uploads, Unpacks
<1>7. ASSUME NEW d \in Deployments, NEW h \in Hosts, OpenStaging(d, h) PROVE HasAgent(y)'
  BY <1>7 DEF OpenStaging, Same, scriptVars, fileVars, DeployInv, TypeOKDeploy,
     Equipped, HasAgent, Attended, Marked, Others, ScriptsOf, Underway, Uploads, Unpacks
<1>8. ASSUME NEW d \in Deployments, NEW h \in Hosts, CatEnds(d, h) PROVE HasAgent(y)'
  BY <1>8 DEF CatEnds, Becomes, Same, scriptVars, fileVars, DeployInv, TypeOKDeploy,
     Equipped, HasAgent, Attended, Marked, Others, ScriptsOf, Underway, Uploads, Unpacks
<1>9. ASSUME NEW d \in Deployments, NEW h \in Hosts, Install(d, h) PROVE HasAgent(y)'
  <2>1. PICK s \in {"verify", "failed"} : Heard(d, h, s)
    BY <1>9 DEF Install
  <2>2. /\ script[d][h] = "mv" /\ Ends(d, h) /\ Same
        /\ UNCHANGED <<agentDir, marker, disturbed, tainted>>
    BY <1>9 DEF Install
  <2>3. /\ \A e \in Deployments, i \in Hosts : e # d \/ i # h =>
              step'[e][i] = step[e][i] /\ script'[e][i] = script[e][i]
        /\ step'[d][h] \in {"uploading", "failed", "verify"} /\ script'[d][h] = "none"
    BY <2>1, <2>2 DEF Ends, Becomes, Heard, DeployInv, TypeOKDeploy, Attended, Uploads
  <2>4. /\ \A i \in Hosts : i # h => binary'[i] = binary[i]
        /\ mock' = mock
    BY <1>9 DEF Install, Same, DeployInv, TypeOKDeploy
  <2> QED
    BY <2>2, <2>3, <2>4 DEF DeployInv, Equipped, HasAgent, Unpacks
<1>10. ASSUME NEW d \in Deployments, NEW h \in Hosts, Remove(d, h) PROVE HasAgent(y)'
  BY <1>10 DEF Remove, Becomes, Same, scriptVars, fileVars, DeployInv, TypeOKDeploy,
     Equipped, HasAgent, Attended, Marked, Others, ScriptsOf, Underway, Uploads, Unpacks
<1>11. ASSUME NEW d \in Deployments, NEW h \in Hosts, Removed(d, h) PROVE HasAgent(y)'
  BY <1>11 DEF Removed, Same, scriptVars, fileVars, DeployInv, TypeOKDeploy, Equipped,
     HasAgent, Attended, Marked, Others, ScriptsOf, Underway, Uploads, Unpacks
<1>12. ASSUME NEW d \in Deployments, NEW h \in Hosts, Mkdir(d, h) PROVE HasAgent(y)'
  BY <1>12 DEF Mkdir, Becomes, Same, scriptVars, fileVars, DeployInv, TypeOKDeploy,
     Equipped, HasAgent, Attended, Marked, Others, ScriptsOf, Underway, Uploads, Unpacks
<1>13. ASSUME NEW d \in Deployments, NEW h \in Hosts, Unpack(d, h) PROVE HasAgent(y)'
  BY <1>13 DEF Unpack, Becomes, Same, scriptVars, fileVars, DeployInv, TypeOKDeploy,
     Equipped, HasAgent, Attended, Marked, Others, ScriptsOf, Underway, Uploads, Unpacks
<1>14. ASSUME NEW d \in Deployments, NEW h \in Hosts, Touch(d, h) PROVE HasAgent(y)'
  <2>1. /\ \A e \in Deployments, i \in Hosts : e # d \/ i # h =>
              /\ step'[e][i] = step[e][i] /\ script'[e][i] = script[e][i]
              /\ disturbed'[e][i] = disturbed[e][i]
        /\ script'[d][h] = "none"
        /\ \A i \in Hosts : i # h => marker'[i] = marker[i]
        /\ tainted' = tainted
    BY <1>14 DEF Touch, Ends, Becomes, Heard, Looked, DeployInv, TypeOKDeploy
  <2>2. /\ "agent" \notin disturbed'[d][h] =>
             \A e \in Deployments : e # d => script[e][h] \notin Unpacks
        /\ script[d][h] = "touch" /\ step[d][h] # "done"
    BY <1>14 DEF Touch, Looked, Others, ScriptsOf, DeployInv, TypeOKDeploy, Attended, Unpacks
  <2>3. step'[d][h] = "done" => agentDir[h] # "absent" /\ marker'[h]
    BY <1>14, <2>2 DEF Touch, Heard, DeployInv, TypeOKDeploy
  <2> QED
    BY <2>1, <2>2, <2>3 DEF DeployInv, Equipped, HasAgent, Unpacks
<1>15. ASSUME NEW d \in Deployments, NEW h \in Hosts, ScriptFails(d, h) PROVE HasAgent(y)'
  <2>1. CASE script[d][h] = "rm"
    BY <1>15, <2>1 DEF ScriptFails, Ends, Becomes, Same, Heard, scriptVars, fileVars,
       DeployInv, TypeOKDeploy, Equipped, HasAgent, Attended, Marked, Others, ScriptsOf,
       Underway, Uploads, Unpacks
  <2>2. CASE script[d][h] # "rm"
    BY <1>15, <2>2 DEF ScriptFails, Ends, Becomes, Same, Heard, scriptVars, fileVars,
       DeployInv, TypeOKDeploy, Equipped, HasAgent, Attended, Marked, Others, ScriptsOf,
       Underway, Uploads, Unpacks
  <2> QED
    BY <1>15, <2>1, <2>2
<1>16. ASSUME NEW d \in Deployments, Exit(d) PROVE HasAgent(y)'
  BY <1>16 DEF Exit, scriptVars, fileVars, DeployInv, TypeOKDeploy, Equipped, HasAgent,
     Attended, Marked, Others, ScriptsOf, Underway, Uploads, Unpacks
<1>17. ASSUME NEW d \in Deployments, RemotesDone(d) PROVE HasAgent(y)'
  BY <1>17 DEF RemotesDone, scriptVars, fileVars, DeployInv, TypeOKDeploy, Equipped,
     HasAgent, Attended, Marked, Others, ScriptsOf, Underway, Uploads, Unpacks
<1>18. ASSUME NEW d \in Deployments, InstallLocally(d) PROVE HasAgent(y)'
  BY <1>18 DEF InstallLocally, scriptVars, fileVars, DeployInv, TypeOKDeploy, Equipped,
     HasAgent, Attended, Marked, Others, ScriptsOf, Underway, Uploads, Unpacks
<1>19. CASE UNCHANGED deployVars
  BY <1>19 DEF deployVars, scriptVars, fileVars, DeployInv, TypeOKDeploy, Equipped,
     HasAgent, Attended, Marked, Others, ScriptsOf, Underway, Uploads, Unpacks
<1> QED
  BY <1>1, <1>2, <1>3, <1>4, <1>5, <1>6, <1>7, <1>8, <1>9, <1>10, <1>11, <1>12, <1>13,
     <1>14, <1>15, <1>16, <1>17, <1>18, <1>19 DEF NextDeploy, HostStep

(* A host that is done stays so.                                           *)
LEMMA RemoteFirstKept ==
  ASSUME DeployInv, [NextDeploy]_deployVars
  PROVE  RemoteFirst'
<1>1. ASSUME NEW d \in Deployments, NEW remote \in SUBSET Hosts, Begin(d, remote) PROVE RemoteFirst'
  BY <1>1 DEF Begin, scriptVars, fileVars, DeployInv, TypeOKDeploy, RemoteFirst,
     Underway, Uploads, Unpacks
<1>2. ASSUME NEW d \in Deployments, NEW h \in Hosts, Facts(d, h) PROVE RemoteFirst'
  <2>1. At(d, h, "facts") /\ Same /\ UNCHANGED <<scriptVars, fileVars, disturbed, tainted>>
    BY <1>2 DEF Facts
  <2>2. CASE /\ mock[d]
           /\ Goto(d, h, "marker")
    BY <2>1, <2>2 DEF At, Same, Goto, scriptVars, fileVars, DeployInv, TypeOKDeploy,
       RemoteFirst, Underway, Uploads, Unpacks
  <2>3. CASE /\ ~mock[d]
           /\ Goto(d, h, "hash")
    BY <2>1, <2>3 DEF At, Same, Goto, scriptVars, fileVars, DeployInv, TypeOKDeploy,
       RemoteFirst, Underway, Uploads, Unpacks
  <2>4. CASE /\ Goto(d, h, "failed")
    BY <2>1, <2>4 DEF At, Same, Goto, scriptVars, fileVars, DeployInv, TypeOKDeploy,
       RemoteFirst, Underway, Uploads, Unpacks
  <2> QED
    BY <1>2, <2>2, <2>3, <2>4 DEF Facts
<1>3. ASSUME NEW d \in Deployments, NEW h \in Hosts, Hash(d, h) PROVE RemoteFirst'
  <2>1. At(d, h, "hash") /\ Same
    BY <1>3 DEF Hash
  <2>2. CASE /\ binary[h] = "whole"
           /\ Goto(d, h, "marker")
           /\ Looked(d, h, "binary")
           /\ UNCHANGED <<scriptVars, fileVars, tainted>>
    BY <2>1, <2>2 DEF At, Same, Goto, Looked, scriptVars, fileVars, DeployInv,
       TypeOKDeploy, RemoteFirst, Underway, Uploads, Unpacks
  <2>3. CASE /\ Goto(d, h, "uploading")
           /\ Sends(d, h, "binary")
    BY <2>1, <2>3 DEF At, Same, Goto, Sends, Becomes, scriptVars, fileVars, DeployInv,
       TypeOKDeploy, RemoteFirst, Underway, Uploads, Unpacks
  <2> QED
    BY <1>3, <2>2, <2>3 DEF Hash
<1>4. ASSUME NEW d \in Deployments, NEW h \in Hosts, Verify(d, h) PROVE RemoteFirst'
  <2>1. At(d, h, "verify") /\ Same /\ Looked(d, h, "binary") /\ UNCHANGED <<scriptVars, fileVars, tainted>>
    BY <1>4 DEF Verify
  <2>2. CASE /\ binary[h] = "whole"
           /\ Goto(d, h, "marker")
    BY <2>1, <2>2 DEF At, Same, Goto, Looked, scriptVars, fileVars, DeployInv,
       TypeOKDeploy, RemoteFirst, Underway, Uploads, Unpacks
  <2>3. CASE /\ Goto(d, h, "failed")
    BY <2>1, <2>3 DEF At, Same, Goto, Looked, scriptVars, fileVars, DeployInv,
       TypeOKDeploy, RemoteFirst, Underway, Uploads, Unpacks
  <2> QED
    BY <1>4, <2>2, <2>3 DEF Verify
<1>5. ASSUME NEW d \in Deployments, NEW h \in Hosts, Marker(d, h) PROVE RemoteFirst'
  <2>1. At(d, h, "marker") /\ Same
    BY <1>5 DEF Marker
  <2>2. CASE /\ marker[h]
           /\ Goto(d, h, "done")
           /\ Looked(d, h, "agent")
           /\ UNCHANGED <<scriptVars, fileVars, tainted>>
    BY <2>1, <2>2 DEF At, Same, Goto, Looked, scriptVars, fileVars, DeployInv,
       TypeOKDeploy, RemoteFirst, Underway, Uploads, Unpacks
  <2>3. CASE /\ Goto(d, h, "unpacking")
           /\ Sends(d, h, "agent")
    BY <2>1, <2>3 DEF At, Same, Goto, Sends, Becomes, scriptVars, fileVars, DeployInv,
       TypeOKDeploy, RemoteFirst, Underway, Uploads, Unpacks
  <2> QED
    BY <1>5, <2>2, <2>3 DEF Marker
<1>6. ASSUME NEW d \in Deployments, NEW h \in Hosts, ConnectionBreaks(d, h) PROVE RemoteFirst'
  BY <1>6 DEF ConnectionBreaks, Goto, Same, scriptVars, fileVars, DeployInv,
     TypeOKDeploy, RemoteFirst, Underway, Uploads, Unpacks
<1>7. ASSUME NEW d \in Deployments, NEW h \in Hosts, OpenStaging(d, h) PROVE RemoteFirst'
  BY <1>7 DEF OpenStaging, Same, scriptVars, fileVars, DeployInv, TypeOKDeploy,
     RemoteFirst, Underway, Uploads, Unpacks
<1>8. ASSUME NEW d \in Deployments, NEW h \in Hosts, CatEnds(d, h) PROVE RemoteFirst'
  BY <1>8 DEF CatEnds, Becomes, Same, scriptVars, fileVars, DeployInv, TypeOKDeploy,
     RemoteFirst, Underway, Uploads, Unpacks
<1>9. ASSUME NEW d \in Deployments, NEW h \in Hosts, Install(d, h) PROVE RemoteFirst'
  <2>1. PICK s \in {"verify", "failed"} : Heard(d, h, s)
    BY <1>9 DEF Install
  <2>2. /\ script[d][h] = "mv" /\ Ends(d, h) /\ Same
        /\ UNCHANGED <<agentDir, marker, disturbed, tainted>>
    BY <1>9 DEF Install
  <2> QED
    BY <1>9, <2>1, <2>2 DEF Ends, Becomes, Same, Heard, DeployInv,
       TypeOKDeploy, RemoteFirst
<1>10. ASSUME NEW d \in Deployments, NEW h \in Hosts, Remove(d, h) PROVE RemoteFirst'
  BY <1>10 DEF Remove, Becomes, Same, scriptVars, fileVars, DeployInv, TypeOKDeploy,
     RemoteFirst, Underway, Uploads, Unpacks
<1>11. ASSUME NEW d \in Deployments, NEW h \in Hosts, Removed(d, h) PROVE RemoteFirst'
  BY <1>11 DEF Removed, Same, scriptVars, fileVars, DeployInv, TypeOKDeploy,
     RemoteFirst, Underway, Uploads, Unpacks
<1>12. ASSUME NEW d \in Deployments, NEW h \in Hosts, Mkdir(d, h) PROVE RemoteFirst'
  BY <1>12 DEF Mkdir, Becomes, Same, scriptVars, fileVars, DeployInv, TypeOKDeploy,
     RemoteFirst, Underway, Uploads, Unpacks
<1>13. ASSUME NEW d \in Deployments, NEW h \in Hosts, Unpack(d, h) PROVE RemoteFirst'
  BY <1>13 DEF Unpack, Becomes, Same, scriptVars, fileVars, DeployInv, TypeOKDeploy,
     RemoteFirst, Underway, Uploads, Unpacks
<1>14. ASSUME NEW d \in Deployments, NEW h \in Hosts, Touch(d, h) PROVE RemoteFirst'
  <2>1. CASE agentDir[h] # "absent"
    BY <1>14, <2>1 DEF Touch, Ends, Becomes, Same, Heard, Looked, scriptVars, fileVars,
       DeployInv, TypeOKDeploy, RemoteFirst, Underway, Uploads, Unpacks
  <2>2. CASE agentDir[h] = "absent"
    BY <1>14, <2>2 DEF Touch, Ends, Becomes, Same, Heard, Looked, scriptVars, fileVars,
       DeployInv, TypeOKDeploy, RemoteFirst, Underway, Uploads, Unpacks
  <2> QED
    BY <1>14, <2>1, <2>2
<1>15. ASSUME NEW d \in Deployments, NEW h \in Hosts, ScriptFails(d, h) PROVE RemoteFirst'
  <2>1. CASE script[d][h] = "rm"
    BY <1>15, <2>1 DEF ScriptFails, Ends, Becomes, Same, Heard, scriptVars, fileVars,
       DeployInv, TypeOKDeploy, RemoteFirst, Underway, Uploads, Unpacks
  <2>2. CASE script[d][h] # "rm"
    BY <1>15, <2>2 DEF ScriptFails, Ends, Becomes, Same, Heard, scriptVars, fileVars,
       DeployInv, TypeOKDeploy, RemoteFirst, Underway, Uploads, Unpacks
  <2> QED
    BY <1>15, <2>1, <2>2
<1>16. ASSUME NEW d \in Deployments, Exit(d) PROVE RemoteFirst'
  BY <1>16 DEF Exit, scriptVars, fileVars, DeployInv, TypeOKDeploy, RemoteFirst,
     Underway, Uploads, Unpacks
<1>17. ASSUME NEW d \in Deployments, RemotesDone(d) PROVE RemoteFirst'
  BY <1>17 DEF RemotesDone, scriptVars, fileVars, DeployInv, TypeOKDeploy, RemoteFirst,
     Underway, Uploads, Unpacks
<1>18. ASSUME NEW d \in Deployments, InstallLocally(d) PROVE RemoteFirst'
  BY <1>18 DEF InstallLocally, scriptVars, fileVars, DeployInv, TypeOKDeploy,
     RemoteFirst, Underway, Uploads, Unpacks
<1>19. CASE UNCHANGED deployVars
  BY <1>19 DEF deployVars, scriptVars, fileVars, DeployInv, TypeOKDeploy, RemoteFirst,
     Underway, Uploads, Unpacks
<1> QED
  BY <1>1, <1>2, <1>3, <1>4, <1>5, <1>6, <1>7, <1>8, <1>9, <1>10, <1>11, <1>12, <1>13,
     <1>14, <1>15, <1>16, <1>17, <1>18, <1>19 DEF NextDeploy, HostStep


(* The invariant holds in every state.                                     *)
LEMMA DeployInductive == DeploySpec => []DeployInv
<1>1. InitDeploy => DeployInv
  <2>1. ASSUME InitDeploy PROVE TypeOKDeploy
    BY <2>1 DEF InitDeploy, Everywhere, TypeOKDeploy, Contents
  <2>2. ASSUME InitDeploy PROVE Attended /\ Supplied /\ Equipped /\ RemoteFirst
    BY <2>2 DEF InitDeploy, Everywhere, Attended, Supplied, Equipped, RemoteFirst,
         Uploads, Unpacks
  <2>3. ASSUME InitDeploy PROVE Marked
    BY <2>3 DEF InitDeploy, Everywhere, Marked, Unpacks
  <2> QED
    BY <2>1, <2>2, <2>3 DEF DeployInv
<1>2. DeployInv /\ [NextDeploy]_deployVars => DeployInv'
  BY DeployTypeKept, AttendedKept, MarkedKept, SuppliedKept, EquippedKept,
     RemoteFirstKept DEF DeployInv
<1> QED
  BY <1>1, <1>2, PTL DEF DeploySpec

(* The variables of a deployment keep their types.                         *)
THEOREM DeployTypeCorrect == DeploySpec => []TypeOKDeploy
<1>1. DeployInv => TypeOKDeploy
  BY DEF DeployInv
<1> QED
  BY DeployInductive, <1>1, PTL

(* deploy.ts 17-20, 273-276: what a deployment that succeeded names is     *)
(* there and whole on every host, whatever earlier ones left behind or     *)
(* left running: the binary unless somebody else's upload of one was under *)
(* way when the deployment last hashed it, or began later; the agent       *)
(* unless the same is true of an unpack, or the directory dates from a     *)
(* time when two unpacks crossed or a removal broke off.                   *)
THEOREM SuccessRunnable == DeploySpec => []DeployedRunnable
<1>1. DeployInv => DeployedRunnable
  <2> SUFFICES ASSUME DeployInv, NEW d \in Deployments, phase[d] = "done", NEW h \in targets[d]
               PROVE  /\ \/ "agent" \in disturbed[d][h] \/ h \in tainted
                         \/ marker[h] /\ agentDir[h] = "whole"
                      /\ mock[d] \/ "binary" \in disturbed[d][h] \/ binary[h] = "whole"
    BY DEF DeployedRunnable
  <2>1. step[d][h] = "done" /\ h \in Hosts
    BY DEF DeployInv, RemoteFirst, TypeOKDeploy
  <2>2. mock[d] \/ "binary" \in disturbed[d][h] \/ binary[h] = "whole"
    BY <2>1 DEF DeployInv, Supplied, HasBinary
  <2>3. "agent" \in disturbed[d][h] \/ HasAgent(h)
    BY <2>1 DEF DeployInv, Equipped
  <2>4. HasAgent(h) /\ h \notin tainted => marker[h] /\ agentDir[h] = "whole"
    BY <2>1 DEF DeployInv, Marked, HasAgent, Unpacks
  <2> QED
    BY <2>2, <2>3, <2>4
<1> QED
  BY DeployInductive, <1>1, PTL
=============================================================================
