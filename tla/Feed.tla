--------------------------------- MODULE Feed ---------------------------------
(***************************************************************************)
(* What a viewer may rely on in a stream's feed (publisher/feed.ts 4-24,   *)
(* publisher/manifest.ts 11-13): updates are numbered from zero without a  *)
(* gap and are never rewritten, consecutive manifests shed segments at the *)
(* front and grow by one at the back, and one that ends the playlist lists *)
(* the stream from its start and is the last.                              *)
(*                                                                         *)
(* A manifest is the first and last segment it lists, and whether it ends. *)
(***************************************************************************)
EXTENDS Integers, FiniteSets

CONSTANTS Window  \* segments a live manifest may list

VARIABLE feed     \* the updates in the network, by index

Manifest == [first: Nat \ {0}, last: Nat \ {0}, end: BOOLEAN]
Head == Cardinality(DOMAIN feed)
Latest == feed[Head - 1]

Appended(m) == [i \in DOMAIN feed \cup {Head} |-> IF i = Head THEN m ELSE feed[i]]

Live(m) == ~m.end /\ m.first <= m.last /\ m.last - m.first < Window

Follows(m) ==
  IF Head = 0
    THEN m.first = 1 /\ m.last = 1
    ELSE /\ ~Latest.end
         /\ m.last = Latest.last + 1
         /\ m.first \in {Latest.first, Latest.first + 1}

Append(m) == Live(m) /\ Follows(m) /\ feed' = Appended(m)

Close ==
  /\ Head > 0 /\ ~Latest.end
  /\ feed' = Appended([first |-> 1, last |-> Latest.last, end |-> TRUE])

Init == feed = [i \in {} |-> 0]

Next == (\E m \in [first: 1 .. Head + 1, last: 1 .. Head + 1, end: {FALSE}] : Append(m))
        \/ Close

Spec == Init /\ [][Next]_feed
=============================================================================
