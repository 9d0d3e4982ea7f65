----------------------------- MODULE ViewerRecord -----------------------------
(***************************************************************************)
(* One viewer's lines folded into one record (viewer/rollup.ts), as the    *)
(* controller does for every viewer_line it parses (viewer/contract.ts).   *)
(*                                                                         *)
(* Kept: what the summary repeats, what the trailing window holds, and     *)
(* what the outcome and the peer judgement are made from.  Left out: the   *)
(* distributions (fetch time, buffer), the process figures, the feed index *)
(* and the text of errors, which decide nothing.  Time is in ticks.        *)
(***************************************************************************)
EXTENDS Integers, Sequences, FiniteSets

CONSTANT Trailing  \* TRAILING_STALL_WINDOW_S, in ticks

ASSUME TrailingAssumption == Trailing \in Nat \ {0}

NoWindow == [items |-> <<>>, media |-> 0, stall |-> 0]
NoRecord ==
  [joined |-> FALSE, held |-> FALSE, segments |-> 0, mediaS |-> 0, stalls |-> 0,
   stalledS |-> 0, window |-> NoWindow, started |-> FALSE, bodyFailures |-> 0,
   secondStrikes |-> 0, skipped |-> 0, gapsLocal |-> 0, gapsPublisher |-> 0,
   peersLast |-> 0, peersMax |-> 0, errors |-> 0, malformed |-> 0, unknown |-> 0,
   summarySeen |-> FALSE, finalized |-> FALSE, exit |-> "none", lost |-> FALSE]

Larger(a, b) == IF a > b THEN a ELSE b
AddIf(condition, n) == IF condition THEN n ELSE 0

(* ------------------------------ pushWindow() ----------------------------- *)

(* A sum over the segments, as the number of the ticks they have: with a   *)
(* fold it could be computed as well, but not reasoned about.              *)
Sum(items, part) == Cardinality(UNION {{i} \X (1 .. items[i][part]) : i \in DOMAIN items})

First(w, k) == SubSeq(w.items, 1, k)
Without(w, k) ==
  [items |-> SubSeq(w.items, k + 1, Len(w.items)),
   media |-> w.media - Sum(First(w, k), "media"),
   stall |-> w.stall - Sum(First(w, k), "stall")]

(* The condition of the loop, when the k-th segment is the next to leave. *)
MayLeave(w, k) ==
  /\ k < Len(w.items)
  /\ w.media - Sum(First(w, k), "media") >= Trailing

(* A plausible slip: letting one segment leave for each that comes. *)
SlideOnce(w) == Without(w, AddIf(MayLeave(w, 1), 1))

(* Segments leave at the front while what stays still covers the window;   *)
(* one always stays.                                                       *)
Slide(w) ==
  Without(w, CHOOSE k \in 0 .. Len(w.items) - 1 :
               (\A j \in 1 .. k : MayLeave(w, j)) /\ ~MayLeave(w, k + 1))

PushWindow(w, mediaS, stallS) ==
  Slide([items |-> Append(w.items, [media |-> mediaS, stall |-> stallS]),
         media |-> w.media + mediaS, stall |-> w.stall + stallS])

(* -------------------------------- apply() -------------------------------- *)

WithPeers(r, peers) ==
  [r EXCEPT !.peersLast = peers, !.peersMax = Larger(@, peers)]

(* A plausible slip: counting the stalls whose length is written. *)
ApplySegmentByLength(r, line) ==
  WithPeers([r EXCEPT !.segments = @ + 1, !.mediaS = @ + line.segmentS,
                      !.stalls = @ + AddIf(line.stallS > 0, 1),
                      !.stalledS = @ + line.stallS, !.started = TRUE,
                      !.window = PushWindow(@, line.segmentS, line.stallS)],
            line.peers)

(* The viewers of this contract do not send `playing`: absent is playing.  *)
ApplySegment(r, line) ==
  WithPeers([r EXCEPT !.segments = @ + 1, !.mediaS = @ + line.segmentS,
                      !.stalls = @ + AddIf(line.stalled, 1),
                      !.stalledS = @ + AddIf(line.stalled, line.stallS),
                      !.started = TRUE,
                      !.window = PushWindow(@, line.segmentS,
                                            AddIf(line.stalled, line.stallS))],
            line.peers)

(* The viewer's own totals replace the folded ones, except the failures.   *)
ApplySummary(r, line) ==
  [r EXCEPT !.summarySeen = TRUE, !.segments = line.segments, !.mediaS = line.mediaS,
            !.stalls = line.stalls, !.stalledS = line.stalledS,
            !.skipped = line.skipped, !.finalized = line.finalized,
            !.bodyFailures = Larger(@, line.bodyFailures),
            !.peersLast = line.peers]

(* parseViewerEvent() and apply(): a line that is no JSON object with `t`  *)
(* and `ev` is counted, an `ev` nobody knows is counted and changes        *)
(* nothing.                                                                *)
Apply(r, line) ==
  CASE line.ev = "peers" -> WithPeers(r, line.peers)
    [] line.ev = "held" -> [WithPeers(r, line.peers) EXCEPT !.held = TRUE]
    [] line.ev = "released" -> [WithPeers(r, line.peers) EXCEPT !.held = FALSE]
    [] line.ev = "joined" -> [r EXCEPT !.joined = TRUE]
    [] line.ev = "segment" -> ApplySegment(r, line)
    [] line.ev = "body_failure" ->
         [r EXCEPT !.bodyFailures = @ + 1, !.secondStrikes = @ + AddIf(line.strike = 2, 1)]
    [] line.ev = "gap" ->
         [r EXCEPT !.gapsLocal = @ + AddIf(line.source = "local", 1),
                   !.gapsPublisher = @ + AddIf(line.source # "local", 1)]
    [] line.ev = "skip" -> [r EXCEPT !.skipped = @ + Larger(1, line.to - line.from)]
    [] line.ev = "error" -> [r EXCEPT !.errors = @ + 1]
    [] line.ev = "summary" -> ApplySummary(r, line)
    [] line.ev = "malformed" -> [r EXCEPT !.malformed = @ + 1]
    [] line.ev = "unknown" -> [r EXCEPT !.unknown = @ + 1]
    [] OTHER -> r

NoteExit(r, exit) == [r EXCEPT !.exit = exit]
NoteAgentLost(r) == [r EXCEPT !.lost = TRUE]

(* ------------------------------- classify() ------------------------------ *)

(* An exit is "clean", "crashed" (a code or a signal nobody asked for) or  *)
(* "asked" for.  Every viewer here is a live one.                          *)
StalledOut(r) == r.mediaS > 0 /\ 4 * r.stalledS >= r.mediaS

(* A plausible slip: letting the loss of the machine outdo an exit. *)
OutcomeLostFirst(r) ==
  IF r.lost THEN "agent_lost"
  ELSE IF r.exit = "none" THEN "running"
  ELSE IF r.exit = "crashed" THEN "crashed"
  ELSE IF ~r.joined THEN "never_joined"
  ELSE IF StalledOut(r) THEN "stalled_out"
  ELSE IF r.exit = "asked" THEN "killed" ELSE "completed"

Outcome(r) ==
  IF r.exit = "none" THEN IF r.lost THEN "agent_lost" ELSE "running"
  ELSE IF r.exit = "crashed" THEN "crashed"
  ELSE IF ~r.joined THEN "never_joined"
  ELSE IF StalledOut(r) THEN "stalled_out"
  ELSE IF r.exit = "asked" THEN "killed" ELSE "completed"
=============================================================================
