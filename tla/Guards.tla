-------------------------------- MODULE Guards --------------------------------
(***************************************************************************)
(* What a run is judged by: the guards of one machine (metrics/guard.ts),  *)
(* the peers its viewers hold (metrics/peers.ts) and the shares of the     *)
(* cohort (metrics/aggregate.ts), over samples and viewers reduced to what *)
(* these tell apart.  A sample is when it was taken and whether the load   *)
(* was above the threshold.  A viewer is when it started and joined the    *)
(* stream; whether it never had the peers it was told to hold, holds them  *)
(* or has lost them; how it plays, once it has media; how it exited, and   *)
(* whether it had had the time to get its peers by then.  Memory, jitter   *)
(* and the clock, judged in the same ways, are left out.                   *)
(***************************************************************************)
EXTENDS Integers, Sequences, FiniteSets, SequencesExt

CONSTANTS
  SustainSamples,     \* GUARD_SUSTAIN_SAMPLES
  PeerJoinAllowance,  \* PEER_JOIN_ALLOWANCE_MS
  MinStartInterval    \* admission.minStartIntervalMs

ASSUME GuardsAssumption ==
  {SustainSamples, PeerJoinAllowance, MinStartInterval} \subseteq Nat \ {0}

None == -1

(* More, or less, than p percent of n. *)
Above(part, n, p) == n > 0 /\ 100 * part > p * n
Below(part, n, p) == n > 0 /\ 100 * part < p * n
Those(viewers, Test(_)) == {i \in DOMAIN viewers : Test(viewers[i])}

(* sustained(): so many samples in a row. *)
Sustained(samples) ==
  \E first \in 1 .. Len(samples) - SustainSamples + 1 :
    \A i \in first .. first + SustainSamples - 1 : samples[i].high

(* Judged from where the measurement began. *)
CpuHeadroom(samples, measuredFrom) ==
  Sustained(SelectSeq(samples, LAMBDA s : s.at >= measuredFrom))

(* summarisePeerAttainment(): a viewer that never had its peers is judged  *)
(* once it has had the time, joined or not; a crashed one is not.          *)
Joined(v) == v.joined # None
HadItsChance(v, now) ==
  \/ v.peers # "few"
  \/ IF v.exit = "none" THEN now - v.start >= PeerJoinAllowance ELSE v.hadTime
Judged(viewers, now) ==
  Those(viewers, LAMBDA v : v.exit # "crashed" /\ HadItsChance(v, now))
Holding(viewers, now) == {i \in Judged(viewers, now) : viewers[i].peers = "held"}

PeerTarget(viewers, now) ==
  Above(Cardinality(Judged(viewers, now) \ Holding(viewers, now)),
        Cardinality(Judged(viewers, now)), 10)

(* Starts closer than half the interval. *)
StaggerAdherence(viewers) ==
  Above(Cardinality({i \in 2 .. Len(viewers) :
                       2 * (viewers[i].start - viewers[i - 1].start) < MinStartInterval}),
        Len(viewers) - 1, 5)

(* evaluateGuards(): the names of those that are breached.  A mode that    *)
(* looks for the limit is not told off for reaching it, and without        *)
(* admission control there is no stagger to keep.                          *)
Breached(samples, measuredFrom, viewers, now, advisory, disabled) ==
  {name \in {"cpu_headroom", "peer_target", "stagger_adherence"} :
     \/ name = "cpu_headroom" /\ CpuHeadroom(samples, measuredFrom)
     \/ name = "peer_target" /\ ~advisory /\ PeerTarget(viewers, now)
     \/ name = "stagger_adherence" /\ ~disabled /\ StaggerAdherence(viewers)}

(* cohortKpis() and the stop condition: too many of those with media       *)
(* degraded, too few of all joined, too few holding their peers.           *)
Failed(viewers) ==
  Those(viewers, LAMBDA v : v.exit = "crashed" \/ (v.exit # "none" /\ ~Joined(v)))
Breaching(viewers, now) ==
  \/ Above(Cardinality(Those(viewers, LAMBDA v : v.plays = "badly")),
           Cardinality(Those(viewers, LAMBDA v : v.plays # "nothing")), 10)
  \/ Below(Cardinality(Those(viewers, Joined)), Len(viewers), 95)
  \/ Below(Cardinality(Holding(viewers, now)), Cardinality(Judged(viewers, now)), 90)
=============================================================================
