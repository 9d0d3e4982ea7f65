---------------------------- MODULE FleetRunProofs ----------------------------
(***************************************************************************)
(* Proofs about FleetRun, for any fleet, with any order of breaks, losses  *)
(* and messages: what the controller believes of a machine is what that    *)
(* machine said last, and it counts every start once.  With it, that a     *)
(* run that ends as finished has nobody left where all starts were counted,*)
(* that a cohort released without a caveat had settled, that each machine  *)
(* is the host the agent is proved to be, and that no wait of the          *)
(* controller's is left to its timeout when nothing more can happen.       *)
(*                                                                         *)
(* How a total is divided is FleetSharesProofs's: a cohort run is one of   *)
(* the runs FleetShares divides for.                                       *)
(***************************************************************************)
EXTENDS FleetRun, FiniteSetTheorems, SequenceTheorems, TLAPS

-----------------------------------------------------------------------------
(* What a machine is asked to hold.                                        *)

Division == INSTANCE FleetSharesProofs WITH
              Weights <- {Weight[m] : m \in Machines}, OwnLimits <- {Total},
              Ceiling <- Total, Spare <- 0, MaxStarted <- Total,
              mode <- "none", weight <- Weight, cap <- [m \in Machines |-> Cap(m)],
              live <- Live, asked <- Total,
              target <- [m \in Machines |-> link[m].target],
              totalStarts <- [m \in Machines |-> link[m].target],
              started <- [m \in Machines |-> link[m].started]

(* The instance's operators are this module's.                             *)
LEMMA SameDivision ==
  ASSUME NEW total, NEW wt, NEW S
  PROVE  /\ Division!Shares(total, wt, S) = Shares(total, wt, S)
         /\ Division!SumOver(wt, S) = SumOver(wt, S)
         /\ Division!IsFiniteSet(S) = IsFiniteSet(S)
<1>1. \A f, T : Division!SumOver(f, T) = SumOver(f, T)
  BY DEF Division!SumOver, Division!Units, SumOver, Units, Division!Cardinality, Cardinality
<1>2. \A i : Division!Quota(total, wt, S, i) = Quota(total, wt, S, i)
  BY <1>1 DEF Division!Quota, Quota
<1>3. \A i : Division!Fraction(total, wt, S, i) = Fraction(total, wt, S, i)
  BY <1>1 DEF Division!Fraction, Fraction
<1>4. \A i, j : Division!Precedes(total, wt, S, i, j) = Precedes(total, wt, S, i, j)
  BY <1>3 DEF Division!Precedes, Precedes
<1>5. Division!Leftover(total, wt, S) = Leftover(total, wt, S)
  BY <1>1, <1>2 DEF Division!Leftover, Leftover
<1>6. \A T : Division!Cardinality(T) = Cardinality(T)
  BY DEF Division!Cardinality, Cardinality
<1>7. Division!IsFiniteSet(S) = IsFiniteSet(S)
  BY DEF Division!IsFiniteSet, IsFiniteSet
<1> QED
  BY <1>1, <1>2, <1>4, <1>5, <1>6, <1>7 DEF Division!Shares, Shares

(* What FleetShares assumes holds here, of any part of the fleet.          *)
LEMMA Divisible ==
  ASSUME NEW S \in SUBSET Machines
  PROVE  /\ S \in SUBSET Nat /\ Division!IsFiniteSet(S) /\ IsFiniteSet(S)
         /\ \A i \in S : Weight[i] \in Nat \ {0}
         /\ Division!IsFiniteSet(Machines) /\ Machines \subseteq Nat
         /\ {Weight[m] : m \in Machines} \subseteq Nat \ {0}
         /\ Total \in Nat /\ {Total} \subseteq Nat /\ 0 \in Nat
<1>1. IsFiniteSet(S) /\ IsFiniteSet(Machines)
  BY RunAssumption, FS_Subset
<1>2. Division!IsFiniteSet(S) /\ Division!IsFiniteSet(Machines)
  BY <1>1, SameDivision
<1> QED
  BY <1>1, <1>2, RunAssumption

(* The units of one machine.                                               *)
LEMMA OneMachine ==
  ASSUME NEW x, NEW n \in Nat
  PROVE  Cardinality({x} \X (1 .. n)) = n
<1>1. IsFiniteSet({x}) /\ Cardinality({x}) = 1
  BY FS_Singleton
<1>2. IsFiniteSet(1 .. n) /\ Cardinality(1 .. n) = n
  BY FS_Interval
<1>3. Cardinality({x} \X (1 .. n)) = 1 * n
  BY <1>1, <1>2, FS_Product
<1> QED
  BY <1>3

(* No machine is asked for more than there is.                             *)
LEMMA OneShare ==
  ASSUME NEW S \in SUBSET Machines, NEW m \in S
  PROVE  Shares(Total, Weight, S)[m] \in 0 .. Total
<1> DEFINE f == Shares(Total, Weight, S)
<1>1. /\ Division!SumOver(Division!Shares(Total, Weight, S), S) = Total
      /\ \A i \in S : /\ Division!Quota(Total, Weight, S, i) \in Nat
                      /\ Division!Shares(Total, Weight, S)[i] \in
                            Division!Quota(Total, Weight, S, i) ..
                              Division!Quota(Total, Weight, S, i) + 1
  BY Divisible, RunAssumption, Division!Partitioned
<1>2. \A i \in S : f[i] \in Nat
  <2> TAKE i \in S
  <2> DEFINE q == Division!Quota(Total, Weight, S, i)
  <2>1. q \in Nat /\ f[i] \in q .. q + 1
    BY <1>1, SameDivision
  <2> HIDE DEF q, f
  <2> QED
    BY <2>1
<1>3. SumOver(f, S) = Total
  BY <1>1, SameDivision
<1> HIDE DEF f
<1>4. SumOver(f, {m}) <= SumOver(f, S)
  <2>1. \A i \in {m} : f[i] \in Nat /\ f[i] <= f[i]
    BY <1>2
  <2>2. Division!SumOver(f, {m}) <= Division!SumOver(f, S)
    BY <1>2, <2>1, Divisible, RunAssumption, Division!SumLess
  <2> QED
    BY <2>2, SameDivision
<1>5. SumOver(f, {m}) = f[m]
  <2>1. Units(f, {m}) = {m} \X (1 .. f[m])
    BY DEF Units
  <2> QED
    BY <1>2, <2>1, OneMachine DEF SumOver
<1> QED
  BY <1>2, <1>3, <1>4, <1>5 DEF f

(* Machines of one weight are asked for no less when others are gone.      *)
LEMMA CapKept ==
  ASSUME NEW S \in SUBSET Machines, NEW m \in S, NEW a \in Nat \ {0},
         \A i \in Machines : Weight[i] = a
  PROVE  Cap(m) <= Shares(Total, Weight, S)[m]
<1>1. Division!Shares(Total, Weight, Machines)[m] <= Division!Shares(Total, Weight, S)[m]
  BY Divisible, RunAssumption, Division!FewerGetMore
<1> QED
  BY <1>1, SameDivision DEF Cap

(* There are finitely many viewers.                                        *)
LEMMA Few ==
  ASSUME NEW S \in SUBSET Viewers
  PROVE  IsFiniteSet(S) /\ Cardinality(S) \in Nat
<1>1. IsFiniteSet(0 .. Total - 1)
  BY RunAssumption, FS_Interval
<1>2. IsFiniteSet(Viewers)
  BY <1>1, RunAssumption, FS_Product DEF Viewers
<1> QED
  BY <1>2, FS_Subset, FS_CardinalityType

-----------------------------------------------------------------------------
(* The inductive invariant.                                                *)

States == [active : Nat, exhausted : BOOLEAN]
Whats == {"ready", "started", "held", "exited", "state", "collected"}
Reports == [what : Whats, about : SUBSET Viewers, state : States]
Links == [ready : BOOLEAN, lost : BOOLEAN, target : Nat, started : Nat,
          active : Nat, exhausted : BOOLEAN, collected : BOOLEAN]
Hosts == [up : BOOLEAN, prepared : BOOLEAN, target : 0 .. Total, budget : 0 .. Total,
          started : 0 .. Total, stopping : BOOLEAN, released : BOOLEAN]
Lives == {"unborn", "dialing", "parked", "ended", "died"}
Orders == [what : {"target", "release", "stop", "collect"}, n : 0 .. Total]

Typed ==
  /\ pc \in Places
  /\ link \in [Machines -> Links]
  /\ aborted \in BOOLEAN
  /\ host \in [Machines -> Hosts]
  /\ proc \in [Viewers -> Lives]
  /\ last \in [Machines -> States]
  /\ up \in [Machines -> Seq(Reports)]
  /\ down \in [Machines -> Seq(Orders)]

(* A machine the controller has written off is down, and stays down.       *)
LostIsDown(m) == link[m].lost => ~host[m].up

(* What a machine reported last is what it is.                             *)
LastIsTrue(m) ==
  host[m].up => /\ last[m].active = Cardinality(Running(m))
                /\ last[m].exhausted => host[m].started >= host[m].budget

(* The last message on its way carries that report, and when there is none *)
(* the controller has it.                                                  *)
Told(m) ==
  host[m].up =>
    IF up[m] = <<>>
      THEN link[m].active = last[m].active /\ link[m].exhausted = last[m].exhausted
      ELSE up[m][Len(up[m])].state = last[m]

(* The starts on their way are those the controller has not counted, one   *)
(* message for each, in order.                                             *)
Carries(message, m, k) == message.what = "started" /\ message.about = {<<m, k>>}
Uncounted(m) == link[m].started .. host[m].started - 1

Numbered(m) ==
  host[m].up =>
    /\ link[m].started <= host[m].started
    /\ \A i \in 1 .. Len(up[m]) :
         up[m][i].what = "started" => \E k \in Uncounted(m) : Carries(up[m][i], m, k)
    /\ \A k \in Uncounted(m) : \E i \in 1 .. Len(up[m]) : Carries(up[m][i], m, k)
    /\ \A i, j \in 1 .. Len(up[m]) : \A k, l \in Uncounted(m) :
         i < j /\ Carries(up[m][i], m, k) /\ Carries(up[m][j], m, l) => k < l

(* Only viewers with numbers given out were ever born.                     *)
Born(m) ==
  host[m].up => \A i \in 0 .. Total - 1 : proc[<<m, i>>] # "unborn" => i < host[m].started

Believed(m) == LostIsDown(m) /\ LastIsTrue(m) /\ Told(m) /\ Numbered(m) /\ Born(m)

IInv == Typed /\ \A m \in Machines : Believed(m)

-----------------------------------------------------------------------------
(* Steps, seen from one machine.                                           *)

SameHost(n) ==
  /\ host'[n] = host[n] /\ last'[n] = last[n] /\ up'[n] = up[n]
  /\ \A v \in On(n) : proc'[v] = proc[v]

SameBelief(n) ==
  /\ link'[n].lost = link[n].lost /\ link'[n].started = link[n].started
  /\ link'[n].active = link[n].active /\ link'[n].exhausted = link[n].exhausted

(* A machine's step leaves the others alone, and tells what it changed.    *)
AgentStep(m) ==
  /\ host[m].up /\ host'[m].up /\ UNCHANGED <<link, pc, aborted, because>>
  /\ \A n \in Machines \ {m} : SameHost(n)
  /\ last'[m] = Now(m)' \/ (last'[m] = last[m] /\ Now(m)' = Now(m))
  /\ \/ /\ up'[m] = up[m] /\ last'[m] = last[m]
        /\ host'[m].started = host[m].started
     \/ \E message \in Reports :
          /\ up'[m] = Append(up[m], message) /\ message.state = last'[m]
          /\ \/ message.what # "started" /\ host'[m].started = host[m].started
             \/ /\ Carries(message, m, host[m].started)
                /\ host'[m].started = host[m].started + 1
  /\ \A i \in 0 .. Total - 1 :
       proc'[<<m, i>>] # "unborn" =>
         proc[<<m, i>>] # "unborn"
           \/ (i = host[m].started /\ host'[m].started = host[m].started + 1)

(* The same messages and the same counts are numbered the same.            *)
LEMMA SameNumbers ==
  ASSUME NEW n \in Machines, Numbered(n), host'[n].up => host[n].up,
         up'[n] = up[n], host'[n].started = host[n].started,
         link'[n].started = link[n].started
  PROVE  Numbered(n)'
<1>1. Uncounted(n)' = Uncounted(n)
  BY DEF Uncounted
<1> QED
  BY <1>1 DEF Numbered

(* Nothing happened to this machine.                                       *)
LEMMA Unmoved ==
  ASSUME Typed, NEW n \in Machines, Believed(n), SameHost(n), SameBelief(n)
  PROVE  Believed(n)' /\ Running(n)' = Running(n)
<1>1. Running(n)' = Running(n)
  BY DEF SameHost, Running, On
<1>2. LostIsDown(n)'
  BY DEF Believed, LostIsDown, SameHost, SameBelief
<1>3. LastIsTrue(n)'
  BY <1>1 DEF Believed, LastIsTrue, SameHost
<1>4. Told(n)'
  BY DEF Believed, Told, SameHost, SameBelief
<1>5. Numbered(n)'
  BY SameNumbers DEF Believed, SameHost, SameBelief
<1>6. Born(n)'
  <2>1. \A i \in 0 .. Total - 1 : <<n, i>> \in On(n)
    BY DEF On, Viewers
  <2> QED
    BY <2>1 DEF Believed, Born, SameHost
<1> QED
  BY <1>1, <1>2, <1>3, <1>4, <1>5, <1>6 DEF Believed

(* A message more on its way, with a number more when it says so.          *)
LEMMA OneMessageMore ==
  ASSUME Typed, NEW m \in Machines, Numbered(m), host[m].up, link' = link,
         NEW message \in Reports, up'[m] = Append(up[m], message),
         host'[m].started \in Nat,
         \/ message.what # "started" /\ host'[m].started = host[m].started
         \/ /\ Carries(message, m, host[m].started)
            /\ host'[m].started = host[m].started + 1
  PROVE  Numbered(m)'
<1> DEFINE u == up[m]
           w == up'[m]
           lo == link[m].started
           hi == host[m].started
           top == host'[m].started
<1>1. /\ u \in Seq(Reports) /\ Len(u) \in Nat /\ Len(w) = Len(u) + 1
      /\ \A i \in 1 .. Len(u) : w[i] = u[i]
      /\ w[Len(u) + 1] = message
  BY DEF Typed
<1>2. lo \in Nat /\ hi \in Nat /\ top \in Nat /\ lo <= hi /\ top \in {hi, hi + 1}
  BY DEF Typed, Numbered, Links, Hosts
<1>3. /\ \A i \in 1 .. Len(u) :
           u[i].what = "started" => \E k \in lo .. hi - 1 : Carries(u[i], m, k)
      /\ \A k \in lo .. hi - 1 : \E i \in 1 .. Len(u) : Carries(u[i], m, k)
      /\ \A i, j \in 1 .. Len(u) : \A k, l \in lo .. hi - 1 :
           i < j /\ Carries(u[i], m, k) /\ Carries(u[j], m, l) => k < l
  BY DEF Numbered, Uncounted
<1>4. \A x, k, l : Carries(x, m, k) /\ Carries(x, m, l) => k = l
  <2> TAKE x, k, l
  <2> HAVE Carries(x, m, k) /\ Carries(x, m, l)
  <2>1. {<<m, k>>} = {<<m, l>>}
    BY DEF Carries
  <2>2. <<m, k>> = <<m, l>>
    BY <2>1
  <2> QED
    BY <2>2
<1>5. \A x, k : Carries(x, m, k) => x.what = "started"
  BY DEF Carries
<1>6. \/ message.what # "started" /\ top = hi
      \/ Carries(message, m, hi) /\ top = hi + 1
  OBVIOUS
<1> HIDE DEF u, w, lo, hi, top
<1>7. \A i \in 1 .. Len(w) :
        w[i].what = "started" => \E k \in lo .. top - 1 : Carries(w[i], m, k)
  BY <1>1, <1>2, <1>3, <1>6
<1>8. \A k \in lo .. top - 1 : \E i \in 1 .. Len(w) : Carries(w[i], m, k)
  <2> TAKE k \in lo .. top - 1
  <2>1. CASE k \in lo .. hi - 1
    BY <1>1, <1>3, <2>1
  <2>2. CASE k = hi /\ top = hi + 1
    BY <1>1, <1>2, <1>6, <2>2
  <2> QED
    BY <1>2, <2>1, <2>2
<1>9. \A i, j \in 1 .. Len(w) : \A k, l \in lo .. top - 1 :
        i < j /\ Carries(w[i], m, k) /\ Carries(w[j], m, l) => k < l
  <2> TAKE i, j \in 1 .. Len(w)
  <2> TAKE k, l \in lo .. top - 1
  <2> HAVE i < j /\ Carries(w[i], m, k) /\ Carries(w[j], m, l)
  <2>1. i \in 1 .. Len(u) /\ Carries(u[i], m, k)
    BY <1>1
  <2>2. k \in lo .. hi - 1
    BY <1>2, <1>3, <1>4, <1>5, <2>1
  <2>3. CASE j \in 1 .. Len(u)
    <3>1. Carries(u[j], m, l)
      BY <1>1, <2>3
    <3>2. l \in lo .. hi - 1
      BY <1>2, <1>3, <1>4, <1>5, <2>3, <3>1
    <3> QED
      BY <1>3, <2>1, <2>2, <2>3, <3>1, <3>2
  <2>4. CASE j = Len(u) + 1
    <3>1. Carries(message, m, l)
      BY <1>1, <2>4
    <3>2. l = hi
      BY <1>4, <1>5, <1>6, <3>1
    <3> QED
      BY <1>2, <2>2, <3>2
  <2>5. j \in 1 .. Len(u) \/ j = Len(u) + 1
    <3>1. Len(u) \in Nat /\ Len(w) = Len(u) + 1
      BY <1>1
    <3> QED
      BY <3>1
  <2> QED
    BY <2>3, <2>4, <2>5
<1> QED
  <2>1. link[m].started = lo /\ host'[m].started = top /\ up'[m] = w
    BY DEF lo, top, w
  <2>2. link'[m].started = lo
    BY <2>1
  <2>3. lo <= top
    BY <1>2
  <2>4. Uncounted(m)' = lo .. top - 1
    BY <2>1, <2>2 DEF Uncounted
  <2> QED
    BY <1>7, <1>8, <1>9, <2>1, <2>2, <2>3, <2>4 DEF Numbered

(* A machine's own step keeps what is believed of it.                      *)
LEMMA AgentKeeps ==
  ASSUME Typed, Typed', NEW m \in Machines, Believed(m), AgentStep(m)
  PROVE  Believed(m)'
<1>1. LostIsDown(m)'
  BY DEF Believed, LostIsDown, AgentStep
<1>2. LastIsTrue(m)'
  <2>1. CASE last'[m] = Now(m)'
    <3>1. /\ Now(m)'.active = Cardinality(Running(m)')
          /\ Now(m)'.exhausted = (host'[m].started >= host'[m].budget)
      BY DEF Now
    <3> QED
      BY <2>1, <3>1 DEF LastIsTrue
  <2>2. CASE last'[m] = last[m] /\ Now(m)' = Now(m)
    <3>1. /\ Now(m)'.active = Cardinality(Running(m)')
          /\ Now(m)'.exhausted = (host'[m].started >= host'[m].budget)
          /\ Now(m).active = Cardinality(Running(m))
          /\ Now(m).exhausted = (host[m].started >= host[m].budget)
      BY DEF Now
    <3> QED
      BY <2>2, <3>1 DEF LastIsTrue, Believed, AgentStep
  <2> QED
    BY <2>1, <2>2 DEF AgentStep
<1>3. Told(m)' /\ Numbered(m)'
  <2>1. CASE up'[m] = up[m] /\ last'[m] = last[m] /\ host'[m].started = host[m].started
    BY <2>1, SameNumbers DEF Told, Believed, AgentStep
  <2>2. CASE \E message \in Reports :
          /\ up'[m] = Append(up[m], message) /\ message.state = last'[m]
          /\ \/ message.what # "started" /\ host'[m].started = host[m].started
             \/ /\ Carries(message, m, host[m].started)
                /\ host'[m].started = host[m].started + 1
    <3>1. PICK message \in Reports :
          /\ up'[m] = Append(up[m], message) /\ message.state = last'[m]
          /\ \/ message.what # "started" /\ host'[m].started = host[m].started
             \/ /\ Carries(message, m, host[m].started)
                /\ host'[m].started = host[m].started + 1
      BY <2>2
    <3>2. Told(m)'
      <4>1. up[m] \in Seq(Reports)
        BY DEF Typed
      <4>2. up'[m] # <<>> /\ up'[m][Len(up'[m])] = message
        BY <3>1, <4>1
      <4> QED
        BY <3>1, <4>2 DEF Told
    <3>3. Numbered(m)'
      <4>1. Numbered(m) /\ host[m].up /\ link' = link
        BY DEF Believed, AgentStep
      <4>2. host'[m].started \in Nat
        BY DEF Typed, Hosts
      <4> QED
        BY <3>1, <4>1, <4>2, OneMessageMore
    <3> QED
      BY <3>2, <3>3
  <2> QED
    BY <2>1, <2>2 DEF AgentStep
<1>4. Born(m)'
  <2>1. host[m].started \in Nat
    BY DEF Typed, Hosts
  <2>2. host'[m].started \in {host[m].started, host[m].started + 1}
    BY DEF AgentStep
  <2> SUFFICES ASSUME NEW i \in 0 .. Total - 1, proc'[<<m, i>>] # "unborn"
               PROVE  i < host'[m].started
    BY DEF Born
  <2>3. CASE proc[<<m, i>>] # "unborn"
    <3>1. i < host[m].started
      BY <2>3 DEF Believed, Born, AgentStep
    <3> QED
      BY <2>1, <2>2, <3>1
  <2>4. CASE i = host[m].started /\ host'[m].started = host[m].started + 1
    BY <2>1, <2>4
  <2> QED
    BY <2>3, <2>4 DEF AgentStep
<1> QED
  BY <1>1, <1>2, <1>3, <1>4 DEF Believed

-----------------------------------------------------------------------------
(* The machines' actions.                                                  *)

(* Counting viewers gives a report.                                        *)
LEMMA NowTyped ==
  ASSUME NEW m \in Machines
  PROVE  /\ Now(m) \in States /\ Now(m)' \in States
         /\ Now(m)'.active = Cardinality(Running(m)')
         /\ Now(m)'.exhausted = (host'[m].started >= host'[m].budget)
<1>1. Running(m) \in SUBSET Viewers /\ Running(m)' \in SUBSET Viewers
  BY DEF Running, On
<1>2. Cardinality(Running(m)) \in Nat /\ Cardinality(Running(m)') \in Nat
  BY <1>1, Few
<1> QED
  BY <1>2 DEF Now, States

(* A message with the report after it.                                     *)
LEMMA Said ==
  ASSUME Typed, NEW m \in Machines, NEW what \in Whats, NEW about \in SUBSET Viewers,
         Say(m, what, about)
  PROVE  LET message == [what |-> what, about |-> about, state |-> Now(m)'] IN
         /\ last' \in [Machines -> States] /\ up' \in [Machines -> Seq(Reports)]
         /\ last'[m] = Now(m)' /\ message \in Reports
         /\ up'[m] = Append(up[m], message)
         /\ \A n \in Machines \ {m} : last'[n] = last[n] /\ up'[n] = up[n]
<1> DEFINE message == [what |-> what, about |-> about, state |-> Now(m)']
<1>1. Now(m)' \in States
  BY NowTyped
<1>2. message \in Reports
  BY <1>1 DEF Reports
<1>3. /\ last' = [last EXCEPT ![m] = Now(m)']
      /\ up' = [up EXCEPT ![m] = Append(up[m], message)]
  BY DEF Say
<1> HIDE DEF message
<1>4. Append(up[m], message) \in Seq(Reports)
  BY <1>2 DEF Typed
<1>5. last' \in [Machines -> States] /\ up' \in [Machines -> Seq(Reports)]
  BY <1>1, <1>3, <1>4 DEF Typed
<1>6. /\ last'[m] = Now(m)' /\ up'[m] = Append(up[m], message)
      /\ \A n \in Machines \ {m} : last'[n] = last[n] /\ up'[n] = up[n]
  BY <1>3 DEF Typed
<1> QED
  BY <1>2, <1>5, <1>6 DEF message

(* The report alone.                                                       *)
LEMMA Reported ==
  ASSUME Typed, NEW m \in Machines, Report(m)
  PROVE  /\ last' \in [Machines -> States] /\ up' \in [Machines -> Seq(Reports)]
         /\ last'[m] = Now(m)'
         /\ \/ up'[m] = up[m] /\ last'[m] = last[m]
            \/ \E message \in Reports :
                 /\ message.what = "state" /\ message.state = last'[m]
                 /\ up'[m] = Append(up[m], message)
         /\ \A n \in Machines \ {m} : last'[n] = last[n] /\ up'[n] = up[n]
<1>1. CASE Now(m)' = last[m] /\ UNCHANGED <<last, up>>
  BY <1>1 DEF Typed
<1>2. CASE Say(m, "state", {})
  <2> DEFINE message == [what |-> "state", about |-> {}, state |-> Now(m)']
  <2>1. "state" \in Whats /\ {} \in SUBSET Viewers
    BY DEF Whats
  <2>2. /\ last' \in [Machines -> States] /\ up' \in [Machines -> Seq(Reports)]
        /\ last'[m] = Now(m)' /\ message \in Reports
        /\ up'[m] = Append(up[m], message)
        /\ \A n \in Machines \ {m} : last'[n] = last[n] /\ up'[n] = up[n]
    BY <1>2, <2>1, Said
  <2>3. message.what = "state" /\ message.state = last'[m]
    BY <2>2
  <2> QED
    BY <2>2, <2>3
<1> QED
  BY <1>1, <1>2 DEF Report

(* What a machine is left with after one of its actions.                   *)
Acted(m) == Typed' /\ AgentStep(m)

(* The machine is ready, and says so.                                      *)
LEMMA ReadyActs ==
  ASSUME Typed, NEW m \in Machines, AgentReady(m)
  PROVE  Acted(m)
<1> DEFINE message == [what |-> "ready", about |-> {}, state |-> last[m]]
<1>1. /\ host[m].up /\ host' = [host EXCEPT ![m].prepared = TRUE]
      /\ up' = [up EXCEPT ![m] = Append(up[m], message)]
      /\ UNCHANGED <<controllerVars, proc, last, down>>
  BY DEF AgentReady
<1>2. message \in Reports /\ message.state = last[m] /\ message.what = "ready"
  BY DEF Typed, Reports, Whats
<1> HIDE DEF message
<1>3. up' \in [Machines -> Seq(Reports)] /\ up'[m] = Append(up[m], message)
  <2>1. Append(up[m], message) \in Seq(Reports)
    BY <1>2 DEF Typed
  <2> QED
    BY <1>1, <2>1 DEF Typed
<1>4. host' \in [Machines -> Hosts]
  BY <1>1 DEF Typed, Hosts
<1>5. /\ host'[m].up /\ host'[m].started = host[m].started
      /\ host'[m].budget = host[m].budget
  BY <1>1 DEF Typed, Hosts
<1>6. Running(m)' = Running(m)
  BY <1>1 DEF Running, controllerVars
<1>7. Now(m)' = Now(m)
  BY <1>5, <1>6 DEF Now
<1>8. \A n \in Machines \ {m} : SameHost(n)
  BY <1>1 DEF SameHost, Typed
<1>9. Typed'
  BY <1>1, <1>3, <1>4 DEF Typed, controllerVars
<1> QED
  <2>1. last'[m] = last[m] /\ UNCHANGED <<link, pc, aborted, because, proc>>
    BY <1>1 DEF controllerVars
  <2> QED
    BY <1>1, <1>2, <1>3, <1>5, <1>7, <1>8, <1>9, <2>1 DEF AgentStep, Acted

(* A sampler tick reports at most.                                         *)
LEMMA TickActs ==
  ASSUME Typed, NEW m \in Machines, Tick(m)
  PROVE  Acted(m)
<1>1. host[m].up /\ UNCHANGED <<controllerVars, host, proc, down>> /\ Report(m)
  BY DEF Tick
<1>2. /\ last' \in [Machines -> States] /\ up' \in [Machines -> Seq(Reports)]
      /\ last'[m] = Now(m)'
      /\ \/ up'[m] = up[m] /\ last'[m] = last[m]
         \/ \E message \in Reports :
              /\ message.what = "state" /\ message.state = last'[m]
              /\ up'[m] = Append(up[m], message)
      /\ \A n \in Machines \ {m} : last'[n] = last[n] /\ up'[n] = up[n]
  BY <1>1, Reported
<1>3. Typed'
  BY <1>1, <1>2 DEF Typed, controllerVars
<1>4. \A n \in Machines \ {m} : SameHost(n)
  BY <1>1, <1>2 DEF SameHost
<1> QED
  BY <1>1, <1>2, <1>3, <1>4 DEF AgentStep, Acted, controllerVars

(* What a message from the controller does to a machine.                   *)
LEMMA Handled ==
  ASSUME Typed, NEW m \in Machines, HandleMessage(m)
  PROVE  LET message == Head(down[m]) IN
         /\ message \in Orders /\ host' \in [Machines -> Hosts]
         /\ \A n \in Machines \ {m} : host'[n] = host[n]
         /\ host'[m].up = host[m].up /\ host'[m].started = host[m].started
         /\ message.what = "target" =>
              /\ host'[m].target = message.n /\ host'[m].budget = message.n
              /\ host'[m].stopping = host[m].stopping
         /\ message.what # "target" =>
              /\ host'[m].target = host[m].target /\ host'[m].budget = host[m].budget
              /\ host'[m].stopping \in {host[m].stopping, TRUE}
<1> DEFINE message == Head(down[m])
           h == host[m]
<1>1. message \in Orders /\ h \in Hosts
  BY DEF Typed, HandleMessage
<1>2. host' = [host EXCEPT ![m] =
          CASE message.what = "target" ->
                 [h EXCEPT !.target = message.n, !.budget = message.n]
            [] message.what = "release" -> [h EXCEPT !.released = TRUE]
            [] message.what = "stop" -> [h EXCEPT !.stopping = TRUE]
            [] message.what = "collect" -> h]
  BY DEF HandleMessage
<1>3. host \in [Machines -> Hosts] /\ h = host[m]
  BY DEF Typed
<1> HIDE DEF message, h
<1>4. /\ message.what \in {"target", "release", "stop", "collect"}
      /\ message.n \in 0 .. Total
  BY <1>1 DEF Orders
<1>5. \A n \in Machines \ {m} : host'[n] = host[n]
  BY <1>2, <1>3
<1>6. CASE message.what = "target"
  <2>1. host'[m] = [h EXCEPT !.target = message.n, !.budget = message.n]
    BY <1>2, <1>3, <1>6
  <2>2. host'[m] \in Hosts
    BY <1>1, <1>4, <2>1 DEF Hosts
  <2>3. host' \in [Machines -> Hosts]
    BY <1>2, <1>3, <2>2
  <2> QED
    BY <1>1, <1>3, <1>5, <1>6, <2>1, <2>3 DEF message, Hosts
<1>7. CASE message.what = "release"
  <2>1. host'[m] = [h EXCEPT !.released = TRUE]
    BY <1>2, <1>3, <1>7
  <2>2. host'[m] \in Hosts
    BY <1>1, <2>1 DEF Hosts
  <2>3. host' \in [Machines -> Hosts]
    BY <1>2, <1>3, <2>2
  <2> QED
    BY <1>1, <1>3, <1>5, <1>7, <2>1, <2>3 DEF message, Hosts
<1>8. CASE message.what = "stop"
  <2>1. host'[m] = [h EXCEPT !.stopping = TRUE]
    BY <1>2, <1>3, <1>8
  <2>2. host'[m] \in Hosts
    BY <1>1, <2>1 DEF Hosts
  <2>3. host' \in [Machines -> Hosts]
    BY <1>2, <1>3, <2>2
  <2> QED
    BY <1>1, <1>3, <1>5, <1>8, <2>1, <2>3 DEF message, Hosts
<1>9. CASE message.what = "collect"
  <2>1. host'[m] = h
    BY <1>2, <1>3, <1>9
  <2>2. host' \in [Machines -> Hosts]
    BY <1>2, <1>3, <2>1
  <2> QED
    BY <1>1, <1>3, <1>5, <1>9, <2>1, <2>2 DEF message, Hosts
<1> QED
  BY <1>4, <1>6, <1>7, <1>8, <1>9

(* A message handled changes this machine, and is answered by a report.    *)
LEMMA MessageActs ==
  ASSUME Typed, NEW m \in Machines, HandleMessage(m)
  PROVE  Acted(m)
<1> DEFINE order == Head(down[m])
<1>1. /\ order \in Orders /\ host' \in [Machines -> Hosts]
      /\ \A n \in Machines \ {m} : host'[n] = host[n]
      /\ host'[m].up = host[m].up /\ host'[m].started = host[m].started
  BY Handled
<1>2. /\ host[m].up /\ down[m] # <<>> /\ down' = [down EXCEPT ![m] = Tail(@)]
      /\ UNCHANGED <<controllerVars, proc>>
      /\ Say(m, "collected", {}) \/ Report(m)
  BY DEF HandleMessage
<1>3. "collected" \in Whats /\ {} \in SUBSET Viewers
  BY DEF Whats
<1>4. /\ last' \in [Machines -> States] /\ up' \in [Machines -> Seq(Reports)]
      /\ last'[m] = Now(m)'
      /\ \/ up'[m] = up[m] /\ last'[m] = last[m]
         \/ \E message \in Reports :
              /\ message.what # "started" /\ message.state = last'[m]
              /\ up'[m] = Append(up[m], message)
      /\ \A n \in Machines \ {m} : last'[n] = last[n] /\ up'[n] = up[n]
  <2>1. CASE Say(m, "collected", {})
    <3> DEFINE message == [what |-> "collected", about |-> {}, state |-> Now(m)']
    <3>1. /\ last' \in [Machines -> States] /\ up' \in [Machines -> Seq(Reports)]
          /\ last'[m] = Now(m)' /\ message \in Reports
          /\ up'[m] = Append(up[m], message)
          /\ \A n \in Machines \ {m} : last'[n] = last[n] /\ up'[n] = up[n]
      BY <1>3, <2>1, Said
    <3>2. message.what # "started" /\ message.state = last'[m]
      BY <3>1
    <3> QED
      BY <3>1, <3>2
  <2>2. CASE Report(m)
    BY <2>2, Reported
  <2> QED
    BY <1>2, <2>1, <2>2
<1>5. down' \in [Machines -> Seq(Orders)]
  <2>1. Tail(down[m]) \in Seq(Orders)
    BY <1>2 DEF Typed
  <2> QED
    BY <1>2, <2>1 DEF Typed
<1>6. Typed'
  BY <1>1, <1>2, <1>4, <1>5 DEF Typed, controllerVars
<1>7. \A n \in Machines \ {m} : SameHost(n)
  BY <1>1, <1>2, <1>4 DEF SameHost
<1> QED
  BY <1>1, <1>2, <1>4, <1>6, <1>7 DEF AgentStep, Acted, controllerVars

(* One viewer more runs, with the next number, and its start is on its way.*)
LEMMA LaunchActs ==
  ASSUME Typed, NEW m \in Machines, Launch(m)
  PROVE  /\ Acted(m)
         /\ <<m, host[m].started>> \in Viewers
         /\ Running(m)' = Running(m) \union {<<m, host[m].started>>}
         /\ last'[m] = Now(m)'
         /\ \E message \in Reports : /\ up'[m] = Append(up[m], message)
                                     /\ message.state = last'[m]
<1> DEFINE v == <<m, host[m].started>>
           message == [what |-> "started", about |-> {v}, state |-> Now(m)']
<1>1. /\ host[m].up /\ host[m].started < host[m].budget
      /\ host' = [host EXCEPT ![m].started = @ + 1]
      /\ proc' = [proc EXCEPT ![v] = "dialing"]
      /\ UNCHANGED <<controllerVars, down>>
      /\ Say(m, "started", {v})
  BY DEF Launch
<1>2. v \in Viewers
  <2>1. host[m].started \in 0 .. Total /\ host[m].budget \in 0 .. Total
    BY DEF Typed, Hosts
  <2>2. host[m].started \in 0 .. Total - 1
    BY <1>1, <2>1, RunAssumption
  <2> QED
    BY <2>2 DEF Viewers
<1>3. "started" \in Whats /\ {v} \in SUBSET Viewers
  BY <1>2 DEF Whats
<1>4. /\ last' \in [Machines -> States] /\ up' \in [Machines -> Seq(Reports)]
      /\ last'[m] = Now(m)' /\ message \in Reports
      /\ up'[m] = Append(up[m], message)
      /\ \A n \in Machines \ {m} : last'[n] = last[n] /\ up'[n] = up[n]
  BY <1>1, <1>3, Said
<1>5. Carries(message, m, host[m].started) /\ message.state = last'[m]
  BY <1>4 DEF Carries
<1>6. /\ host' \in [Machines -> Hosts] /\ host'[m].up
      /\ host'[m].started = host[m].started + 1
      /\ \A n \in Machines \ {m} : host'[n] = host[n]
  <2>1. host[m].started + 1 \in 0 .. Total
    BY <1>1, RunAssumption DEF Typed, Hosts
  <2> QED
    BY <1>1, <2>1 DEF Typed, Hosts
<1> HIDE DEF v, message
<1>7. /\ proc' \in [Viewers -> Lives] /\ proc'[v] = "dialing"
      /\ \A w \in Viewers \ {v} : proc'[w] = proc[w]
  BY <1>1, <1>2 DEF Typed, Lives
<1>8. v[1] = m /\ v[2] = host[m].started /\ v = <<m, host[m].started>>
  BY DEF v
<1>9. \A n \in Machines \ {m} : SameHost(n)
  <2>1. \A n \in Machines \ {m} : \A w \in On(n) : w \in Viewers \ {v}
    BY <1>8 DEF On
  <2> QED
    BY <1>4, <1>6, <1>7, <2>1 DEF SameHost
<1>10. \A i \in 0 .. Total - 1 :
         proc'[<<m, i>>] # "unborn" => proc[<<m, i>>] # "unborn" \/ i = host[m].started
  <2> TAKE i \in 0 .. Total - 1
  <2>1. <<m, i>> \in Viewers
    BY DEF Viewers
  <2>2. <<m, i>> = v => i = host[m].started
    BY <1>8
  <2> QED
    BY <1>7, <2>1, <2>2
<1>11. Typed'
  BY <1>1, <1>4, <1>6, <1>7 DEF Typed, controllerVars
<1>12. Running(m)' = Running(m) \union {v}
  <2>1. v \in On(m)
    BY <1>2, <1>8 DEF On
  <2>2. \A w \in On(m) : w # v => proc'[w] = proc[w]
    BY <1>7 DEF On
  <2> QED
    BY <1>7, <2>1, <2>2 DEF Running
<1>13. AgentStep(m)
  BY <1>1, <1>4, <1>5, <1>6, <1>9, <1>10 DEF AgentStep, controllerVars
<1> QED
  BY <1>2, <1>4, <1>5, <1>8, <1>11, <1>12, <1>13 DEF Acted

(* What a viewer does is reported by its machine.                          *)
LEMMA ViewerActs ==
  ASSUME Typed, NEW v \in Viewers, ViewerParks(v) \/ ViewerEnds(v)
  PROVE  /\ v[1] \in Machines /\ v \in On(v[1])
         /\ Acted(v[1]) /\ host' = host /\ down' = down
         /\ v \in Running(v[1])
         /\ Running(v[1])' \in {Running(v[1]), Running(v[1]) \ {v}}
         /\ last'[v[1]] = Now(v[1])'
         /\ \E message \in Reports : /\ up'[v[1]] = Append(up[v[1]], message)
                                     /\ message.state = last'[v[1]]
<1> DEFINE m == v[1]
<1>1. m \in Machines /\ v \in On(m)
  BY DEF Viewers, On
<1>2. /\ host[m].up /\ UNCHANGED <<controllerVars, host, down>>
      /\ proc[v] \in {"dialing", "parked"}
      /\ \/ proc' = [proc EXCEPT ![v] = "parked"]
         \/ proc' = [proc EXCEPT ![v] = IF proc[v] = "parked" THEN "ended" ELSE "died"]
      /\ Say(m, "held", {v}) \/ Say(m, "exited", {v})
  BY DEF ViewerParks, ViewerEnds
<1>3. PICK what \in {"held", "exited"} : Say(m, what, {v})
  BY <1>2
<1> DEFINE message == [what |-> what, about |-> {v}, state |-> Now(m)']
<1>4. what \in Whats /\ {v} \in SUBSET Viewers /\ what # "started"
  BY DEF Whats
<1>5. /\ last' \in [Machines -> States] /\ up' \in [Machines -> Seq(Reports)]
      /\ last'[m] = Now(m)' /\ message \in Reports
      /\ up'[m] = Append(up[m], message)
      /\ \A n \in Machines \ {m} : last'[n] = last[n] /\ up'[n] = up[n]
  <2> HIDE DEF m
  <2> QED
    BY <1>1, <1>3, <1>4, Said
<1>6. message.state = last'[m] /\ message.what # "started"
  BY <1>4, <1>5
<1> HIDE DEF message
<1>7. /\ proc' \in [Viewers -> Lives] /\ proc'[v] \in {"parked", "ended", "died"}
      /\ \A w \in Viewers \ {v} : proc'[w] = proc[w]
  BY <1>2 DEF Typed, Lives
<1>8. \A n \in Machines \ {m} : SameHost(n)
  <2>1. \A n \in Machines \ {m} : \A w \in On(n) : w \in Viewers \ {v}
    BY DEF On
  <2> QED
    BY <1>2, <1>5, <1>7, <2>1 DEF SameHost
<1>9. \A i \in 0 .. Total - 1 : proc'[<<m, i>>] # "unborn" => proc[<<m, i>>] # "unborn"
  <2> TAKE i \in 0 .. Total - 1
  <2>1. <<m, i>> \in Viewers
    BY <1>1 DEF Viewers
  <2> QED
    BY <1>2, <1>7, <2>1
<1>10. Typed'
  BY <1>2, <1>5, <1>7 DEF Typed, controllerVars
<1>11. AgentStep(m)
  BY <1>2, <1>5, <1>6, <1>8, <1>9 DEF AgentStep, controllerVars
<1>12. v \in Running(m)
  BY <1>1, <1>2 DEF Running
<1>13. Running(m)' \in {Running(m), Running(m) \ {v}}
  <2>1. \A w \in On(m) : w # v => proc'[w] = proc[w]
    BY <1>7 DEF On
  <2>2. CASE proc'[v] = "parked"
    BY <1>1, <1>12, <2>1, <2>2 DEF Running
  <2>3. CASE proc'[v] \in {"ended", "died"}
    BY <1>1, <2>1, <2>3 DEF Running
  <2> QED
    BY <1>7, <2>2, <2>3
<1> QED
  BY <1>1, <1>2, <1>5, <1>6, <1>10, <1>11, <1>12, <1>13 DEF Acted

-----------------------------------------------------------------------------
(* The channels' actions.                                                  *)

(* A machine that breaks is down; the others do not notice.                *)
LEMMA BreakActs ==
  ASSUME Typed, NEW m \in Machines, Break(m)
  PROVE  /\ Typed' /\ ~host'[m].up /\ UNCHANGED controllerVars
         /\ \A n \in Machines \ {m} : SameHost(n) /\ down'[n] = down[n]
<1>1. /\ host' = [host EXCEPT ![m] = [Idle EXCEPT !.up = FALSE]]
      /\ proc' = [v \in Viewers |-> IF v \in On(m) THEN "ended" ELSE proc[v]]
      /\ last' = [last EXCEPT ![m] = NoReport]
      /\ down' = [down EXCEPT ![m] = <<>>]
      /\ UNCHANGED controllerVars
  BY DEF Break
<1>2. PICK k \in 0 .. Len(up[m]) : up' = [up EXCEPT ![m] = SubSeq(up[m], 1, k)]
  BY DEF Break
<1>3. [Idle EXCEPT !.up = FALSE] \in Hosts /\ [Idle EXCEPT !.up = FALSE].up = FALSE
  <2>1. 0 \in 0 .. Total
    BY RunAssumption
  <2>2. Idle \in Hosts
    BY <2>1 DEF Idle, Hosts
  <2> QED
    BY <2>2 DEF Hosts
<1>4. host' \in [Machines -> Hosts] /\ ~host'[m].up
  BY <1>1, <1>3 DEF Typed
<1>5. proc' \in [Viewers -> Lives]
  BY <1>1 DEF Typed, Lives
<1>6. last' \in [Machines -> States]
  BY <1>1 DEF Typed, States, NoReport
<1>7. up' \in [Machines -> Seq(Reports)]
  <2>1. up[m] \in Seq(Reports)
    BY DEF Typed
  <2>2. SubSeq(up[m], 1, k) \in Seq(Reports)
    BY <2>1, SubSeqProperties
  <2> QED
    BY <1>2, <2>2 DEF Typed
<1>8. down' \in [Machines -> Seq(Orders)]
  BY <1>1 DEF Typed
<1>9. Typed'
  BY <1>1, <1>4, <1>5, <1>6, <1>7, <1>8 DEF Typed, controllerVars
<1>10. \A n \in Machines \ {m} : SameHost(n) /\ down'[n] = down[n]
  <2>1. \A n \in Machines \ {m} : \A v \in On(n) : v \in Viewers /\ v \notin On(m)
    BY DEF On
  <2> QED
    BY <1>1, <1>2, <2>1 DEF SameHost, Typed
<1> QED
  BY <1>1, <1>4, <1>9, <1>10

(* A message is taken off, and what it says is believed.                   *)
LEMMA DeliverActs ==
  ASSUME Typed, NEW m \in Machines, Deliver(m)
  PROVE  /\ Typed'
         /\ UNCHANGED <<pc, aborted, because, host, proc, last, down>>
         /\ up[m] # <<>> /\ Head(up[m]) \in Reports
         /\ up'[m] = Tail(up[m])
         /\ \A n \in Machines \ {m} : link'[n] = link[n] /\ up'[n] = up[n]
         /\ link'[m].lost = link[m].lost /\ link'[m].target = link[m].target
         /\ link'[m].started = link[m].started + Starts(Head(up[m]))
         /\ link'[m].active = Head(up[m]).state.active
         /\ link'[m].exhausted = Head(up[m]).state.exhausted
<1> DEFINE message == Head(up[m])
           l == link[m]
<1>1. /\ up[m] # <<>>
      /\ link' = [link EXCEPT ![m] =
          [l EXCEPT !.ready = l.ready \/ message.what = "ready",
                    !.collected = l.collected \/ message.what = "collected",
                    !.started = l.started + Starts(message),
                    !.active = message.state.active,
                    !.exhausted = message.state.exhausted]]
      /\ up' = [up EXCEPT ![m] = Tail(up[m])]
      /\ UNCHANGED <<pc, aborted, because, host, proc, last, down>>
  <2>1. up[m] # <<>> /\ UNCHANGED <<pc, aborted, because, host, proc, last, down>>
    BY DEF Deliver
  <2>2. up' = [up EXCEPT ![m] = Tail(up[m])]
    BY DEF Deliver
  <2>3. link' = [link EXCEPT ![m] =
          [l EXCEPT !.ready = l.ready \/ message.what = "ready",
                    !.collected = l.collected \/ message.what = "collected",
                    !.started = l.started + Starts(message),
                    !.active = message.state.active,
                    !.exhausted = message.state.exhausted]]
    BY DEF Deliver
  <2> QED
    BY <2>1, <2>2, <2>3
<1>2. message \in Reports /\ Tail(up[m]) \in Seq(Reports) /\ l \in Links
  BY <1>1 DEF Typed
<1>3. link \in [Machines -> Links] /\ l = link[m]
  BY DEF Typed
<1> HIDE DEF message, l
<1>4. Starts(message) \in Nat
  BY <1>2, Few DEF Starts, Reports
<1>5. message.state.active \in Nat /\ message.state.exhausted \in BOOLEAN
  BY <1>2 DEF Reports, States
<1> DEFINE new == [l EXCEPT !.ready = l.ready \/ message.what = "ready",
                    !.collected = l.collected \/ message.what = "collected",
                    !.started = l.started + Starts(message),
                    !.active = message.state.active,
                    !.exhausted = message.state.exhausted]
<1>6. /\ new.lost = l.lost /\ new.target = l.target
      /\ new.started = l.started + Starts(message)
      /\ new.active = message.state.active /\ new.exhausted = message.state.exhausted
  BY <1>2 DEF Links
<1>7. new \in Links
  <2>1. (l.ready \/ message.what = "ready") \in BOOLEAN
        /\ (l.collected \/ message.what = "collected") \in BOOLEAN
    OBVIOUS
  <2>2. l.started + Starts(message) \in Nat
    BY <1>2, <1>4 DEF Links
  <2> QED
    BY <1>2, <1>5, <2>1, <2>2 DEF Links
<1>8. link' = [link EXCEPT ![m] = new]
  BY <1>1
<1> HIDE DEF new
<1>9. link' \in [Machines -> Links] /\ link'[m] = new
      /\ \A n \in Machines \ {m} : link'[n] = link[n]
  BY <1>3, <1>7, <1>8
<1>10. up' \in [Machines -> Seq(Reports)] /\ up'[m] = Tail(up[m])
       /\ \A n \in Machines \ {m} : up'[n] = up[n]
  BY <1>1, <1>2 DEF Typed
<1>11. Typed'
  BY <1>1, <1>9, <1>10 DEF Typed
<1> QED
  BY <1>1, <1>2, <1>3, <1>6, <1>9, <1>10, <1>11 DEF message

(* The machine is written off, and nobody else.                            *)
LEMMA ClosesActs ==
  ASSUME Typed, NEW m \in Machines, ChannelCloses(m)
  PROVE  /\ Typed' /\ ~host[m].up /\ ~link[m].lost
         /\ UNCHANGED <<pc, because, host, proc, last, up, down>>
         /\ \A n \in Machines \ {m} : link'[n] = link[n]
         /\ link'[m].lost /\ link'[m].target = 0 /\ link'[m].active = 0
         /\ aborted => aborted'
         /\ up[m] = <<>> \/ LateMessages
<1> DEFINE l == link[m]
           new == [l EXCEPT !.lost = TRUE, !.target = 0, !.active = 0,
                            !.exhausted = TRUE, !.collected = TRUE]
<1>1. /\ link' = [link EXCEPT ![m] = new]
      /\ ~host[m].up /\ ~l.lost
      /\ UNCHANGED <<pc, because, host, proc, last, up, down>>
      /\ aborted' = (aborted \/ Live = {m})
      /\ up[m] = <<>> \/ LateMessages
  BY DEF ChannelCloses, LoseAgent
<1>2. l \in Links /\ link \in [Machines -> Links] /\ l = link[m] /\ aborted \in BOOLEAN
  BY DEF Typed
<1> HIDE DEF l
<1>3. new \in Links /\ new.lost /\ new.target = 0 /\ new.active = 0
  BY <1>2 DEF Links
<1> HIDE DEF new
<1>4. link' \in [Machines -> Links] /\ link'[m] = new
      /\ \A n \in Machines \ {m} : link'[n] = link[n]
  BY <1>1, <1>2, <1>3
<1>5. (aborted => aborted') /\ aborted' \in BOOLEAN
  BY <1>1, <1>2
<1>6. Typed'
  BY <1>1, <1>4, <1>5 DEF Typed
<1> QED
  BY <1>1, <1>2, <1>3, <1>4, <1>5, <1>6

-----------------------------------------------------------------------------
(* The controller's actions.                                               *)

Program == Progress \/ Timeouts \/ Abort

(* It changes nothing of the machines, and of what it believes of them     *)
(* only the target, and not a lost one's.                                  *)
ControllerStep ==
  /\ UNCHANGED <<host, proc, last, up>>
  /\ \A n \in Machines : /\ SameBelief(n)
                         /\ link[n].lost => link'[n].target = link[n].target

(* What is sent to the live machines S arrives at the end of their queues. *)
LEMMA Sent ==
  ASSUME Typed, NEW S, NEW message, \A m \in S : message[m] \in Orders,
         SendAll(S, message)
  PROVE  /\ down' \in [Machines -> Seq(Orders)]
         /\ \A n \in Machines :
              /\ down'[n] \in {down[n], Append(down[n], message[n])}
              /\ n \in S /\ host[n].up => down'[n] = Append(down[n], message[n])
<1>1. down' = [m \in Machines |->
             IF m \in S /\ (host[m].up \/ LateMessages)
             THEN Append(down[m], message[m]) ELSE down[m]]
  BY DEF SendAll
<1>2. \A m \in S \cap Machines : Append(down[m], message[m]) \in Seq(Orders)
  BY DEF Typed
<1> QED
  BY <1>1, <1>2 DEF Typed

(* Words without a number. *)
LEMMA Spoken ==
  ASSUME NEW what \in {"release", "stop", "collect"}
  PROVE  /\ \A m \in Machines : Saying(what)[m] = [what |-> what, n |-> 0]
         /\ [what |-> what, n |-> 0] \in Orders
BY RunAssumption DEF Saying, Orders

(* Targets are zeroed, and a stop is sent at most.                         *)
LEMMA Stops ==
  ASSUME Typed, NEW first \in BOOLEAN, StopLive(first)
  PROVE  /\ link' \in [Machines -> Links] /\ down' \in [Machines -> Seq(Orders)]
         /\ \A n \in Machines :
              /\ SameBelief(n)
              /\ link[n].lost => link'[n].target = link[n].target
              /\ down'[n] \in {down[n], Append(down[n], [what |-> "stop", n |-> 0])}
<1>1. link' = [m \in Machines |->
               IF m \in Live THEN [link[m] EXCEPT !.target = 0] ELSE link[m]]
  BY DEF StopLive
<1>2. \A m \in Machines : [link[m] EXCEPT !.target = 0] \in Links
  BY DEF Typed, Links
<1>3. link' \in [Machines -> Links]
  BY <1>1, <1>2 DEF Typed
<1>4. \A n \in Machines : SameBelief(n) /\ (link[n].lost => link'[n].target = link[n].target)
  BY <1>1 DEF Typed, Links, SameBelief, Live
<1>5. /\ down' \in [Machines -> Seq(Orders)]
      /\ \A n \in Machines :
           down'[n] \in {down[n], Append(down[n], [what |-> "stop", n |-> 0])}
  <2>1. CASE UNCHANGED down
    BY <2>1 DEF Typed
  <2>2. CASE SendAll(Live, Saying("stop"))
    <3>1. \A m \in Live : Saying("stop")[m] \in Orders
      BY Spoken DEF Live
    <3>2. /\ down' \in [Machines -> Seq(Orders)]
          /\ \A n \in Machines : down'[n] \in {down[n], Append(down[n], Saying("stop")[n])}
      BY <2>2, <3>1, Sent
    <3> QED
      BY <3>2, Spoken
  <2> QED
    BY <2>1, <2>2 DEF StopLive
<1> QED
  BY <1>3, <1>4, <1>5

(* What the cohort is divided into.                                        *)
CohortShare(m) == LET s == Shares(Total, Weight, Live)[m]
                  IN IF s < Cap(m) THEN s ELSE Cap(m)

(* It is within what the machine was admitted for.                         *)
LEMMA CohortShares ==
  ASSUME NEW m \in Live
  PROVE  CohortShare(m) \in 0 .. Total /\ CohortShare(m) \in 0 .. Cap(m)
<1>1. Shares(Total, Weight, Live)[m] \in 0 .. Total
  BY OneShare DEF Live
<1>2. Cap(m) \in 0 .. Total
  BY OneShare DEF Live, Cap
<1> QED
  BY <1>1, <1>2, RunAssumption DEF CohortShare

(* Every live machine is sent its share.                                   *)
LEMMA CohortStarts ==
  ASSUME Typed, StartCohort
  PROVE  /\ link' \in [Machines -> Links] /\ down' \in [Machines -> Seq(Orders)]
         /\ \A n \in Machines : SameBelief(n)
         /\ \A n \in Machines : link[n].lost => link'[n].target = link[n].target
         /\ \A n \in Live :
              /\ link'[n].target = CohortShare(n)
              /\ host[n].up =>
                   down'[n] = Append(down[n], [what |-> "target", n |-> CohortShare(n)])
         /\ \A n \in Machines :
              down'[n] \in {down[n], Append(down[n], [what |-> "target", n |-> CohortShare(n)])}
<1> DEFINE order == [m \in Live |-> [what |-> "target", n |-> CohortShare(m)]]
<1>1. link' = [m \in Machines |->
               IF m \in Live THEN [link[m] EXCEPT !.target = CohortShare(m)] ELSE link[m]]
  BY DEF StartCohort, CohortShare
<1>2. SendAll(Live, order)
  BY DEF StartCohort, CohortShare
<1>3. \A m \in Live : CohortShare(m) \in 0 .. Total
  BY CohortShares
<1>4. \A m \in Live : order[m] \in Orders /\ order[m] = [what |-> "target", n |-> CohortShare(m)]
  BY <1>3 DEF Orders
<1>5. \A m \in Live : [link[m] EXCEPT !.target = CohortShare(m)] \in Links
  <2> TAKE m \in Live
  <2>1. link[m] \in Links
    BY DEF Typed, Live
  <2>2. CohortShare(m) \in Nat
    BY <1>3, RunAssumption
  <2> QED
    BY <2>1, <2>2 DEF Links
<1>6. link' \in [Machines -> Links]
  BY <1>1, <1>5 DEF Typed
<1>7. /\ \A n \in Machines : SameBelief(n) /\ (link[n].lost => link'[n].target = link[n].target)
      /\ \A n \in Live : link'[n].target = CohortShare(n)
  BY <1>1 DEF Typed, Links, SameBelief, Live
<1> HIDE DEF order
<1>8. /\ down' \in [Machines -> Seq(Orders)]
      /\ \A n \in Machines :
              /\ down'[n] \in {down[n], Append(down[n], order[n])}
              /\ n \in Live /\ host[n].up => down'[n] = Append(down[n], order[n])
  BY <1>2, <1>4, Sent
<1>9. \A n \in Machines :
        down'[n] \in {down[n], Append(down[n], [what |-> "target", n |-> CohortShare(n)])}
  <2> TAKE n \in Machines
  <2>1. CASE n \in Live
    BY <1>4, <1>8, <2>1
  <2>2. CASE n \notin Live
    BY <1>2, <2>2 DEF SendAll
  <2> QED
    BY <2>1, <2>2
<1> QED
  <2>1. \A n \in Live : n \in Machines
    BY DEF Live
  <2> QED
    BY <1>4, <1>6, <1>7, <1>8, <1>9, <2>1

(* A word to every machine in the fleet. *)
LEMMA Announced ==
  ASSUME Typed, NEW what \in {"release", "collect"}, SendAll(Live, Saying(what))
  PROVE  /\ down' \in [Machines -> Seq(Orders)]
         /\ \A n \in Machines :
              down'[n] \in {down[n], Append(down[n], [what |-> what, n |-> 0])}
<1>1. \A m \in Live : Saying(what)[m] \in Orders
  BY Spoken DEF Live
<1>2. /\ down' \in [Machines -> Seq(Orders)]
      /\ \A n \in Machines : down'[n] \in {down[n], Append(down[n], Saying(what)[n])}
  BY <1>1, Sent
<1> QED
  BY <1>2, Spoken

(* Which way the program went.                                             *)
Waits ==
  /\ \/ pc = "awaiting" /\ pc' \in {"starting", "failed"}
     \/ pc = "settling" /\ pc' = "publishing"
     \/ pc = "settling" /\ aborted /\ pc' = "measuring"
     \/ pc = "publishing" /\ pc' = "failed"
     \/ pc = "collecting" /\ pc' = "over"
  /\ UNCHANGED <<link, down, because, aborted>>
Ends ==
  /\ \/ pc = "measuring" /\ pc' \in {"stopping", "draining"}
     \/ pc = "draining" /\ pc' = "stopping" /\ because' = because
  /\ because' = "finished" => because = "finished" \/ RunFinished
  /\ aborted' = aborted
  /\ StopLive(FALSE) \/ StopLive(TRUE)
Collects ==
  /\ pc = "stopping" /\ pc' = "collecting"
  /\ SendAll(Live, Saying("collect"))
  /\ UNCHANGED <<link, because, aborted>>
Releases ==
  /\ pc = "publishing" /\ pc' = "measuring"
  /\ SendAll(Live, Saying("release"))
  /\ UNCHANGED <<link, because, aborted>>
Aborts ==
  /\ aborted' = TRUE /\ StopLive(TRUE) /\ UNCHANGED <<pc, because>>
Begins ==
  /\ pc = "starting" /\ pc' \in {"settling", "measuring"}
  /\ StartCohort /\ UNCHANGED <<because, aborted>>

(* There is no other way.                                                  *)
LEMMA ProgramGoes ==
  ASSUME Program
  PROVE  /\ UNCHANGED <<host, proc, last, up>>
         /\ Waits \/ Ends \/ Collects \/ Releases \/ Aborts \/ Begins
<1>1. CASE AllReady \/ Refuse
  BY <1>1 DEF AllReady, Refuse, Goto, Waits
<1>2. CASE StartCohort
  BY <1>2 DEF StartCohort, Goto, Begins
<1>3. CASE Settled \/ SettleTimeout \/ SettleAborted
  BY <1>3 DEF Settled, SettleTimeout, SettleAborted, Goto, Waits
<1>4. CASE Published
  BY <1>4 DEF Published, Goto, Releases
<1>5. CASE PublishFails
  BY <1>5 DEF PublishFails, Goto, Waits
<1>6. CASE RunFinished
  BY <1>6 DEF RunFinished, EndRun, Goto, Ends
<1>7. CASE RunAborted \/ RunOverdue \/ RunCeiling
  BY <1>7 DEF RunAborted, RunOverdue, RunCeiling, EndRun, Goto, Ends
<1>8. CASE StopWaitDone \/ StopWaitTimeout
  BY <1>8 DEF StopWaitDone, StopWaitTimeout, StopAgain, BeginCollect, Goto, Ends, Collects
<1>9. CASE CollectDone \/ CollectTimeout
  BY <1>9 DEF CollectDone, CollectTimeout, EndCollect, Goto, Waits
<1>10. CASE Abort
  BY <1>10 DEF Abort, Aborts
<1> QED
  BY <1>1, <1>2, <1>3, <1>4, <1>5, <1>6, <1>7, <1>8, <1>9, <1>10
     DEF Program, Progress, Timeouts

(* The program's step is a ControllerStep.                                 *)
LEMMA ProgramActs ==
  ASSUME Typed, Program
  PROVE  Typed' /\ ControllerStep
<1>1. /\ UNCHANGED <<host, proc, last, up>>
      /\ Waits \/ Ends \/ Collects \/ Releases \/ Aborts \/ Begins
  BY ProgramGoes
<1>2. pc' \in Places /\ aborted' \in BOOLEAN
  <2>1. CASE Aborts
    BY <2>1 DEF Aborts, Typed, Abort
  <2> QED
    BY <1>1, <2>1 DEF Waits, Ends, Collects, Releases, Begins, Typed, Places
<1>3. /\ link' \in [Machines -> Links] /\ down' \in [Machines -> Seq(Orders)]
      /\ \A n \in Machines : /\ SameBelief(n)
                             /\ link[n].lost => link'[n].target = link[n].target
  <2>1. CASE Waits
    BY <2>1 DEF Waits, Typed, SameBelief
  <2>2. CASE Ends \/ Aborts
    <3>1. PICK first \in BOOLEAN : StopLive(first)
      BY <2>2 DEF Ends, Aborts
    <3> QED
      BY <3>1, Stops
  <2>3. CASE Collects
    BY <2>3, Announced DEF Collects, Typed, SameBelief
  <2>4. CASE Releases
    BY <2>4, Announced DEF Releases, Typed, SameBelief
  <2>5. CASE Begins
    BY <2>5, CohortStarts DEF Begins
  <2> QED
    BY <1>1, <2>1, <2>2, <2>3, <2>4, <2>5
<1> QED
  BY <1>1, <1>2, <1>3 DEF Typed, ControllerStep

-----------------------------------------------------------------------------
(* The invariant is inductive.                                             *)

(* It holds at first.                                                      *)
LEMMA Starting == Init => IInv
<1> SUFFICES ASSUME Init PROVE IInv
  OBVIOUS
<1>1. 0 \in 0 .. Total
  BY RunAssumption
<1>2. Idle \in Hosts /\ NoReport \in States
  BY <1>1 DEF Idle, Hosts, NoReport, States
<1>3. Typed
  <2>1. link \in [Machines -> Links]
    BY DEF Init, Links
  <2>2. <<>> \in Seq(Reports) /\ <<>> \in Seq(Orders)
    OBVIOUS
  <2> QED
    BY <1>2, <2>1, <2>2 DEF Init, Typed, Places, Lives
<1>4. ASSUME NEW m \in Machines
      PROVE  Believed(m)
  <2>1. /\ host[m] = Idle /\ last[m] = NoReport /\ up[m] = <<>>
        /\ link[m].lost = FALSE /\ link[m].started = 0 /\ link[m].active = 0
        /\ link[m].exhausted = FALSE
    BY DEF Init
  <2>2. \A v \in Viewers : proc[v] = "unborn"
    BY DEF Init
  <2>3. Running(m) = {}
    BY <2>2 DEF Running, On
  <2>4. Cardinality(Running(m)) = 0
    BY <2>3, FS_EmptySet
  <2>5. LostIsDown(m)
    BY <2>1 DEF LostIsDown
  <2>6. LastIsTrue(m)
    BY <2>1, <2>4 DEF LastIsTrue, NoReport
  <2>7. Told(m)
    <3>1. NoReport.active = 0 /\ NoReport.exhausted = FALSE
      BY DEF NoReport
    <3> QED
      BY <2>1, <3>1 DEF Told
  <2>8. Numbered(m)
    BY <2>1 DEF Numbered, Uncounted, Idle
  <2>9. Born(m)
    <3>1. \A i \in 0 .. Total - 1 : <<m, i>> \in Viewers
      BY DEF Viewers
    <3> QED
      BY <2>2, <3>1 DEF Born
  <2> QED
    BY <2>5, <2>6, <2>7, <2>8, <2>9 DEF Believed
<1> QED
  BY <1>3, <1>4 DEF IInv

(* A start counted is the next one.                                        *)
LEMMA DeliverCounts ==
  ASSUME Typed, Typed', NEW m \in Machines, Numbered(m), Deliver(m)
  PROVE  Numbered(m)'
<1> DEFINE u == up[m]
           t == up'[m]
           lo == link[m].started
           hi == host[m].started
           new == link'[m].started
<1>1. CASE ~host[m].up
  BY <1>1, DeliverActs DEF Numbered
<1>2. CASE host[m].up
  <2>1. /\ u # <<>> /\ t = Tail(u) /\ new = lo + Starts(u[1]) /\ host' = host
    BY DeliverActs
  <2>2. /\ u \in Seq(Reports) /\ Len(u) \in Nat /\ Len(u) >= 1 /\ Len(t) = Len(u) - 1
        /\ \A i \in 1 .. Len(t) : t[i] = u[i + 1]
    BY <2>1 DEF Typed
  <2>3. lo \in Nat /\ hi \in Nat /\ new \in Nat /\ lo <= hi
    BY <1>2 DEF Typed, Numbered, Links, Hosts
  <2>4. /\ \A i \in 1 .. Len(u) :
             u[i].what = "started" => \E k \in lo .. hi - 1 : Carries(u[i], m, k)
        /\ \A k \in lo .. hi - 1 : \E i \in 1 .. Len(u) : Carries(u[i], m, k)
        /\ \A i, j \in 1 .. Len(u) : \A k, l \in lo .. hi - 1 :
             i < j /\ Carries(u[i], m, k) /\ Carries(u[j], m, l) => k < l
    BY <1>2 DEF Numbered, Uncounted
  <2>5. \A x, k, l : Carries(x, m, k) /\ Carries(x, m, l) => k = l
    <3> TAKE x, k, l
    <3> HAVE Carries(x, m, k) /\ Carries(x, m, l)
    <3>1. {<<m, k>>} = {<<m, l>>}
      BY DEF Carries
    <3>2. <<m, k>> = <<m, l>>
      BY <3>1
    <3> QED
      BY <3>2
  <2>6. \A x, k : Carries(x, m, k) => x.what = "started" /\ Starts(x) = 1
    BY FS_Singleton DEF Carries, Starts
  <2>7. u[1].what # "started" => Starts(u[1]) = 0
    BY DEF Starts
  <2>8. host'[m].started = hi /\ link'[m].started = new /\ up'[m] = t /\ 1 \in 1 .. Len(u)
    BY <2>1, <2>2
  <2> HIDE DEF u, t, lo, hi, new
  <2>9. CASE u[1].what # "started"
    <3>1. new = lo
      BY <2>1, <2>3, <2>7, <2>9
    <3>2. \A i \in 1 .. Len(t) :
            t[i].what = "started" => \E k \in lo .. hi - 1 : Carries(t[i], m, k)
      <4> TAKE i \in 1 .. Len(t)
      <4>1. t[i] = u[i + 1] /\ i + 1 \in 1 .. Len(u)
        BY <2>2
      <4> QED
        BY <2>4, <4>1
    <3>3. \A k \in lo .. hi - 1 : \E i \in 1 .. Len(t) : Carries(t[i], m, k)
      <4> TAKE k \in lo .. hi - 1
      <4>1. PICK i \in 1 .. Len(u) : Carries(u[i], m, k)
        BY <2>4
      <4>2. i # 1
        BY <2>6, <2>9, <4>1
      <4>3. i - 1 \in 1 .. Len(t) /\ t[i - 1] = u[i]
        BY <2>2, <4>1, <4>2
      <4> QED
        BY <4>1, <4>3
    <3>4. \A i, j \in 1 .. Len(t) : \A k, l \in lo .. hi - 1 :
            i < j /\ Carries(t[i], m, k) /\ Carries(t[j], m, l) => k < l
      BY <2>2, <2>4
    <3>5. Uncounted(m)' = lo .. hi - 1
      BY <2>8, <3>1 DEF Uncounted
    <3> QED
      BY <2>3, <2>8, <3>1, <3>2, <3>3, <3>4, <3>5 DEF Numbered
  <2>10. CASE u[1].what = "started"
    <3>1. PICK k \in lo .. hi - 1 : Carries(u[1], m, k)
      BY <2>4, <2>8, <2>10
    <3>2. Carries(u[1], m, lo) /\ lo \in lo .. hi - 1
      <4>1. lo \in lo .. hi - 1
        BY <2>3
      <4>2. PICK i \in 1 .. Len(u) : Carries(u[i], m, lo)
        BY <2>4, <4>1
      <4>3. CASE i = 1
        BY <4>1, <4>2, <4>3
      <4>4. CASE i # 1
        <5>1. 1 < i
          BY <4>2, <4>4
        <5>2. k < lo
          BY <2>4, <2>8, <3>1, <4>1, <4>2, <5>1
        <5> QED
          BY <2>3, <3>1, <5>2
      <4> QED
        BY <4>3, <4>4
    <3>3. new = lo + 1
      BY <2>1, <2>3, <2>6, <3>2
    <3>4. \A i \in 1 .. Len(t) :
            t[i].what = "started" => \E l \in new .. hi - 1 : Carries(t[i], m, l)
      <4> TAKE i \in 1 .. Len(t)
      <4> HAVE t[i].what = "started"
      <4>1. t[i] = u[i + 1] /\ i + 1 \in 1 .. Len(u) /\ 1 < i + 1
        BY <2>2
      <4>2. PICK l \in lo .. hi - 1 : Carries(u[i + 1], m, l)
        BY <2>4, <4>1
      <4>3. lo < l
        BY <2>4, <2>8, <3>2, <4>1, <4>2
      <4> QED
        BY <2>3, <3>3, <4>1, <4>2, <4>3
    <3>5. \A l \in new .. hi - 1 : \E i \in 1 .. Len(t) : Carries(t[i], m, l)
      <4> TAKE l \in new .. hi - 1
      <4>1. l \in lo .. hi - 1 /\ l # lo
        BY <2>3, <3>3
      <4>2. PICK i \in 1 .. Len(u) : Carries(u[i], m, l)
        BY <2>4, <4>1
      <4>3. i # 1
        BY <2>5, <3>2, <4>1, <4>2
      <4>4. i - 1 \in 1 .. Len(t) /\ t[i - 1] = u[i]
        BY <2>2, <4>2, <4>3
      <4> QED
        BY <4>2, <4>4
    <3>6. \A i, j \in 1 .. Len(t) : \A l, q \in new .. hi - 1 :
            i < j /\ Carries(t[i], m, l) /\ Carries(t[j], m, q) => l < q
      <4>1. \A l \in new .. hi - 1 : l \in lo .. hi - 1
        BY <2>3, <3>3
      <4> QED
        BY <2>2, <2>4, <4>1
    <3>7. Uncounted(m)' = new .. hi - 1
      BY <2>8 DEF Uncounted
    <3>8. new <= hi
      BY <2>3, <3>2, <3>3
    <3> QED
      BY <2>8, <3>4, <3>5, <3>6, <3>7, <3>8 DEF Numbered
  <2> QED
    BY <2>9, <2>10
<1> QED
  BY <1>1, <1>2

(* What arrives is believed, and what was said last arrives last.          *)
LEMMA DeliverKeeps ==
  ASSUME Typed, Typed', NEW m \in Machines, Believed(m), Deliver(m)
  PROVE  Believed(m)' /\ \A n \in Machines \ {m} : SameHost(n) /\ SameBelief(n)
<1>1. /\ UNCHANGED <<host, proc, last>>
      /\ up[m] # <<>> /\ up'[m] = Tail(up[m])
      /\ \A n \in Machines \ {m} : link'[n] = link[n] /\ up'[n] = up[n]
      /\ link'[m].lost = link[m].lost
      /\ link'[m].active = Head(up[m]).state.active
      /\ link'[m].exhausted = Head(up[m]).state.exhausted
  BY DeliverActs
<1>2. LostIsDown(m)'
  BY <1>1 DEF Believed, LostIsDown
<1>3. LastIsTrue(m)'
  BY <1>1 DEF Believed, LastIsTrue, Running
<1>4. Told(m)'
  <2> SUFFICES ASSUME host[m].up PROVE Told(m)'
    BY <1>1 DEF Told
  <2> DEFINE u == up[m]
             t == Tail(u)
  <2>1. u \in Seq(Reports) /\ u # <<>>
    BY <1>1 DEF Typed
  <2>2. u[Len(u)].state = last[m]
    BY <1>1 DEF Believed, Told
  <2>3. CASE t = <<>>
    <3>1. Len(u) = 1
      <4>1. Len(t) = Len(u) - 1 /\ Len(u) \in Nat
        BY <2>1
      <4>2. Len(t) = Len(<<>>)
        BY <2>3
      <4>3. Len(<<>>) = 0
        OBVIOUS
      <4> HIDE DEF t, u
      <4> QED
        BY <4>1, <4>2, <4>3
    <3>2. Head(u).state = last[m]
      BY <2>1, <2>2, <3>1
    <3> QED
      BY <1>1, <2>3, <3>2 DEF Told
  <2>4. CASE t # <<>>
    <3>1. t[Len(t)] = u[Len(u)]
      BY <2>1, <2>4
    <3>2. up'[m] = t /\ last'[m] = last[m]
      BY <1>1
    <3> HIDE DEF t, u
    <3> QED
      BY <2>2, <2>4, <3>1, <3>2 DEF Told
  <2> QED
    BY <2>3, <2>4
<1>5. Numbered(m)'
  BY DeliverCounts DEF Believed
<1>6. Born(m)'
  BY <1>1 DEF Believed, Born
<1>7. \A n \in Machines \ {m} : SameHost(n) /\ SameBelief(n)
  BY <1>1 DEF SameHost, SameBelief
<1> QED
  BY <1>2, <1>3, <1>4, <1>5, <1>6, <1>7 DEF Believed

(* A machine that is down is believed whatever is said of it.              *)
LEMMA DownBelieved ==
  ASSUME NEW m \in Machines, ~host'[m].up
  PROVE  Believed(m)'
BY DEF Believed, LostIsDown, LastIsTrue, Told, Numbered, Born

(* The kinds of steps.                                                     *)
LEMMA Kinds ==
  ASSUME Next
  PROVE  \/ Program
         \/ \E m \in Machines : \/ AgentReady(m) \/ Tick(m) \/ HandleMessage(m)
                                \/ Launch(m) \/ Break(m) \/ Deliver(m)
                                \/ ChannelCloses(m)
         \/ \E v \in Viewers : ViewerParks(v) \/ ViewerEnds(v)
BY DEF Next, Program, Agent

(* Every step of a machine or of a viewer is one of AgentStep's.           *)
LEMMA Acts ==
  ASSUME Typed, Next
  PROVE  \/ Program
         \/ \E m \in Machines : Acted(m) \/ Break(m) \/ Deliver(m) \/ ChannelCloses(m)
<1>1. ASSUME NEW m \in Machines,
             AgentReady(m) \/ Tick(m) \/ HandleMessage(m) \/ Launch(m)
      PROVE  Acted(m)
  BY <1>1, ReadyActs, TickActs, MessageActs, LaunchActs
<1>2. ASSUME NEW v \in Viewers, ViewerParks(v) \/ ViewerEnds(v)
      PROVE  v[1] \in Machines /\ Acted(v[1])
  BY <1>2, ViewerActs
<1> QED
  BY <1>1, <1>2, Kinds

(* Every step keeps it.                                                    *)
LEMMA StepKeeps ==
  ASSUME IInv, Next
  PROVE  IInv'
<1>1. Typed /\ \A m \in Machines : Believed(m)
  BY DEF IInv
<1>2. CASE Program
  <2>1. Typed' /\ ControllerStep
    BY <1>1, <1>2, ProgramActs
  <2>2. \A n \in Machines : SameHost(n) /\ SameBelief(n)
    BY <2>1 DEF ControllerStep, SameHost
  <2> QED
    BY <1>1, <2>1, <2>2, Unmoved DEF IInv
<1>3. ASSUME NEW m \in Machines, Acted(m)
      PROVE  IInv'
  <2>1. /\ Typed' /\ AgentStep(m)
        /\ \A n \in Machines \ {m} : SameHost(n) /\ SameBelief(n)
    BY <1>3 DEF Acted, AgentStep, SameBelief
  <2>2. Believed(m)'
    BY <1>1, <2>1, AgentKeeps
  <2>3. \A n \in Machines \ {m} : Believed(n)'
    BY <1>1, <2>1, Unmoved
  <2> QED
    BY <2>1, <2>2, <2>3 DEF IInv
<1>4. ASSUME NEW m \in Machines, Break(m)
      PROVE  IInv'
  <2>1. /\ Typed' /\ ~host'[m].up
        /\ \A n \in Machines \ {m} : SameHost(n) /\ SameBelief(n)
    BY <1>1, <1>4, BreakActs DEF controllerVars, SameBelief
  <2>2. \A n \in Machines \ {m} : Believed(n)'
    BY <1>1, <2>1, Unmoved
  <2> QED
    BY <2>1, <2>2, DownBelieved DEF IInv
<1>5. ASSUME NEW m \in Machines, Deliver(m)
      PROVE  IInv'
  <2>1. Typed'
    BY <1>1, <1>5, DeliverActs
  <2>2. Believed(m)' /\ \A n \in Machines \ {m} : SameHost(n) /\ SameBelief(n)
    BY <1>1, <1>5, <2>1, DeliverKeeps
  <2>3. \A n \in Machines \ {m} : Believed(n)'
    BY <1>1, <2>2, Unmoved
  <2> QED
    BY <2>1, <2>2, <2>3 DEF IInv
<1>6. ASSUME NEW m \in Machines, ChannelCloses(m)
      PROVE  IInv'
  <2>1. /\ Typed' /\ ~host'[m].up
        /\ \A n \in Machines \ {m} : SameHost(n) /\ SameBelief(n)
    BY <1>1, <1>6, ClosesActs DEF SameHost, SameBelief
  <2>2. \A n \in Machines \ {m} : Believed(n)'
    BY <1>1, <2>1, Unmoved
  <2> QED
    BY <2>1, <2>2, DownBelieved DEF IInv
<1> QED
  BY <1>1, <1>2, <1>3, <1>4, <1>5, <1>6, Acts

(* So does no step.                                                        *)
LEMMA StutterKeeps ==
  ASSUME IInv, UNCHANGED vars
  PROVE  IInv'
<1>1. /\ UNCHANGED <<pc, link, rollups, aborted, caveat, because>>
      /\ UNCHANGED <<host, proc, last, up, down>>
  BY DEF vars
<1>2. Typed'
  BY <1>1 DEF IInv, Typed
<1>3. \A n \in Machines : SameHost(n) /\ SameBelief(n)
  BY <1>1 DEF SameHost, SameBelief
<1> QED
  BY <1>2, <1>3, Unmoved DEF IInv

(* So it holds for ever.                                                   *)
LEMMA Inductive == Spec => []IInv
<1>1. IInv /\ [Next]_vars => IInv'
  BY StepKeeps, StutterKeeps
<1> QED
  BY <1>1, Starting, PTL DEF Spec

-----------------------------------------------------------------------------
(* Theorems.                                                               *)

(* With nothing in flight what the controller believes of a machine is so: *)
(* the viewers it runs, the starts it made, and that its budget is spent   *)
(* (onAgentMessage and reportState, however they interleave).              *)
THEOREM BeliefIsTruth == Spec => []BeliefCatchesUp
<1>1. IInv => BeliefCatchesUp
  <2> SUFFICES ASSUME IInv, NEW m \in Live, host[m].up, up[m] = <<>>
               PROVE  /\ link[m].active = Cardinality(Running(m))
                      /\ link[m].started = host[m].started
                      /\ link[m].exhausted => host[m].started >= host[m].budget
    BY DEF BeliefCatchesUp
  <2>1. m \in Machines /\ Believed(m) /\ Typed
    BY DEF Live, IInv
  <2>2. /\ link[m].active = Cardinality(Running(m))
        /\ link[m].exhausted => host[m].started >= host[m].budget
    BY <2>1 DEF Believed, Told, LastIsTrue
  <2>3. link[m].started = host[m].started
    <3>1. link[m].started \in Nat /\ host[m].started \in Nat
      BY <2>1 DEF Typed, Links, Hosts
    <3>2. Len(up[m]) = 0
      OBVIOUS
    <3>3. link[m].started <= host[m].started /\ Uncounted(m) = {}
      BY <2>1, <3>2 DEF Believed, Numbered
    <3>4. CASE link[m].started < host[m].started
      <4>1. link[m].started \in Uncounted(m)
        BY <3>1, <3>4 DEF Uncounted
      <4> QED
        BY <3>3, <4>1
    <3> QED
      BY <3>1, <3>3, <3>4
  <2> QED
    BY <2>2, <2>3
<1> QED
  BY <1>1, Inductive, PTL

-----------------------------------------------------------------------------
(* What the machines are asked for.                                        *)

Asking == ~aborted /\ pc \in {"awaiting", "starting"}
Driving == ~aborted /\ pc \in {"settling", "publishing", "measuring"}

Limited(m) ==
  /\ host[m].budget <= Cap(m) /\ host[m].started <= Cap(m)
  /\ \A i \in 1 .. Len(down[m]) : down[m][i].n <= Cap(m)

Targets == Driving => \A m \in Live : link[m].target = Cap(m)
OneWeight == \E a \in Nat \ {0} : \A m \in Machines : Weight[m] = a

(* Every live machine's target is its share, in the run's driving phases.  *)
LEMMA TargetsKept ==
  ASSUME OneWeight, IInv, Targets, Next
  PROVE  Targets'
<1>1. Typed
  BY DEF IInv
<1> SUFFICES ASSUME Driving', NEW n \in Live' PROVE link'[n].target = Cap(n)
  BY DEF Targets
<1>2. n \in Machines /\ ~link'[n].lost
  BY DEF Live
<1>3. CASE Program
  <2>1. ControllerStep /\ (Waits \/ Ends \/ Collects \/ Releases \/ Aborts \/ Begins)
    BY <1>1, <1>3, ProgramActs, ProgramGoes
  <2>2. n \in Live
    BY <1>2, <2>1 DEF Live, ControllerStep, SameBelief
  <2>3. CASE Waits \/ Releases
    BY <2>2, <2>3 DEF Waits, Releases, Targets, Driving
  <2>4. CASE Ends \/ Collects \/ Aborts
    BY <2>4 DEF Ends, Collects, Aborts, Driving
  <2>5. CASE Begins
    <3>1. link'[n].target = CohortShare(n)
      BY <1>1, <2>2, <2>5, CohortStarts DEF Begins
    <3>2. PICK a \in Nat \ {0} : \A i \in Machines : Weight[i] = a
      BY DEF OneWeight
    <3>3. Cap(n) <= Shares(Total, Weight, Live)[n]
      BY <2>2, <3>2, CapKept DEF Live
    <3>4. Shares(Total, Weight, Live)[n] \in Nat /\ Cap(n) \in Nat
      BY <2>2, OneShare, RunAssumption DEF Live, Cap
    <3> QED
      BY <3>1, <3>3, <3>4 DEF CohortShare
  <2> QED
    BY <2>1, <2>3, <2>4, <2>5
<1>4. ASSUME NEW m \in Machines, Acted(m)
      PROVE  link'[n].target = Cap(n)
  BY <1>2, <1>4 DEF Acted, AgentStep, Targets, Driving, Live
<1>5. ASSUME NEW m \in Machines, Break(m)
      PROVE  link'[n].target = Cap(n)
  <2>1. UNCHANGED controllerVars
    BY <1>1, <1>5, BreakActs
  <2> QED
    BY <1>2, <2>1 DEF controllerVars, Targets, Driving, Live
<1>6. ASSUME NEW m \in Machines, Deliver(m)
      PROVE  link'[n].target = Cap(n)
  <2>1. /\ UNCHANGED <<pc, aborted>>
        /\ link'[n].lost = link[n].lost /\ link'[n].target = link[n].target
    BY <1>1, <1>2, <1>6, DeliverActs
  <2> QED
    BY <1>2, <2>1 DEF Targets, Driving, Live
<1>7. ASSUME NEW m \in Machines, ChannelCloses(m)
      PROVE  link'[n].target = Cap(n)
  <2>1. /\ UNCHANGED pc
        /\ aborted => aborted'
        /\ link'[m].lost /\ \A k \in Machines \ {m} : link'[k] = link[k]
    BY <1>1, <1>7, ClosesActs
  <2>2. n # m /\ link'[n] = link[n]
    BY <1>2, <2>1
  <2>3. Driving
    BY <2>1 DEF Driving
  <2> QED
    BY <1>2, <2>2, <2>3 DEF Targets, Live
<1> QED
  BY <1>1, <1>3, <1>4, <1>5, <1>6, <1>7, Acts

-----------------------------------------------------------------------------
(* The machines are hosts.                                                 *)

(* There are as few numbers as viewers.                                    *)
LEMMA FewNumbers ==
  ASSUME NEW m \in Machines
  PROVE  /\ Cardinality({v[2] : v \in Running(m)}) <= Cardinality(Running(m))
         /\ Cardinality({v[2] : v \in Running(m)}) \in Nat
<1> DEFINE N == {v[2] : v \in Running(m)}
           f == [v \in Running(m) |-> v[2]]
<1>1. IsFiniteSet(Running(m))
  <2>1. Running(m) \in SUBSET Viewers
    BY DEF Running, On
  <2> QED
    BY <2>1, Few
<1>2. f \in Surjection(Running(m), N)
  BY DEF Surjection
<1> HIDE DEF f, N
<1>3. Cardinality(N) <= Cardinality(Running(m)) /\ Cardinality(N) \in Nat
  BY <1>1, <1>2, FS_Surjection, FS_CardinalityType
<1> QED
  BY <1>3 DEF N

(* What each machine does is what a ViewerHost may do: the composition     *)
(* uses of an agent only what the agent is proved to give.                 *)
THEOREM MachinesAreHosts == Spec => HostsKeepPromise
<1> DEFINE Numbers(S) == {v[2] : v \in S}
           Kept(m) == [Host(m)!Next]_(Host(m)!vars)
<1>1. Init => \A m \in Machines : Host(m)!Init
  <2> SUFFICES ASSUME Init, NEW m \in Machines PROVE Host(m)!Init
    OBVIOUS
  <2>1. Running(m) = {}
    BY DEF Init, Running, On
  <2>2. host[m] = Idle
    BY DEF Init
  <2> QED
    BY <2>1, <2>2 DEF Host!Init, Idle
<1>2. ASSUME IInv, [Next]_vars
      PROVE  \A m \in Machines : host'[m].up => Kept(m)
  <2>1. Typed
    BY <1>2 DEF IInv
  <2>2. ASSUME NEW m \in Machines, host'[m] = host[m], Running(m)' = Running(m)
        PROVE  Kept(m)
    BY <2>2 DEF Host!vars
  <2>3. ASSUME NEW n \in Machines, SameHost(n)
        PROVE  Kept(n)
    <3>1. host'[n] = host[n] /\ Running(n)' = Running(n)
      BY <2>3 DEF SameHost, Running
    <3> QED
      BY <2>2, <3>1
  <2>4. CASE UNCHANGED vars \/ Program
    <3>1. host' = host /\ proc' = proc
      BY <2>4, ProgramGoes DEF vars
    <3>2. \A m \in Machines : host'[m] = host[m] /\ Running(m)' = Running(m)
      BY <3>1 DEF Running
    <3> QED
      BY <2>2, <3>2
  <2>5. ASSUME NEW m \in Machines, Acted(m), Kept(m)
        PROVE  \A n \in Machines : Kept(n)
    BY <2>3, <2>5 DEF Acted, AgentStep
  <2>6. ASSUME NEW m \in Machines, AgentReady(m) \/ Tick(m)
        PROVE  Kept(m)
    <3>1. /\ Running(m)' = Running(m)
          /\ host'[m].started = host[m].started /\ host'[m].target = host[m].target
          /\ host'[m].budget = host[m].budget /\ host'[m].stopping = host[m].stopping
      BY <2>1, <2>6 DEF AgentReady, Tick, Running, Typed, Hosts
    <3> QED
      BY <3>1 DEF Host!vars
  <2>7. ASSUME NEW m \in Machines, HandleMessage(m)
        PROVE  Kept(m)
    <3> DEFINE order == Head(down[m])
    <3>1. /\ order \in Orders /\ host'[m].started = host[m].started
          /\ order.what = "target" =>
               /\ host'[m].target = order.n /\ host'[m].budget = order.n
               /\ host'[m].stopping = host[m].stopping
          /\ order.what # "target" =>
               /\ host'[m].target = host[m].target /\ host'[m].budget = host[m].budget
               /\ host'[m].stopping \in {host[m].stopping, TRUE}
      BY <2>1, <2>7, Handled
    <3>2. Running(m)' = Running(m)
      BY <2>7 DEF HandleMessage, Running
    <3> HIDE DEF order
    <3>3. CASE order.what = "target"
      <4>1. host'[m].target \in Nat /\ host'[m].budget \in Nat
        BY <3>1, <3>3, RunAssumption DEF Orders
      <4> QED
        BY <3>1, <3>2, <3>3, <4>1 DEF Host!Next, Host!Ask
    <3>4. CASE order.what # "target"
      <4>1. CASE host'[m].stopping = host[m].stopping
        BY <3>1, <3>2, <3>4, <4>1 DEF Host!vars
      <4>2. CASE host'[m].stopping = TRUE
        BY <3>1, <3>2, <3>4, <4>2 DEF Host!Next, Host!Close
      <4> QED
        BY <3>1, <3>4, <4>1, <4>2
    <3> QED
      BY <3>3, <3>4
  <2>8. ASSUME NEW m \in Machines, Launch(m)
        PROVE  Kept(m)
    <3>1. /\ ~host[m].stopping /\ Cardinality(Running(m)) < host[m].target
          /\ host[m].started < host[m].budget
          /\ host' = [host EXCEPT ![m].started = @ + 1]
      BY <2>8 DEF Launch
    <3>2. /\ host'[m].started = host[m].started + 1
          /\ host'[m].target = host[m].target
          /\ host'[m].budget = host[m].budget /\ host'[m].stopping = host[m].stopping
      BY <2>1, <3>1 DEF Typed, Hosts
    <3>3. Running(m)' = Running(m) \union {<<m, host[m].started>>}
      BY <2>1, <2>8, LaunchActs
    <3>4. Numbers(Running(m)') = Numbers(Running(m)) \union {host[m].started}
      <4> DEFINE w == <<m, host[m].started>>
      <4>1. w[2] = host[m].started /\ Running(m)' = Running(m) \union {w}
        BY <3>3
      <4> HIDE DEF w
      <4> QED
        BY <4>1
    <3>5. Cardinality(Numbers(Running(m))) < host[m].target
      <4>1. Cardinality(Numbers(Running(m))) <= Cardinality(Running(m))
        BY FewNumbers
      <4>2. Cardinality(Running(m)) \in Nat /\ host[m].target \in Nat
        <5>1. Running(m) \in SUBSET Viewers
          BY DEF Running, On
        <5> QED
          BY <2>1, <5>1, Few DEF Typed, Hosts
      <4>3. Cardinality(Numbers(Running(m))) \in Nat
        BY FewNumbers
      <4> QED
        BY <3>1, <4>1, <4>2, <4>3
    <3> QED
      <4>1. \A T : Host(m)!Cardinality(T) = Cardinality(T)
        BY DEF Host!Cardinality, Cardinality
      <4> QED
        BY <3>1, <3>2, <3>4, <3>5, <4>1 DEF Host!Next, Host!Start
  <2>9. ASSUME NEW v \in Viewers, ViewerParks(v) \/ ViewerEnds(v)
        PROVE  v[1] \in Machines /\ Acted(v[1]) /\ Kept(v[1])
    <3>1. /\ v[1] \in Machines /\ Acted(v[1]) /\ host' = host
          /\ v \in Running(v[1])
          /\ Running(v[1])' \in {Running(v[1]), Running(v[1]) \ {v}}
      BY <2>1, <2>9, ViewerActs
    <3>2. CASE Running(v[1])' = Running(v[1])
      BY <3>1, <3>2 DEF Host!vars
    <3>3. CASE Running(v[1])' = Running(v[1]) \ {v}
      <4>1. \A w \in Running(v[1]) : w = <<v[1], w[2]>>
        BY DEF Running, On, Viewers
      <4>2. Numbers(Running(v[1])') = Numbers(Running(v[1])) \ {v[2]}
        BY <3>1, <3>3, <4>1
      <4>3. v[2] \in Numbers(Running(v[1]))
        BY <3>1
      <4> QED
        BY <3>1, <4>2, <4>3 DEF Host!Next, Host!End
    <3> QED
      BY <3>1, <3>2, <3>3
  <2>10. ASSUME NEW m \in Machines, Break(m)
         PROVE  \A n \in Machines : host'[n].up => Kept(n)
    BY <2>1, <2>3, <2>10, BreakActs
  <2>11. ASSUME NEW m \in Machines, Deliver(m) \/ ChannelCloses(m)
         PROVE  \A n \in Machines : Kept(n)
    <3>1. host' = host /\ proc' = proc
      BY <2>1, <2>11, DeliverActs, ClosesActs
    <3>2. \A n \in Machines : host'[n] = host[n] /\ Running(n)' = Running(n)
      BY <3>1 DEF Running
    <3> QED
      BY <2>2, <3>2
  <2>12. ASSUME NEW m \in Machines,
                AgentReady(m) \/ Tick(m) \/ HandleMessage(m) \/ Launch(m)
         PROVE  Acted(m)
    BY <2>1, <2>12, ReadyActs, TickActs, MessageActs, LaunchActs
  <2> HIDE DEF Kept
  <2> QED
    BY <1>2, <2>4, <2>5, <2>6, <2>7, <2>8, <2>9, <2>10, <2>11, <2>12, Kinds
<1> HIDE DEF Kept
<1>3. IInv /\ [Next]_vars => [\A m \in Machines : host'[m].up => Kept(m)]_vars
  BY <1>2
<1> QED
  BY <1>1, <1>3, Inductive, PTL DEF Spec, HostsKeepPromise, Kept

-----------------------------------------------------------------------------
(* The cohort that was released.                                           *)

Early == ~aborted /\ pc \in {"awaiting", "starting", "settling"}
Masked == \E v \in rollups.held : v \in rollups.exited /\ link[v[1]].lost

Books ==
  /\ rollups \in [known : SUBSET Viewers, held : SUBSET Viewers,
                  exited : SUBSET Viewers, lost : SUBSET Viewers]
  /\ caveat \in BOOLEAN

(* Who a message is about, and the messages among the first k of a queue.  *)
Says(message, what, v) == message.what = what /\ v \in message.about
Among(u, k, what, v) == \E j \in 1 .. k : Says(u[j], what, v)

(* The controller has, or will have when the queue is read out, a record   *)
(* of v; and its `held`.                                                   *)
Named(m, v) == v \in rollups.known \/ Among(up[m], Len(up[m]), "started", v)
Reached(m, v) == v \in rollups.held \/ Among(up[m], Len(up[m]), "held", v)

(* A machine speaks of its own viewers, and of no more than it may start.  *)
OwnNews(m) ==
  /\ \A i \in 1 .. Len(up[m]) : up[m][i].about \subseteq On(m)
  /\ \A v \in On(m) : Named(m, v) => v[2] < Cap(m)

(* A viewer is named before it is anything else.                           *)
Introduced(m) ==
  host[m].up => \A v \in On(m) : proc[v] # "unborn" => Named(m, v)
InOrder(m) ==
  /\ \A v \in On(m) : v \in rollups.held => v \in rollups.known
  /\ \A v \in On(m) : \A k \in 1 .. Len(up[m]) :
       Says(up[m][k], "held", v) =>
         v \in rollups.known \/ Among(up[m], k - 1, "started", v)

(* One that held its peers is parked, or was.                              *)
HeldTrue(m) ==
  host[m].up => \A v \in On(m) : Reached(m, v) => proc[v] \in {"parked", "ended"}

(* Until the release, what is still on its way from a machine written off  *)
(* says nothing of viewers: it was written off for a message it could not  *)
(* be sent, the only one so far is the target, and it started none before. *)
Quiet(m) ==
  Asking \/ (Early /\ ~host[m].up
               /\ (down[m] # <<>> \/ (link[m].lost /\ up[m] # <<>>)))
    => \A v \in On(m) : ~Named(m, v)

(* So the loss of a viewer that held is on record with it.                 *)
Noted(m) ==
  Early /\ link[m].lost =>
    \A v \in On(m) : v \in rollups.held => v \in rollups.exited \union rollups.lost

Orderly(m) ==
  OwnNews(m) /\ Introduced(m) /\ InOrder(m) /\ HeldTrue(m) /\ Quiet(m) /\ Noted(m)

(* No machine is asked for more than its part of the cohort, and none is   *)
(* asked for anything before the cohort starts.                            *)
Modest(m) ==
  /\ host[m].up => Limited(m)
  /\ Asking => host[m].started = 0 /\ host[m].budget = 0 /\ down[m] = <<>>

Recorded ==
  /\ Books
  /\ \A m \in Machines : Orderly(m) /\ Modest(m)
  /\ SettledUnlessMasked

(* What was said of a machine's viewers stands.                            *)
SameRecord(n) ==
  \A v \in On(n) : /\ v \in rollups'.known <=> v \in rollups.known
                   /\ v \in rollups'.held <=> v \in rollups.held
                   /\ v \in rollups.exited => v \in rollups'.exited
                   /\ v \in rollups.lost => v \in rollups'.lost

(* A machine nothing was said of, and nothing happened to.                 *)
LEMMA OrderlyStays ==
  ASSUME NEW n \in Machines, Orderly(n), SameRecord(n),
         host'[n].up = host[n].up, up'[n] = up[n], link'[n].lost = link[n].lost,
         \A v \in On(n) : proc'[v] = proc[v],
         down'[n] = down[n] \/ Asking \/ ~Early', Early' => Early, Asking' => Asking
  PROVE  Orderly(n)'
<1>1. \A v \in On(n) : /\ Named(n, v)' <=> Named(n, v)
                       /\ Reached(n, v)' <=> Reached(n, v)
  BY DEF SameRecord, Named, Reached
<1>2. OwnNews(n)'
  BY <1>1 DEF Orderly, OwnNews
<1>3. Introduced(n)' /\ HeldTrue(n)'
  BY <1>1 DEF Orderly, Introduced, HeldTrue
<1>4. InOrder(n)'
  BY DEF Orderly, InOrder, SameRecord
<1>5. Quiet(n)'
  BY <1>1 DEF Orderly, Quiet
<1>6. Noted(n)'
  BY DEF Orderly, Noted, SameRecord
<1> QED
  BY <1>2, <1>3, <1>4, <1>5, <1>6 DEF Orderly

(* The same, of what it is asked for.                                      *)
LEMMA ModestStays ==
  ASSUME NEW n \in Machines, Modest(n), host'[n].up => host[n].up,
         host'[n].started = host[n].started, host'[n].budget = host[n].budget,
         down'[n] = down[n], Asking' => Asking
  PROVE  Modest(n)'
BY DEF Modest, Limited

(* A message at the end of a queue.                                        *)
LEMMA Appended ==
  ASSUME NEW u \in Seq(Reports), NEW message \in Reports, NEW what, NEW v
  PROVE  LET w == Append(u, message) IN
         /\ Len(w) = Len(u) + 1 /\ w[Len(w)] = message
         /\ \A i \in 1 .. Len(u) : w[i] = u[i]
         /\ \A k \in 0 .. Len(u) : Among(w, k, what, v) <=> Among(u, k, what, v)
         /\ Among(w, Len(w), what, v) <=>
              Among(u, Len(u), what, v) \/ Says(message, what, v)
<1> DEFINE w == Append(u, message)
<1>1. /\ Len(u) \in Nat /\ Len(w) = Len(u) + 1 /\ w[Len(u) + 1] = message
      /\ \A i \in 1 .. Len(u) : w[i] = u[i]
  OBVIOUS
<1> HIDE DEF w
<1>2. \A k \in 0 .. Len(u) : Among(w, k, what, v) <=> Among(u, k, what, v)
  <2> TAKE k \in 0 .. Len(u)
  <2>1. \A j \in 1 .. k : w[j] = u[j]
    BY <1>1
  <2> QED
    BY <2>1 DEF Among
<1>3. Among(w, Len(w), what, v) <=>
        Among(u, Len(u), what, v) \/ Says(message, what, v)
  <2>1. \A j : j \in 1 .. Len(w) <=> j \in 1 .. Len(u) \/ j = Len(u) + 1
    BY <1>1
  <2> QED
    BY <1>1, <2>1 DEF Among
<1> QED
  BY <1>1, <1>2, <1>3 DEF w

(* A message off its front.                                                *)
LEMMA TakenOff ==
  ASSUME NEW u \in Seq(Reports), u # <<>>, NEW what, NEW v
  PROVE  LET t == Tail(u) IN
         /\ t \in Seq(Reports) /\ Len(t) \in Nat /\ Len(u) = Len(t) + 1
         /\ \A i \in 1 .. Len(t) : t[i] = u[i + 1]
         /\ \A k \in 0 .. Len(t) :
              Among(u, k + 1, what, v) <=> Says(Head(u), what, v) \/ Among(t, k, what, v)
<1> DEFINE t == Tail(u)
<1>1. /\ t \in Seq(Reports) /\ Len(t) \in Nat /\ Len(u) = Len(t) + 1 /\ Head(u) = u[1]
      /\ \A i \in 1 .. Len(t) : t[i] = u[i + 1]
  OBVIOUS
<1> HIDE DEF t
<1>2. \A k \in 0 .. Len(t) :
        Among(u, k + 1, what, v) <=> Says(Head(u), what, v) \/ Among(t, k, what, v)
  <2> TAKE k \in 0 .. Len(t)
  <2>1. ASSUME Among(u, k + 1, what, v)
        PROVE  Says(Head(u), what, v) \/ Among(t, k, what, v)
    <3>1. PICK j \in 1 .. k + 1 : Says(u[j], what, v)
      BY <2>1 DEF Among
    <3>2. CASE j = 1
      BY <1>1, <3>1, <3>2
    <3>3. CASE j # 1
      <4>1. j - 1 \in 1 .. k /\ t[j - 1] = u[j]
        BY <1>1, <3>3
      <4> QED
        BY <3>1, <4>1 DEF Among
    <3> QED
      BY <3>2, <3>3
  <2>2. ASSUME Says(Head(u), what, v)
        PROVE  Among(u, k + 1, what, v)
    <3>1. 1 \in 1 .. k + 1
      BY <1>1
    <3> QED
      BY <1>1, <2>2, <3>1 DEF Among
  <2>3. ASSUME Among(t, k, what, v)
        PROVE  Among(u, k + 1, what, v)
    <3>1. PICK j \in 1 .. k : Says(t[j], what, v)
      BY <2>3 DEF Among
    <3>2. j + 1 \in 1 .. k + 1 /\ u[j + 1] = t[j]
      BY <1>1
    <3> QED
      BY <3>1, <3>2 DEF Among
  <2> QED
    BY <2>1, <2>2, <2>3
<1> QED
  BY <1>1, <1>2 DEF t

(* A machine's own step, as far as its viewers' records go: it starts only *)
(* what it says it starts, and says `held` of none that is not.            *)
OwnStep(m) ==
  /\ host[m].up /\ host'[m].up
  /\ link'[m].lost = link[m].lost /\ UNCHANGED <<rollups, pc, aborted>>
  /\ \A v \in On(m) : proc[v] \in {"parked", "ended"} => proc'[v] \in {"parked", "ended"}
  /\ \/ /\ up'[m] = up[m]
        /\ \A v \in On(m) : proc'[v] # "unborn" => proc[v] # "unborn"
     \/ \E message \in Reports :
          /\ up'[m] = Append(up[m], message) /\ message.about \subseteq On(m)
          /\ \A v \in On(m) :
               /\ Says(message, "started", v) => ~Asking /\ v[2] < Cap(m)
               /\ Says(message, "held", v) => /\ proc[v] # "unborn"
                                              /\ proc'[v] \in {"parked", "ended"}
               /\ proc'[v] # "unborn" =>
                    proc[v] # "unborn" \/ Says(message, "started", v)

(* Such a step keeps the records in order.                                 *)
LEMMA OwnOrderly ==
  ASSUME Typed, NEW m \in Machines, LostIsDown(m), Orderly(m), OwnStep(m)
  PROVE  Orderly(m)'
<1>1. /\ host[m].up /\ host'[m].up /\ ~link[m].lost /\ ~link'[m].lost
      /\ rollups' = rollups /\ (Asking' <=> Asking) /\ (Early' <=> Early)
  BY DEF OwnStep, LostIsDown, Asking, Early
<1>2. Noted(m)'
  BY <1>1 DEF Noted
<1>3. CASE /\ up'[m] = up[m]
           /\ \A v \in On(m) : proc'[v] # "unborn" => proc[v] # "unborn"
  <2>1. \A v \in On(m) : /\ Named(m, v)' <=> Named(m, v)
                         /\ Reached(m, v)' <=> Reached(m, v)
    BY <1>1, <1>3 DEF Named, Reached
  <2>2. OwnNews(m)'
    BY <1>3, <2>1 DEF Orderly, OwnNews
  <2>3. Introduced(m)'
    BY <1>1, <1>3, <2>1 DEF Orderly, Introduced
  <2>4. InOrder(m)'
    BY <1>1, <1>3 DEF Orderly, InOrder
  <2>5. HeldTrue(m)'
    BY <1>1, <2>1 DEF Orderly, HeldTrue, OwnStep
  <2>6. Quiet(m)'
    BY <1>1, <2>1 DEF Orderly, Quiet
  <2> QED
    BY <1>2, <2>2, <2>3, <2>4, <2>5, <2>6 DEF Orderly
<1>4. ASSUME NEW message \in Reports,
             up'[m] = Append(up[m], message), message.about \subseteq On(m),
             \A v \in On(m) :
               /\ Says(message, "started", v) => ~Asking /\ v[2] < Cap(m)
               /\ Says(message, "held", v) => /\ proc[v] # "unborn"
                                              /\ proc'[v] \in {"parked", "ended"}
               /\ proc'[v] # "unborn" =>
                    proc[v] # "unborn" \/ Says(message, "started", v)
      PROVE  Orderly(m)'
  <2> DEFINE u == up[m]
             w == up'[m]
  <2>1. u \in Seq(Reports) /\ Len(u) \in Nat
    BY DEF Typed
  <2>2. \A what, v :
          /\ Len(w) = Len(u) + 1 /\ w[Len(w)] = message
          /\ \A i \in 1 .. Len(u) : w[i] = u[i]
          /\ \A k \in 0 .. Len(u) : Among(w, k, what, v) <=> Among(u, k, what, v)
          /\ Among(w, Len(w), what, v) <=>
               Among(u, Len(u), what, v) \/ Says(message, what, v)
    <3>1. w = Append(u, message)
      BY <1>4
    <3> HIDE DEF u, w
    <3> QED
      BY <2>1, <3>1, Appended
  <2>3. \A v \in On(m) :
          /\ Named(m, v)' <=> Named(m, v) \/ Says(message, "started", v)
          /\ Reached(m, v)' <=> Reached(m, v) \/ Says(message, "held", v)
    BY <1>1, <2>2 DEF Named, Reached
  <2> HIDE DEF u, w
  <2>4. /\ Len(w) = Len(u) + 1 /\ w[Len(w)] = message
        /\ \A i \in 1 .. Len(u) : w[i] = u[i]
    BY <2>2
  <2>5. \A i \in 1 .. Len(w) : i \in 1 .. Len(u) \/ i = Len(w)
    BY <2>1, <2>4
  <2>6. OwnNews(m)'
    <3>1. \A i \in 1 .. Len(w) : w[i].about \subseteq On(m)
      BY <1>4, <2>4, <2>5 DEF Orderly, OwnNews, u
    <3>2. \A v \in On(m) : Named(m, v)' => v[2] < Cap(m)
      BY <1>4, <2>3 DEF Orderly, OwnNews
    <3> QED
      BY <3>1, <3>2 DEF OwnNews, w
  <2>7. Introduced(m)'
    BY <1>1, <1>4, <2>3 DEF Orderly, Introduced
  <2>8. InOrder(m)'
    <3>1. ASSUME NEW v \in On(m), NEW k \in 1 .. Len(w), Says(w[k], "held", v)
          PROVE  v \in rollups.known \/ Among(w, k - 1, "started", v)
      <4>1. CASE k \in 1 .. Len(u)
        <5>1. v \in rollups.known \/ Among(u, k - 1, "started", v)
          BY <2>4, <3>1, <4>1 DEF Orderly, InOrder, u
        <5>2. k - 1 \in 0 .. Len(u)
          BY <2>1, <4>1
        <5> QED
          BY <2>2, <5>1, <5>2
      <4>2. CASE k = Len(w)
        <5>1. proc[v] # "unborn"
          BY <1>4, <2>4, <3>1, <4>2
        <5>2. v \in rollups.known \/ Among(u, Len(u), "started", v)
          BY <1>1, <5>1 DEF Orderly, Introduced, Named, u
        <5>3. k - 1 = Len(u) /\ Len(u) \in 0 .. Len(u)
          BY <2>1, <2>4, <4>2
        <5> QED
          BY <2>2, <5>2, <5>3
      <4> QED
        BY <2>5, <4>1, <4>2
    <3> QED
      BY <1>1, <3>1 DEF Orderly, InOrder, w
  <2>9. HeldTrue(m)'
    BY <1>1, <1>4, <2>3 DEF Orderly, HeldTrue, OwnStep
  <2>10. Quiet(m)'
    BY <1>1, <1>4, <2>3 DEF Orderly, Quiet
  <2> QED
    BY <1>2, <2>6, <2>7, <2>8, <2>9, <2>10 DEF Orderly
<1> QED
  BY <1>3, <1>4 DEF OwnStep

(* Ready, a tick, a message handled: no viewer is spoken of.               *)
LEMMA SilentSteps ==
  ASSUME Typed, NEW m \in Machines, AgentReady(m) \/ Tick(m) \/ HandleMessage(m)
  PROVE  OwnStep(m) /\ \A n \in Machines \ {m} : down'[n] = down[n] /\ host'[n] = host[n]
<1>1. Acted(m)
  BY ReadyActs, TickActs, MessageActs
<1>2. UNCHANGED <<controllerVars, proc>>
  BY DEF AgentReady, Tick, HandleMessage
<1>3. /\ up' \in [Machines -> Seq(Reports)]
      /\ \/ up'[m] = up[m]
         \/ \E message : /\ up'[m] = Append(up[m], message)
                         /\ message \in Reports /\ message.about = {}
  <2>1. CASE AgentReady(m)
    <3> DEFINE message == [what |-> "ready", about |-> {}, state |-> last[m]]
    <3>1. up'[m] = Append(up[m], message)
      BY <2>1 DEF AgentReady, Typed
    <3>2. message \in Reports /\ message.about = {}
      BY DEF Typed, Reports, Whats
    <3> QED
      BY <1>1, <3>1, <3>2 DEF Acted, Typed
  <2>2. ASSUME NEW what \in Whats, Say(m, what, {})
        PROVE  \E message : /\ up'[m] = Append(up[m], message)
                            /\ message \in Reports /\ message.about = {}
    <3> DEFINE message == [what |-> what, about |-> {}, state |-> Now(m)']
    <3>1. message \in Reports /\ up'[m] = Append(up[m], message)
      BY <2>2, Said
    <3> QED
      BY <3>1
  <2>3. ASSUME Report(m)
        PROVE  up'[m] = up[m] \/ Say(m, "state", {})
    BY <2>3 DEF Report
  <2>4. "state" \in Whats /\ "collected" \in Whats
    BY DEF Whats
  <2>5. CASE Tick(m) \/ HandleMessage(m)
    BY <1>1, <2>2, <2>3, <2>4, <2>5 DEF Tick, HandleMessage, Acted, Typed
  <2> QED
    BY <2>1, <2>5
<1>4. \A v : \A message : message.about = {} => ~Says(message, "started", v) /\ ~Says(message, "held", v)
  BY DEF Says
<1>5. host[m].up /\ host'[m].up
  BY <1>1 DEF Acted, AgentStep
<1>6. OwnStep(m)
  BY <1>2, <1>3, <1>4, <1>5 DEF OwnStep, controllerVars
<1>7. \A n \in Machines \ {m} : down'[n] = down[n]
  BY DEF AgentReady, Tick, HandleMessage, Typed
<1> QED
  BY <1>1, <1>6, <1>7 DEF Acted, AgentStep, SameHost

(* A start is within the machine's part, and announced.                    *)
LEMMA LaunchOwn ==
  ASSUME Typed, NEW m \in Machines, Believed(m), Modest(m), Launch(m)
  PROVE  OwnStep(m)
<1> DEFINE v == <<m, host[m].started>>
           message == [what |-> "started", about |-> {v}, state |-> Now(m)']
<1>1. /\ host[m].up /\ host[m].started < host[m].budget
      /\ proc' = [proc EXCEPT ![v] = "dialing"]
      /\ UNCHANGED <<controllerVars, down>> /\ Say(m, "started", {v})
  BY DEF Launch
<1>2. v \in Viewers /\ Acted(m)
  BY LaunchActs
<1>3. v \in On(m) /\ v[2] = host[m].started
  BY <1>2 DEF On
<1>4. message \in Reports /\ up'[m] = Append(up[m], message)
  <2>1. "started" \in Whats /\ {v} \in SUBSET Viewers
    BY <1>2 DEF Whats
  <2> QED
    BY <1>1, <2>1, Said
<1>5. proc[v] = "unborn"
  <2>1. host[m].started \in 0 .. Total - 1
    BY <1>2 DEF Viewers
  <2>2. \A i \in 0 .. Total - 1 : proc[<<m, i>>] # "unborn" => i < host[m].started
    BY <1>1 DEF Believed, Born
  <2> QED
    BY <2>1, <2>2
<1>6. ~Asking /\ host[m].started < Cap(m)
  <2>1. host[m].started \in 0 .. Total /\ host[m].budget \in 0 .. Total
    BY DEF Typed, Hosts
  <2>2. Cap(m) \in 0 .. Total
    BY OneShare DEF Cap
  <2>3. host[m].budget <= Cap(m)
    BY <1>1 DEF Modest, Limited
  <2>4. ~Asking
    BY <1>1, <2>1 DEF Modest
  <2> QED
    BY <1>1, <2>1, <2>2, <2>3, <2>4, RunAssumption
<1>7. \A w \in On(m) : /\ Says(message, "started", w) <=> w = v
                       /\ ~Says(message, "held", w)
  BY DEF Says
<1>8. message.about \subseteq On(m)
  BY <1>3
<1> HIDE DEF v, message
<1>9. \A w \in On(m) : w # v => proc'[w] = proc[w]
  BY <1>1 DEF On, Typed
<1>10. host'[m].up
  BY <1>2 DEF Acted, AgentStep
<1> QED
  BY <1>1, <1>3, <1>4, <1>5, <1>6, <1>7, <1>8, <1>9, <1>10 DEF OwnStep, controllerVars

(* A viewer that parks says so; one that ended had parked, or died.        *)
LEMMA ViewerOwn ==
  ASSUME Typed, NEW v \in Viewers, ViewerParks(v) \/ ViewerEnds(v)
  PROVE  OwnStep(v[1])
<1> DEFINE m == v[1]
<1>1. m \in Machines /\ v \in On(m) /\ Acted(m)
  BY ViewerActs
<1>2. UNCHANGED <<controllerVars, host, down>> /\ host[m].up
  BY DEF ViewerParks, ViewerEnds
<1>3. PICK what \in {"held", "exited"} :
        /\ Say(m, what, {v}) /\ proc[v] \in {"dialing", "parked"}
        /\ proc' = [proc EXCEPT ![v] = IF what = "held" THEN "parked"
                              ELSE IF proc[v] = "parked" THEN "ended" ELSE "died"]
        /\ what = "held" => proc[v] = "dialing"
  <2>1. CASE ViewerParks(v)
    BY <2>1 DEF ViewerParks
  <2>2. CASE ViewerEnds(v)
    BY <2>2 DEF ViewerEnds
  <2> QED
    BY <2>1, <2>2
<1> DEFINE message == [what |-> what, about |-> {v}, state |-> Now(m)']
<1> HIDE DEF m
<1>4. message \in Reports /\ up'[m] = Append(up[m], message)
  <2>1. what \in Whats /\ {v} \in SUBSET Viewers
    BY DEF Whats
  <2> QED
    BY <1>1, <1>3, <2>1, Said
<1>5. /\ \A w \in On(m) : w # v => proc'[w] = proc[w]
      /\ what = "held" => proc'[v] = "parked"
      /\ what # "held" => proc'[v] = IF proc[v] = "parked" THEN "ended" ELSE "died"
  BY <1>3 DEF On, Typed
<1>6. \A w \in On(m) : /\ Says(message, "held", w) <=> what = "held" /\ w = v
                       /\ ~Says(message, "started", w)
  BY DEF Says
<1>7. message.about \subseteq On(m)
  BY <1>1
<1> HIDE DEF message
<1>8. \A w \in On(m) :
        /\ proc[w] \in {"parked", "ended"} => proc'[w] \in {"parked", "ended"}
        /\ proc'[w] # "unborn" => proc[w] # "unborn"
  <2> TAKE w \in On(m)
  <2>1. CASE w = v
    BY <1>3, <1>5, <2>1
  <2>2. CASE w # v
    BY <1>5, <2>2
  <2> QED
    BY <2>1, <2>2
<1>9. \A w \in On(m) : Says(message, "held", w) =>
                         proc[w] # "unborn" /\ proc'[w] \in {"parked", "ended"}
  BY <1>3, <1>5, <1>6
<1>10. OwnStep(m)
  BY <1>2, <1>4, <1>6, <1>7, <1>8, <1>9 DEF OwnStep, controllerVars
<1> QED
  BY <1>10 DEF m

(* What is lost of a queue is its end, so what is left is in order.        *)
LEMMA BreakOrderly ==
  ASSUME Typed, NEW m \in Machines, LostIsDown(m), Orderly(m), Modest(m), Break(m)
  PROVE  Orderly(m)' /\ Modest(m)'
<1> DEFINE u == up[m]
           w == up'[m]
<1>1. /\ host[m].up /\ ~link[m].lost /\ ~host'[m].up
      /\ UNCHANGED <<link, rollups, pc, aborted>>
  BY BreakActs DEF Break, LostIsDown, controllerVars
<1>2. PICK k \in 0 .. Len(u) : w = SubSeq(u, 1, k)
  BY DEF Break, Typed
<1>3. u \in Seq(Reports) /\ Len(u) \in Nat /\ Len(w) = k /\ \A i \in 1 .. k : w[i] = u[i]
  <2>1. u \in Seq(Reports)
    BY DEF Typed
  <2> HIDE DEF u, w
  <2> QED
    BY <1>2, <2>1
<1> HIDE DEF u, w
<1>4. \A j \in 0 .. k : \A what, v : Among(w, j, what, v) => Among(u, j, what, v)
  BY <1>3 DEF Among
<1>5. \A what, v : Among(w, Len(w), what, v) => Among(u, Len(u), what, v)
  BY <1>3 DEF Among
<1>6. \A v \in On(m) : Named(m, v)' => Named(m, v)
  BY <1>1, <1>5 DEF Named, u, w
<1>7. OwnNews(m)'
  <2>1. \A i \in 1 .. Len(w) : w[i].about \subseteq On(m)
    BY <1>3 DEF Orderly, OwnNews, u
  <2> QED
    BY <1>6, <2>1 DEF Orderly, OwnNews, w
<1>8. InOrder(m)'
  <2>1. ASSUME NEW v \in On(m), NEW i \in 1 .. Len(w), Says(w[i], "held", v)
        PROVE  v \in rollups.known \/ Among(w, i - 1, "started", v)
    <3>1. i \in 1 .. Len(u) /\ Says(u[i], "held", v)
      BY <1>3, <2>1
    <3>2. v \in rollups.known \/ Among(u, i - 1, "started", v)
      BY <3>1 DEF Orderly, InOrder, u
    <3>3. \A j \in 1 .. i - 1 : w[j] = u[j]
      BY <1>3
    <3> QED
      BY <3>2, <3>3 DEF Among
  <2> QED
    BY <1>1, <2>1 DEF Orderly, InOrder, w
<1>9. down'[m] = <<>> /\ ~link'[m].lost
  BY <1>1 DEF Break, Typed
<1>10. (Asking' <=> Asking) /\ Quiet(m)'
  <2>1. Asking' <=> Asking
    BY <1>1 DEF Asking
  <2> QED
    BY <1>6, <1>9, <2>1 DEF Orderly, Quiet
<1>11. Orderly(m)'
  BY <1>1, <1>7, <1>8, <1>9, <1>10 DEF Orderly, Introduced, HeldTrue, Noted
<1>12. host'[m].started = 0 /\ host'[m].budget = 0
  BY DEF Break, Typed, Idle
<1> QED
  BY <1>1, <1>9, <1>11, <1>12 DEF Modest

(* What a message delivered adds to the records.                           *)
LEMMA DeliverRecords ==
  ASSUME Typed, Books, NEW m \in Machines, OwnNews(m), Deliver(m)
  PROVE  /\ Books' /\ caveat' = caveat
         /\ \A v : /\ v \in rollups'.known <=>
                        v \in rollups.known \/ Says(Head(up[m]), "started", v)
                   /\ v \in rollups'.held <=>
                        v \in rollups.held \/ Says(Head(up[m]), "held", v)
                   /\ v \in rollups.exited => v \in rollups'.exited
         /\ rollups'.lost = rollups.lost
         /\ Head(up[m]).about \subseteq On(m)
<1> DEFINE message == Head(up[m])
           news(what) == IF message.what = what THEN message.about ELSE {}
<1>1. rollups' = [rollups EXCEPT !.known = @ \union news("started"),
                                 !.held = @ \union news("held"),
                                 !.exited = @ \union news("exited")]
      /\ caveat' = caveat
  BY DEF Deliver
<1>2. message \in Reports /\ up[m] # <<>>
  BY DeliverActs
<1>3. \A what : news(what) \in SUBSET Viewers
  BY <1>2 DEF Reports
<1>4. \A v, what : v \in news(what) <=> Says(message, what, v)
  BY DEF Says
<1>5. message.about \subseteq On(m)
  <2>1. up[m] \in Seq(Reports)
    BY DEF Typed
  <2>2. message = up[m][1] /\ 1 \in 1 .. Len(up[m])
    BY <1>2, <2>1
  <2> QED
    BY <2>2 DEF OwnNews
<1> HIDE DEF message, news
<1>6. /\ rollups'.known = rollups.known \union news("started")
      /\ rollups'.held = rollups.held \union news("held")
      /\ rollups'.exited = rollups.exited \union news("exited")
      /\ rollups'.lost = rollups.lost
      /\ rollups' \in [known : SUBSET Viewers, held : SUBSET Viewers,
                       exited : SUBSET Viewers, lost : SUBSET Viewers]
  BY <1>1, <1>3 DEF Books
<1> QED
  BY <1>1, <1>4, <1>5, <1>6 DEF Books, message

(* It adds nothing to the records of other machines' viewers.              *)
LEMMA DeliverOthers ==
  ASSUME Typed, Books, NEW m \in Machines, OwnNews(m), Deliver(m),
         NEW n \in Machines \ {m}
  PROVE  SameRecord(n)
<1>1. \A v \in On(n) : v \notin On(m)
  BY DEF On
<1> QED
  BY <1>1, DeliverRecords DEF SameRecord, Says

(* What is delivered was on its way.                                       *)
LEMMA DeliverOrderly ==
  ASSUME Typed, Books, NEW m \in Machines, LostIsDown(m), Orderly(m), Deliver(m)
  PROVE  Orderly(m)'
<1> DEFINE u == up[m]
           t == up'[m]
           head == Head(up[m])
<1>1. /\ UNCHANGED <<pc, aborted, host, proc, down>> /\ u # <<>> /\ t = Tail(u)
      /\ link'[m].lost = link[m].lost /\ u \in Seq(Reports)
  BY DeliverActs DEF Typed
<1>2. \A v : /\ v \in rollups'.known <=> v \in rollups.known \/ Says(head, "started", v)
             /\ v \in rollups'.held <=> v \in rollups.held \/ Says(head, "held", v)
             /\ v \in rollups.exited => v \in rollups'.exited
             /\ v \in rollups.lost => v \in rollups'.lost
  BY DeliverRecords DEF Orderly
<1>3. head = Head(u)
  OBVIOUS
<1> HIDE DEF u, t, head
<1>4. \A what, v :
        /\ t \in Seq(Reports) /\ Len(t) \in Nat /\ Len(u) = Len(t) + 1
        /\ \A i \in 1 .. Len(t) : t[i] = u[i + 1]
        /\ \A k \in 0 .. Len(t) :
             Among(u, k + 1, what, v) <=> Says(head, what, v) \/ Among(t, k, what, v)
  BY <1>1, <1>3, TakenOff
<1>5. /\ Len(t) \in Nat /\ Len(u) = Len(t) + 1
      /\ \A i \in 1 .. Len(t) : t[i] = u[i + 1]
  BY <1>4
<1>6. \A v : /\ Named(m, v)' <=> Named(m, v)
             /\ Reached(m, v)' <=> Reached(m, v)
  <2>1. Len(t) \in 0 .. Len(t)
    BY <1>5
  <2>2. \A what, v : Among(u, Len(u), what, v) <=>
                       Says(head, what, v) \/ Among(t, Len(t), what, v)
    BY <1>4, <2>1
  <2> QED
    BY <1>2, <2>2 DEF Named, Reached, u, t
<1>7. OwnNews(m)'
  <2>1. \A i \in 1 .. Len(t) : t[i].about \subseteq On(m)
    BY <1>5 DEF Orderly, OwnNews, u
  <2> QED
    BY <1>6, <2>1 DEF Orderly, OwnNews, t
<1>8. Introduced(m)' /\ HeldTrue(m)'
  BY <1>1, <1>6 DEF Orderly, Introduced, HeldTrue
<1>9. \A v \in On(m) : Says(head, "held", v) => v \in rollups.known
  <2> TAKE v \in On(m)
  <2> HAVE Says(head, "held", v)
  <2>1. 1 \in 1 .. Len(u) /\ head = u[1]
    BY <1>1, <1>3, <1>5
  <2>2. v \in rollups.known \/ Among(u, 1 - 1, "started", v)
    BY <2>1 DEF Orderly, InOrder, u
  <2> QED
    BY <2>2 DEF Among
<1>10. InOrder(m)'
  <2>1. \A v \in On(m) : v \in rollups'.held => v \in rollups'.known
    BY <1>2, <1>9 DEF Orderly, InOrder
  <2>2. ASSUME NEW v \in On(m), NEW k \in 1 .. Len(t), Says(t[k], "held", v)
        PROVE  v \in rollups'.known \/ Among(t, k - 1, "started", v)
    <3>1. k + 1 \in 1 .. Len(u) /\ Says(u[k + 1], "held", v)
      BY <1>5, <2>2
    <3>2. v \in rollups.known \/ Among(u, (k + 1) - 1, "started", v)
      BY <3>1 DEF Orderly, InOrder, u
    <3>3. k - 1 \in 0 .. Len(t) /\ (k + 1) - 1 = (k - 1) + 1
      BY <1>5
    <3> QED
      BY <1>2, <1>4, <3>2, <3>3
  <2> QED
    BY <2>1, <2>2 DEF InOrder, t
<1>11. (Asking' <=> Asking) /\ (Early' <=> Early)
  BY <1>1 DEF Asking, Early
<1>12. Quiet(m)'
  BY <1>1, <1>6, <1>11 DEF Orderly, Quiet, u
<1>13. Noted(m)'
  <2> SUFFICES ASSUME Early', link'[m].lost, NEW v \in On(m), v \in rollups'.held
               PROVE  v \in rollups'.exited \union rollups'.lost
    BY DEF Noted
  <2>1. Early /\ link[m].lost /\ ~host[m].up
    BY <1>1, <1>11 DEF LostIsDown
  <2>2. ~Named(m, v)
    BY <1>1, <2>1 DEF Orderly, Quiet, u
  <2>3. ~Says(head, "held", v)
    BY <1>9, <2>2 DEF Named
  <2> QED
    BY <1>2, <2>1, <2>3 DEF Orderly, Noted
<1> QED
  BY <1>7, <1>8, <1>10, <1>12, <1>13 DEF Orderly

(* A machine written off takes the viewers on record with it.              *)
LEMMA CloseRecords ==
  ASSUME Typed, Books, NEW m \in Machines, ChannelCloses(m)
  PROVE  /\ Books' /\ caveat' = caveat
         /\ rollups'.known = rollups.known /\ rollups'.held = rollups.held
         /\ rollups'.exited = rollups.exited
         /\ rollups'.lost = rollups.lost \union (rollups.known \intersect On(m))
<1>1. /\ rollups' = [rollups EXCEPT !.lost = @ \union (rollups.known \intersect On(m))]
      /\ caveat' = caveat
  BY DEF ChannelCloses, LoseAgent
<1> QED
  BY <1>1 DEF Books

(* They are all that held their peers.                                     *)
LEMMA CloseOrderly ==
  ASSUME Typed, Books, NEW m \in Machines, Orderly(m), ChannelCloses(m)
  PROVE  Orderly(m)'
<1>1. /\ UNCHANGED <<pc, host, proc, up, down>> /\ ~host[m].up /\ link'[m].lost
      /\ (aborted => aborted') /\ (up[m] = <<>> \/ down[m] # <<>>)
  BY ClosesActs DEF ChannelCloses
<1>2. (Asking' => Asking) /\ (Early' => Early)
  BY <1>1 DEF Asking, Early
<1>3. /\ rollups'.known = rollups.known /\ rollups'.held = rollups.held
      /\ rollups'.exited = rollups.exited
      /\ rollups'.lost = rollups.lost \union (rollups.known \intersect On(m))
  BY CloseRecords
<1>4. \A v \in On(m) : /\ Named(m, v)' <=> Named(m, v)
                       /\ Reached(m, v)' <=> Reached(m, v)
  BY <1>1, <1>3 DEF Named, Reached
<1>5. OwnNews(m)'
  BY <1>1, <1>4 DEF Orderly, OwnNews
<1>6. Introduced(m)' /\ HeldTrue(m)'
  BY <1>1 DEF Introduced, HeldTrue
<1>7. InOrder(m)'
  BY <1>1, <1>3 DEF Orderly, InOrder
<1>8. Quiet(m)'
  BY <1>1, <1>2, <1>4 DEF Orderly, Quiet
<1>9. Noted(m)'
  BY <1>3 DEF Orderly, InOrder, Noted
<1> QED
  BY <1>5, <1>6, <1>7, <1>8, <1>9 DEF Orderly

(* The program changes no record, and only before the cohort starts does   *)
(* it send a machine anything that matters before the release.             *)
LEMMA ProgramOrderly ==
  ASSUME Typed, NEW m \in Machines, Orderly(m), Program
  PROVE  Orderly(m)' /\ rollups' = rollups
<1>1. /\ UNCHANGED <<host, proc, last, up>> /\ link'[m].lost = link[m].lost
      /\ Waits \/ Ends \/ Collects \/ Releases \/ Aborts \/ Begins
  BY ProgramActs, ProgramGoes DEF ControllerStep, SameBelief
<1>2. rollups' = rollups
  BY DEF Program, Progress, Timeouts, Abort, AllReady, StartCohort, Settled, SettleAborted,
         Published, RunAborted, RunFinished, EndRun, StopWaitDone, CollectDone, Refuse,
         SettleTimeout, PublishFails, RunOverdue, RunCeiling, StopWaitTimeout,
         CollectTimeout, StopAgain, BeginCollect, EndCollect, Goto
<1>3. down'[m] = down[m] \/ Asking \/ ~Early'
  BY <1>1 DEF Waits, Ends, Collects, Releases, Aborts, Begins, Early, Asking
<1>4. (Early' => Early) /\ (Asking' => Asking)
  <2>1. CASE Waits \/ Ends
    <3>1. /\ aborted' = aborted
          /\ pc' \in {"awaiting", "starting", "settling"} =>
               pc = "awaiting" /\ pc' = "starting"
      BY <2>1 DEF Waits, Ends
    <3> QED
      BY <3>1 DEF Early, Asking
  <2>2. CASE Collects \/ Releases
    BY <2>2 DEF Collects, Releases, Early, Asking
  <2>3. CASE Aborts
    BY <2>3 DEF Aborts, Early, Asking
  <2>4. CASE Begins
    BY <2>4 DEF Begins, Early, Asking
  <2> QED
    BY <1>1, <2>1, <2>2, <2>3, <2>4
<1>5. SameRecord(m)
  BY <1>2 DEF SameRecord
<1>6. /\ host'[m].up = host[m].up /\ up'[m] = up[m]
      /\ \A v \in On(m) : proc'[v] = proc[v]
  BY <1>1
<1> QED
  BY <1>1, <1>2, <1>3, <1>4, <1>5, <1>6, OrderlyStays

(* A message more, with a number within the machine's part.                *)
LEMMA LimitedAfter ==
  ASSUME Typed, NEW m \in Machines, host[m].up => Limited(m), host' = host,
         NEW order \in Orders, order.n <= Cap(m),
         down'[m] \in {down[m], Append(down[m], order)}
  PROVE  host'[m].up => Limited(m)'
<1>1. down[m] \in Seq(Orders)
  BY DEF Typed
<1>2. \A i \in 1 .. Len(down'[m]) :
        \/ i \in 1 .. Len(down[m]) /\ down'[m][i] = down[m][i]
        \/ down'[m][i] = order
  <2>1. CASE down'[m] = down[m]
    BY <2>1
  <2>2. CASE down'[m] = Append(down[m], order)
    BY <1>1, <2>2
  <2> QED
    BY <2>1, <2>2
<1> QED
  BY <1>2 DEF Limited

(* What it asks for is within each machine's part.                         *)
LEMMA ProgramModest ==
  ASSUME Typed, NEW m \in Machines, Modest(m), Program
  PROVE  Modest(m)'
<1>1. /\ UNCHANGED <<host, proc, last, up>>
      /\ Waits \/ Ends \/ Collects \/ Releases \/ Aborts \/ Begins
  BY ProgramGoes
<1>2. Asking' => Asking /\ down'[m] = down[m]
  BY <1>1 DEF Waits, Ends, Collects, Releases, Aborts, Begins, Asking
<1>3. \E order \in Orders : /\ order.n <= Cap(m)
                            /\ down'[m] \in {down[m], Append(down[m], order)}
  <2>1. Cap(m) \in 0 .. Total
    BY OneShare DEF Cap
  <2>2. ASSUME NEW what \in {"stop", "release", "collect"},
               down'[m] \in {down[m], Append(down[m], [what |-> what, n |-> 0])}
        PROVE  \E order \in Orders : /\ order.n <= Cap(m)
                                     /\ down'[m] \in {down[m], Append(down[m], order)}
    <3> DEFINE order == [what |-> what, n |-> 0]
    <3>1. order \in Orders /\ order.n <= Cap(m)
      BY <2>1, RunAssumption DEF Orders
    <3> QED
      BY <2>2, <3>1
  <2>3. CASE Waits
    <3>1. down'[m] \in {down[m], Append(down[m], [what |-> "stop", n |-> 0])}
      BY <2>3 DEF Waits
    <3> QED
      BY <2>2, <3>1
  <2>4. CASE Ends \/ Aborts
    <3>1. PICK first \in BOOLEAN : StopLive(first)
      BY <2>4 DEF Ends, Aborts
    <3>2. down'[m] \in {down[m], Append(down[m], [what |-> "stop", n |-> 0])}
      BY <3>1, Stops
    <3> QED
      BY <2>2, <3>2
  <2>5. CASE Collects \/ Releases
    <3>1. PICK what \in {"release", "collect"} : SendAll(Live, Saying(what))
      BY <2>5 DEF Collects, Releases
    <3>2. down'[m] \in {down[m], Append(down[m], [what |-> what, n |-> 0])}
      BY <3>1, Announced
    <3> QED
      BY <2>2, <3>2
  <2>6. CASE Begins
    <3> DEFINE order == [what |-> "target", n |-> CohortShare(m)]
    <3>1. down'[m] \in {down[m], Append(down[m], order)}
      BY <2>6, CohortStarts DEF Begins
    <3>2. CASE m \in Live
      <4>1. CohortShare(m) \in 0 .. Total /\ CohortShare(m) \in 0 .. Cap(m)
        BY <3>2, CohortShares
      <4>2. order \in Orders /\ order.n <= Cap(m)
        BY <2>1, <4>1 DEF Orders
      <4> QED
        BY <3>1, <4>2
    <3>3. CASE m \notin Live
      <4>1. down'[m] = down[m]
        BY <2>6, <3>3 DEF Begins, StartCohort, SendAll
      <4> QED
        BY <2>2, <4>1
    <3> QED
      BY <3>2, <3>3
  <2> QED
    BY <1>1, <2>3, <2>4, <2>5, <2>6
<1>4. host'[m].up => Limited(m)'
  BY <1>1, <1>3, LimitedAfter DEF Modest
<1> QED
  BY <1>1, <1>2, <1>4 DEF Modest

(* What a machine was asked for is within its part.                        *)
LEMMA MessageModest ==
  ASSUME Typed, NEW m \in Machines, Modest(m), HandleMessage(m)
  PROVE  Modest(m)'
<1> DEFINE order == Head(down[m])
           d == down[m]
           e == down'[m]
<1>1. /\ order \in Orders /\ host'[m].started = host[m].started
      /\ host'[m].budget \in {host[m].budget, order.n}
  BY Handled
<1>2. /\ host[m].up /\ d # <<>> /\ e = Tail(d) /\ d \in Seq(Orders)
      /\ UNCHANGED controllerVars
  BY DEF HandleMessage, Typed
<1>3. order = Head(d)
  OBVIOUS
<1> HIDE DEF order, d, e
<1>4. /\ Len(d) \in Nat \ {0} /\ order = d[1] /\ Len(e) = Len(d) - 1
      /\ \A i \in 1 .. Len(e) : e[i] = d[i + 1]
  BY <1>2, <1>3
<1>5. \A i \in 1 .. Len(d) : d[i].n <= Cap(m)
  BY <1>2 DEF Modest, Limited, d
<1>6. order.n <= Cap(m) /\ \A i \in 1 .. Len(e) : e[i].n <= Cap(m)
  BY <1>4, <1>5
<1>7. Limited(m)'
  <2>1. host[m].budget <= Cap(m) /\ host[m].started <= Cap(m)
    BY <1>2 DEF Modest, Limited
  <2> QED
    BY <1>1, <1>6, <2>1 DEF Limited, e
<1>8. ~Asking /\ ~Asking'
  BY <1>2 DEF Modest, Asking, controllerVars, d
<1> QED
  BY <1>7, <1>8 DEF Modest

(* It starts no more than that.                                            *)
LEMMA LaunchModest ==
  ASSUME Typed, NEW m \in Machines, Modest(m), Launch(m)
  PROVE  Modest(m)'
<1>1. /\ host[m].up /\ host[m].started < host[m].budget
      /\ host'[m].started = host[m].started + 1 /\ host'[m].budget = host[m].budget
      /\ UNCHANGED <<controllerVars, down>>
  BY DEF Launch, Typed, Hosts
<1>2. /\ host[m].started \in Nat /\ host[m].budget \in Nat /\ Cap(m) \in Nat
      /\ host[m].budget <= Cap(m)
  BY <1>1, OneShare, RunAssumption DEF Typed, Hosts, Cap, Modest, Limited
<1>3. ~Asking /\ ~Asking'
  BY <1>1, <1>2 DEF Modest, Asking, controllerVars
<1>4. Limited(m)'
  BY <1>1, <1>2 DEF Modest, Limited
<1> QED
  BY <1>3, <1>4 DEF Modest

(* The caveat is the settle deadline's.                                    *)
LEMMA SameCaveat ==
  ASSUME Program
  PROVE  caveat' = caveat \/ SettleTimeout
BY DEF Program, Progress, Timeouts, Abort, AllReady, StartCohort, Settled, SettleAborted,
       Published, RunAborted, RunFinished, EndRun, StopWaitDone, CollectDone, Refuse,
       PublishFails, RunOverdue, RunCeiling, StopWaitTimeout, CollectTimeout, StopAgain,
       BeginCollect, EndCollect

(* The books stay in order.                                                *)
LEMMA RecordsKept ==
  ASSUME IInv, Books, \A m \in Machines : Orderly(m) /\ Modest(m), Next
  PROVE  Books' /\ \A m \in Machines : Orderly(m)' /\ Modest(m)'
<1>1. Typed /\ \A m \in Machines : Believed(m) /\ LostIsDown(m)
  BY DEF IInv, Believed
<1>2. ASSUME NEW m \in Machines, OwnStep(m), AgentStep(m), UNCHANGED controllerVars,
             Modest(m)', \A n \in Machines \ {m} : down'[n] = down[n]
      PROVE  Books' /\ \A n \in Machines : Orderly(n)' /\ Modest(n)'
  <2>1. Orderly(m)' /\ Modest(m)'
    BY <1>1, <1>2, OwnOrderly
  <2>2. rollups' = rollups /\ (Early' <=> Early) /\ (Asking' <=> Asking)
    BY <1>2 DEF Early, Asking, controllerVars
  <2>3. ASSUME NEW n \in Machines \ {m}
        PROVE  Orderly(n)' /\ Modest(n)'
    <3>1. /\ host'[n] = host[n] /\ up'[n] = up[n] /\ down'[n] = down[n]
          /\ link'[n] = link[n] /\ \A v \in On(n) : proc'[v] = proc[v]
      BY <1>2 DEF AgentStep, SameHost
    <3>2. SameRecord(n)
      BY <2>2 DEF SameRecord
    <3> QED
      BY <2>2, <3>1, <3>2, OrderlyStays, ModestStays
  <2>4. Books'
    BY <1>2 DEF Books, controllerVars
  <2> QED
    BY <2>1, <2>3, <2>4
<1>3. ASSUME NEW m \in Machines, AgentReady(m) \/ Tick(m) \/ HandleMessage(m)
      PROVE  Books' /\ \A n \in Machines : Orderly(n)' /\ Modest(n)'
  <2>1. /\ OwnStep(m) /\ AgentStep(m) /\ UNCHANGED controllerVars
        /\ \A n \in Machines \ {m} : down'[n] = down[n]
    BY <1>1, <1>3, SilentSteps, ReadyActs, TickActs, MessageActs
       DEF Acted, AgentReady, Tick, HandleMessage
  <2>2. Modest(m)'
    <3>1. CASE AgentReady(m) \/ Tick(m)
      <4>1. /\ down' = down /\ host'[m].started = host[m].started
            /\ host'[m].budget = host[m].budget /\ host[m].up
        BY <1>1, <3>1 DEF AgentReady, Tick, Typed, Hosts
      <4> QED
        BY <2>1, <4>1, ModestStays DEF controllerVars, Asking
    <3>2. CASE HandleMessage(m)
      BY <1>1, <3>2, MessageModest
    <3> QED
      BY <1>3, <3>1, <3>2
  <2> QED
    BY <1>2, <2>1, <2>2
<1>4. ASSUME NEW m \in Machines, Launch(m)
      PROVE  Books' /\ \A n \in Machines : Orderly(n)' /\ Modest(n)'
  <2>1. OwnStep(m) /\ AgentStep(m) /\ UNCHANGED <<controllerVars, down>>
    BY <1>1, <1>4, LaunchOwn, LaunchActs DEF Acted, Launch
  <2>2. Modest(m)'
    BY <1>1, <1>4, LaunchModest
  <2> QED
    BY <1>2, <2>1, <2>2
<1>5. ASSUME NEW v \in Viewers, ViewerParks(v) \/ ViewerEnds(v)
      PROVE  Books' /\ \A n \in Machines : Orderly(n)' /\ Modest(n)'
  <2>1. /\ OwnStep(v[1]) /\ v[1] \in Machines /\ AgentStep(v[1])
        /\ UNCHANGED <<controllerVars, host, down>>
    BY <1>1, <1>5, ViewerOwn, ViewerActs DEF Acted, ViewerParks, ViewerEnds
  <2>2. Modest(v[1])'
    BY <2>1, ModestStays DEF controllerVars, Asking
  <2> QED
    BY <1>2, <2>1, <2>2
<1>6. ASSUME NEW m \in Machines, Break(m)
      PROVE  Books' /\ \A n \in Machines : Orderly(n)' /\ Modest(n)'
  <2>1. Orderly(m)' /\ Modest(m)'
    BY <1>1, <1>6, BreakOrderly
  <2>2. /\ UNCHANGED controllerVars
        /\ \A n \in Machines \ {m} : SameHost(n) /\ down'[n] = down[n]
    BY <1>1, <1>6, BreakActs
  <2>3. ASSUME NEW n \in Machines \ {m}
        PROVE  Orderly(n)' /\ Modest(n)'
    <3>1. SameRecord(n) /\ (Early' <=> Early) /\ (Asking' <=> Asking) /\ link' = link
      BY <2>2 DEF SameRecord, controllerVars, Early, Asking
    <3> QED
      BY <2>2, <3>1, OrderlyStays, ModestStays DEF SameHost
  <2>4. Books'
    BY <2>2 DEF Books, controllerVars
  <2> QED
    BY <2>1, <2>3, <2>4
<1>7. ASSUME NEW m \in Machines, Deliver(m)
      PROVE  Books' /\ \A n \in Machines : Orderly(n)' /\ Modest(n)'
  <2>1. Orderly(m)' /\ Books'
    BY <1>1, <1>7, DeliverOrderly, DeliverRecords DEF Orderly
  <2>2. /\ UNCHANGED <<pc, aborted, host, proc, down>>
        /\ \A n \in Machines \ {m} : link'[n] = link[n] /\ up'[n] = up[n]
    BY <1>1, <1>7, DeliverActs
  <2>3. (Early' <=> Early) /\ (Asking' <=> Asking)
    BY <2>2 DEF Early, Asking
  <2>4. Modest(m)'
    BY <2>2, <2>3, ModestStays
  <2>5. ASSUME NEW n \in Machines \ {m}
        PROVE  Orderly(n)' /\ Modest(n)'
    <3>1. SameRecord(n)
      BY <1>1, <1>7, DeliverOthers DEF Orderly
    <3> QED
      BY <2>2, <2>3, <3>1, OrderlyStays, ModestStays
  <2> QED
    BY <2>1, <2>4, <2>5
<1>8. ASSUME NEW m \in Machines, ChannelCloses(m)
      PROVE  Books' /\ \A n \in Machines : Orderly(n)' /\ Modest(n)'
  <2>1. Orderly(m)' /\ Books'
    BY <1>1, <1>8, CloseOrderly, CloseRecords
  <2>2. /\ UNCHANGED <<pc, host, proc, up, down>> /\ (aborted => aborted')
        /\ \A n \in Machines \ {m} : link'[n] = link[n]
    BY <1>1, <1>8, ClosesActs
  <2>3. (Early' => Early) /\ (Asking' => Asking)
    BY <2>2 DEF Early, Asking
  <2>4. Modest(m)'
    BY <2>2, <2>3, ModestStays
  <2>5. ASSUME NEW n \in Machines \ {m}
        PROVE  Orderly(n)' /\ Modest(n)'
    <3>1. SameRecord(n)
      BY <1>1, <1>8, CloseRecords DEF SameRecord
    <3> QED
      BY <2>2, <2>3, <3>1, OrderlyStays, ModestStays
  <2> QED
    BY <2>1, <2>4, <2>5
<1>9. CASE Program
  <2>1. \A m \in Machines : Orderly(m)' /\ Modest(m)'
    BY <1>1, <1>9, ProgramOrderly, ProgramModest
  <2>2. rollups' = rollups
    <3>1. PICK m \in Machines : TRUE
      BY RunAssumption
    <3> QED
      BY <1>1, <1>9, <3>1, ProgramOrderly
  <2>3. caveat' \in BOOLEAN
    <3>1. caveat' = caveat \/ SettleTimeout
      BY <1>9, SameCaveat
    <3>2. CASE SettleTimeout
      <4>1. caveat' = (Cardinality(Ready) < Awaited)
        BY <3>2 DEF SettleTimeout
      <4> QED
        BY <4>1
    <3> QED
      BY <3>1, <3>2 DEF Books
  <2> QED
    BY <2>1, <2>2, <2>3 DEF Books
<1> QED
  BY <1>3, <1>4, <1>5, <1>6, <1>7, <1>8, <1>9, Kinds

(* The viewers a fleet is admitted for are as many as its capacity.        *)
LEMMA AdmittedViewers ==
  ASSUME NEW S \in SUBSET Machines
  PROVE  LET A == UNION {{m} \X (0 .. Cap(m) - 1) : m \in S} IN
         /\ IsFiniteSet(A)
         /\ Cardinality(A) = SumOver([m \in Machines |-> Cap(m)], S)
<1> DEFINE A == UNION {{m} \X (0 .. Cap(m) - 1) : m \in S}
           f == [m \in Machines |-> Cap(m)]
           U == Units(f, S)
           shift == [x \in U |-> <<x[1], x[2] - 1>>]
<1>1. \A m \in S : Cap(m) \in 0 .. Total /\ f[m] = Cap(m)
  BY OneShare DEF Cap
<1>2. U = UNION {{m} \X (1 .. Cap(m)) : m \in S}
  BY <1>1 DEF Units
<1>3. \A x : x \in U <=> \E m \in S : \E i \in 1 .. Cap(m) : x = <<m, i>>
  BY <1>2
<1>4. \A x : x \in A <=> \E m \in S : \E i \in 0 .. Cap(m) - 1 : x = <<m, i>>
  OBVIOUS
<1> HIDE DEF U, A, f
<1>5. shift \in Bijection(U, A)
  <2>1. shift \in [U -> A]
    <3> SUFFICES ASSUME NEW x \in U PROVE <<x[1], x[2] - 1>> \in A
      OBVIOUS
    <3>1. PICK m \in S : \E i \in 1 .. Cap(m) : x = <<m, i>>
      BY <1>3
    <3>2. PICK i \in 1 .. Cap(m) : x = <<m, i>>
      BY <3>1
    <3>3. i - 1 \in 0 .. Cap(m) - 1
      BY <1>1, RunAssumption
    <3> QED
      BY <1>4, <3>2, <3>3
  <2>2. \A x, y \in U : shift[x] = shift[y] => x = y
    <3> TAKE x, y \in U
    <3> HAVE shift[x] = shift[y]
    <3>1. PICK m \in S : \E i \in 1 .. Cap(m) : x = <<m, i>>
      BY <1>3
    <3>2. PICK i \in 1 .. Cap(m) : x = <<m, i>>
      BY <3>1
    <3>3. PICK n \in S : \E j \in 1 .. Cap(n) : y = <<n, j>>
      BY <1>3
    <3>4. PICK j \in 1 .. Cap(n) : y = <<n, j>>
      BY <3>3
    <3>5. m = n /\ i - 1 = j - 1
      BY <3>2, <3>4
    <3>6. i = j
      BY <3>5
    <3> QED
      BY <3>2, <3>4, <3>5, <3>6
  <2>3. \A y \in A : \E x \in U : shift[x] = y
    <3> TAKE y \in A
    <3>1. PICK m \in S : \E i \in 0 .. Cap(m) - 1 : y = <<m, i>>
      BY <1>4
    <3>2. PICK i \in 0 .. Cap(m) - 1 : y = <<m, i>>
      BY <3>1
    <3>3. i + 1 \in 1 .. Cap(m) /\ (i + 1) - 1 = i
      BY <1>1, RunAssumption
    <3>4. <<m, i + 1>> \in U
      BY <1>3, <3>3
    <3> QED
      BY <3>2, <3>3, <3>4
  <2> HIDE DEF shift
  <2>4. shift \in Injection(U, A)
    BY <2>1, <2>2 DEF Injection, IsInjective
  <2>5. shift \in Surjection(U, A)
    BY <2>1, <2>3 DEF Surjection
  <2> QED
    BY <2>4, <2>5 DEF Bijection
<1>6. IsFiniteSet(U)
  <2>1. \A x \in U : x \in Machines \X (1 .. Total)
    <3> TAKE x \in U
    <3>1. PICK m \in S : \E i \in 1 .. Cap(m) : x = <<m, i>>
      BY <1>3
    <3>2. PICK i \in 1 .. Cap(m) : x = <<m, i>>
      BY <3>1
    <3>3. i \in 1 .. Total
      BY <1>1, RunAssumption
    <3> QED
      BY <3>2, <3>3
  <2>2. IsFiniteSet(Machines \X (1 .. Total))
    <3>1. IsFiniteSet(1 .. Total)
      BY RunAssumption, FS_Interval
    <3> QED
      BY <3>1, RunAssumption, FS_Product
  <2>3. U \in SUBSET (Machines \X (1 .. Total))
    BY <2>1
  <2> QED
    BY <2>2, <2>3, FS_Subset
<1>7. IsFiniteSet(A) /\ Cardinality(A) = Cardinality(U)
  <2>1. ExistsBijection(U, A)
    BY <1>5 DEF ExistsBijection
  <2> QED
    BY <1>6, <2>1, FS_Bijection
<1>8. SumOver(f, S) = Cardinality(U)
  BY DEF SumOver, U
<1> QED
  BY <1>7, <1>8 DEF A, f

(* What is left of the fleet is admitted for no more than the total.       *)
LEMMA AwaitedIsCapacity ==
  ASSUME Typed
  PROVE  Awaited = Capacity
<1> DEFINE f == [m \in Machines |-> Cap(m)]
<1>1. Live \in SUBSET Machines /\ IsFiniteSet(Machines)
  BY RunAssumption DEF Live
<1>2. \A m \in Machines : f[m] \in Nat /\ f[m] = Shares(Total, Weight, Machines)[m]
  BY OneShare, RunAssumption DEF Cap
<1>3. SumOver(f, Machines) = Total
  <2>1. Division!SumOver(Division!Shares(Total, Weight, Machines), Machines) = Total
    BY Divisible, RunAssumption, Division!Partitioned
  <2>2. SumOver(Shares(Total, Weight, Machines), Machines) = Total
    BY <2>1, SameDivision
  <2>3. Units(f, Machines) = Units(Shares(Total, Weight, Machines), Machines)
    BY <1>2 DEF Units
  <2> QED
    BY <2>2, <2>3 DEF SumOver
<1>4. SumOver(f, Live) <= SumOver(f, Machines)
  <2>1. \A m \in Live : f[m] \in Nat /\ f[m] <= f[m]
    BY <1>1, <1>2
  <2> HIDE DEF f
  <2>2. Division!SumOver(f, Live) <= Division!SumOver(f, Machines)
    BY <1>1, <1>2, <2>1, Divisible, RunAssumption, Division!SumLess
  <2> QED
    BY <2>2, SameDivision
<1>5. SumOver(f, Live) \in Nat
  BY <1>1, AdmittedViewers, FS_CardinalityType
<1>6. Capacity <= Total /\ Capacity \in Nat
  BY <1>3, <1>4, <1>5 DEF Capacity
<1> QED
  BY <1>6, RunAssumption DEF Awaited

(* When as many are ready as are awaited, every viewer of the fleet that   *)
(* is left held its peers, unless one of a lost machine is counted.        *)
LEMMA Counted ==
  ASSUME IInv, Books, \A m \in Machines : Orderly(m), Early,
         Cardinality(Ready) >= Awaited
  PROVE  (\A m \in Live : Peered(m)) \/ Masked
<1> DEFINE A == UNION {{m} \X (0 .. Cap(m) - 1) : m \in Live}
<1> SUFFICES ASSUME ~Masked
             PROVE  \A m \in Live : Peered(m)
  OBVIOUS
<1>1. Typed /\ Live \in SUBSET Machines
  BY DEF IInv, Live
<1>2. IsFiniteSet(A) /\ Cardinality(A) = Awaited
  BY <1>1, AdmittedViewers, AwaitedIsCapacity DEF Capacity
<1>3. Ready \subseteq A
  <2> SUFFICES ASSUME NEW v \in Ready PROVE v \in A
    OBVIOUS
  <2>1. /\ v \in rollups.held /\ v \in Viewers /\ v[1] \in Machines
        /\ (v \in rollups.exited \/ v \notin rollups.lost)
    BY DEF Ready, Lost, Books, Viewers
  <2>2. v \in On(v[1])
    BY <2>1 DEF On
  <2>3. ~link[v[1]].lost
    <3> SUFFICES ASSUME link[v[1]].lost PROVE FALSE
      OBVIOUS
    <3>1. v \in rollups.exited \union rollups.lost
      BY <2>1, <2>2 DEF Orderly, Noted
    <3>2. v \in rollups.exited
      BY <2>1, <3>1
    <3> QED
      BY <2>1, <3>2 DEF Masked
  <2>4. v[2] < Cap(v[1])
    BY <2>1, <2>2 DEF Orderly, InOrder, OwnNews, Named
  <2>5. v = <<v[1], v[2]>> /\ v[2] \in 0 .. Total - 1
    BY <2>1 DEF Viewers
  <2>6. Cap(v[1]) \in 0 .. Total
    BY <2>1, OneShare DEF Cap
  <2>7. v[1] \in Live /\ v[2] \in 0 .. Cap(v[1]) - 1
    BY <2>1, <2>3, <2>4, <2>5, <2>6, RunAssumption DEF Live
  <2> QED
    BY <2>5, <2>7
<1> HIDE DEF A
<1>4. Ready = A
  <2>1. IsFiniteSet(Ready) /\ Cardinality(Ready) <= Cardinality(A)
    BY <1>2, <1>3, FS_Subset
  <2>2. Cardinality(Ready) \in Nat /\ Cardinality(A) \in Nat
    BY <1>2, <2>1, FS_CardinalityType
  <2>3. Cardinality(Ready) = Cardinality(A)
    BY <1>2, <2>1, <2>2
  <2> QED
    BY <1>2, <1>3, <2>3, FS_Subset
<1>5. ASSUME NEW m \in Live, host[m].up, NEW i \in 0 .. Cap(m) - 1
      PROVE  proc[<<m, i>>] \in {"parked", "ended"}
  <2>1. <<m, i>> \in rollups.held
    BY <1>4, <1>5 DEF A, Ready
  <2>2. <<m, i>> \in On(m)
    BY <2>1 DEF Books, On
  <2>3. HeldTrue(m)
    BY <1>1 DEF Orderly
  <2> QED
    BY <1>5, <2>1, <2>2, <2>3 DEF HeldTrue, Reached
<1> QED
  BY <1>5 DEF Peered

(* The viewers a machine is admitted for are viewers.                      *)
LEMMA CapViewers ==
  ASSUME NEW m \in Machines, NEW i \in 0 .. Cap(m) - 1
  PROVE  <<m, i>> \in On(m)
<1>1. Cap(m) \in 0 .. Total
  BY OneShare DEF Cap
<1>2. i \in 0 .. Total - 1
  BY <1>1, RunAssumption
<1> QED
  BY <1>2 DEF On, Viewers

(* What was settled stays settled.                                         *)
LEMMA SettledKept ==
  ASSUME IInv, Recorded, Next
  PROVE  SettledUnlessMasked'
<1>1. /\ Typed /\ Books /\ \A m \in Machines : Believed(m) /\ Orderly(m) /\ Modest(m)
      /\ Opened => (\A m \in Live : Peered(m)) \/ Masked
  BY DEF IInv, Recorded, SettledUnlessMasked, Masked
<1> SUFFICES ASSUME Opened' PROVE (\A m \in Live' : Peered(m)') \/ Masked'
  BY DEF SettledUnlessMasked, Masked
<1>2. \A m \in Live' : m \in Machines
  BY DEF Live
<1>3. CASE Program
  <2>1. UNCHANGED <<host, proc, last, up, rollups>>
    <3>1. PICK m \in Machines : TRUE
      BY RunAssumption
    <3> QED
      BY <1>1, <1>3, <3>1, ProgramGoes, ProgramOrderly
  <2>2. Live' = Live /\ \A m \in Machines : link'[m].lost = link[m].lost
    BY <1>1, <1>3, ProgramActs DEF ControllerStep, SameBelief, Live
  <2>3. (\A m \in Live : Peered(m)) \/ Masked
    <3>1. ~aborted /\ (pc \in {"publishing", "measuring"} \/ pc = "settling")
      <4>1. Waits \/ Ends \/ Collects \/ Releases \/ Aborts \/ Begins
        BY <1>3, ProgramGoes
      <4>2. ~aborted' /\ pc' \in {"publishing", "measuring"} /\ Settle
        BY DEF Opened
      <4>3. ~Begins
        BY <4>2 DEF Begins, StartCohort, Goto
      <4>4. ~Aborts
        BY <4>2 DEF Aborts
      <4>5. aborted' = aborted
        BY <4>1, <4>3, <4>4 DEF Waits, Ends, Collects, Releases
      <4>6. ~Ends /\ ~Collects
        BY <4>2 DEF Ends, Collects
      <4>7. CASE Waits
        BY <4>2, <4>5, <4>7 DEF Waits
      <4>8. CASE Releases
        BY <4>2, <4>5, <4>8 DEF Releases
      <4> QED
        BY <4>1, <4>3, <4>4, <4>6, <4>7, <4>8
    <3>2. CASE pc = "settling"
      <4>1. Settled \/ SettleTimeout
        <5>1. pc' # "settling" /\ ~aborted
          BY <3>1 DEF Opened
        <5> QED
          BY <1>3, <3>2, <5>1
             DEF Program, Progress, Timeouts, Abort, AllReady, StartCohort, SettleAborted,
                 Published, RunAborted, RunFinished, EndRun, StopWaitDone, CollectDone,
                 Refuse, PublishFails, RunOverdue, RunCeiling, StopWaitTimeout,
                 CollectTimeout, StopAgain, BeginCollect, EndCollect, Goto
      <4>2. Early
        BY <3>1, <3>2 DEF Early
      <4>3. Cardinality(Ready) >= Awaited
        <5>1. CASE Settled
          BY <5>1 DEF Settled
        <5>2. CASE SettleTimeout
          <6>1. ~(Cardinality(Ready) < Awaited)
            BY <5>2 DEF SettleTimeout, Opened
          <6>2. Ready \in SUBSET Viewers
            BY <1>1 DEF Ready, Books
          <6>3. Cardinality(Ready) \in Nat
            BY <6>2, Few
          <6>4. Awaited \in Int
            <7>1. Awaited = Capacity /\ Live \in SUBSET Machines
              BY <1>1, AwaitedIsCapacity DEF Live
            <7>2. Capacity \in Nat
              BY <7>1, AdmittedViewers, FS_CardinalityType DEF Capacity
            <7> QED
              BY <7>1, <7>2
          <6> QED
            BY <6>1, <6>3, <6>4
        <5> QED
          BY <4>1, <5>1, <5>2
      <4> QED
        BY <1>1, <4>2, <4>3, Counted
    <3>3. CASE pc \in {"publishing", "measuring"}
      <4>1. caveat' = caveat
        BY <1>3, <3>3, SameCaveat DEF SettleTimeout, Goto
      <4>2. Opened
        BY <3>1, <3>3, <4>1 DEF Opened
      <4> QED
        BY <1>1, <4>2
    <3> QED
      BY <3>1, <3>2, <3>3
  <2>4. Masked => Masked'
    BY <1>1, <2>1, <2>2 DEF Masked, Books, Viewers
  <2>5. \A m \in Machines : Peered(m)' <=> Peered(m)
    BY <2>1 DEF Peered
  <2> QED
    BY <1>2, <2>2, <2>3, <2>4, <2>5
<1>4. ASSUME UNCHANGED <<pc, caveat>>, aborted => aborted',
             \A m \in Machines : link[m].lost => link'[m].lost,
             rollups.held \subseteq rollups'.held, rollups.exited \subseteq rollups'.exited,
             \A m \in Machines : host'[m].up /\ Peered(m) => Peered(m)'
      PROVE  (\A m \in Live' : Peered(m)') \/ Masked'
  <2>1. (\A m \in Live : Peered(m)) \/ Masked
    <3>1. Opened
      BY <1>4 DEF Opened
    <3> QED
      BY <1>1, <3>1
  <2>2. Masked => Masked'
    BY <1>1, <1>4 DEF Masked, Books, Viewers
  <2>3. Live' \subseteq Live
    BY <1>4 DEF Live
  <2>4. \A m \in Machines : Peered(m) => Peered(m)'
    BY <1>4 DEF Peered
  <2> QED
    BY <1>2, <2>1, <2>2, <2>3, <2>4
<1>5. ASSUME NEW m \in Machines, OwnStep(m), AgentStep(m), UNCHANGED controllerVars
      PROVE  (\A n \in Live' : Peered(n)') \/ Masked'
  <2>1. \A n \in Machines \ {m} : Peered(n) => Peered(n)'
    <3> TAKE n \in Machines \ {m}
    <3>1. host'[n] = host[n] /\ \A v \in On(n) : proc'[v] = proc[v]
      BY <1>5 DEF AgentStep, SameHost
    <3>2. \A i \in 0 .. Cap(n) - 1 : <<n, i>> \in On(n)
      BY CapViewers
    <3> QED
      BY <3>1, <3>2 DEF Peered
  <2>2. Peered(m) => Peered(m)'
    <3>1. \A i \in 0 .. Cap(m) - 1 : <<m, i>> \in On(m)
      BY CapViewers
    <3> QED
      BY <1>5, <3>1 DEF Peered, OwnStep
  <2> QED
    BY <1>4, <1>5, <2>1, <2>2 DEF controllerVars
<1>6. ASSUME NEW m \in Machines,
             AgentReady(m) \/ Tick(m) \/ HandleMessage(m) \/ Launch(m)
      PROVE  (\A n \in Live' : Peered(n)') \/ Masked'
  <2>1. OwnStep(m)
    BY <1>1, <1>6, SilentSteps, LaunchOwn
  <2>2. AgentStep(m)
    BY <1>1, <1>6, ReadyActs, TickActs, MessageActs, LaunchActs DEF Acted
  <2>3. UNCHANGED controllerVars
    BY <1>6 DEF AgentReady, Tick, HandleMessage, Launch
  <2> QED
    BY <1>5, <2>1, <2>2, <2>3
<1>7. ASSUME NEW v \in Viewers, ViewerParks(v) \/ ViewerEnds(v)
      PROVE  (\A n \in Live' : Peered(n)') \/ Masked'
  <2>1. v[1] \in Machines /\ OwnStep(v[1]) /\ AgentStep(v[1]) /\ UNCHANGED controllerVars
    BY <1>1, <1>7, ViewerOwn, ViewerActs DEF Acted, ViewerParks, ViewerEnds
  <2> QED
    BY <1>5, <2>1
<1>8. ASSUME NEW m \in Machines, Break(m)
      PROVE  (\A n \in Live' : Peered(n)') \/ Masked'
  <2>1. /\ ~host'[m].up /\ UNCHANGED controllerVars
        /\ \A n \in Machines \ {m} : SameHost(n)
    BY <1>1, <1>8, BreakActs
  <2>2. \A n \in Machines \ {m} : Peered(n) => Peered(n)'
    <3> TAKE n \in Machines \ {m}
    <3>1. \A i \in 0 .. Cap(n) - 1 : <<n, i>> \in On(n)
      BY CapViewers
    <3> QED
      BY <2>1, <3>1 DEF SameHost, Peered
  <2> QED
    BY <1>4, <2>1, <2>2 DEF controllerVars
<1>9. ASSUME NEW m \in Machines, Deliver(m)
      PROVE  (\A n \in Live' : Peered(n)') \/ Masked'
  <2>1. /\ UNCHANGED <<pc, aborted, host, proc>> /\ link'[m].lost = link[m].lost
        /\ \A n \in Machines \ {m} : link'[n] = link[n]
    BY <1>1, <1>9, DeliverActs
  <2>2. /\ caveat' = caveat /\ rollups.held \subseteq rollups'.held
        /\ rollups.exited \subseteq rollups'.exited
    BY <1>1, <1>9, DeliverRecords DEF Orderly
  <2> QED
    BY <1>4, <2>1, <2>2 DEF Peered
<1>10. ASSUME NEW m \in Machines, ChannelCloses(m)
       PROVE  (\A n \in Live' : Peered(n)') \/ Masked'
  <2>1. /\ UNCHANGED <<pc, host, proc>> /\ (aborted => aborted') /\ link'[m].lost
        /\ \A n \in Machines \ {m} : link'[n] = link[n]
    BY <1>1, <1>10, ClosesActs
  <2>2. caveat' = caveat /\ rollups'.held = rollups.held /\ rollups'.exited = rollups.exited
    BY <1>1, <1>10, CloseRecords
  <2> QED
    BY <1>4, <2>1, <2>2 DEF Peered
<1> QED
  BY <1>3, <1>6, <1>7, <1>8, <1>9, <1>10, Kinds

(* It all holds at first.                                                  *)
LEMMA RecordedAtFirst == Init => Recorded
<1> SUFFICES ASSUME Init PROVE Recorded
  OBVIOUS
<1>1. /\ pc = "awaiting" /\ aborted = FALSE /\ caveat = FALSE
      /\ rollups = [known |-> {}, held |-> {}, exited |-> {}, lost |-> {}]
  BY DEF Init
<1>2. Books /\ SettledUnlessMasked
  BY <1>1 DEF Books, SettledUnlessMasked, Opened
<1>3. ASSUME NEW m \in Machines
      PROVE  Orderly(m) /\ Modest(m)
  <2>1. /\ host[m] = Idle /\ up[m] = <<>> /\ down[m] = <<>> /\ link[m].lost = FALSE
        /\ \A v \in On(m) : proc[v] = "unborn"
    BY DEF Init, On
  <2>2. \A v \in On(m) : ~Named(m, v) /\ ~Reached(m, v)
    BY <1>1, <2>1 DEF Named, Reached, Among
  <2>3. OwnNews(m) /\ Introduced(m) /\ InOrder(m) /\ HeldTrue(m)
    BY <1>1, <2>1, <2>2 DEF OwnNews, Introduced, InOrder, HeldTrue
  <2>4. Quiet(m) /\ Noted(m)
    BY <2>1, <2>2 DEF Quiet, Noted
  <2>5. Cap(m) \in Nat
    BY OneShare, RunAssumption DEF Cap
  <2>6. host[m].started = 0 /\ host[m].budget = 0
    BY <2>1 DEF Idle
  <2>7. Modest(m)
    BY <2>1, <2>5, <2>6 DEF Modest, Limited
  <2> QED
    BY <2>3, <2>4, <2>7 DEF Orderly
<1> QED
  BY <1>2, <1>3 DEF Recorded

(* So it always is.                                                        *)
LEMMA RecordsHold == Spec => []Recorded
<1>1. IInv /\ Recorded /\ [Next]_vars => Recorded'
  <2>1. ASSUME IInv, Recorded, Next
        PROVE  Recorded'
    <3>1. Books' /\ \A m \in Machines : Orderly(m)' /\ Modest(m)'
      BY <2>1, RecordsKept DEF Recorded
    <3>2. SettledUnlessMasked'
      BY <2>1, SettledKept
    <3> QED
      BY <3>1, <3>2 DEF Recorded
  <2>2. ASSUME Recorded, UNCHANGED vars
        PROVE  Recorded'
    <3>1. /\ UNCHANGED <<pc, link, rollups, aborted, caveat, because>>
          /\ UNCHANGED <<host, proc, last, up, down>>
      BY <2>2 DEF vars
    <3>2. Books' /\ SettledUnlessMasked'
      <4>1. Live' = Live /\ \A m \in Machines : Peered(m)' <=> Peered(m)
        BY <3>1 DEF Live, Peered
      <4> QED
        BY <2>2, <3>1, <4>1 DEF Recorded, Books, SettledUnlessMasked, Opened, Live
    <3>3. ASSUME NEW m \in Machines
          PROVE  Orderly(m)' /\ Modest(m)'
      <4>1. SameRecord(m) /\ (Early' <=> Early) /\ (Asking' <=> Asking)
        BY <3>1 DEF SameRecord, Early, Asking
      <4> QED
        BY <2>2, <3>1, <4>1, OrderlyStays, ModestStays DEF Recorded
    <3> QED
      BY <3>2, <3>3 DEF Recorded
  <2> QED
    BY <2>1, <2>2
<1> QED
  BY <1>1, RecordedAtFirst, Inductive, PTL DEF Spec

(* settleAndRelease: a barrier that opened without a caveat opened on a    *)
(* cohort that had settled, whatever broke, was lost or was late before,   *)
(* unless a lost machine's viewer that exited was counted in a live one's  *)
(* place.                                                                  *)
THEOREM OpensOnlySettled == Spec => []SettledUnlessMasked
<1>1. Recorded => SettledUnlessMasked
  BY DEF Recorded
<1> QED
  BY <1>1, RecordsHold, PTL

-----------------------------------------------------------------------------
(* A number that says nobody is left.                                      *)
(*                                                                         *)
(* Later reports may follow, but when no start does, a report of nobody    *)
(* was the last word: from then on there was nobody.                       *)
NoStart(u, k) == \A j \in k + 1 .. Len(u) : u[j].what # "started"

LastWord(m) ==
  host[m].up =>
    /\ NoStart(up[m], 0) /\ link[m].active = 0 => Running(m) = {}
    /\ \A k \in 1 .. Len(up[m]) :
         NoStart(up[m], k) /\ up[m][k].state.active = 0 => Running(m) = {}

(* Where nothing is said and nobody starts, it stands.                     *)
LEMMA LastWordStays ==
  ASSUME NEW m \in Machines, LastWord(m), host'[m].up => host[m].up, up'[m] = up[m],
         link'[m].active = link[m].active, Running(m)' \subseteq Running(m)
  PROVE  LastWord(m)'
BY DEF LastWord, NoStart

(* A machine that says something says what it is.                          *)
LEMMA OwnLastWord ==
  ASSUME Typed, NEW m \in Machines, LastWord(m), LastIsTrue(m)', AgentStep(m),
         \/ Running(m)' \subseteq Running(m)
         \/ host'[m].started # host[m].started
  PROVE  LastWord(m)'
<1>1. host[m].up /\ host'[m].up /\ link' = link
  BY DEF AgentStep
<1>2. CASE up'[m] = up[m] /\ host'[m].started = host[m].started
  BY <1>1, <1>2, LastWordStays
<1>3. CASE \E message \in Reports :
             /\ up'[m] = Append(up[m], message) /\ message.state = last'[m]
             /\ message.what # "started" => host'[m].started = host[m].started
  <2>1. PICK message \in Reports :
             /\ up'[m] = Append(up[m], message) /\ message.state = last'[m]
             /\ message.what # "started" => host'[m].started = host[m].started
    BY <1>3
  <2> DEFINE u == up[m]
             w == up'[m]
  <2>2. u \in Seq(Reports) /\ w = Append(u, message)
    BY <2>1 DEF Typed
  <2> HIDE DEF u, w
  <2>3. /\ Len(u) \in Nat /\ Len(w) = Len(u) + 1 /\ w[Len(w)] = message
        /\ \A j \in 1 .. Len(u) : w[j] = u[j]
    BY <2>2
  <2>4. ASSUME NEW k \in 0 .. Len(u), NoStart(w, k)
        PROVE  NoStart(u, k) /\ Running(m)' \subseteq Running(m)
    <3>1. Len(w) \in k + 1 .. Len(w) /\ k + 1 .. Len(u) \subseteq k + 1 .. Len(w)
      BY <2>3
    <3>2. message.what # "started"
      BY <2>3, <2>4, <3>1 DEF NoStart
    <3>3. NoStart(u, k)
      BY <2>3, <2>4, <3>1 DEF NoStart
    <3> QED
      BY <2>1, <3>2, <3>3
  <2>5. ASSUME NoStart(w, 0), link'[m].active = 0
        PROVE  Running(m)' = {}
    <3>1. 0 \in 0 .. Len(u)
      BY <2>3
    <3>2. NoStart(u, 0) /\ Running(m)' \subseteq Running(m)
      BY <2>4, <2>5, <3>1
    <3> QED
      BY <1>1, <2>5, <3>2 DEF LastWord, u
  <2>6. ASSUME NEW k \in 1 .. Len(w), NoStart(w, k), w[k].state.active = 0
        PROVE  Running(m)' = {}
    <3>1. CASE k = Len(w)
      <4>1. Cardinality(Running(m)') = 0
        BY <1>1, <2>1, <2>3, <2>6, <3>1 DEF LastIsTrue
      <4>2. IsFiniteSet(Running(m)')
        <5>1. Running(m)' \in SUBSET Viewers
          BY DEF Running, On
        <5> QED
          BY <5>1, Few
      <4> QED
        BY <4>1, <4>2, FS_EmptySet
    <3>2. CASE k \in 1 .. Len(u)
      <4>1. NoStart(u, k) /\ Running(m)' \subseteq Running(m) /\ w[k] = u[k]
        BY <2>3, <2>4, <2>6, <3>2
      <4> QED
        BY <1>1, <2>6, <3>2, <4>1 DEF LastWord, u
    <3> QED
      BY <2>3, <3>1, <3>2
  <2> QED
    BY <2>5, <2>6 DEF LastWord, w
<1>4. ASSUME NEW message \in Reports,
             /\ up'[m] = Append(up[m], message) /\ message.state = last'[m]
             /\ \/ message.what # "started" /\ host'[m].started = host[m].started
                \/ /\ Carries(message, m, host[m].started)
                   /\ host'[m].started = host[m].started + 1
      PROVE  LastWord(m)'
  BY <1>3, <1>4 DEF Carries
<1> QED
  BY <1>2, <1>4 DEF AgentStep

(* Each of its steps ends viewers, or is a start.                          *)
LEMMA AgentLastWord ==
  ASSUME Typed, NEW m \in Machines, LastWord(m), LastIsTrue(m)',
         \/ AgentReady(m) \/ Tick(m) \/ HandleMessage(m) \/ Launch(m)
         \/ \E v \in Viewers : v[1] = m /\ (ViewerParks(v) \/ ViewerEnds(v))
  PROVE  LastWord(m)'
<1>1. CASE AgentReady(m) \/ Tick(m) \/ HandleMessage(m)
  <2>1. AgentStep(m)
    BY <1>1, ReadyActs, TickActs, MessageActs DEF Acted
  <2>2. proc' = proc
    BY <1>1 DEF AgentReady, Tick, HandleMessage
  <2>3. Running(m)' = Running(m)
    BY <2>2 DEF Running
  <2> QED
    BY <2>1, <2>3, OwnLastWord
<1>2. CASE Launch(m)
  <2>1. AgentStep(m)
    BY <1>2, LaunchActs DEF Acted
  <2>2. host[m].started \in Nat /\ host'[m].started = host[m].started + 1
    BY <1>2 DEF Launch, Typed, Hosts
  <2> QED
    BY <2>1, <2>2, OwnLastWord
<1>3. ASSUME NEW v \in Viewers, v[1] = m, ViewerParks(v) \/ ViewerEnds(v)
      PROVE  LastWord(m)'
  <2>1. AgentStep(m) /\ Running(m)' \subseteq Running(m)
    BY <1>3, ViewerActs DEF Acted
  <2> QED
    BY <2>1, OwnLastWord
<1> QED
  BY <1>1, <1>2, <1>3

(* What is taken off the queue is believed.                                *)
LEMMA DeliverLastWord ==
  ASSUME Typed, NEW m \in Machines, LastWord(m), Deliver(m)
  PROVE  LastWord(m)'
<1> DEFINE u == up[m]
           w == up'[m]
<1>1. /\ UNCHANGED <<host, proc>> /\ u # <<>> /\ w = Tail(u) /\ u \in Seq(Reports)
      /\ link'[m].active = Head(u).state.active
  BY DeliverActs DEF Typed
<1>2. Running(m)' = Running(m)
  BY <1>1 DEF Running
<1> HIDE DEF u, w
<1>3. /\ Len(u) \in Nat \ {0} /\ Len(w) = Len(u) - 1 /\ Head(u) = u[1]
      /\ \A j \in 1 .. Len(w) : w[j] = u[j + 1]
  BY <1>1
<1>4. ASSUME NEW k \in 0 .. Len(w), NoStart(w, k)
      PROVE  NoStart(u, k + 1)
  <2> SUFFICES ASSUME NEW j \in k + 2 .. Len(u) PROVE u[j].what # "started"
    BY DEF NoStart
  <2>1. j - 1 \in k + 1 .. Len(w) /\ j - 1 \in 1 .. Len(w) /\ (j - 1) + 1 = j
    BY <1>3
  <2> QED
    BY <1>3, <1>4, <2>1 DEF NoStart
<1>5. ASSUME host[m].up, NoStart(w, 0), link'[m].active = 0
      PROVE  Running(m)' = {}
  <2>1. 0 \in 0 .. Len(w) /\ 1 \in 1 .. Len(u) /\ 0 + 1 = 1
    BY <1>3
  <2>2. NoStart(u, 1) /\ u[1].state.active = 0
    BY <1>1, <1>3, <1>4, <1>5, <2>1
  <2> QED
    BY <1>2, <1>5, <2>1, <2>2 DEF LastWord, u
<1>6. ASSUME host[m].up, NEW k \in 1 .. Len(w), NoStart(w, k), w[k].state.active = 0
      PROVE  Running(m)' = {}
  <2>1. k \in 0 .. Len(w) /\ k + 1 \in 1 .. Len(u) /\ w[k] = u[k + 1]
    BY <1>3
  <2>2. NoStart(u, k + 1)
    BY <1>4, <1>6, <2>1
  <2> QED
    BY <1>2, <1>6, <2>1, <2>2 DEF LastWord, u
<1> QED
  BY <1>1, <1>5, <1>6 DEF LastWord, w

(* Every step keeps every machine's last word.                             *)
LEMMA LastWordsKept ==
  ASSUME IInv, IInv', \A m \in Machines : LastWord(m), Next, NEW n \in Machines
  PROVE  LastWord(n)'
<1>1. Typed /\ LastIsTrue(n)'
  BY DEF IInv, Believed
<1>2. ASSUME SameHost(n), link'[n] = link[n]
      PROVE  LastWord(n)'
  <2>1. Running(n)' = Running(n)
    BY <1>2 DEF SameHost, Running
  <2> QED
    BY <1>2, <2>1, LastWordStays DEF SameHost
<1>3. CASE Program
  <2>1. /\ UNCHANGED <<host, proc, up>> /\ link'[n].active = link[n].active
    BY <1>1, <1>3, ProgramActs DEF ControllerStep, SameBelief
  <2>2. Running(n)' = Running(n)
    BY <2>1 DEF Running
  <2> QED
    BY <2>1, <2>2, LastWordStays
<1>4. ASSUME NEW m \in Machines, Acted(m), m # n
      PROVE  LastWord(n)'
  <2>1. SameHost(n) /\ link' = link
    BY <1>4 DEF Acted, AgentStep
  <2> QED
    BY <1>2, <2>1
<1>5. ASSUME NEW m \in Machines,
             AgentReady(m) \/ Tick(m) \/ HandleMessage(m) \/ Launch(m)
      PROVE  LastWord(n)'
  <2>1. CASE m = n
    BY <1>1, <1>5, <2>1, AgentLastWord
  <2>2. CASE m # n
    BY <1>1, <1>4, <1>5, <2>2, ReadyActs, TickActs, MessageActs, LaunchActs
  <2> QED
    BY <2>1, <2>2
<1>6. ASSUME NEW v \in Viewers, ViewerParks(v) \/ ViewerEnds(v)
      PROVE  LastWord(n)'
  <2>1. CASE v[1] = n
    BY <1>1, <1>6, <2>1, AgentLastWord
  <2>2. CASE v[1] # n
    BY <1>1, <1>4, <1>6, <2>2, ViewerActs
  <2> QED
    BY <2>1, <2>2
<1>7. ASSUME NEW m \in Machines, Break(m)
      PROVE  LastWord(n)'
  <2>1. /\ ~host'[m].up /\ link' = link
        /\ \A k \in Machines \ {m} : SameHost(k)
    BY <1>1, <1>7, BreakActs DEF controllerVars
  <2>2. CASE m = n
    BY <2>1, <2>2 DEF LastWord
  <2>3. CASE m # n
    BY <1>2, <2>1, <2>3
  <2> QED
    BY <2>2, <2>3
<1>8. ASSUME NEW m \in Machines, Deliver(m)
      PROVE  LastWord(n)'
  <2>1. CASE m = n
    BY <1>1, <1>8, <2>1, DeliverLastWord
  <2>2. CASE m # n
    <3>1. SameHost(n) /\ link'[n] = link[n]
      BY <1>1, <1>8, <2>2, DeliverActs DEF SameHost
    <3> QED
      BY <1>2, <3>1
  <2> QED
    BY <2>1, <2>2
<1>9. ASSUME NEW m \in Machines, ChannelCloses(m)
      PROVE  LastWord(n)'
  <2>1. /\ ~host[m].up /\ UNCHANGED <<host, proc, last, up>>
        /\ \A k \in Machines \ {m} : link'[k] = link[k]
    BY <1>1, <1>9, ClosesActs
  <2>2. CASE m = n
    BY <2>1, <2>2 DEF LastWord
  <2>3. CASE m # n
    BY <1>2, <2>1, <2>3 DEF SameHost
  <2> QED
    BY <2>2, <2>3
<1> QED
  BY <1>3, <1>5, <1>6, <1>7, <1>8, <1>9, Kinds

(* A run ends as finished only by RunFinished.                             *)
LEMMA WayToFinish ==
  ASSUME Typed, Next, because' = "finished", because # "finished"
  PROVE  RunFinished
<1>1. CASE Program
  <2>1. Waits \/ Ends \/ Collects \/ Releases \/ Aborts \/ Begins
    BY <1>1, ProgramGoes
  <2> QED
    BY <2>1 DEF Waits, Ends, Collects, Releases, Aborts, Begins
<1>2. ASSUME NEW m \in Machines, Acted(m) \/ Break(m) \/ Deliver(m) \/ ChannelCloses(m)
      PROVE  because' = because
  BY <1>2, BreakActs, DeliverActs, ClosesActs DEF Acted, AgentStep, controllerVars
<1> QED
  BY <1>1, <1>2, Acts

(* Where the sum is nothing, each is.                                      *)
LEMMA NobodyCounted ==
  ASSUME Typed, TotalActive = 0, NEW m \in Machines
  PROVE  link[m].active = 0
<1> DEFINE f == [n \in Machines |-> link[n].active]
<1>1. \A n \in Machines : f[n] \in Nat /\ f[n] = link[n].active
  BY DEF Typed, Links
<1>2. Cardinality(Units(f, Machines)) = 0
  BY DEF TotalActive, SumOver
<1>3. IsFiniteSet(Units(f, Machines))
  <2> HIDE DEF f
  <2>1. Division!IsFiniteSet(Division!Units(f, Machines))
    BY <1>1, Divisible, RunAssumption, Division!SumType
  <2>2. Division!Units(f, Machines) = Units(f, Machines)
    BY DEF Division!Units, Units
  <2> QED
    BY <2>1, <2>2, SameDivision
<1> HIDE DEF f
<1>4. Units(f, Machines) = {}
  BY <1>2, <1>3, FS_EmptySet
<1>5. \A k \in 1 .. f[m] : <<m, k>> \in Units(f, Machines)
  BY DEF Units
<1>6. 1 \notin 1 .. f[m]
  BY <1>4, <1>5
<1> QED
  BY <1>1, <1>6

(* driveFixed: whenever a run ends as finished, whatever was early, late,  *)
(* lost or aborted before, a machine all of whose share is among the       *)
(* starts counted has nobody left: what the controller's numbers can be    *)
(* behind in is only the starts.                                           *)
THEOREM FinishedIsEmptied == Spec => FinishedLeavesNobody
<1>1. ASSUME IInv, Recorded, \A m \in Machines : LastWord(m), Next,
             because' = "finished", because # "finished",
             NEW m \in Live, host[m].up, link[m].started = Cap(m)
      PROVE  Emptied(m)
  <2>1. m \in Machines /\ Typed /\ Believed(m) /\ Limited(m) /\ LastWord(m)
    BY <1>1 DEF Live, IInv, Recorded, Modest
  <2>2. link[m].active = 0
    <3>1. TotalActive = 0
      BY <1>1, <2>1, WayToFinish DEF RunFinished, Finished
    <3> QED
      BY <2>1, <3>1, NobodyCounted
  <2>3. host[m].started = Cap(m) /\ link[m].started = host[m].started
    <3>1. host[m].started <= Cap(m) /\ link[m].started <= host[m].started
      BY <1>1, <2>1 DEF Limited, Believed, Numbered
    <3>2. Cap(m) \in Nat /\ host[m].started \in Nat
      BY <2>1, OneShare, RunAssumption DEF Cap, Typed, Hosts
    <3> QED
      BY <1>1, <3>1, <3>2
  <2>4. Uncounted(m) = {}
    <3>1. host[m].started \in Nat
      BY <2>1 DEF Typed, Hosts
    <3> QED
      BY <2>3, <3>1 DEF Uncounted
  <2>5. NoStart(up[m], 0)
    BY <1>1, <2>1, <2>4 DEF NoStart, Believed, Numbered
  <2>6. Running(m) = {}
    BY <1>1, <2>1, <2>2, <2>5 DEF LastWord
  <2> QED
    BY <2>3, <2>6 DEF Emptied
<1> DEFINE LastWords == \A m \in Machines : LastWord(m)
           Left == because' = "finished" =>
                     \A m \in Live : host[m].up /\ link[m].started = Cap(m) => Emptied(m)
<1>2. IInv /\ Recorded /\ LastWords /\ [Next]_vars => [Left]_because
  BY <1>1 DEF vars
<1>3. IInv /\ IInv' /\ LastWords /\ [Next]_vars => LastWords'
  <2>1. ASSUME LastWords, UNCHANGED vars
        PROVE  LastWords'
    <3>1. UNCHANGED <<host, up, link, proc>>
      BY <2>1 DEF vars
    <3>2. \A m \in Machines : Running(m)' = Running(m)
      BY <3>1 DEF Running
    <3> QED
      BY <2>1, <3>1, <3>2, LastWordStays
  <2> QED
    BY <2>1, LastWordsKept
<1>4. Init => LastWords
  <2> SUFFICES ASSUME Init, NEW m \in Machines PROVE LastWord(m)
    OBVIOUS
  <2>1. up[m] = <<>> /\ \A v \in Viewers : proc[v] = "unborn"
    BY DEF Init
  <2>2. Running(m) = {}
    BY <2>1 DEF Running, On
  <2> QED
    BY <2>2 DEF LastWord
<1> HIDE DEF LastWords
<1>5. Spec => [][Left]_because
  BY <1>2, <1>3, <1>4, Inductive, RecordsHold, PTL DEF Spec
<1> QED
  BY <1>5 DEF FinishedLeavesNobody

-----------------------------------------------------------------------------
(* Waits that end by themselves.                                           *)

(* Nothing is on its way to or from m, its agent has nobody to start, its  *)
(* viewers wait for the barrier, and a closed pipe has been noticed: none  *)
(* of Unhurried's actions but the controller's own can be taken.           *)
Resting(m) ==
  /\ up[m] = <<>>
  /\ IF host[m].up
     THEN /\ down[m] = <<>> /\ host[m].prepared
          /\ \/ host[m].stopping
             \/ Cardinality(Running(m)) >= host[m].target
             \/ host[m].started >= host[m].budget
          /\ \A v \in Running(m) : proc[v] = "parked" /\ ~Watching(m)
     ELSE link[m].lost \/ link[m].collected
AtRest == \A m \in Machines : Resting(m)

(* The wait the controller is in is over without its timeout.              *)
WaitOver ==
  /\ pc = "awaiting" => \A m \in Live : link[m].ready
  /\ pc = "measuring" /\ ~aborted => Finished
  /\ pc \in {"draining", "stopping"} => TotalActive = 0
  /\ pc = "collecting" => \A m \in Machines : link[m].collected

(* A machine written off is counted in still (onAgentMessage). *)
StillCounted == \E m \in Machines : link[m].lost /\ link[m].active # 0

Died == \E v \in Viewers : proc[v] = "died"
Settleable == LiveStarted >= Awaited /\ Cardinality(Ready) >= Awaited

Stopping == aborted \/ pc \in {"draining", "stopping", "collecting"}
Ending == pc \in {"collecting", "over"}

(* A message of this kind is in a queue; the targets in it are n.          *)
In(u, what) == \E i \in 1 .. Len(u) : u[i].what = what
Targeting(u, n) == \A i \in 1 .. Len(u) : u[i].what = "target" => u[i].n = n

(* A machine that has spent its budget said so, unless it was never asked  *)
(* for anything.                                                           *)
Confessed(m) ==
  host[m].started >= host[m].budget => last[m].exhausted \/ host[m].target = 0

(* While the run drives it, its target is the one the controller holds, or *)
(* is on its way to be.                                                    *)
Targeted(m) ==
  Driving => /\ Targeting(down[m], link[m].target)
             /\ \/ In(down[m], "target")
                \/ host[m].target = link[m].target /\ host[m].budget = link[m].target
             /\ ~host[m].stopping /\ ~In(down[m], "stop")

(* It was told to stop, or to open its barrier, when that was decided.     *)
Instructed(m) ==
  /\ Asking => ~host[m].stopping /\ down[m] = <<>>
  /\ Stopping => host[m].stopping \/ In(down[m], "stop")
  /\ Driving /\ Settle /\ pc = "measuring" =>
       host[m].released \/ In(down[m], "release")

(* It answers what it is asked.                                            *)
Answers(m) ==
  /\ host[m].prepared => link[m].ready \/ In(up[m], "ready")
  /\ pc = "collecting" =>
       link[m].collected \/ In(down[m], "collect") \/ In(up[m], "collected")

Dutiful(m) ==
  host[m].up => Confessed(m) /\ Targeted(m) /\ Instructed(m) /\ Answers(m)

(* Nobody is counted as collected before the run collects, but the lost.   *)
Uncollected(m) ==
  /\ link[m].lost => link[m].collected
  /\ link[m].collected => link[m].lost \/ Ending
  /\ In(down[m], "collect") \/ In(up[m], "collected") => Ending

(* What is in a queue with a message more at its end.                      *)
LEMMA InAppended ==
  ASSUME NEW S, NEW u \in Seq(S), NEW x \in S, NEW what, NEW n
  PROVE  /\ In(Append(u, x), what) <=> In(u, what) \/ x.what = what
         /\ Targeting(Append(u, x), n) <=>
              Targeting(u, n) /\ (x.what = "target" => x.n = n)
<1> DEFINE w == Append(u, x)
<1>1. /\ Len(u) \in Nat /\ Len(w) = Len(u) + 1 /\ w[Len(u) + 1] = x
      /\ \A i \in 1 .. Len(u) : w[i] = u[i]
  OBVIOUS
<1> HIDE DEF w
<1>2. \A i : i \in 1 .. Len(w) <=> i \in 1 .. Len(u) \/ i = Len(u) + 1
  BY <1>1
<1>3. /\ In(w, what) <=> In(u, what) \/ x.what = what
      /\ Targeting(w, n) <=> Targeting(u, n) /\ (x.what = "target" => x.n = n)
  BY <1>1, <1>2 DEF In, Targeting
<1> QED
  BY <1>3 DEF w

(* The same, of its front.                                                 *)
LEMMA InTail ==
  ASSUME NEW S, NEW u \in Seq(S), u # <<>>, NEW what, NEW n
  PROVE  /\ In(u, what) <=> Head(u).what = what \/ In(Tail(u), what)
         /\ Targeting(u, n) <=>
              (Head(u).what = "target" => Head(u).n = n) /\ Targeting(Tail(u), n)
<1> DEFINE t == Tail(u)
<1>1. /\ Len(t) \in Nat /\ Len(u) = Len(t) + 1 /\ Head(u) = u[1]
      /\ \A i \in 1 .. Len(t) : t[i] = u[i + 1]
  OBVIOUS
<1> HIDE DEF t
<1>2. /\ 1 \in 1 .. Len(u) /\ \A i \in 1 .. Len(t) : i + 1 \in 1 .. Len(u)
      /\ \A i \in 1 .. Len(u) : i = 1 \/ (i - 1 \in 1 .. Len(t) /\ u[i] = t[i - 1])
  BY <1>1
<1>3. /\ In(u, what) <=> Head(u).what = what \/ In(t, what)
      /\ Targeting(u, n) <=>
           (Head(u).what = "target" => Head(u).n = n) /\ Targeting(t, n)
  BY <1>1, <1>2 DEF In, Targeting
<1> QED
  BY <1>3 DEF t

(* Nothing happened to this machine.                                       *)
LEMMA DutyStays ==
  ASSUME NEW n \in Machines, Dutiful(n), Uncollected(n),
         host'[n] = host[n], last'[n] = last[n], up'[n] = up[n], down'[n] = down[n],
         link'[n] = link[n], pc' = pc, host[n].up => aborted' = aborted
  PROVE  Dutiful(n)' /\ Uncollected(n)'
<1>1. Uncollected(n)'
  BY DEF Uncollected, Ending
<1>2. Dutiful(n)'
  BY DEF Dutiful, Confessed, Targeted, Instructed, Answers, Driving, Asking, Stopping
<1> QED
  BY <1>1, <1>2

(* A machine acts by itself, and tells of it.                              *)
LEMMA OwnDuty ==
  ASSUME Typed, NEW m \in Machines, Dutiful(m), Uncollected(m), AgentStep(m),
         down'[m] = down[m],
         host'[m].target = host[m].target, host'[m].budget = host[m].budget,
         host'[m].stopping = host[m].stopping, host'[m].released = host[m].released,
         host'[m].prepared => host[m].prepared \/ In(up'[m], "ready"),
         last'[m] = Now(m)' \/ (last'[m] = last[m] /\ host'[m].started = host[m].started),
         up'[m] = up[m] \/ \E message \in Reports :
                             up'[m] = Append(up[m], message) /\ message.what # "collected"
  PROVE  Dutiful(m)' /\ Uncollected(m)'
<1>1. host[m].up /\ host'[m].up /\ UNCHANGED <<link, pc, aborted>>
  BY DEF AgentStep
<1>2. /\ In(up[m], "ready") => In(up'[m], "ready")
      /\ In(up'[m], "collected") <=> In(up[m], "collected")
  <2>1. CASE up'[m] = up[m]
    BY <2>1
  <2>2. CASE \E message \in Reports :
               up'[m] = Append(up[m], message) /\ message.what # "collected"
    <3>1. PICK message \in Reports :
               up'[m] = Append(up[m], message) /\ message.what # "collected"
      BY <2>2
    <3>2. up[m] \in Seq(Reports)
      BY DEF Typed
    <3>3. \A what : In(Append(up[m], message), what) <=> In(up[m], what) \/ message.what = what
      BY <3>1, <3>2, InAppended
    <3> QED
      BY <3>1, <3>3
  <2> QED
    BY <2>1, <2>2
<1>3. Uncollected(m)'
  BY <1>1, <1>2 DEF Uncollected, Ending
<1>4. Confessed(m) /\ Targeted(m) /\ Instructed(m) /\ Answers(m)
  BY <1>1 DEF Dutiful
<1>5. Confessed(m)'
  BY <1>4, NowTyped DEF Confessed
<1>6. Targeted(m)' /\ Instructed(m)'
  BY <1>1, <1>4 DEF Targeted, Instructed, Driving, Asking, Stopping
<1>7. Answers(m)'
  BY <1>1, <1>2, <1>4 DEF Answers
<1> QED
  BY <1>3, <1>5, <1>6, <1>7 DEF Dutiful

(* A machine does as it was told.                                          *)
LEMMA MessageDuty ==
  ASSUME Typed, NEW m \in Machines, Dutiful(m), Uncollected(m), HandleMessage(m)
  PROVE  Dutiful(m)' /\ Uncollected(m)'
<1> DEFINE order == Head(down[m])
<1>1. /\ host[m].up /\ down[m] # <<>> /\ down' = [down EXCEPT ![m] = Tail(@)]
      /\ UNCHANGED <<controllerVars, proc>>
      /\ IF order.what = "collect" THEN Say(m, "collected", {}) ELSE Report(m)
      /\ host' = [host EXCEPT ![m] =
          CASE order.what = "target" ->
                 [@ EXCEPT !.target = order.n, !.budget = order.n]
            [] order.what = "release" -> [@ EXCEPT !.released = TRUE]
            [] order.what = "stop" -> [@ EXCEPT !.stopping = TRUE]
            [] order.what = "collect" -> @]
  BY DEF HandleMessage
<1>2. /\ order \in Orders /\ host'[m].up = host[m].up
      /\ host'[m].started = host[m].started
      /\ order.what = "target" =>
           /\ host'[m].target = order.n /\ host'[m].budget = order.n
           /\ host'[m].stopping = host[m].stopping
      /\ order.what # "target" =>
           /\ host'[m].target = host[m].target /\ host'[m].budget = host[m].budget
  BY Handled
<1>3. order.what \in {"target", "release", "stop", "collect"}
  BY <1>2 DEF Orders
<1>4. /\ host'[m].prepared = host[m].prepared
      /\ order.what # "stop" => host'[m].stopping = host[m].stopping
      /\ order.what = "stop" => host'[m].stopping
      /\ order.what # "release" => host'[m].released = host[m].released
      /\ order.what = "release" => host'[m].released
  <2>1. host \in [Machines -> Hosts] /\ host[m] \in Hosts
    BY DEF Typed
  <2> HIDE DEF order
  <2>2. CASE order.what = "target"
    <3>1. host'[m] = [host[m] EXCEPT !.target = order.n, !.budget = order.n]
      BY <1>1, <2>1, <2>2
    <3> QED
      BY <2>1, <2>2, <3>1 DEF Hosts
  <2>3. CASE order.what = "release"
    <3>1. host'[m] = [host[m] EXCEPT !.released = TRUE]
      BY <1>1, <2>1, <2>3
    <3> QED
      BY <2>1, <2>3, <3>1 DEF Hosts
  <2>4. CASE order.what = "stop"
    <3>1. host'[m] = [host[m] EXCEPT !.stopping = TRUE]
      BY <1>1, <2>1, <2>4
    <3> QED
      BY <2>1, <2>4, <3>1 DEF Hosts
  <2>5. CASE order.what = "collect"
    <3>1. host'[m] = host[m]
      BY <1>1, <2>1, <2>5
    <3> QED
      BY <2>5, <3>1
  <2> QED
    BY <1>3, <2>2, <2>3, <2>4, <2>5
<1>5. /\ last'[m] = Now(m)'
      /\ In(up[m], "ready") => In(up'[m], "ready")
      /\ In(up'[m], "collected") <=> In(up[m], "collected") \/ order.what = "collect"
  <2> HIDE DEF order
  <2>1. up[m] \in Seq(Reports)
    BY DEF Typed
  <2>2. CASE order.what = "collect"
    <3> DEFINE message == [what |-> "collected", about |-> {}, state |-> Now(m)']
    <3>1. "collected" \in Whats /\ {} \in SUBSET Viewers
      BY DEF Whats
    <3>2. last'[m] = Now(m)' /\ message \in Reports /\ up'[m] = Append(up[m], message)
      BY <1>1, <2>2, <3>1, Said
    <3>3. message.what = "collected"
      OBVIOUS
    <3> HIDE DEF message
    <3>4. \A what : In(Append(up[m], message), what) <=> In(up[m], what) \/ message.what = what
      BY <2>1, <3>2, InAppended
    <3> QED
      BY <2>2, <3>2, <3>3, <3>4
  <2>3. CASE order.what # "collect"
    <3>1. /\ last'[m] = Now(m)'
          /\ \/ up'[m] = up[m]
             \/ \E message \in Reports : /\ message.what = "state"
                                         /\ up'[m] = Append(up[m], message)
      BY <1>1, <2>3, Reported
    <3>2. CASE up'[m] = up[m]
      BY <2>3, <3>1, <3>2
    <3>3. CASE \E message \in Reports : /\ message.what = "state"
                                        /\ up'[m] = Append(up[m], message)
      <4>1. PICK message \in Reports : /\ message.what = "state"
                                       /\ up'[m] = Append(up[m], message)
        BY <3>3
      <4>2. \A what : In(Append(up[m], message), what)
                        <=> In(up[m], what) \/ message.what = what
        BY <2>1, InAppended
      <4> QED
        BY <2>3, <3>1, <4>1, <4>2
    <3> QED
      BY <3>1, <3>2, <3>3
  <2> QED
    BY <2>2, <2>3
<1>6. /\ \A what : In(down[m], what) <=> order.what = what \/ In(down'[m], what)
      /\ \A n : Targeting(down[m], n) <=>
                 (order.what = "target" => order.n = n) /\ Targeting(down'[m], n)
  <2>1. down[m] \in Seq(Orders) /\ down'[m] = Tail(down[m])
    BY <1>1 DEF Typed
  <2> HIDE DEF order
  <2>2. order = Head(down[m])
    BY DEF order
  <2>3. \A what, n : /\ In(down[m], what) <=> order.what = what \/ In(Tail(down[m]), what)
                     /\ Targeting(down[m], n) <=>
                          (order.what = "target" => order.n = n)
                            /\ Targeting(Tail(down[m]), n)
    BY <1>1, <2>1, <2>2, InTail
  <2> QED
    BY <2>1, <2>3
<1> HIDE DEF order
<1>7. UNCHANGED <<link, pc, aborted>>
  BY <1>1 DEF controllerVars
<1>8. Confessed(m) /\ Targeted(m) /\ Instructed(m) /\ Answers(m)
  BY <1>1 DEF Dutiful
<1>9. Confessed(m)'
  BY <1>5, NowTyped DEF Confessed
<1>10. Targeted(m)'
  <2> SUFFICES ASSUME Driving' PROVE Targeted(m)'
    BY DEF Targeted
  <2>1. /\ Targeting(down[m], link[m].target)
        /\ \/ In(down[m], "target")
           \/ host[m].target = link[m].target /\ host[m].budget = link[m].target
        /\ ~host[m].stopping /\ ~In(down[m], "stop")
    BY <1>7, <1>8 DEF Targeted, Driving
  <2>2. Targeting(down'[m], link[m].target) /\ ~In(down'[m], "stop") /\ order.what # "stop"
    BY <1>6, <2>1
  <2>3. ~host'[m].stopping
    BY <1>4, <2>1, <2>2
  <2>4. CASE order.what = "target"
    <3>1. order.n = link[m].target
      BY <1>6, <2>1, <2>4
    <3> QED
      BY <1>2, <1>7, <2>2, <2>3, <2>4, <3>1 DEF Targeted
  <2>5. CASE order.what # "target"
    BY <1>2, <1>6, <1>7, <2>1, <2>2, <2>3, <2>5 DEF Targeted
  <2> QED
    BY <2>4, <2>5
<1>11. Instructed(m)'
  <2>1. ~Asking'
    BY <1>1, <1>7, <1>8 DEF Instructed, Asking
  <2>2. Stopping' => host'[m].stopping \/ In(down'[m], "stop")
    BY <1>4, <1>6, <1>7, <1>8 DEF Instructed, Stopping
  <2>3. (Driving /\ Settle /\ pc = "measuring")' =>
          host'[m].released \/ In(down'[m], "release")
    BY <1>4, <1>6, <1>7, <1>8 DEF Instructed, Driving
  <2> QED
    BY <2>1, <2>2, <2>3 DEF Instructed
<1>12. Answers(m)'
  BY <1>4, <1>5, <1>6, <1>7, <1>8 DEF Answers
<1>13. Uncollected(m)'
  BY <1>5, <1>6, <1>7 DEF Uncollected, Ending
<1> QED
  BY <1>9, <1>10, <1>11, <1>12, <1>13 DEF Dutiful

(* The controller hears of it.                                             *)
LEMMA DeliverDuty ==
  ASSUME Typed, NEW m \in Machines, Dutiful(m), Uncollected(m), Deliver(m)
  PROVE  Dutiful(m)' /\ Uncollected(m)'
<1> DEFINE message == Head(up[m])
<1>1. /\ UNCHANGED <<pc, aborted, host, last, down>>
      /\ up[m] # <<>> /\ up'[m] = Tail(up[m]) /\ up[m] \in Seq(Reports)
      /\ link'[m].lost = link[m].lost /\ link'[m].target = link[m].target
  BY DeliverActs DEF Typed
<1>2. /\ link'[m].ready = (link[m].ready \/ message.what = "ready")
      /\ link'[m].collected = (link[m].collected \/ message.what = "collected")
  BY DEF Deliver, Typed, Links
<1>3. \A what : In(up[m], what) <=> message.what = what \/ In(up'[m], what)
  BY <1>1, InTail
<1> HIDE DEF message
<1>4. Uncollected(m)'
  BY <1>1, <1>2, <1>3 DEF Uncollected, Ending
<1>5. ASSUME host[m].up
      PROVE  Confessed(m)' /\ Targeted(m)' /\ Instructed(m)' /\ Answers(m)'
  <2>1. Confessed(m) /\ Targeted(m) /\ Instructed(m) /\ Answers(m)
    BY <1>5 DEF Dutiful
  <2>2. Confessed(m)' /\ Targeted(m)' /\ Instructed(m)'
    BY <1>1, <2>1
       DEF Confessed, Targeted, Instructed, Driving, Asking, Stopping
  <2>3. Answers(m)'
    BY <1>1, <1>2, <1>3, <2>1 DEF Answers
  <2> QED
    BY <2>2, <2>3
<1> QED
  BY <1>1, <1>4, <1>5 DEF Dutiful

(* A machine that broke owes nothing, and one written off is collected.    *)
LEMMA BreakDuty ==
  ASSUME Typed, NEW m \in Machines, Uncollected(m), Break(m)
  PROVE  Dutiful(m)' /\ Uncollected(m)'
<1>1. ~host'[m].up /\ UNCHANGED controllerVars
  BY BreakActs
<1>2. ~In(down'[m], "collect")
  BY DEF Break, Typed, In
<1>3. In(up'[m], "collected") => In(up[m], "collected")
  <2>1. PICK k \in 0 .. Len(up[m]) : up' = [up EXCEPT ![m] = SubSeq(up[m], 1, k)]
    BY DEF Break
  <2>2. up[m] \in Seq(Reports) /\ up'[m] = SubSeq(up[m], 1, k)
    BY <2>1 DEF Typed
  <2>3. /\ Len(up'[m]) = k /\ \A i \in 1 .. k : up'[m][i] = up[m][i] /\ i \in 1 .. Len(up[m])
    BY <2>2
  <2> QED
    BY <2>3 DEF In
<1> QED
  BY <1>1, <1>2, <1>3 DEF Dutiful, Uncollected, Ending, controllerVars

(* One written off counts as collected.                                    *)
LEMMA CloseDuty ==
  ASSUME Typed, NEW m \in Machines, Uncollected(m), ChannelCloses(m)
  PROVE  Dutiful(m)' /\ Uncollected(m)'
<1>1. /\ ~host'[m].up /\ UNCHANGED <<pc, up, down>>
  BY ClosesActs
<1>2. link'[m].lost /\ link'[m].collected
  BY DEF ChannelCloses, LoseAgent, Typed, Links
<1> QED
  BY <1>1, <1>2 DEF Dutiful, Uncollected, Ending

(* The program's steps leave alone what the machines answered.             *)
LEMMA ProgramHeeds ==
  ASSUME Typed, Program, NEW n \in Machines
  PROVE  link'[n].ready = link[n].ready /\ link'[n].collected = link[n].collected
<1>1. Waits \/ Ends \/ Collects \/ Releases \/ Aborts \/ Begins
  BY ProgramGoes
<1>2. CASE Waits \/ Collects \/ Releases
  BY <1>2 DEF Waits, Collects, Releases
<1>3. CASE Ends \/ Aborts
  BY <1>3 DEF Ends, Aborts, StopLive, Typed, Links
<1>4. CASE Begins
  BY <1>4 DEF Begins, StartCohort, Typed, Links
<1> QED
  BY <1>1, <1>2, <1>3, <1>4

(* A run that ends, and was not aborted, stops its machines.               *)
LEMMA EndStops ==
  ASSUME Program, Ends, pc = "measuring", ~aborted
  PROVE  StopLive(TRUE)
<1>1. pc' # pc
  BY DEF Ends
<1>2. CASE RunAborted \/ RunFinished \/ RunOverdue \/ RunCeiling
  <2>1. StopLive(~aborted)
    BY <1>2 DEF RunAborted, RunFinished, RunOverdue, RunCeiling, EndRun
  <2> QED
    BY <2>1 DEF StopLive
<1>3. CASE ~(RunAborted \/ RunFinished \/ RunOverdue \/ RunCeiling)
  BY <1>1, <1>3
     DEF Program, Progress, Timeouts, Abort, AllReady, Refuse, StartCohort, Settled,
         SettleTimeout, SettleAborted, Published, PublishFails, StopWaitDone,
         StopWaitTimeout, StopAgain, BeginCollect, CollectDone, CollectTimeout,
         EndCollect, Goto
<1> QED
  BY <1>2, <1>3

(* What is sent to a machine that is up.                                   *)
LEMMA StopSent ==
  ASSUME Typed, StopLive(TRUE), NEW n \in Live, host[n].up
  PROVE  In(down'[n], "stop")
<1>1. SendAll(Live, Saying("stop"))
  BY DEF StopLive
<1>2. \A m \in Live : Saying("stop")[m] \in Orders
  BY Spoken DEF Live
<1>3. n \in Machines /\ down'[n] = Append(down[n], Saying("stop")[n])
  BY <1>1, <1>2, Sent DEF Live
<1> DEFINE stop == Saying("stop")[n]
<1>4. stop.what = "stop" /\ down[n] \in Seq(Orders) /\ stop \in Orders
  BY <1>2, <1>3, Spoken DEF Typed
<1>5. down'[n] = Append(down[n], stop)
  BY <1>3
<1> HIDE DEF stop
<1>6. In(Append(down[n], stop), "stop") <=> In(down[n], "stop") \/ stop.what = "stop"
  BY <1>4, InAppended
<1> QED
  BY <1>4, <1>5, <1>6

(* The controller's program leaves every machine with its duties.          *)
LEMMA ProgramDuty ==
  ASSUME Typed, Program, NEW n \in Machines, LostIsDown(n), Dutiful(n), Uncollected(n)
  PROVE  Dutiful(n)' /\ Uncollected(n)'
<1>1. /\ UNCHANGED <<host, last, up>>
      /\ Waits \/ Ends \/ Collects \/ Releases \/ Aborts \/ Begins
      /\ link'[n].lost = link[n].lost
  <2>1. ControllerStep
    BY ProgramActs
  <2> QED
    BY <2>1, ProgramGoes DEF ControllerStep, SameBelief
<1>2. link'[n].ready = link[n].ready /\ link'[n].collected = link[n].collected
  BY ProgramHeeds
<1>3. host[n].up => n \in Live
  BY DEF LostIsDown, Live
<1>4. ASSUME host[n].up
      PROVE  Confessed(n) /\ Targeted(n) /\ Instructed(n) /\ Answers(n)
  BY <1>4 DEF Dutiful
<1>5. Confessed(n) => Confessed(n)'
  BY <1>1 DEF Confessed
<1>6. down[n] \in Seq(Orders)
  BY DEF Typed
<1>7. CASE Waits
  <2>1. UNCHANGED <<link, down, aborted>>
    BY <1>7 DEF Waits
  <2>2. /\ Driving' => Driving
        /\ Asking' => Asking
        /\ Stopping' => Stopping
        /\ pc' # "collecting" /\ (Ending => Ending') /\ ~(Driving' /\ pc' = "measuring")
    BY <1>7 DEF Waits, Driving, Asking, Stopping, Ending
  <2>3. Uncollected(n)'
    BY <1>1, <2>1, <2>2 DEF Uncollected
  <2>4. ASSUME host[n].up
        PROVE  Targeted(n)' /\ Instructed(n)' /\ Answers(n)'
    BY <1>1, <1>4, <2>1, <2>2, <2>4 DEF Targeted, Instructed, Answers
  <2> QED
    BY <1>1, <1>4, <1>5, <2>3, <2>4 DEF Dutiful
<1>8. CASE Ends \/ Aborts
  <2>1. PICK first \in BOOLEAN : StopLive(first)
    BY <1>8 DEF Ends, Aborts
  <2> DEFINE stop == [what |-> "stop", n |-> 0]
  <2>2. down'[n] \in {down[n], Append(down[n], stop)} /\ stop \in Orders /\ stop.what = "stop"
    BY <2>1, Stops, Spoken
  <2> HIDE DEF stop
  <2>3. \A what : In(Append(down[n], stop), what) <=> In(down[n], what) \/ stop.what = what
    BY <1>6, <2>2, InAppended
  <2>4. /\ In(down'[n], "collect") <=> In(down[n], "collect")
        /\ In(down[n], "stop") => In(down'[n], "stop")
    BY <2>2, <2>3
  <2>5. /\ ~Driving' /\ ~Asking'
        /\ (pc' = "collecting" <=> pc = "collecting") /\ (Ending <=> Ending')
    BY <1>8 DEF Ends, Aborts, Driving, Asking, Ending
  <2>6. Uncollected(n)'
    BY <1>1, <1>2, <2>4, <2>5 DEF Uncollected
  <2>7. ASSUME host[n].up
        PROVE  host[n].stopping \/ In(down'[n], "stop")
    <3>1. CASE StopLive(TRUE)
      BY <1>3, <2>7, <3>1, StopSent
    <3>2. CASE ~StopLive(TRUE)
      <4>1. Stopping
        BY <1>8, <3>2, EndStops DEF Ends, Aborts, Stopping
      <4> QED
        BY <1>4, <2>4, <2>7, <4>1 DEF Instructed
    <3> QED
      BY <3>1, <3>2
  <2>8. ASSUME host[n].up
        PROVE  Targeted(n)' /\ Instructed(n)' /\ Answers(n)'
    BY <1>1, <1>2, <1>4, <2>4, <2>5, <2>7, <2>8 DEF Targeted, Instructed, Answers
  <2> QED
    BY <1>1, <1>4, <1>5, <2>6, <2>8 DEF Dutiful
<1>9. CASE Collects \/ Releases
  <2>1. PICK what \in {"release", "collect"} :
          /\ SendAll(Live, Saying(what))
          /\ (what = "collect" /\ Collects) \/ (what = "release" /\ Releases)
    BY <1>9 DEF Collects, Releases
  <2> DEFINE order == [what |-> what, n |-> 0]
  <2>2. /\ order \in Orders /\ order.what = what
        /\ down'[n] \in {down[n], Append(down[n], order)}
        /\ host[n].up => down'[n] = Append(down[n], order)
    <3>1. \A m \in Live : Saying(what)[m] \in Orders
      BY Spoken DEF Live
    <3>2. /\ down'[n] \in {down[n], Append(down[n], Saying(what)[n])}
          /\ n \in Live /\ host[n].up => down'[n] = Append(down[n], Saying(what)[n])
      BY <2>1, <3>1, Sent
    <3> QED
      BY <1>3, <3>2, Spoken
  <2> HIDE DEF order
  <2>3. \A w, k : /\ In(Append(down[n], order), w) <=> In(down[n], w) \/ order.what = w
                  /\ Targeting(Append(down[n], order), k) <=>
                       Targeting(down[n], k) /\ (order.what = "target" => order.n = k)
    BY <1>6, <2>2, InAppended
  <2>4. UNCHANGED <<link, aborted>>
    BY <2>1 DEF Collects, Releases
  <2>5. /\ ~Asking' /\ (Driving' => Driving /\ what = "release")
        /\ (Stopping' => Stopping) /\ (pc' = "collecting" => what = "collect")
        /\ (pc' = "measuring" => what = "release")
        /\ (Ending => Ending') /\ (what = "collect" => Ending')
    BY <2>1 DEF Collects, Releases, Asking, Driving, Stopping, Ending
  <2>6. Uncollected(n)'
    BY <1>1, <2>2, <2>3, <2>4, <2>5 DEF Uncollected
  <2>7. ASSUME host[n].up
        PROVE  Targeted(n)' /\ Instructed(n)' /\ Answers(n)'
    <3>1. \A w : In(down'[n], w) <=> In(down[n], w) \/ what = w
      BY <2>2, <2>3, <2>7
    <3>2. \A k : Targeting(down'[n], k) <=> Targeting(down[n], k)
      BY <2>2, <2>3, <2>7
    <3>3. Targeted(n)'
      BY <1>1, <1>4, <2>4, <2>5, <2>7, <3>1, <3>2 DEF Targeted
    <3>4. Instructed(n)'
      BY <1>1, <1>4, <2>5, <2>7, <3>1 DEF Instructed
    <3>5. Answers(n)'
      BY <1>1, <1>4, <2>4, <2>5, <2>7, <3>1 DEF Answers
    <3> QED
      BY <3>3, <3>4, <3>5
  <2> QED
    BY <1>1, <1>4, <1>5, <2>6, <2>7 DEF Dutiful
<1>10. CASE Begins
  <2> DEFINE order == [what |-> "target", n |-> CohortShare(n)]
  <2>1. /\ host[n].up => link'[n].target = CohortShare(n) /\ down'[n] = Append(down[n], order)
        /\ down'[n] \in {down[n], Append(down[n], order)}
    BY <1>3, <1>10, CohortStarts DEF Begins
  <2>2. order.what = "target" /\ order.n = CohortShare(n)
    OBVIOUS
  <2>3. host[n].up => order \in Orders
    <3>1. host[n].up => CohortShare(n) \in 0 .. Total
      BY <1>3, CohortShares
    <3> QED
      BY <3>1 DEF Orders
  <2> HIDE DEF order
  <2>4. aborted' = aborted /\ pc = "starting" /\ pc' = (IF Settle THEN "settling" ELSE "measuring")
    BY <1>10 DEF Begins, StartCohort, Goto
  <2>5. /\ ~Asking' /\ (Driving' => Asking) /\ (Stopping' => Stopping)
        /\ pc' # "collecting" /\ ~Ending /\ ~Ending' /\ ~(Settle /\ pc' = "measuring")
    BY <2>4 DEF Asking, Driving, Stopping, Ending
  <2>6. In(down'[n], "collect") => In(down[n], "collect")
    <3>1. \A d : order.what # "collect" /\ d \in Seq({order} \union Orders) =>
                  (In(Append(d, order), "collect") => In(d, "collect"))
      BY <2>2, InAppended
    <3>2. down[n] \in Seq({order} \union Orders)
      BY <1>6
    <3> QED
      BY <2>1, <2>2, <3>1, <3>2
  <2>7. Uncollected(n)'
    BY <1>1, <1>2, <2>5, <2>6 DEF Uncollected
  <2>8. ASSUME host[n].up
        PROVE  Targeted(n)' /\ Instructed(n)' /\ Answers(n)'
    <3>1. \A w, k : /\ In(down'[n], w) <=> In(down[n], w) \/ w = "target"
                    /\ Targeting(down'[n], k) <=>
                         Targeting(down[n], k) /\ k = CohortShare(n)
      <4>1. \A w, k : /\ In(Append(down[n], order), w) <=> In(down[n], w) \/ order.what = w
                      /\ Targeting(Append(down[n], order), k) <=>
                           Targeting(down[n], k) /\ (order.what = "target" => order.n = k)
        BY <1>6, <2>3, <2>8, InAppended
      <4> QED
        BY <2>1, <2>2, <2>8, <4>1
    <3>2. Targeted(n)'
      <4> SUFFICES ASSUME Driving' PROVE Targeted(n)'
        BY DEF Targeted
      <4>1. ~host[n].stopping /\ down[n] = <<>>
        BY <1>4, <2>5, <2>8 DEF Instructed
      <4>2. \A k : Targeting(down[n], k)
        BY <4>1 DEF Targeting
      <4>3. ~In(down[n], "stop")
        BY <4>1 DEF In
      <4> QED
        BY <1>1, <2>1, <2>8, <3>1, <4>1, <4>2, <4>3 DEF Targeted
    <3>3. Instructed(n)'
      BY <1>1, <1>4, <2>5, <2>8, <3>1 DEF Instructed
    <3>4. Answers(n)'
      BY <1>1, <1>2, <1>4, <2>5, <2>8 DEF Answers
    <3> QED
      BY <3>2, <3>3, <3>4
  <2> QED
    BY <1>1, <1>4, <1>5, <2>7, <2>8 DEF Dutiful
<1> QED
  BY <1>1, <1>7, <1>8, <1>9, <1>10
AllDutiful == \A m \in Machines : Dutiful(m) /\ Uncollected(m)

(* Every step leaves every machine with them.                              *)
LEMMA DutiesKept ==
  ASSUME IInv, AllDutiful, [Next]_vars
  PROVE  AllDutiful'
<1>1. Typed /\ \A m \in Machines : LostIsDown(m) /\ Dutiful(m) /\ Uncollected(m)
  BY DEF IInv, Believed, AllDutiful
<1>2. ASSUME NEW m \in Machines, AgentStep(m), Dutiful(m)' /\ Uncollected(m)',
             \A n \in Machines \ {m} : down'[n] = down[n]
      PROVE  AllDutiful'
  <2>1. ASSUME NEW n \in Machines \ {m}
        PROVE  Dutiful(n)' /\ Uncollected(n)'
    <3>1. /\ host'[n] = host[n] /\ last'[n] = last[n] /\ up'[n] = up[n]
          /\ UNCHANGED <<link, pc, aborted>>
      BY <1>2 DEF AgentStep, SameHost
    <3> QED
      BY <1>1, <1>2, <3>1, DutyStays
  <2> QED
    BY <1>2, <2>1 DEF AllDutiful
<1>3. ASSUME NEW m \in Machines, AgentReady(m)
      PROVE  AllDutiful'
  <2> DEFINE message == [what |-> "ready", about |-> {}, state |-> last[m]]
  <2>1. /\ host' = [host EXCEPT ![m].prepared = TRUE]
        /\ up' = [up EXCEPT ![m] = Append(@, message)] /\ down' = down /\ last' = last
    BY <1>3 DEF AgentReady
  <2>2. AgentStep(m)
    BY <1>1, <1>3, ReadyActs DEF Acted
  <2>3. message \in Reports /\ message.what = "ready"
    BY <1>1 DEF Typed, Reports, Whats
  <2> HIDE DEF message
  <2>4. /\ host'[m].target = host[m].target /\ host'[m].budget = host[m].budget
        /\ host'[m].stopping = host[m].stopping /\ host'[m].released = host[m].released
        /\ host'[m].started = host[m].started
        /\ up'[m] = Append(up[m], message) /\ up[m] \in Seq(Reports)
    BY <1>1, <2>1 DEF Typed, Hosts
  <2>5. In(up'[m], "ready")
    <3>1. In(Append(up[m], message), "ready") <=> In(up[m], "ready") \/ message.what = "ready"
      BY <2>3, <2>4, InAppended
    <3> QED
      BY <2>3, <2>4, <3>1
  <2>6. Dutiful(m)' /\ Uncollected(m)'
    BY <1>1, <2>1, <2>2, <2>3, <2>4, <2>5, OwnDuty
  <2> QED
    BY <1>2, <2>1, <2>2, <2>6
<1>4. ASSUME NEW m \in Machines, Tick(m)
      PROVE  AllDutiful'
  <2>1. AgentStep(m) /\ host' = host /\ down' = down /\ Report(m)
    BY <1>1, <1>4, TickActs DEF Acted, Tick
  <2>2. /\ last'[m] = Now(m)'
        /\ up'[m] = up[m] \/ \E message \in Reports :
                               up'[m] = Append(up[m], message) /\ message.what # "collected"
    <3>1. /\ last'[m] = Now(m)'
          /\ \/ up'[m] = up[m]
             \/ \E message \in Reports : /\ message.what = "state"
                                         /\ up'[m] = Append(up[m], message)
      BY <1>1, <2>1, Reported
    <3> QED
      BY <3>1
  <2>3. Dutiful(m)' /\ Uncollected(m)'
    BY <1>1, <2>1, <2>2, OwnDuty
  <2> QED
    BY <1>2, <2>1, <2>3
<1>5. ASSUME NEW m \in Machines, HandleMessage(m)
      PROVE  AllDutiful'
  <2>1. AgentStep(m) /\ \A n \in Machines \ {m} : down'[n] = down[n]
    BY <1>1, <1>5, MessageActs DEF Acted, HandleMessage, Typed
  <2>2. Dutiful(m)' /\ Uncollected(m)'
    BY <1>1, <1>5, MessageDuty
  <2> QED
    BY <1>2, <2>1, <2>2
<1>6. ASSUME NEW m \in Machines, Launch(m)
      PROVE  AllDutiful'
  <2> DEFINE v == <<m, host[m].started>>
             message == [what |-> "started", about |-> {v}, state |-> Now(m)']
  <2>1. /\ host' = [host EXCEPT ![m].started = @ + 1] /\ down' = down
        /\ Say(m, "started", {v})
    BY <1>6 DEF Launch
  <2>2. AgentStep(m) /\ v \in Viewers
    BY <1>1, <1>6, LaunchActs DEF Acted
  <2>3. last'[m] = Now(m)' /\ message \in Reports /\ up'[m] = Append(up[m], message)
    <3>1. "started" \in Whats /\ {v} \in SUBSET Viewers
      BY <2>2 DEF Whats
    <3> QED
      BY <1>1, <2>1, <3>1, Said
  <2>4. message.what # "collected"
    OBVIOUS
  <2> HIDE DEF v, message
  <2>5. /\ host'[m].target = host[m].target /\ host'[m].budget = host[m].budget
        /\ host'[m].stopping = host[m].stopping /\ host'[m].released = host[m].released
        /\ host'[m].prepared = host[m].prepared
    BY <1>1, <2>1 DEF Typed, Hosts
  <2>6. Dutiful(m)' /\ Uncollected(m)'
    BY <1>1, <2>1, <2>2, <2>3, <2>4, <2>5, OwnDuty
  <2> QED
    BY <1>2, <2>1, <2>2, <2>6
<1>7. ASSUME NEW v \in Viewers, ViewerParks(v) \/ ViewerEnds(v)
      PROVE  AllDutiful'
  <2> DEFINE m == v[1]
  <2>1. /\ m \in Machines /\ AgentStep(m) /\ host' = host /\ down' = down
        /\ last'[m] = Now(m)'
    BY <1>1, <1>7, ViewerActs DEF Acted
  <2>2. PICK what \in {"held", "exited"} : Say(m, what, {v})
    BY <1>7 DEF ViewerParks, ViewerEnds
  <2> DEFINE message == [what |-> what, about |-> {v}, state |-> Now(m)']
  <2>3. message \in Reports /\ up'[m] = Append(up[m], message)
    <3>1. what \in Whats /\ {v} \in SUBSET Viewers
      BY DEF Whats
    <3> HIDE DEF m
    <3> QED
      BY <1>1, <2>1, <2>2, <3>1, Said
  <2>4. message.what # "collected"
    BY <2>2
  <2> HIDE DEF m, message
  <2>5. Dutiful(m)' /\ Uncollected(m)'
    BY <1>1, <2>1, <2>3, <2>4, OwnDuty
  <2> QED
    BY <1>2, <2>1, <2>5
<1>8. ASSUME NEW m \in Machines, Break(m)
      PROVE  AllDutiful'
  <2>1. /\ UNCHANGED controllerVars
        /\ \A n \in Machines \ {m} : SameHost(n) /\ down'[n] = down[n]
    BY <1>1, <1>8, BreakActs
  <2>2. ASSUME NEW n \in Machines \ {m}
        PROVE  Dutiful(n)' /\ Uncollected(n)'
    BY <1>1, <2>1, DutyStays DEF SameHost, controllerVars
  <2> QED
    BY <1>1, <1>8, <2>2, BreakDuty DEF AllDutiful
<1>9. ASSUME NEW m \in Machines, Deliver(m)
      PROVE  AllDutiful'
  <2>1. /\ UNCHANGED <<pc, aborted, host, last, down>>
        /\ \A n \in Machines \ {m} : link'[n] = link[n] /\ up'[n] = up[n]
    BY <1>1, <1>9, DeliverActs
  <2>2. ASSUME NEW n \in Machines \ {m}
        PROVE  Dutiful(n)' /\ Uncollected(n)'
    BY <1>1, <2>1, DutyStays
  <2> QED
    BY <1>1, <1>9, <2>2, DeliverDuty DEF AllDutiful
<1>10. ASSUME NEW m \in Machines, ChannelCloses(m)
      PROVE  AllDutiful'
  <2>1. /\ UNCHANGED <<pc, host, last, up, down>>
        /\ \A n \in Machines \ {m} : link'[n] = link[n]
    BY <1>1, <1>10, ClosesActs
  <2>2. ASSUME NEW n \in Machines \ {m}
        PROVE  Dutiful(n)' /\ Uncollected(n)'
    <3>1. host[n].up => aborted' = aborted
      <4> SUFFICES ASSUME host[n].up PROVE aborted' = aborted
        OBVIOUS
      <4>1. n \in Live
        BY <1>1 DEF LostIsDown, Live
      <4>2. Live # {m} /\ aborted \in BOOLEAN
        BY <1>1, <4>1 DEF Typed
      <4> QED
        BY <1>10, <4>2 DEF ChannelCloses, LoseAgent
    <3> QED
      BY <1>1, <2>1, <3>1, DutyStays
  <2> QED
    BY <1>1, <1>10, <2>2, CloseDuty DEF AllDutiful
<1>11. CASE Program
  BY <1>1, <1>11, ProgramDuty DEF AllDutiful
<1>12. CASE UNCHANGED vars
  BY <1>1, <1>12, DutyStays DEF vars, AllDutiful
<1> QED
  BY <1>3, <1>4, <1>5, <1>6, <1>7, <1>8, <1>9, <1>10, <1>11, <1>12, Kinds

(* At first nobody was told anything.                                      *)
LEMMA DutifulAtFirst == Init => AllDutiful
<1> SUFFICES ASSUME Init, NEW m \in Machines PROVE Dutiful(m) /\ Uncollected(m)
  BY DEF AllDutiful
<1>1. /\ pc = "awaiting" /\ aborted = FALSE
      /\ link[m].ready = FALSE /\ link[m].lost = FALSE /\ link[m].collected = FALSE
      /\ host[m] = Idle /\ up[m] = <<>> /\ down[m] = <<>>
  BY DEF Init
<1>2. host[m].target = 0 /\ host[m].prepared = FALSE /\ host[m].stopping = FALSE
  BY <1>1 DEF Idle
<1>3. \A what : ~In(up[m], what) /\ ~In(down[m], what)
  BY <1>1 DEF In
<1>4. Uncollected(m)
  BY <1>1, <1>3 DEF Uncollected
<1>5. Confessed(m) /\ Targeted(m) /\ Instructed(m) /\ Answers(m)
  BY <1>1, <1>2, <1>3
     DEF Confessed, Targeted, Instructed, Answers, Driving, Stopping
<1> QED
  BY <1>4, <1>5 DEF Dutiful
(* Sums of nothing are nothing, and of the same the same.                  *)
LEMMA SumsOfNothing ==
  ASSUME NEW f, NEW S, \A m \in S : f[m] = 0
  PROVE  SumOver(f, S) = 0
<1>1. Units(f, S) = {}
  BY DEF Units
<1> QED
  BY <1>1, FS_EmptySet DEF SumOver

(* Equal summands, equal sums.                                             *)
LEMMA SameSums ==
  ASSUME NEW f, NEW g, NEW S, \A m \in S : f[m] = g[m]
  PROVE  SumOver(f, S) = SumOver(g, S)
<1>1. Units(f, S) = Units(g, S)
  BY DEF Units
<1> QED
  BY <1>1 DEF SumOver

(* Until the run collects, a live machine at rest is up.                   *)
LEMMA LiveIsUp ==
  ASSUME AllDutiful, AtRest, ~Ending, NEW m \in Live
  PROVE  /\ m \in Machines /\ host[m].up
         /\ up[m] = <<>> /\ down[m] = <<>> /\ host[m].prepared
         /\ \/ host[m].stopping
            \/ Cardinality(Running(m)) >= host[m].target
            \/ host[m].started >= host[m].budget
         /\ \A v \in Running(m) : proc[v] = "parked" /\ ~Watching(m)
         /\ Confessed(m) /\ Targeted(m) /\ Instructed(m) /\ Answers(m)
<1>1. m \in Machines /\ ~link[m].lost
  BY DEF Live
<1>2. Dutiful(m) /\ Uncollected(m) /\ Resting(m)
  BY <1>1 DEF AllDutiful, AtRest
<1>3. host[m].up
  BY <1>1, <1>2 DEF Uncollected, Resting
<1> QED
  BY <1>1, <1>2, <1>3 DEF Resting, Dutiful

(* Where nobody watches, nobody runs and the controller knows.             *)
LEMMA NobodyActive ==
  ASSUME IInv, ~StillCounted, AllDutiful, AtRest, ~Ending,
         \A m \in Live : Watching(m)
  PROVE  /\ TotalActive = 0
         /\ \A m \in Live : Running(m) = {} /\ link[m].exhausted = last[m].exhausted
<1>1. ASSUME NEW m \in Live
      PROVE  /\ Running(m) = {} /\ link[m].active = 0
             /\ link[m].exhausted = last[m].exhausted
  <2>1. m \in Machines /\ host[m].up /\ up[m] = <<>> /\ Running(m) = {}
    BY <1>1, LiveIsUp
  <2>2. Cardinality(Running(m)) = 0
    BY <2>1, FS_EmptySet
  <2> QED
    BY <2>1, <2>2 DEF IInv, Believed, Told, LastIsTrue
<1>2. \A m \in Machines : link[m].active = 0
  BY <1>1 DEF Live, StillCounted
<1>3. TotalActive = 0
  BY <1>2, SumsOfNothing DEF TotalActive
<1> QED
  BY <1>1, <1>3

(* No wait of the controller's needs its timeout: once nothing is on its   *)
(* way and no machine has anything left to do, the run's agents are ready, *)
(* a cohort that was let watch has finished as driveFixed sees it, stopAll *)
(* sees no viewer left, and collectAll everything collected.  It is what   *)
(* RunEndsWithViewers needs besides fairness, for any fleet, any weights   *)
(* and any losses; and the one exception is that of a machine written off  *)
(* whose last words came later and are counted still.                      *)
THEOREM NoWaitIsStuck == Spec => [](AtRest => WaitOver \/ StillCounted)
<1>1. ASSUME IInv, ~StillCounted, AllDutiful, AtRest
      PROVE  WaitOver
  <2>1. ASSUME pc = "awaiting", NEW m \in Live
        PROVE  link[m].ready
    <3>1. ~Ending
      BY <2>1 DEF Ending
    <3>2. up[m] = <<>> /\ host[m].prepared /\ Answers(m)
      BY <1>1, <2>1, <3>1, LiveIsUp
    <3> QED
      BY <3>2 DEF Answers, In
  <2>2. ASSUME pc = "measuring", ~aborted
        PROVE  Finished
    <3>1. ~Ending /\ Driving
      BY <2>2 DEF Ending, Driving
    <3>2. ASSUME NEW m \in Live
          PROVE  /\ Watching(m) /\ ~host[m].stopping
                 /\ host[m].target = link[m].target
      <4>1. down[m] = <<>> /\ Targeted(m) /\ Instructed(m)
        BY <1>1, <3>1, <3>2, LiveIsUp
      <4>2. \A what : ~In(down[m], what)
        BY <4>1 DEF In
      <4> QED
        BY <2>2, <3>1, <4>1, <4>2 DEF Targeted, Instructed, Watching
    <3>3. TotalActive = 0 /\ \A m \in Live : Running(m) = {} /\ link[m].exhausted = last[m].exhausted
      BY <1>1, <3>1, <3>2, NobodyActive
    <3>4. ASSUME NEW m \in Live
          PROVE  link[m].exhausted \/ link[m].target = 0
      <4>1. /\ m \in Machines /\ Confessed(m)
            /\ \/ Cardinality(Running(m)) >= host[m].target
               \/ host[m].started >= host[m].budget
        BY <1>1, <3>1, <3>2, <3>4, LiveIsUp
      <4>2. Cardinality(Running(m)) = 0 /\ host[m].target \in Nat
        <5>1. host[m].target \in 0 .. Total
          BY <1>1, <4>1 DEF IInv, Typed, Hosts
        <5>2. Running(m) = {}
          BY <3>3, <3>4
        <5>3. Cardinality(Running(m)) = 0
          BY <5>2, FS_EmptySet
        <5> QED
          BY <5>1, <5>3, RunAssumption
      <4> QED
        BY <3>2, <3>3, <3>4, <4>1, <4>2 DEF Confessed
    <3> QED
      BY <3>3, <3>4 DEF Finished, Spent
  <2>3. ASSUME pc \in {"draining", "stopping"}
        PROVE  TotalActive = 0
    <3>1. ~Ending /\ Stopping
      BY <2>3 DEF Ending, Stopping
    <3>2. ASSUME NEW m \in Live
          PROVE  Watching(m)
      <4>1. down[m] = <<>> /\ Instructed(m)
        BY <1>1, <3>1, <3>2, LiveIsUp
      <4> QED
        BY <3>1, <4>1 DEF Instructed, Watching, In
    <3> QED
      BY <1>1, <3>1, <3>2, NobodyActive
  <2>4. ASSUME pc = "collecting", NEW m \in Machines
        PROVE  link[m].collected
    <3>1. Dutiful(m) /\ Uncollected(m) /\ Resting(m)
      BY <1>1 DEF AllDutiful, AtRest
    <3>2. CASE host[m].up
      <4>1. ~In(up[m], "collected") /\ ~In(down[m], "collect")
        BY <3>1, <3>2 DEF Resting, In
      <4> QED
        BY <2>4, <3>1, <3>2, <4>1 DEF Dutiful, Answers
    <3>3. CASE ~host[m].up
      BY <3>1, <3>3 DEF Resting, Uncollected
    <3> QED
      BY <3>2, <3>3
  <2> QED
    BY <2>1, <2>2, <2>3, <2>4 DEF WaitOver
<1> QED
  BY <1>1, DutiesKept, DutifulAtFirst, Inductive, PTL DEF Spec
-----------------------------------------------------------------------------
(* The barrier can be opened.                                              *)

(* What was started was born, one that had its peers said so, and nobody   *)
(* is taken for lost on a machine that is not.                             *)
Bearing(m) ==
  host[m].up => \A v \in On(m) : v[2] < host[m].started => proc[v] # "unborn"
HeldKnown(m) ==
  host[m].up => \A v \in On(m) : proc[v] \in {"parked", "ended"} => Reached(m, v)
LossKnown(m) == \A v \in On(m) : v \in rollups.lost => link[m].lost
Recalled(m) == Bearing(m) /\ HeldKnown(m) /\ LossKnown(m)

(* What was said of a machine and started there stands.                    *)
LEMMA RecalledStays ==
  ASSUME NEW n \in Machines, Recalled(n), host'[n].up => host[n].up,
         host'[n].started = host[n].started,
         \A v \in On(n) : proc'[v] = proc[v] /\ (Reached(n, v) => Reached(n, v)'),
         \A v \in On(n) : v \in rollups'.lost => v \in rollups.lost \/ link'[n].lost,
         link[n].lost => link'[n].lost
  PROVE  Recalled(n)'
<1>1. Bearing(n)' /\ HeldKnown(n)'
  BY DEF Recalled, Bearing, HeldKnown
<1>2. LossKnown(n)'
  BY DEF Recalled, LossKnown
<1> QED
  BY <1>1, <1>2 DEF Recalled

(* A machine that says more has said what it said.                         *)
LEMMA ReachedStays ==
  ASSUME Typed, NEW m \in Machines, NEW v, rollups' = rollups,
         up'[m] = up[m] \/ \E message \in Reports : up'[m] = Append(up[m], message)
  PROVE  /\ Reached(m, v) => Reached(m, v)'
         /\ \A message \in Reports :
              up'[m] = Append(up[m], message) /\ Says(message, "held", v) => Reached(m, v)'
<1>1. up[m] \in Seq(Reports)
  BY DEF Typed
<1>2. ASSUME NEW message \in Reports, up'[m] = Append(up[m], message)
      PROVE  Among(up'[m], Len(up'[m]), "held", v) <=>
               Among(up[m], Len(up[m]), "held", v) \/ Says(message, "held", v)
  BY <1>1, <1>2, Appended
<1> QED
  BY <1>2 DEF Reached

(* Every step keeps what is recalled.                                      *)
LEMMA RecalledKept ==
  ASSUME IInv, Recorded, \A m \in Machines : Recalled(m), Next
  PROVE  \A m \in Machines : Recalled(m)'
<1>1. /\ Typed /\ Books
      /\ \A m \in Machines : Believed(m) /\ Orderly(m) /\ Recalled(m)
  BY DEF IInv, Recorded
<1>2. ASSUME NEW m \in Machines, AgentStep(m), rollups' = rollups, Recalled(m)'
      PROVE  \A n \in Machines : Recalled(n)'
  <2>1. ASSUME NEW n \in Machines \ {m}
        PROVE  Recalled(n)'
    <3>1. /\ host'[n] = host[n] /\ up'[n] = up[n] /\ link' = link
          /\ \A v \in On(n) : proc'[v] = proc[v]
      BY <1>2 DEF AgentStep, SameHost
    <3> QED
      BY <1>1, <1>2, <3>1, RecalledStays DEF Reached
  <2> QED
    BY <1>2, <2>1
<1>3. ASSUME NEW m \in Machines, AgentReady(m) \/ Tick(m) \/ HandleMessage(m)
      PROVE  \A n \in Machines : Recalled(n)'
  <2>1. AgentStep(m) /\ UNCHANGED <<controllerVars, proc>>
    BY <1>1, <1>3, ReadyActs, TickActs, MessageActs
       DEF Acted, AgentReady, Tick, HandleMessage
  <2>2. /\ rollups' = rollups /\ link' = link /\ host[m].up
        /\ host'[m].started = host[m].started
    <3>1. CASE AgentReady(m) \/ Tick(m)
      BY <1>1, <2>1, <3>1 DEF AgentReady, Tick, Typed, Hosts, controllerVars
    <3>2. CASE HandleMessage(m)
      BY <1>1, <2>1, <3>2, Handled DEF HandleMessage, controllerVars
    <3> QED
      BY <1>3, <3>1, <3>2
  <2>3. \A v \in On(m) : Reached(m, v) => Reached(m, v)'
    BY <1>1, <2>1, <2>2, ReachedStays DEF AgentStep
  <2>4. Recalled(m)'
    BY <1>1, <2>1, <2>2, <2>3, RecalledStays
  <2> QED
    BY <1>2, <2>1, <2>2, <2>4
<1>4. ASSUME NEW m \in Machines, Launch(m)
      PROVE  \A n \in Machines : Recalled(n)'
  <2> DEFINE v == <<m, host[m].started>>
  <2>1. /\ host[m].up /\ host' = [host EXCEPT ![m].started = @ + 1]
        /\ proc' = [proc EXCEPT ![v] = "dialing"]
        /\ UNCHANGED controllerVars
    BY <1>4 DEF Launch
  <2>2. AgentStep(m) /\ v \in Viewers
    BY <1>1, <1>4, LaunchActs DEF Acted
  <2>3. rollups' = rollups /\ link' = link
    BY <2>1 DEF controllerVars
  <2>4. /\ proc'[v] = "dialing" /\ \A w \in Viewers \ {v} : proc'[w] = proc[w]
        /\ host'[m].started = host[m].started + 1 /\ host[m].started \in Nat
    BY <1>1, <2>1, <2>2, RunAssumption DEF Typed, Hosts
  <2>5. \A w \in On(m) : w = v \/ (w \in Viewers \ {v} /\ w[2] # host[m].started)
    BY DEF On, Viewers
  <2>6. \A w \in On(m) : w[2] \in Nat
    BY DEF On, Viewers
  <2> HIDE DEF v
  <2>7. Bearing(m)'
    BY <1>1, <2>1, <2>4, <2>5, <2>6 DEF Recalled, Bearing
  <2>8. \A w \in On(m) : Reached(m, w) => Reached(m, w)'
    BY <1>1, <2>2, <2>3, ReachedStays DEF AgentStep
  <2>9. HeldKnown(m)'
    BY <1>1, <2>1, <2>4, <2>5, <2>8 DEF Recalled, HeldKnown
  <2>10. LossKnown(m)'
    BY <1>1, <2>3 DEF Recalled, LossKnown
  <2> QED
    BY <1>2, <2>2, <2>3, <2>7, <2>9, <2>10 DEF Recalled
<1>5. ASSUME NEW v \in Viewers, ViewerParks(v) \/ ViewerEnds(v)
      PROVE  \A n \in Machines : Recalled(n)'
  <2> DEFINE m == v[1]
  <2>1. /\ m \in Machines /\ v \in On(m) /\ AgentStep(m) /\ host' = host
    BY <1>1, <1>5, ViewerActs DEF Acted
  <2>2. /\ UNCHANGED controllerVars /\ host[m].up
        /\ \/ proc' = [proc EXCEPT ![v] = "parked"] /\ Say(m, "held", {v})
           \/ proc' = [proc EXCEPT ![v] = IF proc[v] = "parked" THEN "ended" ELSE "died"]
    BY <1>5 DEF ViewerParks, ViewerEnds
  <2>3. rollups' = rollups /\ link' = link
    BY <2>2 DEF controllerVars
  <2> HIDE DEF m
  <2>4. \A w \in On(m) : w \in Viewers
    BY DEF On
  <2>5. Bearing(m)'
    BY <1>1, <2>1, <2>2, <2>4 DEF Typed, Recalled, Bearing
  <2>6. \A w \in On(m) : Reached(m, w) => Reached(m, w)'
    BY <1>1, <2>1, <2>3, ReachedStays DEF AgentStep
  <2>7. \A w \in On(m) : w # v => proc'[w] = proc[w]
    BY <1>1, <2>2, <2>4 DEF Typed
  <2>8. proc'[v] \in {"parked", "ended"} => Reached(m, v)'
    <3>1. CASE proc' = [proc EXCEPT ![v] = "parked"] /\ Say(m, "held", {v})
      <4> DEFINE message == [what |-> "held", about |-> {v}, state |-> Now(m)']
      <4>1. message \in Reports /\ up'[m] = Append(up[m], message)
        <5>1. "held" \in Whats /\ {v} \in SUBSET Viewers
          BY DEF Whats
        <5> QED
          BY <1>1, <2>1, <3>1, <5>1, Said
      <4>2. Says(message, "held", v)
        BY DEF Says
      <4> HIDE DEF message
      <4> QED
        BY <1>1, <2>1, <2>3, <4>1, <4>2, ReachedStays
    <3>2. CASE proc' = [proc EXCEPT ![v] = IF proc[v] = "parked" THEN "ended" ELSE "died"]
      <4>1. proc'[v] \in {"parked", "ended"} => proc[v] = "parked"
        BY <1>1, <3>2 DEF Typed
      <4> QED
        BY <1>1, <2>1, <2>2, <2>6, <4>1 DEF Recalled, HeldKnown
    <3> QED
      BY <2>2, <3>1, <3>2
  <2>9. HeldKnown(m)'
    BY <1>1, <2>1, <2>6, <2>7, <2>8 DEF Recalled, HeldKnown
  <2>10. LossKnown(m)'
    BY <1>1, <2>1, <2>3 DEF Recalled, LossKnown
  <2> QED
    BY <1>2, <2>1, <2>3, <2>5, <2>9, <2>10 DEF Recalled
<1>6. ASSUME NEW m \in Machines, Break(m)
      PROVE  \A n \in Machines : Recalled(n)'
  <2>1. /\ UNCHANGED controllerVars /\ ~host'[m].up
        /\ \A n \in Machines \ {m} : SameHost(n)
    BY <1>1, <1>6, BreakActs
  <2>2. rollups' = rollups /\ link' = link
    BY <2>1 DEF controllerVars
  <2>3. Recalled(m)'
    BY <1>1, <2>1, <2>2 DEF Recalled, Bearing, HeldKnown, LossKnown
  <2>4. ASSUME NEW n \in Machines \ {m}
        PROVE  Recalled(n)'
    BY <1>1, <2>1, <2>2, RecalledStays DEF SameHost, Reached
  <2> QED
    BY <2>3, <2>4
<1>7. ASSUME NEW m \in Machines, Deliver(m), NEW n \in Machines
      PROVE  Recalled(n)'
  <2>1. /\ UNCHANGED <<host, proc>> /\ up[m] # <<>> /\ up[m] \in Seq(Reports)
        /\ up'[m] = Tail(up[m])
        /\ \A k \in Machines \ {m} : link'[k] = link[k] /\ up'[k] = up[k]
        /\ link'[m].lost = link[m].lost
    BY <1>1, <1>7, DeliverActs DEF Typed
  <2>2. /\ \A v : v \in rollups'.held <=>
                     v \in rollups.held \/ Says(Head(up[m]), "held", v)
        /\ rollups'.lost = rollups.lost
    BY <1>1, <1>7, DeliverRecords DEF Orderly
  <2>3. \A v \in On(n) : Reached(n, v) => Reached(n, v)'
    <3> TAKE v \in On(n)
    <3>1. CASE n # m
      BY <2>1, <2>2, <3>1 DEF Reached
    <3>2. CASE n = m
      <4>1. /\ Len(Tail(up[m])) \in Nat /\ Len(up[m]) = Len(Tail(up[m])) + 1
            /\ \A k \in 0 .. Len(Tail(up[m])) :
                 Among(up[m], k + 1, "held", v) <=>
                   Says(Head(up[m]), "held", v) \/ Among(Tail(up[m]), k, "held", v)
        BY <2>1, TakenOff
      <4>2. Among(up[m], Len(up[m]), "held", v) =>
              Says(Head(up[m]), "held", v) \/ Among(up'[m], Len(up'[m]), "held", v)
        BY <2>1, <4>1
      <4> QED
        BY <2>2, <3>2, <4>2 DEF Reached
    <3> QED
      BY <3>1, <3>2
  <2> QED
    BY <1>1, <2>1, <2>2, <2>3, RecalledStays
<1>8. ASSUME NEW m \in Machines, ChannelCloses(m), NEW n \in Machines
      PROVE  Recalled(n)'
  <2>1. /\ UNCHANGED <<host, proc, up>> /\ link'[m].lost
        /\ \A k \in Machines \ {m} : link'[k] = link[k]
    BY <1>1, <1>8, ClosesActs
  <2>2. /\ rollups'.held = rollups.held
        /\ rollups'.lost = rollups.lost \union (rollups.known \intersect On(m))
    BY <1>1, <1>8, CloseRecords
  <2>3. \A v \in On(n) : v \in rollups'.lost => v \in rollups.lost \/ link'[n].lost
    BY <2>1, <2>2 DEF On
  <2> QED
    BY <1>1, <2>1, <2>2, <2>3, RecalledStays DEF Reached
<1>9. ASSUME Program, NEW n \in Machines
      PROVE  Recalled(n)'
  <2>1. /\ UNCHANGED <<host, proc, up>> /\ link'[n].lost = link[n].lost
    BY <1>1, <1>9, ProgramActs DEF ControllerStep, SameBelief
  <2>2. rollups' = rollups
    BY <1>1, <1>9, ProgramOrderly
  <2> QED
    BY <1>1, <2>1, <2>2, RecalledStays DEF Reached
<1> QED
  BY <1>3, <1>4, <1>5, <1>6, <1>7, <1>8, <1>9, Kinds
(* A live machine at rest has started its whole part, and every viewer of  *)
(* it held its peers.                                                      *)
LEMMA PartIsReady ==
  ASSUME OneWeight, IInv, Recorded, Targets, AllDutiful,
         \A m \in Machines : Recalled(m),
         AtRest, pc = "settling", ~aborted, ~Died, NEW m \in Live
  PROVE  /\ m \in Machines /\ link[m].started = Cap(m)
         /\ \A i \in 0 .. Cap(m) - 1 : <<m, i>> \in Ready
<1>1. ~Ending /\ Driving
  BY DEF Ending, Driving
<1>2. /\ m \in Machines /\ host[m].up /\ up[m] = <<>> /\ down[m] = <<>>
      /\ \/ host[m].stopping
         \/ Cardinality(Running(m)) >= host[m].target
         \/ host[m].started >= host[m].budget
      /\ \A v \in Running(m) : proc[v] = "parked"
      /\ Targeted(m)
  BY <1>1, LiveIsUp
<1>3. host[m].target = Cap(m) /\ host[m].budget = Cap(m) /\ ~host[m].stopping
  <2>1. ~In(down[m], "target")
    BY <1>2 DEF In
  <2>2. link[m].target = Cap(m)
    BY <1>1 DEF Targets
  <2> QED
    BY <1>1, <1>2, <2>1, <2>2 DEF Targeted
<1>4. /\ Cap(m) \in Nat /\ host[m].started \in Nat /\ Typed /\ Believed(m)
      /\ Recalled(m) /\ Modest(m)
  <2>1. Cap(m) \in 0 .. Total
    BY <1>2, OneShare DEF Cap
  <2>2. host[m].started \in 0 .. Total
    BY <1>2 DEF IInv, Typed, Hosts
  <2> QED
    BY <1>2, <2>1, <2>2, RunAssumption DEF IInv, Recorded
<1>5. Cardinality(Running(m)) <= host[m].started
  <2> DEFINE Begun == {m} \X (0 .. host[m].started - 1)
  <2>1. Running(m) \subseteq Begun
    <3> SUFFICES ASSUME NEW v \in Running(m) PROVE v \in Begun
      OBVIOUS
    <3>1. v \in Viewers /\ v[1] = m /\ proc[v] # "unborn"
      BY DEF Running, On
    <3>2. v = <<m, v[2]>> /\ v[2] \in 0 .. Total - 1
      BY <3>1 DEF Viewers
    <3>3. v[2] < host[m].started
      BY <1>2, <1>4, <3>1, <3>2 DEF Believed, Born
    <3> QED
      BY <1>4, <3>2, <3>3, RunAssumption
  <2>2. IsFiniteSet({m}) /\ Cardinality({m}) = 1
    BY FS_Singleton
  <2>3. /\ IsFiniteSet(0 .. host[m].started - 1)
        /\ Cardinality(0 .. host[m].started - 1) = host[m].started
    <3>1. 0 \in Int /\ host[m].started - 1 \in Int
      BY <1>4
    <3>2. /\ IsFiniteSet(0 .. host[m].started - 1)
          /\ Cardinality(0 .. host[m].started - 1) =
               IF 0 > host[m].started - 1 THEN 0 ELSE host[m].started - 1 - 0 + 1
      BY <3>1, FS_Interval
    <3> QED
      BY <1>4, <3>2
  <2>4. IsFiniteSet(Begun) /\ Cardinality(Begun) = 1 * host[m].started
    BY <2>2, <2>3, FS_Product
  <2> HIDE DEF Begun
  <2>5. Cardinality(Running(m)) <= Cardinality(Begun)
    BY <2>1, <2>4, FS_Subset
  <2> QED
    BY <1>4, <2>4, <2>5
<1>6. host[m].started = Cap(m)
  <2>1. host[m].started <= Cap(m)
    BY <1>2, <1>4 DEF Modest, Limited
  <2>2. Cardinality(Running(m)) \in Nat
    BY Few DEF Running, On
  <2> QED
    BY <1>2, <1>3, <1>4, <1>5, <2>1, <2>2
<1>7. link[m].started = host[m].started
  <2>1. link[m].started \in Nat /\ link[m].started <= host[m].started
    BY <1>2, <1>4 DEF Typed, Links, Believed, Numbered
  <2>2. Len(up[m]) = 0
    BY <1>2
  <2>3. Uncounted(m) = {}
    BY <1>2, <1>4, <2>2 DEF Believed, Numbered
  <2>4. link[m].started < host[m].started => link[m].started \in Uncounted(m)
    BY <1>4, <2>1 DEF Uncounted
  <2> QED
    BY <1>4, <2>1, <2>3, <2>4
<1>8. ASSUME NEW i \in 0 .. Cap(m) - 1
      PROVE  <<m, i>> \in Ready
  <2> DEFINE v == <<m, i>>
  <2>1. v \in On(m) /\ v \in Viewers /\ v[2] = i
    BY <1>2, CapViewers DEF On
  <2> HIDE DEF v
  <2>2. proc[v] # "unborn" /\ proc[v] # "died" /\ proc[v] # "dialing" /\ proc[v] \in Lives
    <3>1. proc[v] # "unborn"
      BY <1>2, <1>4, <1>6, <2>1 DEF Recalled, Bearing
    <3>2. proc[v] # "died" /\ proc[v] \in Lives
      BY <1>4, <2>1 DEF Died, Typed
    <3>3. proc[v] # "dialing"
      BY <1>2, <2>1 DEF Running
    <3> QED
      BY <3>1, <3>2, <3>3
  <2>3. Reached(m, v)
    BY <1>2, <1>4, <2>1, <2>2 DEF Lives, Recalled, HeldKnown
  <2>4. v \in rollups.held
    BY <1>2, <2>3 DEF Reached, Among
  <2>5. v \notin rollups.lost
    BY <1>4, <2>1 DEF Recalled, LossKnown, Live
  <2> QED
    BY <2>4, <2>5 DEF Ready, Lost, v
<1> QED
  BY <1>2, <1>6, <1>7, <1>8

(* settleAndRelease: when nothing is on its way, no machine has anything   *)
(* left to do, and no viewer died before it had its peers, the cohort is   *)
(* as the settle phase wants it, whatever was lost before.  It is what     *)
(* BarrierOpens needs besides fairness, for any fleet of one weight.       *)
THEOREM BarrierCanOpen ==
  ASSUME OneWeight
  PROVE  Spec => [](AtRest /\ pc = "settling" /\ ~aborted /\ ~Died => Settleable)
<1> DEFINE AllRecalled == \A m \in Machines : Recalled(m)
<1>1. ASSUME IInv, Recorded, Targets, AllDutiful, AllRecalled,
             AtRest, pc = "settling", ~aborted, ~Died
      PROVE  Settleable
  <2> DEFINE A == UNION {{m} \X (0 .. Cap(m) - 1) : m \in Live}
             f == [m \in Machines |-> link[m].started]
             g == [m \in Machines |-> Cap(m)]
  <2>1. \A m \in Live : /\ m \in Machines /\ link[m].started = Cap(m)
                         /\ \A i \in 0 .. Cap(m) - 1 : <<m, i>> \in Ready
    BY <1>1, PartIsReady
  <2>2. Typed /\ Live \in SUBSET Machines
    BY <1>1 DEF IInv, Live
  <2>3. IsFiniteSet(A) /\ Cardinality(A) = Awaited /\ Capacity = Awaited
    BY <2>2, AdmittedViewers, AwaitedIsCapacity DEF Capacity
  <2>4. LiveStarted = Awaited
    <3>1. \A m \in Live : f[m] = g[m]
      BY <2>1
    <3> HIDE DEF f, g
    <3>2. SumOver(f, Live) = SumOver(g, Live)
      BY <3>1, SameSums
    <3> QED
      BY <2>3, <3>2 DEF f, g, LiveStarted, Capacity
  <2>5. A \subseteq Ready
    <3> SUFFICES ASSUME NEW v \in A PROVE v \in Ready
      OBVIOUS
    <3>1. PICK m \in Live : v \in {m} \X (0 .. Cap(m) - 1)
      OBVIOUS
    <3>2. PICK i \in 0 .. Cap(m) - 1 : v = <<m, i>>
      BY <3>1
    <3> QED
      BY <2>1, <3>2
  <2> HIDE DEF A
  <2>6. IsFiniteSet(Ready) /\ Cardinality(Ready) \in Nat
    <3>1. Ready \in SUBSET Viewers
      BY <1>1 DEF Ready, Recorded, Books
    <3> QED
      BY <3>1, Few
  <2>7. Cardinality(A) <= Cardinality(Ready) /\ Cardinality(A) \in Nat
    BY <2>3, <2>5, <2>6, FS_Subset, FS_CardinalityType
  <2> QED
    BY <2>3, <2>4, <2>6, <2>7 DEF Settleable
<1>2. IInv /\ Recorded /\ AllRecalled /\ [Next]_vars => AllRecalled'
  <2>1. ASSUME AllRecalled, UNCHANGED vars
        PROVE  AllRecalled'
    <3>1. UNCHANGED <<link, rollups, host, proc, up>>
      BY <2>1 DEF vars
    <3> QED
      BY <2>1, <3>1, RecalledStays DEF Reached
  <2> QED
    BY <2>1, RecalledKept
<1>3. Init => AllRecalled
  <2> SUFFICES ASSUME Init, NEW m \in Machines PROVE Recalled(m)
    OBVIOUS
  <2>1. host[m].started = 0 /\ rollups.lost = {}
    BY DEF Init, Idle
  <2>2. \A v \in On(m) : proc[v] = "unborn"
    BY DEF Init, On
  <2>3. \A v \in On(m) : ~(v[2] < 0)
    BY RunAssumption DEF On, Viewers
  <2> QED
    BY <2>1, <2>2, <2>3 DEF Recalled, Bearing, HeldKnown, LossKnown
<1>4. IInv /\ Targets /\ [Next]_vars => Targets'
  <2>1. ASSUME Targets, UNCHANGED vars
        PROVE  Targets'
    BY <2>1 DEF vars, Targets, Driving, Live
  <2> QED
    BY <2>1, TargetsKept
<1>5. Init => Targets
  BY DEF Init, Targets, Driving
<1> HIDE DEF AllRecalled
<1> QED
  BY <1>1, <1>2, <1>3, <1>4, <1>5, DutiesKept, DutifulAtFirst, Inductive,
     RecordsHold, PTL DEF Spec
=============================================================================
