------------------------------- MODULE Partition -------------------------------
(***************************************************************************)
(* How a total is divided among machines of given weights                  *)
(* (schedule.ts partition): everybody gets the whole part of its exact     *)
(* quota, and what rounding left over goes, one each, to the largest       *)
(* fractional parts.                                                       *)
(*                                                                         *)
(* The sort is stable: of two equal fractions the earlier machine's wins.  *)
(* (The code compares floating-point fractions; two that are equal only    *)
(* mathematically may differ there in the last bit.)                       *)
(***************************************************************************)
EXTENDS Integers, FiniteSets

(* A sum over a set, as the number of the units its members have: with a   *)
(* fold it could be computed as well, but not reasoned about.              *)
Units(f, S) == UNION {{i} \X (1 .. f[i]) : i \in S}
SumOver(f, S) == Cardinality(Units(f, S))

(* weight[i] > 0 for i \in S, a set of positions in the scenario's list.   *)
Quota(total, weight, S, i) == (total * weight[i]) \div SumOver(weight, S)
Fraction(total, weight, S, i) == (total * weight[i]) % SumOver(weight, S)

Leftover(total, weight, S) ==
  total - SumOver([i \in S |-> Quota(total, weight, S, i)], S)

(* i is served before j when the remainder is handed out. *)
Precedes(total, weight, S, i, j) ==
  LET fi == Fraction(total, weight, S, i)
      fj == Fraction(total, weight, S, j)
  IN fi > fj \/ (fi = fj /\ i < j)

RemainderDropped(total, weight, S) ==
  [i \in S |-> Quota(total, weight, S, i)]

Shares(total, weight, S) ==
  [i \in S |->
     Quota(total, weight, S, i) +
     (IF Cardinality({j \in S : Precedes(total, weight, S, j, i)})
           < Leftover(total, weight, S) THEN 1 ELSE 0)]

=============================================================================
