--------------------------- MODULE FleetSharesProofs ---------------------------
(***************************************************************************)
(* Proofs about FleetShares, for every fleet, weights, own limits, ceiling *)
(* and number of spares: partition() hands out a total exactly, and what   *)
(* the targets and start budgets are made of it keeps within what each     *)
(* machine was admitted for, whichever machines are lost.                  *)
(*                                                                         *)
(* Sums over a set are reasoned about by adding one member after another   *)
(* (SetInduction, over a set of sets); that the remainder goes to as many  *)
(* machines as there are viewers left over is because the machines served  *)
(* before each are a different number for each (Ranks).                    *)
(***************************************************************************)
EXTENDS FleetShares, FiniteSetTheorems, TLAPS

-----------------------------------------------------------------------------
(* Sums.                                                                   *)

(* What holds of the empty set, and of a set and one member more, holds of *)
(* every finite set.                                                       *)
LEMMA SetInduction ==
  ASSUME NEW S, IsFiniteSet(S), NEW G, {} \in G,
         \A T \in SUBSET S : \A x \in S \ T : T \in G => T \cup {x} \in G
  PROVE  S \in G
<1> SUFFICES ASSUME S \notin G PROVE FALSE
  OBVIOUS
<1> DEFINE Bad == {T \in SUBSET S : T \notin G}
           R == StrictSubsetOrdering(S)
<1>1. IsWellFoundedOn(R, SUBSET S)
  BY FS_StrictSubsetOrderingWellFounded, FS_FiniteSubsetsOfFinite
<1>2. Bad \subseteq SUBSET S /\ S \in Bad
  OBVIOUS
<1> HIDE DEF R
<1>3. PICK T \in Bad : \A U \in Bad : ~(<<U, T>> \in R)
  BY <1>1, <1>2, WFMin
<1>4. T # {} /\ T \subseteq S
  BY <1>3
<1>5. PICK x \in T : TRUE
  BY <1>4
<1>6. T \ {x} \in SUBSET S /\ x \in S \ (T \ {x}) /\ T = (T \ {x}) \cup {x}
  BY <1>4, <1>5
<1>7. T \ {x} \notin G
  BY <1>3, <1>6
<1>8. <<T \ {x}, T>> \in R
  BY <1>4, <1>5 DEF R, StrictSubsetOrdering
<1> QED
  BY <1>3, <1>6, <1>7, <1>8

(* The units of one member.                                                *)
LEMMA OneMember ==
  ASSUME NEW x, NEW n \in Nat
  PROVE  IsFiniteSet({x} \X (1 .. n)) /\ Cardinality({x} \X (1 .. n)) = n
<1>1. IsFiniteSet({x}) /\ Cardinality({x}) = 1
  BY FS_Singleton
<1>2. IsFiniteSet(1 .. n) /\ Cardinality(1 .. n) = n
  BY FS_Interval
<1>3. IsFiniteSet({x} \X (1 .. n)) /\ Cardinality({x} \X (1 .. n)) = 1 * n
  BY <1>1, <1>2, FS_Product
<1> QED
  BY <1>3

(* A sum of natural numbers is one.                                        *)
LEMMA SumType ==
  ASSUME NEW S, IsFiniteSet(S), NEW f, \A i \in S : f[i] \in Nat
  PROVE  IsFiniteSet(Units(f, S)) /\ SumOver(f, S) \in Nat
<1> DEFINE G == {T \in SUBSET S : IsFiniteSet(Units(f, T))}
<1>1. {} \in G
  <2>1. Units(f, {}) = {}
    BY DEF Units
  <2> QED
    BY <2>1, FS_EmptySet
<1>2. ASSUME NEW T \in SUBSET S, NEW x \in S \ T, T \in G
      PROVE  T \cup {x} \in G
  <2>1. Units(f, T \cup {x}) = Units(f, T) \cup ({x} \X (1 .. f[x]))
    BY DEF Units
  <2>2. IsFiniteSet(Units(f, T)) /\ IsFiniteSet({x} \X (1 .. f[x]))
    BY <1>2, OneMember
  <2>3. IsFiniteSet(Units(f, T) \cup ({x} \X (1 .. f[x])))
    BY <2>2, FS_Union
  <2> QED
    BY <2>1, <2>3
<1>3. S \in G
  <2> HIDE DEF G
  <2> QED
    BY <1>1, <1>2, SetInduction
<1> QED
  BY <1>3, FS_CardinalityType DEF SumOver

(* The sum over no member.                                                 *)
LEMMA SumEmpty == ASSUME NEW f PROVE SumOver(f, {}) = 0
<1>1. Units(f, {}) = {}
  BY DEF Units
<1> QED
  BY <1>1, FS_EmptySet DEF SumOver

(* The sum with one member more.                                           *)
LEMMA SumAdd ==
  ASSUME NEW T, IsFiniteSet(T), NEW x, x \notin T, NEW f,
         \A i \in T \cup {x} : f[i] \in Nat
  PROVE  SumOver(f, T \cup {x}) = SumOver(f, T) + f[x]
<1> DEFINE A == Units(f, T)
           B == {x} \X (1 .. f[x])
<1>1. Units(f, T \cup {x}) = A \cup B
  BY DEF Units
<1>2. A \cap B = {}
  BY DEF Units
<1>3. IsFiniteSet(A) /\ Cardinality(A) \in Nat
  BY SumType DEF SumOver
<1>4. IsFiniteSet(B) /\ Cardinality(B) = f[x] /\ f[x] \in Nat
  BY OneMember
<1> HIDE DEF A, B
<1>5. Cardinality(A \cup B) = Cardinality(A) + Cardinality(B) - Cardinality(A \cap B)
  BY <1>3, <1>4, FS_Union
<1>6. Cardinality(A \cap B) = 0
  BY <1>2, FS_EmptySet
<1>7. Cardinality(A \cup B) = Cardinality(A) + f[x]
  BY <1>3, <1>4, <1>5, <1>6
<1> QED
  BY <1>1, <1>7 DEF SumOver, A

(* A sum of no greater numbers over no more members is no greater.         *)
LEMMA SumLess ==
  ASSUME NEW S, IsFiniteSet(S), NEW T \in SUBSET S, NEW f, NEW g,
         \A i \in S : g[i] \in Nat,
         \A i \in T : f[i] \in Nat /\ f[i] <= g[i]
  PROVE  SumOver(f, T) <= SumOver(g, S)
<1>1. Units(f, T) \subseteq Units(g, S)
  <2>1. \A i \in T : 1 .. f[i] \subseteq 1 .. g[i]
    OBVIOUS
  <2> QED
    BY <2>1 DEF Units
<1>2. IsFiniteSet(Units(g, S))
  BY SumType
<1> QED
  BY <1>1, <1>2, FS_Subset DEF SumOver

(* One addend more on either side.                                         *)
LEMMA OneMore ==
  ASSUME NEW k \in Nat, NEW W \in Nat, NEW a \in Nat, NEW b \in Nat, NEW c \in Nat,
         NEW w \in Nat, NEW q \in Nat, NEW r \in Nat,
         k * a = W * b + c, k * w = W * q + r
  PROVE  k * (a + w) = W * (b + q) + (c + r)
OBVIOUS

(* The numbers k * w[i] divided by W: quotients and remainders.            *)
Dividing(S, k, W, w, q, r) ==
  \A i \in S : /\ w[i] \in Nat /\ q[i] \in Nat /\ r[i] \in 0 .. W - 1
              /\ k * w[i] = W * q[i] + r[i]

(* Dividing the members of a sum, and adding quotients and remainders.     *)
LEMMA SumDivided ==
  ASSUME NEW S, IsFiniteSet(S), NEW k \in Nat, NEW W \in Nat \ {0}, NEW w, NEW q, NEW r,
         Dividing(S, k, W, w, q, r)
  PROVE  /\ k * SumOver(w, S) = W * SumOver(q, S) + SumOver(r, S)
         /\ SumOver(r, S) <= (W - 1) * Cardinality(S)
<1> DEFINE G == {T \in SUBSET S :
                   /\ k * SumOver(w, T) = W * SumOver(q, T) + SumOver(r, T)
                   /\ SumOver(r, T) <= (W - 1) * Cardinality(T)}
<1>1. {} \in G
  <2>1. SumOver(w, {}) = 0 /\ SumOver(q, {}) = 0 /\ SumOver(r, {}) = 0
    BY SumEmpty
  <2>2. Cardinality({}) = 0
    BY FS_EmptySet
  <2> QED
    BY <2>1, <2>2
<1>2. ASSUME NEW T \in SUBSET S, NEW x \in S \ T, T \in G
      PROVE  T \cup {x} \in G
  <2>1. IsFiniteSet(T)
    BY FS_Subset
  <2>2. /\ SumOver(w, T \cup {x}) = SumOver(w, T) + w[x]
        /\ SumOver(q, T \cup {x}) = SumOver(q, T) + q[x]
        /\ SumOver(r, T \cup {x}) = SumOver(r, T) + r[x]
    <3>1. \A i \in T \cup {x} : w[i] \in Nat /\ q[i] \in Nat /\ r[i] \in Nat
      BY DEF Dividing
    <3>2. x \notin T
      OBVIOUS
    <3> HIDE DEF G
    <3> QED
      BY <2>1, <3>1, <3>2, SumAdd
  <2>3. SumOver(w, T) \in Nat /\ SumOver(q, T) \in Nat /\ SumOver(r, T) \in Nat
    <3>1. \A i \in T : w[i] \in Nat /\ q[i] \in Nat /\ r[i] \in Nat
      BY DEF Dividing
    <3> HIDE DEF G
    <3> QED
      BY <2>1, <3>1, SumType
  <2>4. Cardinality(T \cup {x}) = Cardinality(T) + 1 /\ Cardinality(T) \in Nat
    BY <2>1, FS_AddElement, FS_CardinalityType
  <2>5. /\ w[x] \in Nat /\ q[x] \in Nat /\ r[x] \in 0 .. W - 1
        /\ k * w[x] = W * q[x] + r[x]
    BY DEF Dividing
  <2>6. /\ k * SumOver(w, T) = W * SumOver(q, T) + SumOver(r, T)
        /\ SumOver(r, T) <= (W - 1) * Cardinality(T)
    BY <1>2
  <2>7. k * (SumOver(w, T) + w[x]) = W * (SumOver(q, T) + q[x]) + (SumOver(r, T) + r[x])
    <3>1. r[x] \in Nat
      BY <2>5
    <3>2. W \in Nat /\ k \in Nat
      OBVIOUS
    <3> DEFINE a == SumOver(w, T)
               b == SumOver(q, T)
               c == SumOver(r, T)
               wx == w[x]
               qx == q[x]
               rx == r[x]
    <3>3. a \in Nat /\ b \in Nat /\ c \in Nat /\ k * a = W * b + c
      BY <2>3, <2>6
    <3>4. wx \in Nat /\ qx \in Nat /\ rx \in Nat /\ k * wx = W * qx + rx
      BY <2>5, <3>1
    <3> HIDE DEF a, b, c, G, wx, qx, rx
    <3>5. k * (a + wx) = W * (b + qx) + (c + rx)
      BY <3>2, <3>3, <3>4, OneMore
    <3> QED
      BY <3>5 DEF a, b, c, wx, qx, rx
  <2>8. SumOver(r, T) + r[x] <= (W - 1) * (Cardinality(T) + 1)
    BY <2>3, <2>4, <2>5, <2>6
  <2> QED
    BY <2>2, <2>4, <2>7, <2>8
<1>3. S \in G
  <2> HIDE DEF G
  <2> QED
    BY <1>1, <1>2, SetInduction
<1> QED
  BY <1>3

(* A sum in which some members are one more.                               *)
LEMMA SumMarked ==
  ASSUME NEW S, IsFiniteSet(S), NEW A \in SUBSET S, NEW f, NEW g,
         \A i \in S : f[i] \in Nat /\ g[i] = f[i] + (IF i \in A THEN 1 ELSE 0)
  PROVE  SumOver(g, S) = SumOver(f, S) + Cardinality(A)
<1> DEFINE G == {T \in SUBSET S : SumOver(g, T) = SumOver(f, T) + Cardinality(A \cap T)}
<1>1. {} \in G
  <2>1. SumOver(f, {}) = 0 /\ SumOver(g, {}) = 0 /\ A \cap {} = {}
    BY SumEmpty
  <2>2. Cardinality({}) = 0
    BY FS_EmptySet
  <2> QED
    BY <2>1, <2>2
<1>2. ASSUME NEW T \in SUBSET S, NEW x \in S \ T, T \in G
      PROVE  T \cup {x} \in G
  <2>1. IsFiniteSet(T) /\ IsFiniteSet(A \cap T)
    BY FS_Subset
  <2>2. \A i \in S : g[i] \in Nat
    OBVIOUS
  <2>3. /\ SumOver(f, T \cup {x}) = SumOver(f, T) + f[x]
        /\ SumOver(g, T \cup {x}) = SumOver(g, T) + g[x]
    BY <2>1, <2>2, SumAdd
  <2>4. SumOver(f, T) \in Nat /\ Cardinality(A \cap T) \in Nat
    BY <2>1, SumType, FS_CardinalityType
  <2>5. Cardinality(A \cap (T \cup {x})) =
          Cardinality(A \cap T) + (IF x \in A THEN 1 ELSE 0)
    <3>1. CASE x \in A
      <4>1. A \cap (T \cup {x}) = (A \cap T) \cup {x} /\ x \notin A \cap T
        BY <3>1
      <4> QED
        BY <2>1, <3>1, <4>1, FS_AddElement
    <3>2. CASE x \notin A
      <4>1. A \cap (T \cup {x}) = A \cap T
        BY <3>2
      <4> QED
        BY <2>4, <3>2, <4>1
    <3> QED
      BY <3>1, <3>2
  <2>6. SumOver(g, T) = SumOver(f, T) + Cardinality(A \cap T)
    BY <1>2
  <2>7. f[x] \in Nat /\ g[x] = f[x] + (IF x \in A THEN 1 ELSE 0)
    OBVIOUS
  <2> HIDE DEF G
  <2>8. SumOver(g, T \cup {x}) = SumOver(f, T \cup {x}) + Cardinality(A \cap (T \cup {x}))
    BY <2>3, <2>4, <2>5, <2>6, <2>7
  <2> QED
    BY <2>8 DEF G
<1>3. S \in G
  <2> HIDE DEF G
  <2> QED
    BY <1>1, <1>2, SetInduction
<1>4. A \cap S = A
  OBVIOUS
<1> QED
  BY <1>3, <1>4

-----------------------------------------------------------------------------
(* The remainder.                                                          *)

(* In a strict order, as many members are preceded by fewer than n others  *)
(* as n, up to all of them.                                                *)
LEMMA Ranks ==
  ASSUME NEW S, IsFiniteSet(S), NEW before \in SUBSET (S \X S),
         \A i \in S : <<i, i>> \notin before,
         \A i, j \in S : i # j => <<i, j>> \in before \/ <<j, i>> \in before,
         \A i, j, k \in S : <<i, j>> \in before /\ <<j, k>> \in before => <<i, k>> \in before,
         NEW n \in 0 .. Cardinality(S)
  PROVE  Cardinality({i \in S : Cardinality({j \in S : <<j, i>> \in before}) < n}) = n
<1> DEFINE Earlier(i) == {j \in S : <<j, i>> \in before}
           rank == [i \in S |-> Cardinality(Earlier(i))]
           size == Cardinality(S)
           First == {i \in S : rank[i] < n}
<1>1. size \in Nat /\ n \in Nat /\ n <= size
  BY FS_CardinalityType
<1>2. ASSUME NEW i \in S
      PROVE  IsFiniteSet(Earlier(i)) /\ Cardinality(Earlier(i)) \in 0 .. size - 1
  <2>1. Earlier(i) \in SUBSET (S \ {i})
    OBVIOUS
  <2>2. IsFiniteSet(S \ {i}) /\ Cardinality(S \ {i}) = size - 1
    BY FS_RemoveElement
  <2> HIDE DEF Earlier, size
  <2>3. IsFiniteSet(Earlier(i)) /\ Cardinality(Earlier(i)) <= size - 1
    BY <2>1, <2>2, FS_Subset
  <2>4. Cardinality(Earlier(i)) \in Nat
    BY <2>3, FS_CardinalityType
  <2> QED
    BY <1>1, <2>3, <2>4
<1>3. ASSUME NEW i \in S, NEW j \in S, <<i, j>> \in before
      PROVE  Cardinality(Earlier(i)) < Cardinality(Earlier(j))
  <2>1. Earlier(i) \cup {i} \in SUBSET Earlier(j) /\ i \notin Earlier(i)
    BY <1>3
  <2>2. Cardinality(Earlier(i) \cup {i}) = Cardinality(Earlier(i)) + 1
    BY <1>2, <2>1, FS_AddElement
  <2>3. Cardinality(Earlier(i) \cup {i}) <= Cardinality(Earlier(j))
    BY <1>2, <2>1, FS_Subset
  <2>4. Cardinality(Earlier(i)) \in Nat /\ Cardinality(Earlier(j)) \in Nat
    BY <1>2, FS_CardinalityType
  <2> HIDE DEF Earlier
  <2> QED
    BY <2>2, <2>3, <2>4
<1>4. rank \in Injection(S, 0 .. size - 1)
  <2>1. rank \in [S -> 0 .. size - 1]
    BY <1>2
  <2>2. ASSUME NEW i \in S, NEW j \in S, i # j
        PROVE  rank[i] # rank[j]
    <3>1. rank[i] < rank[j] \/ rank[j] < rank[i]
      <4> HIDE DEF Earlier
      <4> QED
        BY <1>3, <2>2
    <3>2. rank[i] \in Int /\ rank[j] \in Int
      BY <2>1
    <3> HIDE DEF rank
    <3> QED
      BY <3>1, <3>2
  <2> HIDE DEF rank, size
  <2> QED
    BY <2>1, <2>2 DEF Injection, IsInjective
<1>5. rank \in Surjection(S, 0 .. size - 1)
  <2>1. IsFiniteSet(0 .. size - 1) /\ Cardinality(0 .. size - 1) = size
    <3> HIDE DEF size
    <3> QED
      BY <1>1, FS_Interval
  <2> HIDE DEF rank
  <2> QED
    BY <1>4, <2>1, FS_Injection
<1> DEFINE f == [i \in First |-> rank[i]]
<1>6. f \in Bijection(First, 0 .. n - 1)
  <2> HIDE DEF rank, size
  <2>1. rank \in [S -> 0 .. size - 1] /\ \A i, j \in S : rank[i] = rank[j] => i = j
    BY <1>4 DEF Injection, IsInjective
  <2>2. \A v \in 0 .. size - 1 : \E i \in S : rank[i] = v
    BY <1>5 DEF Surjection
  <2>3. f \in [First -> 0 .. n - 1]
    BY <1>1, <2>1
  <2>4. \A i, j \in First : f[i] = f[j] => i = j
    BY <2>1
  <2>5. \A v \in 0 .. n - 1 : \E i \in First : f[i] = v
    <3> SUFFICES ASSUME NEW v \in 0 .. n - 1 PROVE \E i \in First : f[i] = v
      OBVIOUS
    <3>1. v \in 0 .. size - 1 /\ v < n
      BY <1>1
    <3>2. PICK i \in S : rank[i] = v
      BY <2>2, <3>1
    <3> QED
      BY <3>1, <3>2
  <2> HIDE DEF f, First
  <2> QED
    BY <2>3, <2>4, <2>5 DEF Bijection, Injection, IsInjective, Surjection
<1>7. IsFiniteSet(First)
  BY FS_Subset
<1>8. Cardinality(0 .. n - 1) = n
  BY <1>1, FS_Interval
<1>9. Cardinality(First) = n
  <2>1. ExistsBijection(First, 0 .. n - 1)
    BY <1>6 DEF ExistsBijection
  <2> HIDE DEF First
  <2> QED
    BY <1>7, <1>8, <2>1, FS_Bijection
<1>10. First = {i \in S : Cardinality({j \in S : <<j, i>> \in before}) < n}
  OBVIOUS
<1> QED
  BY <1>9, <1>10

(* Whole part and remainder of a number.                                   *)
LEMMA Remainder ==
  ASSUME NEW a \in Nat, NEW W \in Nat \ {0}
  PROVE  a \div W \in Nat /\ a % W \in 0 .. W - 1 /\ a = W * (a \div W) + (a % W)
<1>1. a \div W \in Nat
  OBVIOUS
<1>2. a % W \in 0 .. W - 1
  OBVIOUS
<1>3. a = W * (a \div W) + (a % W)
  OBVIOUS
<1> QED
  BY <1>1, <1>2, <1>3

(* What partition() is made of.                                            *)
LEMMA Divided ==
  ASSUME NEW k \in Nat, NEW w \in Nat, NEW W \in Nat \ {0}
  PROVE  /\ (k * w) \div W \in Nat /\ (k * w) % W \in 0 .. W - 1
         /\ k * w = W * ((k * w) \div W) + ((k * w) % W)
<1>1. k * w \in Nat
  OBVIOUS
<1> QED
  BY <1>1, Remainder

(* Of the total no viewer and not a whole one for each machine is left     *)
(* over.                                                                   *)
LEMMA LittleLeft ==
  ASSUME NEW W \in Nat \ {0}, NEW d \in Int, NEW R \in Nat, NEW n \in Nat \ {0},
         R = W * d, R <= (W - 1) * n
  PROVE  d \in 0 .. n - 1
OBVIOUS

(* The same, against the machines with a fraction.                         *)
LEMMA NotMore ==
  ASSUME NEW W \in Nat \ {0}, NEW d \in Nat, NEW n \in Nat, W * d <= (W - 1) * n
  PROVE  d <= n
OBVIOUS

(* partition() hands out exactly the total, and every machine gets the     *)
(* whole part of its quota, or one more.                                   *)
LEMMA Partitioned ==
  ASSUME NEW S \in SUBSET Nat, IsFiniteSet(S), S # {}, NEW total \in Nat, NEW wt,
         \A i \in S : wt[i] \in Nat \ {0}
  PROVE  /\ SumOver(wt, S) \in Nat \ {0}
         /\ SumOver(Shares(total, wt, S), S) = total
         /\ \A i \in S : /\ Quota(total, wt, S, i) \in Nat
                         /\ Fraction(total, wt, S, i) \in 0 .. SumOver(wt, S) - 1
                         /\ total * wt[i] = SumOver(wt, S) * Quota(total, wt, S, i)
                                                  + Fraction(total, wt, S, i)
                         /\ Shares(total, wt, S)[i] \in Quota(total, wt, S, i) ..
                                                     Quota(total, wt, S, i) + 1
                         /\ Fraction(total, wt, S, i) = 0
                              => Shares(total, wt, S)[i] = Quota(total, wt, S, i)
<1> DEFINE W == SumOver(wt, S)
           q == [i \in S |-> Quota(total, wt, S, i)]
           r == [i \in S |-> Fraction(total, wt, S, i)]
           L == Leftover(total, wt, S)
<1>1. W \in Nat \ {0}
  <2>1. PICK x \in S : TRUE
    OBVIOUS
  <2>2. W \in Nat
    BY SumType
  <2>3. SumOver(wt, {x}) <= W
    <3>1. {x} \in SUBSET S
      OBVIOUS
    <3>2. \A i \in S : wt[i] \in Nat /\ wt[i] <= wt[i]
      OBVIOUS
    <3> QED
      BY <3>1, <3>2, SumLess
  <2>4. SumOver(wt, {x}) = wt[x]
    <3>1. SumOver(wt, {} \cup {x}) = SumOver(wt, {}) + wt[x]
      BY SumAdd, FS_EmptySet
    <3>2. {} \cup {x} = {x}
      OBVIOUS
    <3> QED
      BY <3>1, <3>2, SumEmpty
  <2> HIDE DEF W
  <2> QED
    BY <2>2, <2>3, <2>4
<1>2. Dividing(S, total, W, wt, q, r)
  <2> SUFFICES ASSUME NEW i \in S
               PROVE  /\ wt[i] \in Nat /\ q[i] \in Nat /\ r[i] \in 0 .. W - 1
                      /\ total * wt[i] = W * q[i] + r[i]
    BY DEF Dividing
  <2> DEFINE n == wt[i]
  <2>1. n \in Nat
    OBVIOUS
  <2>2. q[i] = (total * n) \div W /\ r[i] = (total * n) % W
    BY DEF Quota, Fraction
  <2> HIDE DEF W, n
  <2>3. /\ (total * n) \div W \in Nat /\ (total * n) % W \in 0 .. W - 1
        /\ total * n = W * ((total * n) \div W) + ((total * n) % W)
    BY <1>1, <2>1, Divided
  <2> HIDE DEF q, r
  <2> QED
    BY <2>1, <2>2, <2>3 DEF n
<1>3. total * W = W * SumOver(q, S) + SumOver(r, S) /\ SumOver(r, S) <= (W - 1) * Cardinality(S)
  <2> HIDE DEF q, r
  <2>1. total * SumOver(wt, S) = W * SumOver(q, S) + SumOver(r, S)
        /\ SumOver(r, S) <= (W - 1) * Cardinality(S)
    <3> HIDE DEF W
    <3> QED
      BY <1>1, <1>2, SumDivided
  <2> QED
    BY <2>1
<1>4. SumOver(q, S) \in Nat /\ SumOver(r, S) \in Nat
  <2>1. \A i \in S : q[i] \in Nat /\ r[i] \in Nat
    <3> HIDE DEF W, q, r
    <3> QED
      BY <1>1, <1>2 DEF Dividing
  <2> HIDE DEF q, r
  <2> QED
    BY <2>1, SumType
<1>5. Cardinality(S) \in Nat \ {0}
  BY FS_CardinalityType, FS_EmptySet
<1>6. L = total - SumOver(q, S)
  BY DEF Leftover
<1>7. L \in 0 .. Cardinality(S) - 1 /\ SumOver(r, S) = W * L
  <2> HIDE DEF W, q, r, L
  <2>1. SumOver(r, S) = W * L /\ L \in Int
    BY <1>1, <1>3, <1>4, <1>6
  <2> QED
    BY <1>1, <1>3, <1>4, <1>5, <2>1, LittleLeft
<1> DEFINE before == {p \in S \X S : Precedes(total, wt, S, p[1], p[2])}
           First == {i \in S : Cardinality({j \in S : <<j, i>> \in before}) < L}
<1>8. Cardinality(First) = L
  <2>1. \A i, j \in S : <<i, j>> \in before <=> r[i] > r[j] \/ (r[i] = r[j] /\ i < j)
    BY DEF Precedes
  <2>2. \A i \in S : r[i] \in Int /\ i \in Int
    <3> HIDE DEF W, q, r
    <3> QED
      BY <1>1, <1>2 DEF Dividing
  <2>3. before \in SUBSET (S \X S)
    OBVIOUS
  <2>4. L \in 0 .. Cardinality(S)
    <3> HIDE DEF L
    <3> QED
      BY <1>5, <1>7
  <2> HIDE DEF before, r, L
  <2>5. \A i \in S : <<i, i>> \notin before
    BY <2>1, <2>2
  <2>6. \A i, j \in S : i # j => <<i, j>> \in before \/ <<j, i>> \in before
    BY <2>1, <2>2
  <2>7. \A i, j, k \in S : <<i, j>> \in before /\ <<j, k>> \in before => <<i, k>> \in before
    BY <2>1, <2>2
  <2> QED
    BY <2>3, <2>4, <2>5, <2>6, <2>7, Ranks
<1> DEFINE shares == Shares(total, wt, S)
<1>9. \A i \in S : shares[i] = q[i] + (IF i \in First THEN 1 ELSE 0)
  <2> SUFFICES ASSUME NEW i \in S
               PROVE  shares[i] = q[i] + (IF i \in First THEN 1 ELSE 0)
    OBVIOUS
  <2>1. {j \in S : Precedes(total, wt, S, j, i)} = {j \in S : <<j, i>> \in before}
    OBVIOUS
  <2> QED
    BY <2>1 DEF Shares
<1>10. SumOver(shares, S) = SumOver(q, S) + Cardinality(First)
  <2>1. \A i \in S : q[i] \in Nat
    <3> HIDE DEF q, r, W
    <3> QED
      BY <1>2 DEF Dividing
  <2>2. First \in SUBSET S
    OBVIOUS
  <2> HIDE DEF shares, q, First
  <2> QED
    BY <1>9, <2>1, <2>2, SumMarked
<1>11. SumOver(shares, S) = total
  <2> HIDE DEF shares, q, First, L
  <2> QED
    BY <1>4, <1>6, <1>7, <1>8, <1>10
<1>12. \A i \in First : r[i] # 0
  <2> DEFINE P == {i \in S : r[i] # 0}
  <2>1. Units(r, S) = Units(r, P)
    <3>1. \A i \in S : r[i] = 0 => 1 .. r[i] = {}
      OBVIOUS
    <3> HIDE DEF r
    <3>2. Units(r, S) \subseteq Units(r, P)
      BY <3>1 DEF Units
    <3>3. Units(r, P) \subseteq Units(r, S)
      BY DEF Units
    <3> QED
      BY <3>2, <3>3
  <2>2. IsFiniteSet(P) /\ Cardinality(P) \in Nat
    BY FS_Subset, FS_CardinalityType
  <2>3. SumOver(r, P) <= (W - 1) * Cardinality(P)
    <3>1. Dividing(P, total, W, wt, q, r)
      <4> HIDE DEF W, q, r
      <4> QED
        BY <1>2 DEF Dividing
    <3> HIDE DEF W, q, r, P
    <3> QED
      BY <1>1, <2>2, <3>1, SumDivided
  <2>4. L <= Cardinality(P)
    <3>1. W * L <= (W - 1) * Cardinality(P)
      BY <1>7, <2>1, <2>3 DEF SumOver
    <3> HIDE DEF W, L, P
    <3> QED
      BY <1>1, <1>5, <1>7, <2>2, <3>1, NotMore
  <2> SUFFICES ASSUME NEW i \in S, r[i] = 0 PROVE i \notin First
    BY DEF First
  <2>5. P \in SUBSET {j \in S : <<j, i>> \in before}
    <3>1. \A j \in P : Precedes(total, wt, S, j, i)
      <4> SUFFICES ASSUME NEW j \in P PROVE r[j] > r[i]
        BY DEF Precedes
      <4>1. r[j] \in Nat /\ r[j] # 0
        <5> HIDE DEF W, q, r
        <5> QED
          BY <1>1, <1>2 DEF Dividing
      <4> HIDE DEF r
      <4> QED
        BY <4>1
    <3> QED
      BY <3>1
  <2>6. Cardinality(P) <= Cardinality({j \in S : <<j, i>> \in before})
    <3>1. IsFiniteSet({j \in S : <<j, i>> \in before})
      BY FS_Subset
    <3> HIDE DEF P, before
    <3> QED
      BY <2>5, <3>1, FS_Subset
  <2>7. Cardinality({j \in S : <<j, i>> \in before}) \in Nat
    <3>1. IsFiniteSet({j \in S : <<j, i>> \in before})
      BY FS_Subset
    <3> HIDE DEF before
    <3> QED
      BY <3>1, FS_CardinalityType
  <2> HIDE DEF P, before, L, r
  <2> QED
    BY <1>5, <1>7, <2>2, <2>4, <2>6, <2>7
<1>13. ASSUME NEW i \in S
       PROVE  /\ q[i] \in Nat /\ r[i] \in 0 .. W - 1
              /\ total * wt[i] = W * q[i] + r[i]
              /\ shares[i] \in q[i] .. q[i] + 1
              /\ r[i] = 0 => shares[i] = q[i]
  <2>1. /\ q[i] \in Nat /\ r[i] \in 0 .. W - 1
        /\ total * wt[i] = W * q[i] + r[i]
    BY <1>2 DEF Dividing
  <2>2. shares[i] = q[i] + (IF i \in First THEN 1 ELSE 0)
    BY <1>9
  <2>3. r[i] = 0 => i \notin First
    BY <1>12
  <2> HIDE DEF q, r, W, shares, First
  <2> QED
    BY <2>1, <2>2, <2>3
<1>14. \A i \in S : q[i] = Quota(total, wt, S, i) /\ r[i] = Fraction(total, wt, S, i)
  OBVIOUS
<1> HIDE DEF q, r
<1> QED
  BY <1>1, <1>11, <1>13, <1>14
-----------------------------------------------------------------------------
(* Machines of one weight.                                                 *)

(* A sum of equal numbers is a product.                                    *)
LEMMA SumEqual ==
  ASSUME NEW S, IsFiniteSet(S), NEW f, NEW a \in Nat, \A i \in S : f[i] = a
  PROVE  SumOver(f, S) = Cardinality(S) * a
<1>1. Units(f, S) = S \X (1 .. a)
  BY DEF Units
<1>2. IsFiniteSet(1 .. a) /\ Cardinality(1 .. a) = a
  BY FS_Interval
<1> QED
  BY <1>1, <1>2, FS_Product DEF SumOver

(* The quota of machines of one weight does not depend on it.              *)
LEMMA Cancelled ==
  ASSUME NEW t \in Nat, NEW a \in Nat \ {0}, NEW n \in Nat \ {0}, NEW q \in Nat,
         NEW r \in 0 .. n * a - 1, t * a = (n * a) * q + r
  PROVE  t - n * q \in 0 .. n - 1
<1> DEFINE d == t - n * q
<1>1. d \in Int /\ d * a = r
  <2>1. n * q \in Int
    OBVIOUS
  <2>2. d * a = t * a - (n * q) * a
    BY <2>1
  <2>3. (n * q) * a = (n * a) * q
    OBVIOUS
  <2> QED
    BY <2>1, <2>2, <2>3
<1>2. r >= 0 /\ r < n * a
  OBVIOUS
<1> HIDE DEF d
<1>3. d >= 0
  <2> SUFFICES ASSUME d <= -1 PROVE FALSE
    BY <1>1
  <2>1. d * a <= -1
    BY <1>1
  <2> QED
    BY <1>1, <1>2, <2>1
<1>4. d < n
  <2> SUFFICES ASSUME d >= n PROVE FALSE
    BY <1>1
  <2>1. d * a >= n * a
    BY <1>1
  <2> QED
    BY <1>1, <1>2, <2>1
<1> QED
  BY <1>1, <1>3, <1>4 DEF d

(* Machines of one weight get the same, and the first one more.            *)
LEMMA EqualShares ==
  ASSUME NEW S \in SUBSET Nat, IsFiniteSet(S), S # {}, NEW total \in Nat, NEW wt,
         NEW a \in Nat \ {0}, \A i \in S : wt[i] = a
  PROVE  \E q \in Nat, d \in 0 .. Cardinality(S) - 1 :
           /\ total = Cardinality(S) * q + d
           /\ \A i \in S : Shares(total, wt, S)[i] =
                             q + (IF Cardinality({j \in S : j < i}) < d THEN 1 ELSE 0)
<1> DEFINE n == Cardinality(S)
           W == SumOver(wt, S)
           q == (total * a) \div W
           f == (total * a) % W
           d == total - n * q
<1>1. n \in Nat \ {0}
  BY FS_CardinalityType, FS_EmptySet
<1>2. W = n * a
  BY SumEqual
<1>3. W \in Nat \ {0}
  <2> HIDE DEF W, n
  <2> QED
    BY <1>1, <1>2
<1>4. q \in Nat /\ f \in 0 .. W - 1 /\ total * a = W * q + f
  <2> HIDE DEF W
  <2> QED
    BY <1>3, Divided
<1>5. d \in 0 .. n - 1
  <2>1. q \in Nat /\ f \in 0 .. n * a - 1 /\ total * a = (n * a) * q + f
    <3> HIDE DEF W, q, f, n
    <3> QED
      BY <1>2, <1>4
  <2> HIDE DEF W, q, f, n
  <2> QED
    BY <1>1, <2>1, Cancelled DEF d
<1>6. \A i \in S : Quota(total, wt, S, i) = q /\ Fraction(total, wt, S, i) = f
  BY DEF Quota, Fraction
<1>7. Leftover(total, wt, S) = d
  <2> DEFINE g == [i \in S |-> Quota(total, wt, S, i)]
  <2>1. \A i \in S : g[i] = q
    <3> HIDE DEF q, f
    <3> QED
      BY <1>6
  <2>2. SumOver(g, S) = n * q
    <3> HIDE DEF g, q
    <3> QED
      BY <1>4, <2>1, SumEqual
  <2> QED
    BY <2>2 DEF Leftover
<1>8. ASSUME NEW i \in S
      PROVE  Shares(total, wt, S)[i] =
               q + (IF Cardinality({j \in S : j < i}) < d THEN 1 ELSE 0)
  <2>1. \A j \in S : Precedes(total, wt, S, j, i) <=> j < i
    <3>1. f \in Nat
      <4> HIDE DEF f, W, q
      <4> QED
        BY <1>3, <1>4
    <3> HIDE DEF f, q
    <3> QED
      BY <1>6, <3>1 DEF Precedes
  <2>2. {j \in S : Precedes(total, wt, S, j, i)} = {j \in S : j < i}
    BY <2>1
  <2> HIDE DEF q, f, d
  <2> QED
    BY <1>6, <1>7, <2>2 DEF Shares
<1>9. total = n * q + d
  <2> HIDE DEF q, n
  <2>1. n * q \in Int
    BY <1>1, <1>4
  <2> QED
    BY <2>1
<1> HIDE DEF q, d, f, W
<1> QED
  BY <1>4, <1>5, <1>8, <1>9

(* The same number in fewer parts makes larger ones.                       *)
LEMMA Packed ==
  ASSUME NEW n \in Nat, NEW m \in Nat, m <= n, NEW q \in Nat, NEW p \in Nat,
         NEW d \in 0 .. n - 1, NEW e \in 0 .. m - 1, n * q + d = m * p + e
  PROVE  q <= p /\ (q = p => d <= e)
<1>1. q <= p
  <2> SUFFICES ASSUME p <= q - 1 PROVE FALSE
    OBVIOUS
  <2>1. m * p <= m * (q - 1)
    OBVIOUS
  <2>2. m * (q - 1) = m * q - m
    OBVIOUS
  <2>3. m * q <= n * q
    OBVIOUS
  <2> QED
    BY <2>1, <2>2, <2>3
<1>2. ASSUME q = p
      PROVE  d <= e
  <2>1. m * q <= n * q
    OBVIOUS
  <2> QED
    BY <1>2, <2>1
<1> QED
  BY <1>1, <1>2

(* A total that is shared among fewer gives nobody less.                   *)
LEMMA FewerGetMore ==
  ASSUME NEW S \in SUBSET Nat, IsFiniteSet(S), NEW T \in SUBSET S, NEW total \in Nat,
         NEW wt, NEW a \in Nat \ {0}, \A i \in S : wt[i] = a, NEW i \in T
  PROVE  Shares(total, wt, S)[i] <= Shares(total, wt, T)[i]
<1> DEFINE n == Cardinality(S)
           m == Cardinality(T)
           rankS == Cardinality({j \in S : j < i})
           rankT == Cardinality({j \in T : j < i})
<1>1. IsFiniteSet(T) /\ T # {} /\ S # {} /\ T \in SUBSET Nat /\ i \in S
  BY FS_Subset
<1>2. n \in Nat /\ m \in Nat /\ m <= n
  BY <1>1, FS_Subset, FS_CardinalityType
<1>3. rankS \in Nat /\ rankT \in Nat /\ rankT <= rankS
  <2>1. IsFiniteSet({j \in S : j < i})
    BY FS_Subset
  <2>2. {j \in T : j < i} \in SUBSET {j \in S : j < i}
    OBVIOUS
  <2> QED
    BY <2>1, <2>2, FS_Subset, FS_CardinalityType
<1> DEFINE x == Shares(total, wt, S)[i]
           y == Shares(total, wt, T)[i]
<1>4. PICK q \in Nat, d \in 0 .. n - 1 :
        /\ total = n * q + d
        /\ \A k \in S : Shares(total, wt, S)[k] =
                          q + (IF Cardinality({j \in S : j < k}) < d THEN 1 ELSE 0)
  BY <1>1, EqualShares
<1>5. PICK p \in Nat, e \in 0 .. m - 1 :
        /\ total = m * p + e
        /\ \A k \in T : Shares(total, wt, T)[k] =
                          p + (IF Cardinality({j \in T : j < k}) < e THEN 1 ELSE 0)
  <2>1. \A k \in T : wt[k] = a
    OBVIOUS
  <2> QED
    BY <1>1, <2>1, EqualShares
<1>6. x = q + (IF rankS < d THEN 1 ELSE 0)
  BY <1>1, <1>4
<1>7. y = p + (IF rankT < e THEN 1 ELSE 0)
  BY <1>5
<1>8. total = n * q + d /\ total = m * p + e
  BY <1>4, <1>5
<1> HIDE DEF n, m, rankS, rankT, x, y
<1>9. q <= p /\ (q = p => d <= e)
  BY <1>2, <1>8, Packed
<1>10. x <= y
  BY <1>3, <1>6, <1>7, <1>9
<1> QED
  BY <1>10 DEF x, y

-----------------------------------------------------------------------------
(* FleetShares.                                                            *)

(* The targets are within the caps, and their sum within what was asked;   *)
(* a budget is within what the cap allows.                                 *)
Typed ==
  /\ mode \in Modes
  /\ weight \in [Machines -> Weights]
  /\ cap \in [Machines -> Nat]
  /\ live \in SUBSET Machines
  /\ asked \in {NotAsked} \cup Nat
  /\ target \in [Machines -> Nat]
  /\ totalStarts \in [Machines -> Nat]
  /\ started \in [Machines -> Nat]

Budgeted ==
  \A m \in Machines :
    /\ mode = "none" => totalStarts[m] <= cap[m]
    /\ mode = "bounded" => totalStarts[m] <= WithSpares(cap[m])
    /\ started[m] <= totalStarts[m]

IInv ==
  /\ Typed
  /\ NobodyTakesMore
  /\ Budgeted
  /\ StartsBounded

(* The machines that are left are finitely many natural numbers, with      *)
(* weights.                                                                *)
LEMMA Left ==
  ASSUME Typed
  PROVE  /\ live \in SUBSET Nat /\ IsFiniteSet(live)
         /\ \A m \in live : weight[m] \in Nat \ {0}
<1>1. live \in SUBSET Nat /\ IsFiniteSet(live)
  BY SharesAssumption, FS_Subset DEF Typed
<1> QED
  BY <1>1, SharesAssumption DEF Typed

(* What a machine is asked to hold by a new total.                         *)
LEMMA Asked ==
  ASSUME Typed, live # {}, NEW total \in Nat, NEW m \in live
  PROVE  /\ Shares(total, weight, live)[m] \in Nat
         /\ ShareOf(Shares(total, weight, live), m) \in Nat
         /\ ShareOf(Shares(total, weight, live), m) <= cap[m]
         /\ ShareOf(Shares(total, weight, live), m) <= Shares(total, weight, live)[m]
<1>1. Shares(total, weight, live)[m] \in Nat
  <2> DEFINE q == Quota(total, weight, live, m)
             s == Shares(total, weight, live)[m]
  <2>1. q \in Nat /\ s \in q .. q + 1
    BY Left, Partitioned
  <2> HIDE DEF q, s
  <2>2. s \in Nat
    BY <2>1
  <2> QED
    BY <2>2 DEF s
<1>2. cap[m] \in Nat
  BY DEF Typed
<1> QED
  BY <1>1, <1>2 DEF ShareOf, AtMost

(* A smaller share takes no more spares.                                   *)
LEMMA FewerSpares ==
  ASSUME NEW a \in Nat, NEW b \in Nat, a <= b
  PROVE  WithSpares(a) \in Nat /\ WithSpares(a) <= WithSpares(b)
  BY SharesAssumption DEF WithSpares

(* A new total keeps the invariant.                                        *)
LEMMA TotalKeeps ==
  ASSUME IInv, live # {}, NEW total \in Nat, SetTotalTarget(total)
  PROVE  IInv'
<1> DEFINE share(m) == ShareOf(Shares(total, weight, live), m)
<1>1. Typed /\ NobodyTakesMore /\ Budgeted /\ StartsBounded
  BY DEF IInv
<1>2. /\ target' = [m \in Machines |-> IF m \in live THEN share(m) ELSE target[m]]
      /\ totalStarts' = [m \in Machines |->
                           IF m \in live THEN Budget(m, share(m)) ELSE totalStarts[m]]
      /\ asked' = total /\ UNCHANGED <<mode, weight, cap, live, started>>
  BY DEF SetTotalTarget
<1>3. \A m \in live : /\ share(m) \in Nat /\ share(m) <= cap[m]
                      /\ share(m) <= Shares(total, weight, live)[m]
                      /\ Shares(total, weight, live)[m] \in Nat
  BY <1>1, Asked
<1> HIDE DEF share
<1>4. Typed'
  <2>1. \A m \in live : Budget(m, share(m)) \in Nat
    <3> SUFFICES ASSUME NEW m \in live PROVE Budget(m, share(m)) \in Nat
      OBVIOUS
    <3>1. share(m) \in Nat /\ started[m] \in Nat /\ totalStarts[m] \in Nat /\ mode \in Modes
      BY <1>1, <1>3 DEF Typed
    <3>2. WithSpares(share(m)) \in Nat
      BY <3>1, SharesAssumption DEF WithSpares
    <3> QED
      BY <3>1, <3>2, SharesAssumption DEF Budget, AtLeast, Modes
  <2>2. target' \in [Machines -> Nat]
    BY <1>1, <1>2, <1>3 DEF Typed
  <2>3. totalStarts' \in [Machines -> Nat]
    BY <1>1, <1>2, <2>1 DEF Typed
  <2> QED
    BY <1>1, <1>2, <2>2, <2>3 DEF Typed
<1>5. NobodyTakesMore'
  <2>1. SumOver(target', live) <= SumOver(Shares(total, weight, live), live)
    <3>1. \A m \in live : target'[m] = share(m)
      BY <1>1, <1>2 DEF Typed
    <3>2. \A m \in live : /\ target'[m] \in Nat
                          /\ target'[m] <= Shares(total, weight, live)[m]
                          /\ Shares(total, weight, live)[m] \in Nat
      BY <1>3, <3>1
    <3>3. IsFiniteSet(live) /\ live \in SUBSET live
      BY <1>1, Left
    <3> QED
      BY <3>2, <3>3, SumLess
  <2>2. SumOver(Shares(total, weight, live), live) = total
    BY <1>1, Left, Partitioned
  <2>3. \A m \in Machines : target'[m] <= cap'[m]
    BY <1>1, <1>2, <1>3 DEF Typed, NobodyTakesMore
  <2> QED
    BY <1>2, <2>1, <2>2, <2>3 DEF NobodyTakesMore
<1>6. Budgeted' /\ StartsBounded'
  <2> SUFFICES ASSUME NEW m \in Machines
               PROVE  /\ mode = "none" => /\ totalStarts'[m] <= cap[m]
                                          /\ started[m] <= cap[m]
                      /\ mode = "bounded" => /\ totalStarts'[m] <= WithSpares(cap[m])
                                             /\ started[m] <= WithSpares(cap[m])
                      /\ started[m] <= totalStarts'[m]
                      /\ mode = "live" => totalStarts'[m] - started[m] <= cap[m] + Spare
    BY <1>2 DEF Budgeted, StartsBounded, WithSpares
  <2>1. /\ cap[m] \in Nat /\ started[m] \in Nat /\ totalStarts[m] \in Nat /\ mode \in Modes
    BY <1>1 DEF Typed
  <2>2. CASE m \notin live
    BY <1>1, <1>2, <2>1, <2>2 DEF Budgeted, StartsBounded
  <2>3. CASE m \in live
    <3>1. totalStarts'[m] = Budget(m, share(m))
      BY <1>2, <2>3
    <3>2. share(m) \in Nat /\ share(m) <= cap[m]
      BY <1>3, <2>3
    <3>3. /\ WithSpares(share(m)) \in Nat /\ WithSpares(share(m)) <= WithSpares(cap[m])
          /\ WithSpares(cap[m]) \in Nat
      BY <2>1, <3>2, FewerSpares
    <3>4. /\ mode = "none" => totalStarts[m] <= cap[m]
          /\ mode = "bounded" => totalStarts[m] <= WithSpares(cap[m])
          /\ started[m] <= totalStarts[m]
      BY <1>1 DEF Budgeted
    <3> QED
      BY <2>1, <3>1, <3>2, <3>3, <3>4, SharesAssumption DEF Budget, AtLeast, Modes
  <2> QED
    BY <2>2, <2>3
<1> QED
  BY <1>4, <1>5, <1>6 DEF IInv

(* The invariant holds in every state.                                     *)
LEMMA Inductive == Spec => []IInv
<1>1. Init => IInv
  <2> SUFFICES ASSUME Init PROVE IInv
    OBVIOUS
  <2>1. /\ mode \in Modes /\ weight \in [Machines -> Weights] /\ live = Machines
        /\ asked = NotAsked
        /\ target = [m \in Machines |-> 0] /\ totalStarts = [m \in Machines |-> 0]
        /\ started = [m \in Machines |-> 0]
    BY DEF Init
  <2>2. PICK own \in [Machines -> OwnLimits] :
          cap = [m \in Machines |-> AtMost(own[m], Shares(Ceiling, weight, Machines)[m])]
    BY DEF Init
  <2>3. \A m \in Machines : AtMost(own[m], Shares(Ceiling, weight, Machines)[m]) \in Nat
    <3> SUFFICES ASSUME NEW m \in Machines
                 PROVE  AtMost(own[m], Shares(Ceiling, weight, Machines)[m]) \in Nat
      OBVIOUS
    <3> DEFINE q == Quota(Ceiling, weight, Machines, m)
               s == Shares(Ceiling, weight, Machines)[m]
    <3>1. \A i \in Machines : weight[i] \in Nat \ {0}
      BY <2>1, SharesAssumption
    <3>2. q \in Nat /\ s \in q .. q + 1
      BY <3>1, SharesAssumption, Partitioned
    <3>3. own[m] \in Nat
      BY SharesAssumption
    <3> HIDE DEF q, s
    <3>4. AtMost(own[m], s) \in Nat
      BY <3>2, <3>3 DEF AtMost
    <3> QED
      BY <3>4 DEF s
  <2>4. cap \in [Machines -> Nat]
    BY <2>2, <2>3
  <2>5. Typed
    BY <2>1, <2>4 DEF Typed
  <2>6. NobodyTakesMore
    BY <2>1, <2>4 DEF NobodyTakesMore
  <2>7. Budgeted /\ StartsBounded
    <3> SUFFICES ASSUME NEW m \in Machines
                 PROVE  0 <= cap[m] /\ 0 <= WithSpares(cap[m]) /\ 0 - 0 <= cap[m] + Spare
      BY <2>1 DEF Budgeted, StartsBounded
    <3>1. cap[m] \in Nat
      BY <2>4
    <3> QED
      BY <3>1, SharesAssumption DEF WithSpares
  <2> QED
    BY <2>5, <2>6, <2>7 DEF IInv
<1>2. IInv /\ [Next]_vars => IInv'
  <2> SUFFICES ASSUME IInv, [Next]_vars PROVE IInv'
    OBVIOUS
  <2>1. Typed /\ NobodyTakesMore /\ Budgeted /\ StartsBounded
    BY DEF IInv
  <2>2. CASE StartCohort
    BY <2>2, TotalKeeps, SharesAssumption DEF StartCohort
  <2>3. ASSUME NEW total \in 0 .. Ceiling, RampStep(total) \/ SessionTarget(total)
        PROVE  IInv'
    <3>1. total \in Nat /\ live # {} /\ SetTotalTarget(total)
      BY <2>3, SharesAssumption DEF RampStep, SessionTarget
    <3> QED
      BY <3>1, TotalKeeps
  <2>4. ASSUME NEW m \in Machines, LoseAgent(m)
        PROVE  IInv'
    <3>1. /\ m \in live /\ live' = live \ {m} /\ target' = [target EXCEPT ![m] = 0]
          /\ UNCHANGED <<mode, weight, cap, asked, totalStarts, started>>
      BY <2>4 DEF LoseAgent
    <3>2. Typed'
      BY <2>1, <3>1 DEF Typed
    <3>3. SumOver(target', live') <= SumOver(target, live)
      <4>1. \A i \in live : target[i] \in Nat
        BY <2>1 DEF Typed
      <4>2. \A i \in live' : target'[i] = target[i]
        BY <2>1, <3>1 DEF Typed
      <4>3. live' \in SUBSET live /\ \A i \in live' : target'[i] \in Nat /\ target'[i] <= target[i]
        BY <3>1, <4>1, <4>2
      <4> QED
        BY <2>1, <4>1, <4>3, Left, SumLess
    <3>4. SumOver(target', live') \in Int /\ SumOver(target, live) \in Int
      <4>1. \A i \in live : target[i] \in Nat
        BY <2>1 DEF Typed
      <4>2. \A i \in live' : target'[i] \in Nat
        BY <3>2 DEF Typed
      <4>3. IsFiniteSet(live) /\ IsFiniteSet(live')
        BY <2>1, <3>2, Left, SharesAssumption, FS_Subset DEF Typed
      <4> QED
        BY <4>1, <4>2, <4>3, SumType
    <3>5. NobodyTakesMore'
      <4>1. \A i \in Machines : target'[i] <= cap'[i]
        BY <2>1, <3>1 DEF Typed, NobodyTakesMore
      <4>2. asked' # NotAsked => SumOver(target', live') <= asked'
        BY <2>1, <3>1, <3>3, <3>4 DEF Typed, NobodyTakesMore
      <4> QED
        BY <4>1, <4>2 DEF NobodyTakesMore
    <3>6. Budgeted' /\ StartsBounded'
      BY <2>1, <3>1 DEF Budgeted, StartsBounded, WithSpares
    <3> QED
      BY <3>2, <3>5, <3>6 DEF IInv
  <2>5. ASSUME NEW m \in Machines, ViewerStarted(m)
        PROVE  IInv'
    <3>1. /\ started[m] < totalStarts[m] /\ started' = [started EXCEPT ![m] = @ + 1]
          /\ UNCHANGED <<mode, weight, cap, live, asked, target, totalStarts>>
      BY <2>5 DEF ViewerStarted
    <3>2. Typed'
      BY <2>1, <3>1 DEF Typed
    <3>3. NobodyTakesMore'
      BY <2>1, <3>1 DEF NobodyTakesMore
    <3>4. ASSUME NEW i \in Machines
          PROVE  /\ started'[i] <= totalStarts[i] /\ started[i] <= started'[i]
                 /\ started'[i] \in Nat /\ started[i] \in Nat /\ totalStarts[i] \in Nat
                 /\ cap[i] \in Nat
      BY <2>1, <3>1 DEF Typed, Budgeted
    <3>5. Budgeted'
      BY <2>1, <3>1, <3>4 DEF Budgeted, WithSpares
    <3>6. StartsBounded'
      <4> SUFFICES ASSUME NEW i \in Machines
                   PROVE  /\ mode = "none" => started'[i] <= cap[i]
                          /\ mode = "bounded" => started'[i] <= WithSpares(cap[i])
                          /\ mode = "live" => totalStarts[i] - started'[i] <= cap[i] + Spare
        BY <3>1 DEF StartsBounded, WithSpares
      <4>1. WithSpares(cap[i]) \in Nat
        BY <3>4, FewerSpares
      <4> QED
        BY <2>1, <3>4, <4>1, SharesAssumption DEF Budgeted, StartsBounded
    <3> QED
      BY <3>2, <3>3, <3>5, <3>6 DEF IInv
  <2>6. CASE UNCHANGED vars
    BY <2>1, <2>6 DEF vars, IInv, Typed, NobodyTakesMore, Budgeted, StartsBounded, WithSpares
  <2> QED
    BY <2>2, <2>3, <2>4, <2>5, <2>6 DEF Next
<1> QED
  BY <1>1, <1>2, PTL DEF Spec

(* schedule.ts partition: rounding neither loses nor invents a viewer, and *)
(* no machine is a whole viewer away from its exact quota, for every total *)
(* and whichever machines are left.                                        *)
THEOREM QuotasKept == Spec => []QuotaRule
<1>1. ASSUME IInv
      PROVE  QuotaRule
  <2> SUFFICES ASSUME live # {}, NEW total \in 0 .. Ceiling
               PROVE  /\ SumOver(Shares(total, weight, live), live) = total
                      /\ \A m \in live :
                           Shares(total, weight, live)[m] * SumOver(weight, live) \in
                             total * weight[m] - SumOver(weight, live) + 1 ..
                             total * weight[m] + SumOver(weight, live) - 1
    BY DEF QuotaRule
  <2>1. /\ live \in SUBSET Nat /\ IsFiniteSet(live) /\ total \in Nat
        /\ \A m \in live : weight[m] \in Nat \ {0}
    BY <1>1, Left, SharesAssumption DEF IInv
  <2>2. SumOver(Shares(total, weight, live), live) = total
    BY <2>1, Partitioned
  <2>3. ASSUME NEW m \in live
        PROVE  Shares(total, weight, live)[m] * SumOver(weight, live) \in
                 total * weight[m] - SumOver(weight, live) + 1 ..
                 total * weight[m] + SumOver(weight, live) - 1
    <3> DEFINE W == SumOver(weight, live)
               q == Quota(total, weight, live, m)
               r == Fraction(total, weight, live, m)
               s == Shares(total, weight, live)[m]
               exact == total * weight[m]
    <3>1. /\ W \in Nat \ {0} /\ q \in Nat /\ r \in 0 .. W - 1 /\ exact = W * q + r
          /\ s \in q .. q + 1 /\ (r = 0 => s = q)
      BY <2>1, Partitioned
    <3> HIDE DEF W, q, r, s, exact
    <3>2. s = q \/ s = q + 1
      BY <3>1
    <3>3. s * W \in exact - W + 1 .. exact + W - 1
      <4>1. CASE s = q
        BY <3>1, <4>1
      <4>2. CASE s = q + 1 /\ r > 0
        <5>1. s * W = W * q + W
          BY <3>1, <4>2
        <5> QED
          BY <3>1, <4>2, <5>1
      <4> QED
        BY <3>1, <3>2, <4>1, <4>2
    <3> QED
      BY <3>3 DEF W, s, exact
  <2> QED
    BY <2>2, <2>3
<1> QED
  BY Inductive, <1>1, PTL

(* controller.ts setTotalTarget: the fleet is never asked for more than    *)
(* the run asked for, nor a machine for more than it was admitted for.     *)
THEOREM NobodyOverAsked == Spec => []NobodyTakesMore
<1>1. IInv => NobodyTakesMore
  BY DEF IInv
<1> QED
  BY Inductive, <1>1, PTL

(* controller.ts setTotalTarget: starts are bounded by the cap and its     *)
(* spares, or between two requests in a session.                           *)
THEOREM StartsKept == Spec => []StartsBounded
<1>1. IInv => StartsBounded
  BY DEF IInv
<1> QED
  BY Inductive, <1>1, PTL

(* In a fleet of one weight a cohort is asked to fill every machine.       *)
Filled ==
  /\ \A m \in Machines : cap[m] <= Shares(Ceiling, weight, Machines)[m]
  /\ (\A m, n \in Machines : weight[m] = weight[n]) /\ mode = "none" /\ asked # NotAsked
       => \A m \in live : target[m] = cap[m]

(* That stays so, whichever machines are lost before or after.             *)
LEMMA AlwaysFilled == Spec => []Filled
<1>1. ASSUME Init
      PROVE  Filled
  <2>1. PICK own \in [Machines -> OwnLimits] :
          cap = [m \in Machines |-> AtMost(own[m], Shares(Ceiling, weight, Machines)[m])]
    BY <1>1 DEF Init
  <2>2. ASSUME NEW m \in Machines
        PROVE  cap[m] <= Shares(Ceiling, weight, Machines)[m]
    <3> DEFINE q == Quota(Ceiling, weight, Machines, m)
               s == Shares(Ceiling, weight, Machines)[m]
    <3>1. \A i \in Machines : weight[i] \in Nat \ {0}
      BY <1>1, SharesAssumption DEF Init
    <3>2. q \in Nat /\ s \in q .. q + 1
      BY <3>1, SharesAssumption, Partitioned
    <3>3. own[m] \in Nat /\ cap[m] = AtMost(own[m], s)
      BY <2>1, SharesAssumption
    <3> HIDE DEF q, s
    <3>4. cap[m] <= s
      BY <3>2, <3>3 DEF AtMost
    <3> QED
      BY <3>4 DEF s
  <2> QED
    BY <1>1, <2>2 DEF Init, Filled
<1>2. ASSUME Typed, Filled, [Next]_vars
      PROVE  Filled'
  <2>1. CASE StartCohort
    <3>1. /\ mode = "none" /\ live # {} /\ SetTotalTarget(Ceiling)
      BY <2>1 DEF StartCohort
    <3>2. /\ UNCHANGED <<mode, weight, cap, live>>
          /\ target' = [m \in Machines |->
               IF m \in live THEN ShareOf(Shares(Ceiling, weight, live), m) ELSE target[m]]
      BY <3>1 DEF SetTotalTarget
    <3>3. ASSUME \A m, n \in Machines : weight[m] = weight[n], NEW m \in live
          PROVE  target'[m] = cap[m]
      <4>1. m \in Machines /\ weight[m] \in Nat \ {0} /\ cap[m] \in Nat
        BY <1>2, SharesAssumption DEF Typed
      <4>2. \A i \in Machines : weight[i] = weight[m]
        BY <3>3, <4>1
      <4>3. Shares(Ceiling, weight, Machines)[m] <= Shares(Ceiling, weight, live)[m]
        <5>1. live \in SUBSET Machines
          BY <1>2 DEF Typed
        <5> QED
          BY <4>1, <4>2, <5>1, SharesAssumption, FewerGetMore
      <4>4. Shares(Ceiling, weight, live)[m] \in Nat
        BY <1>2, <3>1, Asked, SharesAssumption
      <4>5. Shares(Ceiling, weight, Machines)[m] \in Int
        <5> DEFINE q == Quota(Ceiling, weight, Machines, m)
                   s == Shares(Ceiling, weight, Machines)[m]
        <5>1. \A i \in Machines : weight[i] \in Nat \ {0}
          BY <1>2, SharesAssumption DEF Typed
        <5>2. q \in Nat /\ s \in q .. q + 1
          BY <4>1, <5>1, SharesAssumption, Partitioned
        <5> HIDE DEF q, s
        <5>3. s \in Int
          BY <5>2
        <5> QED
          BY <5>3 DEF s
      <4>6. cap[m] <= Shares(Ceiling, weight, Machines)[m]
        BY <1>2, <4>1 DEF Filled
      <4>7. target'[m] = AtMost(Shares(Ceiling, weight, live)[m], cap[m])
        BY <3>2, <4>1 DEF ShareOf
      <4> QED
        BY <4>1, <4>3, <4>4, <4>5, <4>6, <4>7 DEF AtMost
    <3> QED
      BY <1>2, <3>2, <3>3 DEF Filled
  <2>2. ASSUME NEW total \in 0 .. Ceiling, RampStep(total) \/ SessionTarget(total)
        PROVE  Filled'
    BY <1>2, <2>2 DEF RampStep, SessionTarget, SetTotalTarget, Filled
  <2>3. ASSUME NEW m \in Machines, LoseAgent(m)
        PROVE  Filled'
    BY <1>2, <2>3 DEF LoseAgent, Filled, Typed
  <2>4. ASSUME NEW m \in Machines, ViewerStarted(m)
        PROVE  Filled'
    BY <1>2, <2>4 DEF ViewerStarted, Filled
  <2>5. CASE UNCHANGED vars
    BY <1>2, <2>5 DEF vars, Filled
  <2> QED
    BY <1>2, <2>1, <2>2, <2>3, <2>4, <2>5 DEF Next
<1>3. IInv => Typed
  BY DEF IInv
<1> QED
  BY <1>1, <1>2, <1>3, Inductive, PTL DEF Spec

(* controller.ts settleAndRelease, loseAgent: in a fleet of one weight the *)
(* target a settled cohort waits for is one the fleet was asked to reach,  *)
(* whenever machines are lost.                                             *)
THEOREM BarrierIsReachable == Spec => []BarrierReachableEqual
<1>1. ASSUME Typed, Filled
      PROVE  BarrierReachableEqual
  <2> SUFFICES ASSUME \A m, n \in Machines : weight[m] = weight[n],
                      mode = "none", asked # NotAsked
               PROVE  SumOver(target, live) >= AtMost(asked, Capacity)
    BY DEF BarrierReachableEqual, BarrierReachable
  <2>1. \A m \in live : target[m] \in Nat /\ cap[m] \in Nat /\ cap[m] <= target[m]
    BY <1>1 DEF Typed, Filled
  <2>2. IsFiniteSet(live) /\ live \in SUBSET live
    BY <1>1, Left
  <2>3. SumOver(cap, live) <= SumOver(target, live)
    BY <2>1, <2>2, SumLess
  <2>4. SumOver(cap, live) \in Nat /\ SumOver(target, live) \in Nat
    BY <2>1, <2>2, SumType
  <2>5. asked \in Int
    BY <1>1 DEF Typed, NotAsked
  <2> QED
    BY <2>3, <2>4, <2>5 DEF AtMost, Capacity
<1>2. IInv => Typed
  BY DEF IInv
<1> QED
  BY <1>1, <1>2, Inductive, AlwaysFilled, PTL
=============================================================================
