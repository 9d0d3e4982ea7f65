------------------------------ MODULE ViewerProofs ------------------------------
(***************************************************************************)
(* Proofs about MockViewer, for every set of segment lengths and fetch     *)
(* times, every runway, limit and window: the trailing window of a record  *)
(* is the shortest run of the newest segments that covers Trailing, and    *)
(* the totals a viewer reports at its end are those its lines were folded  *)
(* into, but for what was rounded away, however far behind the reading of  *)
(* them is.                                                                *)
(*                                                                         *)
(* A sum over segments is the number of their ticks (Sum), so what it      *)
(* needs is counting: joining two runs adds their sums (SumConcat).        *)
(***************************************************************************)
EXTENDS MockViewer, FiniteSetTheorems, SequenceTheorems, WellFoundedInduction, TLAPS

-----------------------------------------------------------------------------
(* Sums.                                                                   *)

Items == [media: Nat \ {0}, stall: Nat]
Parts == {"media", "stall"}
Units(items, part) == UNION {{i} \X (1 .. items[i][part]) : i \in DOMAIN items}

(* A set of numbers that is not empty has a least one.                     *)
LEMMA LeastNumber ==
  ASSUME NEW D \in SUBSET Nat, D # {}
  PROVE  \E x \in D : \A y \in D : x <= y
<1> DEFINE R == {p \in Nat \X Nat : p[1] < p[2]}
<1>1. IsWellFoundedOn(R, Nat)
  BY NatLessThanWellFounded DEF OpToRel
<1>2. PICK x \in D : \A y \in D : ~(<<y, x>> \in R)
  <2> HIDE DEF R
  <2> QED
    BY <1>1, WFMin
<1>3. ASSUME NEW y \in D PROVE x <= y
  <2>1. x \in Nat /\ y \in Nat
    OBVIOUS
  <2>2. ~(y < x)
    BY <1>2, <2>1
  <2> QED
    BY <2>1, <2>2
<1> QED
  BY <1>3

(* The units of one segment.                                               *)
LEMMA OneMember ==
  ASSUME NEW x, NEW n \in Nat
  PROVE  IsFiniteSet({x} \X (1 .. n)) /\ Cardinality({x} \X (1 .. n)) = n
<1>1. IsFiniteSet({x}) /\ Cardinality({x}) = 1
  BY FS_Singleton
<1>2. IsFiniteSet(1 .. n) /\ Cardinality(1 .. n) = n
  BY FS_Interval
<1>3. IsFiniteSet({x} \X (1 .. n)) /\ Cardinality({x} \X (1 .. n)) = 1 * n
  BY <1>1, <1>2, FS_Product
<1> QED
  BY <1>3

(* A sum over segments is a natural number.                                *)
LEMMA SumType ==
  ASSUME NEW s \in Seq(Items), NEW part \in Parts
  PROVE  IsFiniteSet(Units(s, part)) /\ Sum(s, part) \in Nat
<1> DEFINE U == [i \in 1 .. Len(s) |-> {i} \X (1 .. s[i][part])]
           All == {U[i] : i \in 1 .. Len(s)}
<1>1. DOMAIN s = 1 .. Len(s) /\ Len(s) \in Nat
  OBVIOUS
<1>2. IsFiniteSet(1 .. Len(s))
  BY <1>1, FS_Interval
<1>3. U \in Surjection(1 .. Len(s), All)
  BY DEF Surjection
<1>4. IsFiniteSet(All)
  <2> HIDE DEF U, All
  <2> QED
    BY <1>2, <1>3, FS_Surjection
<1>5. ASSUME NEW T \in All PROVE IsFiniteSet(T)
  <2>1. PICK i \in 1 .. Len(s) : T = {i} \X (1 .. s[i][part])
    OBVIOUS
  <2>2. s[i] \in Items
    BY ElementOfSeq
  <2>3. s[i][part] \in Nat
    BY <2>2 DEF Items, Parts
  <2> QED
    BY <2>1, <2>3, OneMember
<1>6. Units(s, part) = UNION All
  BY <1>1 DEF Units
<1>7. IsFiniteSet(Units(s, part))
  <2> HIDE DEF U, All
  <2> QED
    BY <1>4, <1>5, <1>6, FS_UNION
<1> QED
  BY <1>7, FS_CardinalityType DEF Sum, Units

(* The sum over no segment, and over one.                                  *)
LEMMA SumSmall ==
  ASSUME NEW part \in Parts
  PROVE  Sum(<<>>, part) = 0 /\ \A x \in Items : Sum(<<x>>, part) = x[part]
<1>1. Units(<<>>, part) = {}
  BY DEF Units
<1>2. ASSUME NEW x \in Items PROVE Sum(<<x>>, part) = x[part]
  <2>1. Units(<<x>>, part) = {1} \X (1 .. x[part])
    BY DEF Units
  <2>2. x[part] \in Nat
    BY DEF Items, Parts
  <2> QED
    BY <2>1, <2>2, OneMember DEF Sum, Units
<1> QED
  BY <1>1, <1>2, FS_EmptySet DEF Sum, Units

(* Joining two runs of segments adds their sums.                           *)
LEMMA SumConcat ==
  ASSUME NEW s \in Seq(Items), NEW t \in Seq(Items), NEW part \in Parts
  PROVE  Sum(s \o t, part) = Sum(s, part) + Sum(t, part)
<1> DEFINE n == Len(s)
           A == Units(s, part)
           B == Units(t, part)
           C == {<<p[1] + n, p[2]>> : p \in B}
           shift == [p \in B |-> <<p[1] + n, p[2]>>]
<1>1. /\ DOMAIN s = 1 .. n /\ DOMAIN t = 1 .. Len(t) /\ n \in Nat /\ Len(t) \in Nat
      /\ DOMAIN (s \o t) = 1 .. n + Len(t)
      /\ \A i \in 1 .. n : (s \o t)[i] = s[i]
      /\ \A i \in 1 .. Len(t) : (s \o t)[i + n] = t[i]
  BY ConcatProperties, LenProperties
<1>2. ASSUME NEW p PROVE p \in Units(s \o t, part) <=> p \in A \cup C
  <2>1. ASSUME p \in Units(s \o t, part) PROVE p \in A \cup C
    <3>1. PICK i \in 1 .. n + Len(t) : p \in {i} \X (1 .. (s \o t)[i][part])
      BY <1>1, <2>1 DEF Units
    <3>2. CASE i <= n
      <4>1. i \in 1 .. n /\ (s \o t)[i] = s[i]
        BY <1>1, <3>2
      <4> QED
        BY <1>1, <3>1, <4>1 DEF Units
    <3>3. CASE ~(i <= n)
      <4>1. i - n \in 1 .. Len(t) /\ i = (i - n) + n
        BY <1>1, <3>3
      <4>2. (s \o t)[i] = t[i - n]
        BY <1>1, <4>1
      <4>3. <<i - n, p[2]>> \in B
        BY <1>1, <3>1, <4>1, <4>2 DEF Units
      <4>4. p = <<(i - n) + n, p[2]>>
        BY <3>1, <4>1
      <4> HIDE DEF B, n
      <4> QED
        BY <4>3, <4>4
    <3> QED
      BY <3>2, <3>3
  <2>2. ASSUME p \in A PROVE p \in Units(s \o t, part)
    <3>1. PICK i \in 1 .. n : p \in {i} \X (1 .. s[i][part])
      BY <1>1, <2>2 DEF Units
    <3>2. i \in 1 .. n + Len(t) /\ (s \o t)[i] = s[i]
      BY <1>1
    <3> QED
      BY <1>1, <3>1, <3>2 DEF Units
  <2>3. ASSUME p \in C PROVE p \in Units(s \o t, part)
    <3>1. PICK q \in B : p = <<q[1] + n, q[2]>>
      BY <2>3
    <3>2. PICK i \in 1 .. Len(t) : q \in {i} \X (1 .. t[i][part])
      BY <1>1, <3>1 DEF Units
    <3>3. i + n \in 1 .. n + Len(t) /\ (s \o t)[i + n] = t[i]
      BY <1>1
    <3>4. p \in {i + n} \X (1 .. (s \o t)[i + n][part])
      BY <3>1, <3>2, <3>3
    <3> QED
      BY <1>1, <3>3, <3>4 DEF Units
  <2> HIDE DEF A, C
  <2> QED
    BY <2>1, <2>2, <2>3
<1>3. A \cap C = {}
  <2>1. ASSUME NEW p \in A PROVE p[1] \in 1 .. n
    BY <1>1 DEF Units
  <2>2. ASSUME NEW p \in C PROVE ~(p[1] \in 1 .. n)
    <3>1. PICK q \in B : p = <<q[1] + n, q[2]>>
      OBVIOUS
    <3>2. q[1] \in 1 .. Len(t)
      BY <1>1, <3>1 DEF Units
    <3> QED
      BY <1>1, <3>1, <3>2
  <2> HIDE DEF A, C
  <2> QED
    BY <2>1, <2>2
<1>4. shift \in Bijection(B, C)
  <2>1. shift \in Surjection(B, C)
    BY DEF Surjection
  <2>2. ASSUME NEW p \in B, NEW q \in B, shift[p] = shift[q] PROVE p = q
    <3>1. /\ p[1] \in 1 .. Len(t) /\ q[1] \in 1 .. Len(t)
          /\ p = <<p[1], p[2]>> /\ q = <<q[1], q[2]>>
      BY <1>1 DEF Units
    <3>2. p[1] + n = q[1] + n /\ p[2] = q[2]
      BY <2>2
    <3>3. p[1] = q[1]
      BY <1>1, <3>1, <3>2
    <3> QED
      BY <3>1, <3>2, <3>3
  <2> HIDE DEF B, C, shift
  <2>3. shift \in Injection(B, C)
    BY <2>1, <2>2 DEF Injection, IsInjective, Surjection
  <2> QED
    BY <2>1, <2>3 DEF Bijection
<1>5. IsFiniteSet(A) /\ IsFiniteSet(B) /\ Cardinality(A) \in Nat /\ Cardinality(B) \in Nat
  BY SumType DEF Sum, Units
<1>6. IsFiniteSet(C) /\ Cardinality(C) = Cardinality(B)
  <2> HIDE DEF B, C, shift
  <2> QED
    BY <1>4, <1>5, FS_Bijection DEF ExistsBijection
<1>7. Cardinality(A \cup C) = Cardinality(A) + Cardinality(C)
  <2> HIDE DEF A, B, C
  <2>1. Cardinality(A \cap C) = 0
    BY <1>3, FS_EmptySet
  <2>2. Cardinality(A \cup C) = Cardinality(A) + Cardinality(C) - Cardinality(A \cap C)
    BY <1>5, <1>6, FS_Union
  <2> QED
    BY <1>5, <1>6, <2>1, <2>2
<1>8. Units(s \o t, part) = A \cup C
  <2> HIDE DEF A, C
  <2> QED
    BY <1>2
<1> HIDE DEF C
<1> QED
  BY <1>6, <1>7, <1>8 DEF Sum, Units

(* A sum is that of the first segments and that of the others.             *)
LEMMA SumSplit ==
  ASSUME NEW s \in Seq(Items), NEW k \in 0 .. Len(s), NEW part \in Parts
  PROVE  /\ SubSeq(s, 1, k) \in Seq(Items) /\ SubSeq(s, k + 1, Len(s)) \in Seq(Items)
         /\ Sum(s, part) = Sum(SubSeq(s, 1, k), part) + Sum(SubSeq(s, k + 1, Len(s)), part)
<1>1. Len(s) \in Nat /\ k \in Nat /\ k <= Len(s) /\ \A i \in 1 .. Len(s) : s[i] \in Items
  BY LenProperties, ElementOfSeq
<1>2. SubSeq(s, 1, k) \in Seq(Items) /\ SubSeq(s, k + 1, Len(s)) \in Seq(Items)
  BY <1>1, SubSeqProperties
<1>3. SubSeq(s, 1, k) \o SubSeq(s, k + 1, Len(s)) = SubSeq(s, 1, Len(s))
  <2>1. 1 \in 1 .. Len(s) + 1 /\ k \in 1 - 1 .. Len(s) /\ Len(s) \in k .. Len(s)
    BY <1>1
  <2> QED
    BY <2>1, ConcatAdjacentSubSeq
<1>4. SubSeq(s, 1, Len(s)) = s
  BY SubSeqFull
<1>5. SubSeq(s, 1, k) \o SubSeq(s, k + 1, Len(s)) = s
  BY <1>3, <1>4
<1>6. Sum(SubSeq(s, 1, k) \o SubSeq(s, k + 1, Len(s)), part) =
        Sum(SubSeq(s, 1, k), part) + Sum(SubSeq(s, k + 1, Len(s)), part)
  BY <1>2, SumConcat
<1> QED
  BY <1>2, <1>5, <1>6

(* A sum with one segment more.                                            *)
LEMMA SumAppend ==
  ASSUME NEW s \in Seq(Items), NEW x \in Items, NEW part \in Parts
  PROVE  Sum(Append(s, x), part) = Sum(s, part) + x[part]
<1>1. Append(s, x) = s \o <<x>> /\ <<x>> \in Seq(Items)
  BY AppendIsConcat
<1> QED
  BY <1>1, SumConcat, SumSmall

-----------------------------------------------------------------------------
(* The loop of pushWindow().                                               *)

(* A window's running sums are those of its segments.                      *)
Consistent(w) ==
  /\ w.items \in Seq(Items)
  /\ w = [items |-> w.items, media |-> Sum(w.items, "media"), stall |-> Sum(w.items, "stall")]

(* What is left when the first k have been dropped.                        *)
Left(w, k) == SubSeq(w.items, k + 1, Len(w.items))

(* Dropping keeps the running sums true.                                   *)
LEMMA WithoutConsistent ==
  ASSUME NEW w, Consistent(w), NEW k \in 0 .. Len(w.items)
  PROVE  /\ Consistent(Without(w, k)) /\ Without(w, k).items = Left(w, k)
         /\ w.media - Sum(First(w, k), "media") = Sum(Left(w, k), "media")
<1> DEFINE s == w.items
<1>1. s \in Seq(Items) /\ w.media = Sum(s, "media") /\ w.stall = Sum(s, "stall")
  BY DEF Consistent
<1>2. "media" \in Parts /\ "stall" \in Parts
  BY DEF Parts
<1>3. ASSUME NEW part \in Parts
      PROVE  /\ Left(w, k) \in Seq(Items)
             /\ Sum(s, part) - Sum(First(w, k), part) = Sum(Left(w, k), part)
  <2> HIDE DEF s
  <2>1. /\ SubSeq(s, 1, k) \in Seq(Items) /\ SubSeq(s, k + 1, Len(s)) \in Seq(Items)
        /\ Sum(s, part) = Sum(SubSeq(s, 1, k), part) + Sum(SubSeq(s, k + 1, Len(s)), part)
    BY <1>1, SumSplit DEF s
  <2>2. Sum(SubSeq(s, 1, k), part) \in Nat /\ Sum(SubSeq(s, k + 1, Len(s)), part) \in Nat
    BY <2>1, SumType
  <2> QED
    BY <2>1, <2>2 DEF Left, First, s
<1>4. Without(w, k) = [items |-> Left(w, k), media |-> Sum(Left(w, k), "media"),
                       stall |-> Sum(Left(w, k), "stall")]
  BY <1>1, <1>2, <1>3 DEF Without, Left
<1> QED
  BY <1>1, <1>2, <1>3, <1>4 DEF Consistent

(* The loop drops as many as leave a window that covers Trailing, and no   *)
(* fewer; one stays.                                                       *)
LEMMA SlideStops ==
  ASSUME NEW w, Consistent(w), Len(w.items) > 0
  PROVE  \E k \in 0 .. Len(w.items) - 1 :
           /\ Slide(w) = Without(w, k)
           /\ k > 0 => Sum(Left(w, k), "media") >= Trailing
           /\ k + 1 < Len(w.items) => Sum(Left(w, k + 1), "media") < Trailing
<1> DEFINE n == Len(w.items)
           D == {k \in 0 .. n - 1 : ~MayLeave(w, k + 1)}
           Fits(k) == (\A j \in 1 .. k : MayLeave(w, j)) /\ ~MayLeave(w, k + 1)
<1>1. n \in Nat /\ n > 0
  BY LenProperties DEF Consistent
<1>2. D \in SUBSET Nat /\ D # {}
  <2>1. n - 1 \in D
    BY <1>1 DEF MayLeave
  <2>2. \A k \in 0 .. n - 1 : k \in Nat
    BY <1>1
  <2> HIDE DEF n
  <2> QED
    BY <2>1, <2>2
<1>3. PICK x \in D : \A y \in D : x <= y
  <2> HIDE DEF D
  <2> QED
    BY <1>2, LeastNumber
<1>4. x \in 0 .. n - 1 /\ Fits(x)
  <2>1. x \in 0 .. n - 1 /\ ~MayLeave(w, x + 1)
    BY <1>3
  <2>2. ASSUME NEW j \in 1 .. x PROVE MayLeave(w, j)
    <3>1. j - 1 \in 0 .. n - 1 /\ ~(x <= j - 1) /\ (j - 1) + 1 = j
      BY <1>1, <2>1
    <3>2. j - 1 \notin D
      BY <1>3, <3>1
    <3> QED
      BY <3>1, <3>2
  <2> QED
    BY <2>1, <2>2
<1>5. PICK k \in 0 .. n - 1 : Fits(k) /\ Slide(w) = Without(w, k)
  <2> DEFINE c == CHOOSE k \in 0 .. n - 1 : Fits(k)
  <2>1. c \in 0 .. n - 1 /\ Fits(c)
    BY <1>4
  <2>2. Slide(w) = Without(w, c)
    BY DEF Slide
  <2> HIDE DEF c, Fits
  <2> QED
    BY <2>1, <2>2
<1>6. k > 0 => Sum(Left(w, k), "media") >= Trailing
  <2> SUFFICES ASSUME k > 0 PROVE Sum(Left(w, k), "media") >= Trailing
    OBVIOUS
  <2>1. MayLeave(w, k) /\ k \in 0 .. Len(w.items)
    BY <1>1, <1>5
  <2> QED
    BY <2>1, WithoutConsistent DEF MayLeave
<1>7. k + 1 < n => Sum(Left(w, k + 1), "media") < Trailing
  <2> SUFFICES ASSUME k + 1 < n PROVE Sum(Left(w, k + 1), "media") < Trailing
    OBVIOUS
  <2>1. ~MayLeave(w, k + 1) /\ k + 1 \in 0 .. Len(w.items)
    BY <1>1, <1>5
  <2>2. w.media - Sum(First(w, k + 1), "media") = Sum(Left(w, k + 1), "media")
    BY <2>1, WithoutConsistent
  <2>3. ~(Sum(Left(w, k + 1), "media") >= Trailing)
    BY <2>1, <2>2 DEF MayLeave
  <2>4. Sum(Left(w, k + 1), "media") \in Nat
    BY <2>1, SumSplit, SumType DEF Consistent, Left, Parts
  <2> QED
    BY <2>3, <2>4, TrailingAssumption
<1> QED
  BY <1>5, <1>6, <1>7

(* The window is the shortest run at the end of s that covers Trailing.    *)
Trails(s, w) ==
  \E k \in 1 .. Len(s) + 1 :
    /\ Consistent(w) /\ w.items = SubSeq(s, k, Len(s))
    /\ k > 1 => Sum(w.items, "media") >= Trailing
    /\ s # <<>> => k <= Len(s)
    /\ k < Len(s) => Sum(SubSeq(s, k + 1, Len(s)), "media") < Trailing

(* pushWindow() keeps it so.                                               *)
LEMMA PushTrails ==
  ASSUME NEW s \in Seq(Items), NEW w, Trails(s, w), NEW x \in Items
  PROVE  Trails(Append(s, x), PushWindow(w, x.media, x.stall))
<1> DEFINE t == Append(s, x)
           m == Len(t)
           v == [items |-> Append(w.items, x), media |-> w.media + x.media,
                 stall |-> w.stall + x.stall]
<1>1. PICK k \in 1 .. Len(s) + 1 :
         /\ Consistent(w) /\ w.items = SubSeq(s, k, Len(s))
         /\ k > 1 => Sum(w.items, "media") >= Trailing
  BY DEF Trails
<1>2. /\ t \in Seq(Items) /\ m = Len(s) + 1 /\ Len(s) \in Nat /\ k \in Nat
      /\ \A i \in 1 .. Len(s) : t[i] = s[i]
      /\ t[m] = x
      /\ \A i \in 1 .. m : t[i] \in Items
  BY AppendProperties, LenProperties, ElementOfSeq
<1>3. x = [media |-> x.media, stall |-> x.stall] /\ x.media \in Nat /\ x.stall \in Nat
  BY DEF Items
<1>4. PushWindow(w, x.media, x.stall) = Slide(v)
  BY <1>3 DEF PushWindow
<1>5. v.items = SubSeq(t, k, m) /\ Len(v.items) = m - k + 1
  <2>1. /\ w.items \in Seq(Items) /\ Len(w.items) = Len(s) - k + 1
        /\ \A i \in 1 .. Len(s) - k + 1 : w.items[i] = s[k + i - 1]
    <3>1. \A i \in k .. Len(s) : s[i] \in Items
      BY <1>2, ElementOfSeq
    <3> QED
      BY <1>1, <1>2, <3>1, SubSeqProperties
  <2>2. /\ SubSeq(t, k, m) \in Seq(Items) /\ Len(SubSeq(t, k, m)) = m - k + 1
        /\ \A i \in 1 .. m - k + 1 : SubSeq(t, k, m)[i] = t[k + i - 1]
    <3>1. k \in Int /\ m \in Int /\ \A i \in k .. m : t[i] \in Items
      BY <1>2
    <3> HIDE DEF t, m
    <3> QED
      BY <1>1, <1>2, <3>1, SubSeqProperties
  <2>3. /\ v.items \in Seq(Items) /\ Len(v.items) = Len(w.items) + 1
        /\ \A i \in 1 .. Len(w.items) : v.items[i] = w.items[i]
        /\ v.items[Len(w.items) + 1] = x
    BY <2>1, AppendProperties
  <2>4. ASSUME NEW i \in 1 .. Len(v.items) PROVE v.items[i] = SubSeq(t, k, m)[i]
    <3> DEFINE r == Len(s)
    <3>0. /\ r \in Nat /\ k \in Nat /\ 1 <= k /\ k <= r + 1 /\ m = r + 1
          /\ Len(w.items) = r - k + 1 /\ i \in Nat /\ 1 <= i /\ i <= r - k + 2
      <4>1. Len(v.items) = Len(s) - k + 2
        BY <1>2, <2>1, <2>3
      <4>2. i \in 1 .. Len(s) - k + 2
        BY <4>1
      <4> HIDE DEF t, v
      <4> QED
        BY <1>2, <2>1, <4>2
    <3> HIDE DEF t, m, v, r
    <3>1. CASE i <= Len(w.items)
      <4>1. k + i - 1 \in 1 .. r /\ i \in 1 .. m - k + 1
        BY <3>0, <3>1
      <4>2. i \in 1 .. Len(w.items) /\ i \in 1 .. r - k + 1
        BY <3>0, <3>1
      <4>3. v.items[i] = w.items[i]
        BY <2>3, <4>2
      <4>4. w.items[i] = s[k + i - 1]
        BY <2>1, <4>2 DEF r
      <4>5. t[k + i - 1] = s[k + i - 1]
        BY <1>2, <4>1 DEF r
      <4>6. SubSeq(t, k, m)[i] = t[k + i - 1]
        BY <2>2, <4>1
      <4> QED
        BY <4>3, <4>4, <4>5, <4>6
    <3>2. CASE i = Len(w.items) + 1
      <4>1. k + i - 1 = m /\ i \in 1 .. m - k + 1
        BY <3>0, <3>2
      <4> QED
        BY <1>2, <2>2, <2>3, <3>2, <4>1
    <3>3. i <= Len(w.items) \/ i = Len(w.items) + 1
      BY <3>0
    <3> QED
      BY <3>1, <3>2, <3>3
  <2> HIDE DEF t, m, v
  <2>5. Len(v.items) = Len(SubSeq(t, k, m)) /\ Len(v.items) = m - k + 1
    BY <1>2, <2>1, <2>2, <2>3
  <2> QED
    BY <2>2, <2>3, <2>4, <2>5, SeqEqual
<1>6. Consistent(v) /\ Sum(v.items, "media") = Sum(w.items, "media") + x.media
  <2>1. w.items \in Seq(Items) /\ w.media = Sum(w.items, "media") /\ w.stall = Sum(w.items, "stall")
    BY <1>1 DEF Consistent
  <2>2. /\ Sum(Append(w.items, x), "media") = Sum(w.items, "media") + x.media
        /\ Sum(Append(w.items, x), "stall") = Sum(w.items, "stall") + x.stall
    BY <2>1, SumAppend DEF Parts
  <2>3. Append(w.items, x) \in Seq(Items)
    BY <2>1, AppendProperties
  <2> QED
    BY <2>1, <2>2, <2>3 DEF Consistent
<1>7. PICK d \in 0 .. Len(v.items) - 1 :
         /\ Slide(v) = Without(v, d)
         /\ d > 0 => Sum(Left(v, d), "media") >= Trailing
         /\ d + 1 < Len(v.items) => Sum(Left(v, d + 1), "media") < Trailing
  <2> HIDE DEF v, t, m
  <2>1. Len(v.items) > 0
    BY <1>1, <1>2, <1>5
  <2> QED
    BY <1>6, <2>1, SlideStops
<1>8. ASSUME NEW e \in 0 .. Len(v.items) - 1
      PROVE  Left(v, e) = SubSeq(t, k + e, m)
  <2> HIDE DEF v, t, m
  <2>1. /\ k \in 1 .. Len(t) /\ m \in 1 .. Len(t) /\ e + 1 \in 1 .. m - k + 1
        /\ Len(v.items) \in 1 .. m - k + 1
    BY <1>1, <1>2, <1>5 DEF m
  <2>2. SubSeq(SubSeq(t, k, m), e + 1, Len(v.items)) =
          SubSeq(t, k + (e + 1) - 1, k + Len(v.items) - 1)
    BY <1>2, <2>1, SubSeqOfSubSeq
  <2>3. k + (e + 1) - 1 = k + e /\ k + Len(v.items) - 1 = m
    BY <1>2, <1>5
  <2> QED
    BY <1>5, <2>2, <2>3 DEF Left
<1> DEFINE w2 == PushWindow(w, x.media, x.stall)
<1>9. Consistent(w2) /\ w2.items = SubSeq(t, k + d, m)
  <2> HIDE DEF v, t, m, w2
  <2>1. Len(v.items) \in Nat
    BY <1>2, <1>5, <1>1
  <2>2. Consistent(Without(v, d)) /\ Without(v, d).items = Left(v, d)
    BY <1>6, <2>1, WithoutConsistent
  <2> QED
    BY <1>4, <1>7, <1>8, <2>2 DEF w2
<1>10. k + d > 1 => Sum(w2.items, "media") >= Trailing
  <2> SUFFICES ASSUME k + d > 1 PROVE Sum(w2.items, "media") >= Trailing
    OBVIOUS
  <2>1. CASE d > 0
    <3> HIDE DEF v, t, m, w2
    <3> QED
      BY <1>7, <1>8, <1>9, <2>1
  <2>2. CASE d = 0
    <3> HIDE DEF v, t, m, w2
    <3>1. k > 1 /\ k + d = k
      BY <1>2, <2>2
    <3>2. w2.items = v.items
      BY <1>5, <1>9, <3>1
    <3>3. Sum(w.items, "media") \in Nat
      BY <1>1, SumType DEF Consistent, Parts
    <3> QED
      BY <1>1, <1>3, <1>6, <3>1, <3>2, <3>3, TrailingAssumption
  <2> QED
    BY <1>1, <1>2, <1>5, <1>7, <2>1, <2>2
<1>11. k + d < m => Sum(SubSeq(t, k + d + 1, m), "media") < Trailing
  <2> HIDE DEF v, t, m, w2
  <2> SUFFICES ASSUME k + d < m PROVE Sum(SubSeq(t, k + d + 1, m), "media") < Trailing
    OBVIOUS
  <2>1. d + 1 \in 0 .. Len(v.items) - 1 /\ k + (d + 1) = k + d + 1 /\ d + 1 < Len(v.items)
    BY <1>1, <1>2, <1>5, <1>7
  <2> QED
    BY <1>7, <1>8, <2>1
<1>12. k + d \in 1 .. m + 1 /\ k + d <= m
  <2> HIDE DEF v, t
  <2> QED
    BY <1>1, <1>2, <1>5, <1>7
<1> HIDE DEF v, w2
<1>13. Trails(t, w2)
  BY <1>9, <1>10, <1>11, <1>12 DEF Trails
<1> QED
  BY <1>13 DEF w2

-----------------------------------------------------------------------------
(* What is rounded away.                                                   *)

(* It is at most a half of the last digit, and nothing of nothing.         *)
LEMMA RoundedNear ==
  ASSUME NEW x \in Nat, NEW g \in Nat \ {0}
  PROVE  /\ Rounded(x, g) \in Nat /\ Within(Rounded(x, g), x, g)
         /\ x = 0 => Rounded(x, g) = 0
<1> DEFINE n == 2 * x + g
           d == 2 * g
           q == n \div d
           r == n % d
<1>1. n \in Nat /\ d \in Nat /\ d > 0 /\ q \in Int /\ r \in 0 .. d - 1 /\ n = d * q + r
  OBVIOUS
<1>2. q \in Nat
  <2> HIDE DEF n, d, q, r
  <2>1. CASE q < 0
    <3>1. d * q <= d * (0 - 1)
      BY <1>1, <2>1
    <3> QED
      BY <1>1, <3>1
  <2> QED
    BY <1>1, <2>1
<1>3. Rounded(x, g) = q * g /\ d * q = 2 * (q * g)
  BY <1>2 DEF Rounded
<1>4. q * g \in Nat
  <2> HIDE DEF q
  <2> QED
    BY <1>2
<1>5. x = 0 => q = 0
  <2> SUFFICES ASSUME x = 0, q # 0 PROVE FALSE
    OBVIOUS
  <2>1. n = g /\ d = 2 * g
    BY DEF n, d
  <2> HIDE DEF n, d, q, r
  <2>2. d * q >= d
    BY <1>1, <1>2
  <2> QED
    BY <1>1, <2>1, <2>2
<1>6. x = 0 => q * g = 0
  BY <1>5
<1>7. n = 2 * x + g /\ d = 2 * g
  BY DEF n, d
<1> HIDE DEF n, d, q, r
<1> DEFINE y == q * g
<1>8. y \in Nat /\ n = 2 * y + r /\ Rounded(x, g) = y
  BY <1>1, <1>3, <1>4
<1> HIDE DEF y
<1>9. Within(y, x, g)
  BY <1>1, <1>7, <1>8 DEF Within
<1> QED
  BY <1>6, <1>8, <1>9 DEF y

(* What each rounded away adds up.                                         *)
LEMMA RoundedSum ==
  ASSUME NEW w \in Nat, NEW s \in Nat, NEW g \in Nat \ {0}, NEW n \in Nat, NEW x \in Nat,
         Within(w, s, g * n)
  PROVE  /\ Within(w + Rounded(x, g), s + x, g * (n + 1))
         /\ Within(Rounded(s, g), w, g * (n + 1))
<1> DEFINE t == g * n
<1>1. g * (n + 1) = t + g /\ t \in Nat
  OBVIOUS
<1>2. /\ Rounded(x, g) \in Nat /\ Within(Rounded(x, g), x, g)
      /\ Rounded(s, g) \in Nat /\ Within(Rounded(s, g), s, g)
  BY RoundedNear
<1>3. Within(w, s, t)
  OBVIOUS
<1> HIDE DEF t
<1> QED
  BY <1>1, <1>2, <1>3 DEF Within

-----------------------------------------------------------------------------
(* Lines, and what they do to a record.                                    *)

(* What a viewer writes.  A segment that did not stall has no stall.       *)
PeerLines == [ev: {"peers", "held", "released"}, peers: Nat]
PlainLines == [ev: {"joined", "error", "malformed", "unknown"}]
SkipLines == [ev: {"skip"}, from: {1}, to: {4}]
FailureLines == [ev: {"body_failure"}, strike: {1, 2}]
GapLines == [ev: {"gap"}, source: {"local"}]
StalledLines == [ev: {"segment"}, segmentS: Nat \ {0}, stalled: {TRUE}, stallS: Nat,
                 peers: Nat]
SmoothLines == [ev: {"segment"}, segmentS: Nat \ {0}, stalled: {FALSE}, stallS: {0},
                peers: Nat]
SummaryLines == [ev: {"summary"}, segments: Nat, mediaS: Nat, stalls: Nat, stalledS: Nat,
                 skipped: Nat, bodyFailures: Nat, peers: Nat, finalized: BOOLEAN]
Lines == PeerLines \cup PlainLines \cup SkipLines \cup FailureLines \cup GapLines
           \cup StalledLines \cup SmoothLines \cup SummaryLines

Fields == {"joined", "held", "segments", "mediaS", "stalls", "stalledS", "window", "started",
           "bodyFailures", "secondStrikes", "skipped", "gapsLocal", "gapsPublisher",
           "peersLast", "peersMax", "errors", "malformed", "unknown", "summarySeen",
           "finalized", "exit", "lost"}

(* What the summary repeats: of a record, and of the viewer itself, the    *)
(* stalls of whose lines add up to w.                                      *)
Tallies == [segments: Nat, mediaS: Nat, stalls: Nat, stalledS: Nat, skipped: Nat,
            bodyFailures: Nat, peersLast: Nat]
Tally(r) ==
  [segments |-> r.segments, mediaS |-> r.mediaS, stalls |-> r.stalls,
   stalledS |-> r.stalledS, skipped |-> r.skipped, bodyFailures |-> r.bodyFailures,
   peersLast |-> r.peersLast]
Told(w) ==
  [segments |-> count.played, mediaS |-> count.media, stalls |-> count.stalls,
   stalledS |-> w, skipped |-> count.skipped,
   bodyFailures |-> count.bodyFailures, peersLast |-> peers]

(* What was rounded away is at most a half of the last digit of each.      *)
Written(w) == Within(w, count.stalledS, StallGrain * count.stalls)

(* What a line does to them.                                               *)
Tell(t, l) ==
  CASE l.ev \in {"peers", "held", "released"} -> [t EXCEPT !.peersLast = l.peers]
    [] l.ev = "segment" ->
         [t EXCEPT !.segments = @ + 1, !.mediaS = @ + l.segmentS,
                   !.stalls = @ + AddIf(l.stalled, 1), !.stalledS = @ + l.stallS,
                   !.peersLast = l.peers]
    [] l.ev = "body_failure" -> [t EXCEPT !.bodyFailures = @ + 1]
    [] l.ev = "skip" -> [t EXCEPT !.skipped = @ + 3]
    [] l.ev = "summary" ->
         [segments |-> l.segments, mediaS |-> l.mediaS, stalls |-> l.stalls,
          stalledS |-> l.stalledS, skipped |-> l.skipped,
          bodyFailures |-> Larger(t.bodyFailures, l.bodyFailures), peersLast |-> l.peers]
    [] OTHER -> t

(* Apply() changes the window with a segment only, and the tally as Tell   *)
(* says.                                                                   *)
LEMMA ApplyEffect ==
  ASSUME NEW r, DOMAIN r = Fields, NEW l \in Lines
  PROVE  /\ DOMAIN Apply(r, l) = Fields
         /\ Apply(r, l).window = IF l.ev = "segment"
                                   THEN PushWindow(r.window, l.segmentS, l.stallS)
                                   ELSE r.window
         /\ Tally(Apply(r, l)) = Tell(Tally(r), l)
<1>1. CASE l \in PeerLines
  <2>1. CASE l.ev = "peers"
    <3>1. Apply(r, l) = WithPeers(r, l.peers)
      BY <2>1 DEF Apply
    <3> QED
      BY <2>1, <3>1 DEF WithPeers, Tell, Tally, Fields
  <2>2. CASE l.ev = "held"
    <3>1. Apply(r, l) = [WithPeers(r, l.peers) EXCEPT !.held = TRUE]
      BY <2>2 DEF Apply
    <3> QED
      BY <2>2, <3>1 DEF WithPeers, Tell, Tally, Fields
  <2>3. CASE l.ev = "released"
    <3>1. Apply(r, l) = [WithPeers(r, l.peers) EXCEPT !.held = FALSE]
      BY <2>3 DEF Apply
    <3> QED
      BY <2>3, <3>1 DEF WithPeers, Tell, Tally, Fields
  <2> QED
    BY <1>1, <2>1, <2>2, <2>3 DEF PeerLines
<1>2. CASE l \in PlainLines
  <2>1. CASE l.ev = "joined"
    <3>1. Apply(r, l) = [r EXCEPT !.joined = TRUE]
      BY <2>1 DEF Apply
    <3> QED
      BY <2>1, <3>1 DEF Tell, Tally, Fields
  <2>2. CASE l.ev = "error"
    <3>1. Apply(r, l) = [r EXCEPT !.errors = @ + 1]
      BY <2>2 DEF Apply
    <3> QED
      BY <2>2, <3>1 DEF Tell, Tally, Fields
  <2>3. CASE l.ev = "malformed"
    <3>1. Apply(r, l) = [r EXCEPT !.malformed = @ + 1]
      BY <2>3 DEF Apply
    <3> QED
      BY <2>3, <3>1 DEF Tell, Tally, Fields
  <2>4. CASE l.ev = "unknown"
    <3>1. Apply(r, l) = [r EXCEPT !.unknown = @ + 1]
      BY <2>4 DEF Apply
    <3> QED
      BY <2>4, <3>1 DEF Tell, Tally, Fields
  <2> QED
    BY <1>2, <2>1, <2>2, <2>3, <2>4 DEF PlainLines
<1>3. CASE l \in SkipLines
  <2>1. l.ev = "skip" /\ l.from = 1 /\ l.to = 4
    BY <1>3 DEF SkipLines
  <2>2. Apply(r, l) = [r EXCEPT !.skipped = @ + 3]
    <3>1. Larger(1, l.to - l.from) = 3
      BY <2>1 DEF Larger
    <3> QED
      BY <2>1, <3>1 DEF Apply
  <2> QED
    BY <2>1, <2>2 DEF Tell, Tally, Fields
<1>4. CASE l \in FailureLines
  <2>1. l.ev = "body_failure"
    BY <1>4 DEF FailureLines
  <2>2. Apply(r, l) = [r EXCEPT !.bodyFailures = @ + 1,
                                !.secondStrikes = @ + AddIf(l.strike = 2, 1)]
    BY <2>1 DEF Apply
  <2> QED
    BY <2>1, <2>2 DEF Tell, Tally, Fields
<1>5. CASE l \in GapLines
  <2>1. l.ev = "gap"
    BY <1>5 DEF GapLines
  <2>2. Apply(r, l) = [r EXCEPT !.gapsLocal = @ + AddIf(l.source = "local", 1),
                                !.gapsPublisher = @ + AddIf(l.source # "local", 1)]
    BY <2>1 DEF Apply
  <2> QED
    BY <2>1, <2>2 DEF Tell, Tally, Fields
<1>6. CASE l \in StalledLines \cup SmoothLines
  <2>1. /\ l.ev = "segment" /\ AddIf(l.stalled, l.stallS) = l.stallS
        /\ l.stallS \in Nat
    <3>1. CASE l \in StalledLines
      BY <3>1 DEF StalledLines, AddIf
    <3>2. CASE l \in SmoothLines
      BY <3>2 DEF SmoothLines, AddIf
    <3> QED
      BY <1>6, <3>1, <3>2
  <2>2. Apply(r, l) = ApplySegment(r, l)
    BY <2>1 DEF Apply
  <2> DEFINE a == [r EXCEPT !.segments = @ + 1, !.mediaS = @ + l.segmentS,
                            !.stalls = @ + AddIf(l.stalled, 1),
                            !.stalledS = @ + AddIf(l.stalled, l.stallS), !.started = TRUE,
                            !.window = PushWindow(@, l.segmentS,
                                                  AddIf(l.stalled, l.stallS))]
  <2>3. ApplySegment(r, l) = WithPeers(a, l.peers)
    BY DEF ApplySegment
  <2>4. /\ DOMAIN a = Fields /\ a.window = PushWindow(r.window, l.segmentS, l.stallS)
        /\ a.segments = r.segments + 1 /\ a.mediaS = r.mediaS + l.segmentS
        /\ a.stalls = r.stalls + AddIf(l.stalled, 1) /\ a.stalledS = r.stalledS + l.stallS
        /\ a.skipped = r.skipped /\ a.bodyFailures = r.bodyFailures
    BY <2>1 DEF Fields
  <2> HIDE DEF a
  <2>5. /\ DOMAIN Apply(r, l) = Fields
        /\ Apply(r, l).window = PushWindow(r.window, l.segmentS, l.stallS)
        /\ Tally(Apply(r, l)) =
             [segments |-> r.segments + 1, mediaS |-> r.mediaS + l.segmentS,
              stalls |-> r.stalls + AddIf(l.stalled, 1), stalledS |-> r.stalledS + l.stallS,
              skipped |-> r.skipped, bodyFailures |-> r.bodyFailures, peersLast |-> l.peers]
    BY <2>2, <2>3, <2>4 DEF WithPeers, Tally, Fields
  <2>6. Tell(Tally(r), l) =
          [segments |-> r.segments + 1, mediaS |-> r.mediaS + l.segmentS,
           stalls |-> r.stalls + AddIf(l.stalled, 1), stalledS |-> r.stalledS + l.stallS,
           skipped |-> r.skipped, bodyFailures |-> r.bodyFailures, peersLast |-> l.peers]
    BY <2>1 DEF Tell, Tally
  <2> QED
    BY <2>1, <2>5, <2>6
<1>7. CASE l \in SummaryLines
  <2>1. l.ev = "summary"
    BY <1>7 DEF SummaryLines
  <2>2. Apply(r, l) = ApplySummary(r, l)
    BY <2>1 DEF Apply
  <2> QED
    BY <2>1, <2>2 DEF ApplySummary, Tell, Tally, Fields
<1> QED
  BY <1>1, <1>2, <1>3, <1>4, <1>5, <1>6, <1>7 DEF Lines

(* Only a summary marks that there is one.                                 *)
LEMMA OthersSeeNone ==
  ASSUME NEW r, DOMAIN r = Fields, NEW l \in Lines, l.ev # "summary"
  PROVE  Apply(r, l).summarySeen = r.summarySeen
<1>1. CASE l.ev = "segment"
  <2>1. Apply(r, l) = ApplySegment(r, l)
    BY <1>1 DEF Apply
  <2> QED
    BY <2>1 DEF ApplySegment, WithPeers, Fields
<1>2. CASE l.ev # "segment"
  BY <1>2 DEF Apply, WithPeers, Fields
<1> QED
  BY <1>1, <1>2

-----------------------------------------------------------------------------
(* What is still to be read.                                               *)

(* Reading the lines p takes the tally a to the tally b, and a summary     *)
(* among them changes no more than was rounded away.                       *)
Leads(p, a, b) ==
  \E c \in [0 .. Len(p) -> Tallies] :
    /\ c[0] = a /\ c[Len(p)] = b
    /\ \A i \in 1 .. Len(p) :
         c[i] = Tell(c[i - 1], p[i]) /\ (p[i].ev = "summary" => Close(c[i - 1], c[i]))

(* Tell() makes a tally of a tally.                                        *)
LEMMA TellType ==
  ASSUME NEW t \in Tallies, NEW l \in Lines
  PROVE  Tell(t, l) \in Tallies
<1>1. CASE l \in PeerLines
  BY <1>1 DEF Tell, Tallies, PeerLines
<1>2. CASE l \in PlainLines
  BY <1>2 DEF Tell, PlainLines
<1>3. CASE l \in SkipLines
  BY <1>3 DEF Tell, Tallies, SkipLines
<1>4. CASE l \in FailureLines
  BY <1>4 DEF Tell, Tallies, FailureLines
<1>5. CASE l \in GapLines
  BY <1>5 DEF Tell, GapLines
<1>6. CASE l \in StalledLines
  <2>1. /\ l.ev = "segment" /\ l.segmentS \in Nat /\ l.stallS \in Nat /\ l.peers \in Nat
        /\ AddIf(l.stalled, 1) \in Nat
    BY <1>6 DEF StalledLines, AddIf
  <2>2. /\ t.segments + 1 \in Nat /\ t.mediaS + l.segmentS \in Nat
        /\ t.stalls + AddIf(l.stalled, 1) \in Nat /\ t.stalledS + l.stallS \in Nat
    BY <2>1 DEF Tallies
  <2>3. Tell(t, l) = [t EXCEPT !.segments = @ + 1, !.mediaS = @ + l.segmentS,
                               !.stalls = @ + AddIf(l.stalled, 1),
                               !.stalledS = @ + l.stallS, !.peersLast = l.peers]
    BY <2>1 DEF Tell
  <2> QED
    BY <2>1, <2>2, <2>3 DEF Tallies
<1>7. CASE l \in SmoothLines
  <2>1. /\ l.ev = "segment" /\ l.segmentS \in Nat /\ l.stallS \in Nat /\ l.peers \in Nat
        /\ AddIf(l.stalled, 1) \in Nat
    BY <1>7 DEF SmoothLines, AddIf
  <2>2. /\ t.segments + 1 \in Nat /\ t.mediaS + l.segmentS \in Nat
        /\ t.stalls + AddIf(l.stalled, 1) \in Nat /\ t.stalledS + l.stallS \in Nat
    BY <2>1 DEF Tallies
  <2>3. Tell(t, l) = [t EXCEPT !.segments = @ + 1, !.mediaS = @ + l.segmentS,
                               !.stalls = @ + AddIf(l.stalled, 1),
                               !.stalledS = @ + l.stallS, !.peersLast = l.peers]
    BY <2>1 DEF Tell
  <2> QED
    BY <2>1, <2>2, <2>3 DEF Tallies
<1>8. CASE l \in SummaryLines
  BY <1>8 DEF Tell, Tallies, SummaryLines, Larger
<1> QED
  BY <1>1, <1>2, <1>3, <1>4, <1>5, <1>6, <1>7, <1>8 DEF Lines

(* One line more is written.                                               *)
LEMMA LineWritten ==
  ASSUME NEW p \in Seq(Lines), NEW a, NEW b, Leads(p, a, b), NEW l \in Lines,
         l.ev = "summary" => Close(b, Tell(b, l))
  PROVE  p \o <<l>> \in Seq(Lines) /\ Leads(p \o <<l>>, a, Tell(b, l))
<1> DEFINE q == p \o <<l>>
           n == Len(p)
<1>1. /\ q \in Seq(Lines) /\ Len(q) = n + 1 /\ n \in Nat
      /\ \A i \in 1 .. n : q[i] = p[i]
      /\ q[n + 1] = l
  BY AppendIsConcat, AppendProperties, LenProperties
<1>2. PICK c \in [0 .. n -> Tallies] :
         /\ c[0] = a /\ c[n] = b
         /\ \A i \in 1 .. n :
              c[i] = Tell(c[i - 1], p[i]) /\ (p[i].ev = "summary" => Close(c[i - 1], c[i]))
  BY DEF Leads
<1>3. Tell(b, l) \in Tallies
  BY <1>1, <1>2, TellType
<1> DEFINE d == [i \in 0 .. n + 1 |-> IF i = n + 1 THEN Tell(b, l) ELSE c[i]]
<1> HIDE DEF q, n
<1>4. d \in [0 .. n + 1 -> Tallies] /\ d[0] = a /\ d[n + 1] = Tell(b, l)
  BY <1>1, <1>2, <1>3
<1>5. ASSUME NEW i \in 1 .. n + 1
      PROVE  d[i] = Tell(d[i - 1], q[i]) /\ (q[i].ev = "summary" => Close(d[i - 1], d[i]))
  <2>1. CASE i \in 1 .. n
    <3>1. d[i] = c[i] /\ d[i - 1] = c[i - 1] /\ q[i] = p[i]
      BY <1>1, <2>1
    <3> QED
      BY <1>2, <2>1, <3>1
  <2>2. CASE i = n + 1
    <3>1. d[i] = Tell(b, l) /\ d[i - 1] = b /\ q[i] = l
      BY <1>1, <1>2, <2>2
    <3> QED
      BY <3>1
  <2> QED
    BY <1>1, <2>1, <2>2
<1> HIDE DEF d
<1>6. Leads(q, a, Tell(b, l))
  BY <1>1, <1>4, <1>5 DEF Leads
<1> QED
  BY <1>1, <1>6 DEF q

(* The first line is read.                                                 *)
LEMMA LineTaken ==
  ASSUME NEW p \in Seq(Lines), NEW a, NEW b, Leads(p, a, b), p # <<>>
  PROVE  /\ Head(p) \in Lines /\ Tail(p) \in Seq(Lines)
         /\ Leads(Tail(p), Tell(a, Head(p)), b)
         /\ Head(p).ev = "summary" => Close(a, Tell(a, Head(p)))
<1> DEFINE q == Tail(p)
           n == Len(p)
<1>1. /\ q \in Seq(Lines) /\ Len(q) = n - 1 /\ n \in Nat /\ n >= 1
      /\ Head(p) = p[1] /\ p[1] \in Lines
      /\ \A i \in 1 .. n - 1 : q[i] = p[i + 1]
  BY HeadTailProperties, LenProperties, EmptySeq
<1>2. PICK c \in [0 .. n -> Tallies] :
         /\ c[0] = a /\ c[n] = b
         /\ \A i \in 1 .. n :
              c[i] = Tell(c[i - 1], p[i]) /\ (p[i].ev = "summary" => Close(c[i - 1], c[i]))
  BY DEF Leads
<1> DEFINE d == [i \in 0 .. n - 1 |-> c[i + 1]]
<1> HIDE DEF q, n
<1>3. c[1] = Tell(a, p[1]) /\ (p[1].ev = "summary" => Close(a, c[1]))
  <2>1. 1 \in 1 .. n /\ 1 - 1 = 0
    BY <1>1
  <2> QED
    BY <1>2, <2>1
<1>4. d \in [0 .. n - 1 -> Tallies] /\ d[0] = c[1] /\ d[n - 1] = b
  BY <1>1, <1>2
<1>5. ASSUME NEW i \in 1 .. n - 1
      PROVE  d[i] = Tell(d[i - 1], q[i]) /\ (q[i].ev = "summary" => Close(d[i - 1], d[i]))
  <2>1. i + 1 \in 1 .. n /\ (i + 1) - 1 = i /\ i \in 0 .. n - 1 /\ i - 1 \in 0 .. n - 1
        /\ (i - 1) + 1 = i
    BY <1>1
  <2>2. d[i] = c[i + 1] /\ d[i - 1] = c[i] /\ q[i] = p[i + 1]
    BY <1>1, <2>1
  <2>3. c[i + 1] = Tell(c[i], p[i + 1]) /\ (p[i + 1].ev = "summary" => Close(c[i], c[i + 1]))
    BY <1>2, <2>1
  <2> QED
    BY <2>2, <2>3
<1> HIDE DEF d
<1>6. Leads(q, c[1], b)
  BY <1>1, <1>4, <1>5 DEF Leads
<1> QED
  BY <1>1, <1>3, <1>6 DEF q

(* Of what was to be read the first lines are left.                        *)
LEMMA LinesLeft ==
  ASSUME NEW p \in Seq(Lines), NEW a, NEW b, Leads(p, a, b), NEW k \in 0 .. Len(p)
  PROVE  /\ SubSeq(p, 1, k) \in Seq(Lines)
         /\ \E t \in Tallies : Leads(SubSeq(p, 1, k), a, t)
<1> DEFINE q == SubSeq(p, 1, k)
           n == Len(p)
<1>1. /\ n \in Nat /\ k \in Nat /\ k <= n /\ q \in Seq(Lines) /\ Len(q) = k
      /\ \A i \in 1 .. k : q[i] = p[i]
  <2>1. n \in Nat /\ k \in 0 .. n /\ \A i \in 1 .. k : p[i] \in Lines
    BY LenProperties, ElementOfSeq
  <2> QED
    BY <2>1, SubSeqProperties
<1>2. PICK c \in [0 .. n -> Tallies] :
         /\ c[0] = a /\ c[n] = b
         /\ \A i \in 1 .. n :
              c[i] = Tell(c[i - 1], p[i]) /\ (p[i].ev = "summary" => Close(c[i - 1], c[i]))
  BY DEF Leads
<1> DEFINE d == [i \in 0 .. k |-> c[i]]
<1> HIDE DEF q, n
<1>3. d \in [0 .. k -> Tallies] /\ d[0] = a /\ d[k] = c[k] /\ c[k] \in Tallies
  BY <1>1, <1>2
<1>4. ASSUME NEW i \in 1 .. k
      PROVE  d[i] = Tell(d[i - 1], q[i]) /\ (q[i].ev = "summary" => Close(d[i - 1], d[i]))
  <2>1. d[i] = c[i] /\ d[i - 1] = c[i - 1] /\ q[i] = p[i] /\ i \in 1 .. n
    BY <1>1
  <2> QED
    BY <1>2, <2>1
<1> HIDE DEF d
<1>5. Leads(q, a, c[k])
  BY <1>1, <1>3, <1>4 DEF Leads
<1> QED
  BY <1>1, <1>3, <1>5 DEF q

(* What is close as a tally is close as a record.                          *)
LEMMA CloseTallies ==
  ASSUME NEW r, NEW s, Close(Tally(r), Tally(s))
  PROVE  Close(r, s)
<1>1. ASSUME NEW x
      PROVE  /\ Tally(x).mediaS = x.mediaS /\ Tally(x).stalledS = x.stalledS
             /\ Tally(x).stalls = x.stalls /\ Tally(x).segments = x.segments
             /\ Tally(x).skipped = x.skipped /\ Tally(x).bodyFailures = x.bodyFailures
             /\ Tally(x).peersLast = x.peersLast
  BY DEF Tally
<1> QED
  BY <1>1 DEF Close

(* Nothing to read.                                                        *)
LEMMA NothingWritten ==
  ASSUME NEW a \in Tallies
  PROVE  Leads(<<>>, a, a)
<1> DEFINE c == [i \in 0 .. 0 |-> a]
<1>1. c \in [0 .. Len(<<>>) -> Tallies] /\ c[0] = a /\ c[Len(<<>>)] = a /\ Len(<<>>) = 0
  OBVIOUS
<1>2. 1 .. Len(<<>>) = {}
  OBVIOUS
<1> HIDE DEF c
<1> QED
  BY <1>1, <1>2 DEF Leads

-----------------------------------------------------------------------------
(* The invariant.                                                          *)

Counts == [media: Nat, stalledS: Nat, stalls: Nat, played: Nat, bodyFailures: Nat, skipped: Nat]

(* The lines to be read lead somewhere, and those of a viewer that has not *)
(* reported yet lead to its own counters.                                  *)
Heard ==
  /\ \E t \in Tallies : Leads(pipe, Tally(record), t)
  /\ pc \notin {"reported", "ended"} =>
       \E w \in Nat : Written(w) /\ Leads(pipe, Tally(record), Told(w))

ViewerInv ==
  /\ TypeOK
  /\ count \in Counts /\ pipe \in Seq(Lines) /\ folded \in Seq(Items)
  /\ DOMAIN record = Fields
  /\ Trails(folded, record.window)
  /\ Heard

(* A viewer starts so.                                                     *)
LEMMA ViewerInitial == Init => ViewerInv
<1> SUFFICES ASSUME Init PROVE ViewerInv
  OBVIOUS
<1>1. TypeOK
  <2>1. 0 \in 0 .. PeerLimit /\ 0 \in 0 .. MaxMishaps
    BY MockAssumption
  <2>2. (status = "none") = (pc # "ended")
    BY DEF Init
  <2> QED
    BY <2>1, <2>2 DEF Init, TypeOK
<1>2. count \in Counts /\ pipe \in Seq(Lines) /\ folded \in Seq(Items) /\ pipe = <<>>
  BY EmptySeq DEF Init, Counts, Nothing
<1>3. DOMAIN record = Fields
  BY DEF Init, NoRecord, Fields
<1>4. Trails(folded, record.window)
  <2>1. record.window = [items |-> <<>>, media |-> 0, stall |-> 0] /\ folded = <<>>
    BY DEF Init, NoRecord, NoWindow
  <2>2. Sum(<<>>, "media") = 0 /\ Sum(<<>>, "stall") = 0
    BY SumSmall DEF Parts
  <2>3. <<>> \in Seq(Items) /\ Len(<<>>) = 0 /\ SubSeq(<<>>, 1, 0) = <<>>
    BY EmptySeq, SubSeqEmpty
  <2>4. 1 \in 1 .. Len(<<>>) + 1
    BY <2>3
  <2>5. Consistent(record.window)
    BY <2>1, <2>2, <2>3 DEF Consistent
  <2> QED
    BY <2>1, <2>3, <2>4, <2>5 DEF Trails
<1>5. Heard
  <2>1. Tally(record) = Told(0) /\ Told(0) \in Tallies
    BY DEF Init, NoRecord, Nothing, Tally, Told, Tallies
  <2>2. Written(0)
    BY MockAssumption DEF Init, Nothing, Written, Within
  <2>3. Leads(pipe, Tally(record), Told(0))
    BY <1>2, <2>1, NothingWritten
  <2> QED
    BY <2>1, <2>2, <2>3 DEF Heard
<1> QED
  BY <1>1, <1>2, <1>3, <1>4, <1>5 DEF ViewerInv

(* A step of the process keeps the invariant if its types and what is to   *)
(* be read are kept.                                                       *)
LEMMA ProcessStep ==
  ASSUME ViewerInv, UNCHANGED controllerVars, TypeOK', count' \in Counts,
         pipe' \in Seq(Lines), Heard'
  PROVE  ViewerInv'
<1>1. record' = record /\ agentUp' = agentUp /\ folded' = folded
  BY DEF controllerVars
<1> QED
  BY <1>1 DEF ViewerInv

(* The viewer's own counters are a tally.                                  *)
LEMMA OwnType ==
  ASSUME ViewerInv
  PROVE  peers \in Nat /\ \A w \in Nat : Told(w) \in Tallies
<1>1. count \in Counts /\ peers \in 0 .. PeerLimit
  BY DEF ViewerInv, TypeOK
<1>2. peers \in Nat
  BY <1>1, MockAssumption
<1> QED
  BY <1>1, <1>2 DEF Told, Tallies, Counts

(* What a step of the viewer adds to its counters is what l says.          *)
Says(l) ==
  \A w \in Nat : Written(w) => \E v \in Nat : Written(v)' /\ Told(v)' = Tell(Told(w), l)
SaysBoth(k, l) ==
  \A w \in Nat : Written(w) =>
    \E v \in Nat : Written(v)' /\ Told(v)' = Tell(Tell(Told(w), k), l)
SaysTurn(n, l) ==
  \A w \in Nat : Written(w) =>
    \E v \in Nat : Written(v)' /\ Told(v)' = Tell([Told(w) EXCEPT !.peersLast = n], l)

(* A line without a segment says nothing of stalls.                        *)
LEMMA SaysNoStall ==
  ASSUME NEW l, UNCHANGED <<count.stalls, count.stalledS>>,
         \A w \in Nat : Told(w)' = Tell(Told(w), l)
  PROVE  Says(l)
<1>1. ASSUME NEW w \in Nat, Written(w) PROVE Written(w)' /\ Told(w)' = Tell(Told(w), l)
  BY <1>1 DEF Written
<1> QED
  BY <1>1 DEF Says

(* A viewer that has not reported writes one line that says what it did.   *)
LEMMA WritesOne ==
  ASSUME ViewerInv, UNCHANGED controllerVars, pc \notin {"reported", "ended"},
         NEW l \in Lines, l.ev # "summary", pipe' = pipe \o <<l>>, Says(l)
  PROVE  pipe' \in Seq(Lines) /\ Heard'
<1>1. PICK w \in Nat : Written(w) /\ Leads(pipe, Tally(record), Told(w))
  BY DEF ViewerInv, Heard
<1>2. PICK v \in Nat : Written(v)' /\ Told(v)' = Tell(Told(w), l)
  BY <1>1 DEF Says
<1>3. pipe \in Seq(Lines) /\ Told(w) \in Tallies /\ record' = record
  BY OwnType DEF ViewerInv, controllerVars
<1>4. pipe' \in Seq(Lines) /\ Leads(pipe', Tally(record), Tell(Told(w), l))
  BY <1>1, <1>3, LineWritten
<1>5. Tell(Told(w), l) \in Tallies
  BY <1>3, TellType
<1>6. Leads(pipe, Tally(record), Told(v))'
  BY <1>2, <1>3, <1>4
<1> QED
  BY <1>2, <1>3, <1>4, <1>5, <1>6 DEF Heard

(* It writes a line that says nothing of it.                               *)
LEMMA WritesBeside ==
  ASSUME ViewerInv, UNCHANGED <<controllerVars, count, peers, pc>>,
         NEW l \in Lines, l.ev # "summary", pipe' = pipe \o <<l>>,
         \A t \in Tallies : Tell(t, l) = t
  PROVE  pipe' \in Seq(Lines) /\ Heard'
<1>1. /\ pipe \in Seq(Lines) /\ record' = record /\ pc' = pc
      /\ \A w \in Nat : Told(w) \in Tallies /\ Told(w)' = Told(w) /\ (Written(w) => Written(w)')
  BY OwnType DEF ViewerInv, controllerVars, Told, Written
<1>2. pipe' \in Seq(Lines)
  BY <1>1, AppendIsConcat, AppendProperties
<1>3. ASSUME NEW t \in Tallies, Leads(pipe, Tally(record), t)
      PROVE  Leads(pipe', Tally(record'), t)
  BY <1>1, <1>3, LineWritten
<1>4. \E t \in Tallies : Leads(pipe', Tally(record'), t)
  BY <1>3 DEF ViewerInv, Heard
<1>5. ASSUME pc' \notin {"reported", "ended"}
      PROVE  \E w \in Nat : Written(w)' /\ Leads(pipe, Tally(record), Told(w))'
  <2>1. PICK w \in Nat : Written(w) /\ Leads(pipe, Tally(record), Told(w))
    BY <1>1, <1>5 DEF ViewerInv, Heard
  <2>2. Leads(pipe', Tally(record'), Told(w))
    BY <1>1, <1>3, <2>1
  <2> QED
    BY <1>1, <2>1, <2>2
<1> QED
  BY <1>2, <1>4, <1>5 DEF Heard

(* Two lines in a row are one after the other.                             *)
LEMMA PairIsConcat ==
  ASSUME NEW k, NEW l
  PROVE  <<k, l>> = <<k>> \o <<l>>
<1> DEFINE S == {k, l}
<1>1. <<k, l>> \in Seq(S) /\ <<k>> \in Seq(S) /\ <<l>> \in Seq(S)
  OBVIOUS
<1>2. /\ <<k>> \o <<l>> \in Seq(S) /\ Len(<<k>> \o <<l>>) = 2
      /\ \A i \in 1 .. 2 : (<<k>> \o <<l>>)[i] = IF i <= 1 THEN <<k>>[i] ELSE <<l>>[i - 1]
  BY <1>1, ConcatProperties
<1>3. ASSUME NEW i \in 1 .. 2 PROVE <<k, l>>[i] = (<<k>> \o <<l>>)[i]
  <2>1. CASE i = 1
    BY <1>2, <2>1
  <2>2. CASE i = 2
    BY <1>2, <2>2
  <2> QED
    BY <2>1, <2>2
<1>4. Len(<<k, l>>) = 2
  OBVIOUS
<1> HIDE DEF S
<1> QED
  BY <1>1, <1>2, <1>3, <1>4, SeqEqual

(* It writes two.                                                          *)
LEMMA WritesTwo ==
  ASSUME ViewerInv, UNCHANGED controllerVars, pc \notin {"reported", "ended"},
         NEW k \in Lines, NEW l \in Lines, k.ev # "summary", l.ev # "summary",
         pipe' = pipe \o <<k, l>>,
         SaysBoth(k, l)
  PROVE  pipe' \in Seq(Lines) /\ Heard'
<1>1. PICK w \in Nat : Written(w) /\ Leads(pipe, Tally(record), Told(w))
  BY DEF ViewerInv, Heard
<1>2. PICK v \in Nat : Written(v)' /\ Told(v)' = Tell(Tell(Told(w), k), l)
  BY <1>1 DEF SaysBoth
<1>3. pipe \in Seq(Lines) /\ Told(w) \in Tallies /\ record' = record
  BY OwnType DEF ViewerInv, controllerVars
<1>4. pipe \o <<k>> \in Seq(Lines) /\ Leads(pipe \o <<k>>, Tally(record), Tell(Told(w), k))
  BY <1>1, <1>3, LineWritten
<1>5. /\ (pipe \o <<k>>) \o <<l>> \in Seq(Lines)
      /\ Leads((pipe \o <<k>>) \o <<l>>, Tally(record), Tell(Tell(Told(w), k), l))
  BY <1>4, LineWritten
<1>6. pipe' = (pipe \o <<k>>) \o <<l>>
  <2>1. <<k>> \in Seq(Lines) /\ <<l>> \in Seq(Lines)
    OBVIOUS
  <2>2. <<k, l>> = <<k>> \o <<l>>
    BY PairIsConcat
  <2> QED
    BY <1>3, <2>1, <2>2, ConcatAssociative
<1>7. Tell(Tell(Told(w), k), l) \in Tallies
  BY <1>3, TellType
<1>8. Leads(pipe, Tally(record), Told(v))'
  BY <1>2, <1>3, <1>5, <1>6
<1> QED
  BY <1>2, <1>3, <1>5, <1>6, <1>7, <1>8 DEF Heard

(* It writes none, and what it counts stays.                               *)
LEMMA WritesNone ==
  ASSUME ViewerInv, UNCHANGED <<controllerVars, count, peers>>, pipe' = pipe,
         pc \in {"reported", "ended"} => pc' \in {"reported", "ended"}
  PROVE  pipe' \in Seq(Lines) /\ Heard'
<1>1. /\ record' = record
      /\ \A w \in Nat : Told(w)' = Told(w) /\ (Written(w) => Written(w)')
  BY DEF controllerVars, Told, Written
<1> QED
  BY <1>1 DEF ViewerInv, Heard

(* The lines that say only how many peers there are.                       *)
LEMMA PeerLine ==
  ASSUME NEW t \in Tallies, NEW ev \in {"peers", "held", "released"}, NEW n \in Nat
  PROVE  Tell(t, [ev |-> ev, peers |-> n]) = [t EXCEPT !.peersLast = n]
BY DEF Tell

LEMMA PeerLineType ==
  ASSUME NEW ev \in {"peers", "held", "released"}, NEW n \in Nat
  PROVE  [ev |-> ev, peers |-> n] \in Lines /\ [ev |-> ev, peers |-> n].ev # "summary"
BY DEF Lines, PeerLines

(* Such a line, where the peers are as they were.                          *)
LEMMA SaysPeers ==
  ASSUME ViewerInv, count' = count, peers' = peers, NEW ev \in {"peers", "held", "released"}
  PROVE  /\ Says([ev |-> ev, peers |-> peers]) /\ [ev |-> ev, peers |-> peers] \in Lines
         /\ [ev |-> ev, peers |-> peers].ev # "summary"
<1>1. peers \in Nat /\ \A w \in Nat : Told(w) \in Tallies
  BY OwnType
<1>2. \A w \in Nat : Told(w)' = [Told(w) EXCEPT !.peersLast = peers]
  BY DEF Told
<1> QED
  BY <1>1, <1>2, PeerLine, PeerLineType, SaysNoStall

(* Peers arrive before the stream.                                         *)
LEMMA PeersArriveKeeps == ASSUME ViewerInv, PeersArrive PROVE ViewerInv'
<1>1. PICK n \in peers + 1 .. PeerLimit :
         peers' = n /\ pipe' = pipe \o <<[ev |-> "peers", peers |-> n]>>
  BY DEF PeersArrive, Emit, PeersLine
<1>2. /\ peers \in Nat /\ n \in Nat /\ n \in 0 .. PeerLimit
      /\ \A w \in Nat : Told(w) \in Tallies
  BY OwnType, MockAssumption
<1>3. TypeOK' /\ count' \in Counts
  BY <1>1, <1>2 DEF PeersArrive, ViewerInv, TypeOK, controllerVars
<1>4. \A w \in Nat : Told(w)' = [Told(w) EXCEPT !.peersLast = n]
  BY <1>1 DEF PeersArrive, Told
<1>5. Says([ev |-> "peers", peers |-> n])
  BY <1>2, <1>4, PeerLine, SaysNoStall DEF PeersArrive
<1>6. pc \notin {"reported", "ended"} /\ UNCHANGED controllerVars
  BY DEF PeersArrive
<1>7. pipe' \in Seq(Lines) /\ Heard'
  BY <1>1, <1>2, <1>5, <1>6, PeerLineType, WritesOne
<1> QED
  BY <1>3, <1>6, <1>7, ProcessStep

(* The first peer is up.                                                   *)
LEMMA PeerUpKeeps == ASSUME ViewerInv, PeerUp PROVE ViewerInv'
<1>1. TypeOK' /\ count' \in Counts
  BY DEF PeerUp, ViewerInv, TypeOK, controllerVars
<1>2. /\ UNCHANGED <<controllerVars, count, peers>>
      /\ pc \notin {"reported", "ended"}
  BY DEF PeerUp
<1>3. pipe' \in Seq(Lines) /\ Heard'
  <2>1. CASE pipe' = pipe \o <<[ev |-> "held", peers |-> peers]>>
    BY <1>2, <2>1, SaysPeers, WritesOne
  <2>2. CASE pipe' = pipe
    BY <1>2, <2>2, WritesNone
  <2> QED
    BY <2>1, <2>2 DEF PeerUp, Emit
<1> QED
  BY <1>1, <1>2, <1>3, ProcessStep

(* The barrier opens.                                                      *)
LEMMA ReleasedKeeps == ASSUME ViewerInv, Released PROVE ViewerInv'
<1>1. TypeOK' /\ count' \in Counts
  BY DEF Released, ViewerInv, TypeOK, controllerVars
<1>2. /\ UNCHANGED <<controllerVars, count, peers>>
      /\ pc \notin {"reported", "ended"}
      /\ pipe' = pipe \o <<[ev |-> "released", peers |-> peers]>>
  BY DEF Released, Emit
<1>3. pipe' \in Seq(Lines) /\ Heard'
  BY <1>2, SaysPeers, WritesOne
<1> QED
  BY <1>1, <1>2, <1>3, ProcessStep

(* A viewer is told to end before it joined.                               *)
LEMMA EndsUnjoinedKeeps == ASSUME ViewerInv, EndsUnjoined PROVE ViewerInv'
<1>1. TypeOK' /\ count' \in Counts
  BY DEF EndsUnjoined, ViewerInv, TypeOK, controllerVars
<1>2. /\ UNCHANGED <<controllerVars, count, peers>>
      /\ pc \notin {"reported", "ended"}
  BY DEF EndsUnjoined
<1>3. pipe' \in Seq(Lines) /\ Heard'
  <2>1. CASE pc = "held"
    <3>1. pipe' = pipe \o <<[ev |-> "released", peers |-> peers]>>
      BY <2>1 DEF EndsUnjoined, Emit
    <3> QED
      BY <1>2, <3>1, SaysPeers, WritesOne
  <2>2. CASE pc # "held"
    <3>1. pipe' = pipe
      BY <2>2, ConcatEmptySeq DEF EndsUnjoined, Emit, ViewerInv
    <3> QED
      BY <1>2, <3>1, WritesNone
  <2> QED
    BY <2>1, <2>2
<1> QED
  BY <1>1, <1>2, <1>3, ProcessStep

(* A viewer joins, or fails to.                                            *)
LEMMA JoinsKeeps == ASSUME ViewerInv, Joins PROVE ViewerInv'
<1>1. TypeOK' /\ count' \in Counts
  BY DEF Joins, ViewerInv, TypeOK, controllerVars
<1>2. PICK ev \in {"joined", "error"} : pipe' = pipe \o <<[ev |-> ev]>>
  BY DEF Joins, Emit
<1>3. /\ [ev |-> ev] \in Lines /\ [ev |-> ev].ev # "summary"
      /\ \A w \in Nat : Told(w)' = Tell(Told(w), [ev |-> ev])
  BY DEF Lines, PlainLines, Tell, Told, Joins
<1>4. /\ UNCHANGED <<controllerVars, count, peers>>
      /\ pc \notin {"reported", "ended"}
  BY DEF Joins
<1>5. Says([ev |-> ev])
  BY <1>3, <1>4, SaysNoStall
<1>6. pipe' \in Seq(Lines) /\ Heard'
  BY <1>2, <1>3, <1>4, <1>5, WritesOne
<1> QED
  BY <1>1, <1>4, <1>6, ProcessStep

(* The lines of a turn of the playback loop, after the peers it announces. *)
LEMMA WritesTurn ==
  ASSUME ViewerInv, UNCHANGED controllerVars, pc \notin {"reported", "ended"},
         NEW n \in Nat, NEW l \in Lines, l.ev # "summary",
         pipe' = pipe \o Append(Announced(n), l),
         SaysTurn(n, l)
  PROVE  pipe' \in Seq(Lines) /\ Heard'
<1>1. \A w \in Nat : Told(w) \in Tallies
  BY OwnType
<1>2. CASE n = peers
  <2>1. pipe' = pipe \o <<l>>
    BY <1>2 DEF Announced
  <2>2. \A w \in Nat : [Told(w) EXCEPT !.peersLast = n] = Told(w)
    BY <1>2 DEF Told
  <2>3. Says(l)
    BY <2>2 DEF Says, SaysTurn
  <2> QED
    BY <2>1, <2>3, WritesOne
<1>3. CASE n # peers
  <2> DEFINE k == [ev |-> "peers", peers |-> n]
  <2>1. pipe' = pipe \o <<k, l>>
    BY <1>3 DEF Announced, PeersLine
  <2>2. /\ k \in Lines /\ k.ev # "summary"
        /\ \A w \in Nat : Tell(Told(w), k) = [Told(w) EXCEPT !.peersLast = n]
    BY <1>1, PeerLine, PeerLineType
  <2> HIDE DEF k
  <2>3. SaysBoth(k, l)
    BY <2>2 DEF SaysBoth, SaysTurn
  <2> QED
    BY <2>1, <2>2, <2>3, WritesTwo
<1> QED
  BY <1>2, <1>3

(* Segments are skipped.                                                   *)
LEMMA SkipKeeps == ASSUME ViewerInv, Skip PROVE ViewerInv'
<1> DEFINE l == [ev |-> "skip", from |-> 1, to |-> 4]
<1>1. PICK n \in 0 .. PeerLimit : peers' = n /\ pipe' = pipe \o Append(Announced(n), l)
  BY DEF Skip, Emit
<1>2. n \in Nat
  BY MockAssumption
<1>3. TypeOK'
  <2>1. mishaps + 1 \in 0 .. MaxMishaps
    BY MockAssumption DEF Skip, ViewerInv, TypeOK
  <2> QED
    BY <1>1, <2>1 DEF Skip, ViewerInv, TypeOK, controllerVars
<1>4. count \in Counts /\ count' = [count EXCEPT !.skipped = @ + 3]
  BY DEF Skip, ViewerInv
<1>5. count' \in Counts
  BY <1>4 DEF Counts
<1>6. l \in Lines /\ l.ev # "summary"
  BY DEF Lines, SkipLines
<1>7. \A w \in Nat : Told(w)' = Tell([Told(w) EXCEPT !.peersLast = n], l)
  BY <1>1, <1>4 DEF Told, Tell, Counts
<1> HIDE DEF l
<1>8. \A w \in Nat : Written(w) => Written(w)'
  BY <1>4 DEF Written, Counts
<1>9. UNCHANGED controllerVars /\ pc \notin {"reported", "ended"}
  BY DEF Skip, GoesOn
<1>10. SaysTurn(n, l)
  BY <1>7, <1>8 DEF SaysTurn
<1>11. pipe' \in Seq(Lines) /\ Heard'
  BY <1>1, <1>2, <1>6, <1>9, <1>10, WritesTurn
<1> QED
  BY <1>3, <1>5, <1>9, <1>11, ProcessStep

(* A segment's body fails, for the second time or not.                     *)
LEMMA BodyFailsKeeps == ASSUME ViewerInv, BodyFails PROVE ViewerInv'
<1>1. PICK fetch \in FetchTicks, strike \in {1, 2} :
         /\ clock' = clock + fetch
         /\ pipe' = pipe \o (<<[ev |-> "body_failure", strike |-> strike]>>
                       \o IF strike = 2 THEN <<[ev |-> "gap", source |-> "local"]>> ELSE <<>>)
  BY DEF BodyFails, Emit
<1> DEFINE k == [ev |-> "body_failure", strike |-> strike]
           l == [ev |-> "gap", source |-> "local"]
<1>2. TypeOK'
  <2>1. mishaps + 1 \in 0 .. MaxMishaps
    BY MockAssumption DEF BodyFails, ViewerInv, TypeOK
  <2>2. clock' \in Nat
    BY <1>1, MockAssumption DEF ViewerInv, TypeOK
  <2> QED
    BY <2>1, <2>2 DEF BodyFails, ViewerInv, TypeOK, controllerVars
<1>3. count \in Counts /\ count' = [count EXCEPT !.bodyFailures = @ + 1] /\ peers' = peers
  BY DEF BodyFails, ViewerInv
<1>4. count' \in Counts
  BY <1>3 DEF Counts
<1>5. k \in Lines /\ l \in Lines /\ k.ev # "summary" /\ l.ev # "summary"
  BY DEF Lines, FailureLines, GapLines
<1>6. \A w \in Nat : Told(w)' = Tell(Told(w), k) /\ Tell(Tell(Told(w), k), l) = Tell(Told(w), k)
  BY <1>3 DEF Told, Tell, Counts
<1>7. pipe' = pipe \o <<k, l>> \/ pipe' = pipe \o <<k>>
  <2>1. CASE strike = 2
    <3>1. <<k, l>> = <<k>> \o <<l>>
      BY PairIsConcat
    <3> QED
      BY <1>1, <2>1, <3>1
  <2>2. CASE strike # 2
    <3>1. <<k>> \o <<>> = <<k>>
      <4>1. <<k>> \in Seq(Lines)
        BY <1>5
      <4> QED
        BY <4>1, ConcatEmptySeq
    <3> QED
      BY <1>1, <2>2, <3>1
  <2> QED
    BY <2>1, <2>2
<1> HIDE DEF k, l
<1>8. UNCHANGED controllerVars /\ pc \notin {"reported", "ended"}
  BY DEF BodyFails, GoesOn
<1>9. \A w \in Nat : Written(w) => Written(w)'
  BY <1>3 DEF Written, Counts
<1>10. pipe' \in Seq(Lines) /\ Heard'
  <2>1. CASE pipe' = pipe \o <<k, l>>
    <3>1. SaysBoth(k, l)
      BY <1>6, <1>9 DEF SaysBoth
    <3> QED
      BY <1>5, <1>8, <2>1, <3>1, WritesTwo
  <2>2. CASE pipe' = pipe \o <<k>>
    <3>1. Says(k)
      BY <1>6, <1>9 DEF Says
    <3> QED
      BY <1>5, <1>8, <2>2, <3>1, WritesOne
  <2> QED
    BY <1>7, <2>1, <2>2
<1> QED
  BY <1>2, <1>4, <1>8, <1>10, ProcessStep

(* A segment is played.                                                    *)
LEMMA PlaysKeeps == ASSUME ViewerInv, Plays PROVE ViewerInv'
<1>1. PICK segment \in SegmentTicks, fetch \in FetchTicks, n \in 0 .. PeerLimit :
         LET now == clock + fetch
             due == count.media + count.stalledS
             stalled == now > due /\ count.played > 0
             stallS == AddIf(stalled, now - due)
             ahead == count.media + segment - (now - (count.stalledS + stallS))
         IN  /\ peers' = n
             /\ clock' = now + AddIf(ahead > Runway, ahead - Runway)
             /\ count' = [count EXCEPT !.media = @ + segment, !.played = @ + 1,
                            !.stalls = @ + AddIf(stalled, 1), !.stalledS = @ + stallS]
             /\ pipe' = pipe \o Append(Announced(n),
                       [ev |-> "segment", segmentS |-> segment, stalled |-> stalled,
                        stallS |-> Rounded(stallS, StallGrain), peers |-> n])
  BY DEF Plays, Emit
<1> DEFINE now == clock + fetch
           due == count.media + count.stalledS
           stalled == now > due /\ count.played > 0
           stallS == AddIf(stalled, now - due)
           ahead == count.media + segment - (now - (count.stalledS + stallS))
           written == Rounded(stallS, StallGrain)
           l == [ev |-> "segment", segmentS |-> segment, stalled |-> stalled,
                 stallS |-> written, peers |-> n]
<1>2. /\ n \in Nat /\ segment \in Nat \ {0} /\ now \in Nat /\ Runway \in Nat
      /\ count.media \in Nat /\ count.stalledS \in Nat /\ count.played \in Nat
      /\ count.stalls \in Nat /\ count \in Counts /\ StallGrain \in Nat \ {0}
  <2>1. /\ n \in Nat /\ Runway \in Nat /\ fetch \in Nat /\ segment \in Nat \ {0}
        /\ StallGrain \in Nat \ {0}
    BY MockAssumption
  <2>2. clock \in Nat
    BY DEF ViewerInv, TypeOK
  <2>3. count \in Counts
    BY DEF ViewerInv
  <2>4. /\ count.media \in Nat /\ count.stalledS \in Nat /\ count.played \in Nat
        /\ count.stalls \in Nat
    BY <2>3 DEF Counts
  <2> QED
    BY <2>1, <2>2, <2>3, <2>4
<1>3. /\ stalled \in BOOLEAN /\ stallS \in Nat /\ (~stalled => stallS = 0)
      /\ ahead \in Int
  BY <1>2 DEF AddIf
<1>4. /\ peers' = n /\ clock' = now + AddIf(ahead > Runway, ahead - Runway)
      /\ count' = [count EXCEPT !.media = @ + segment, !.played = @ + 1,
                     !.stalls = @ + AddIf(stalled, 1), !.stalledS = @ + stallS]
      /\ pipe' = pipe \o Append(Announced(n), l)
  BY <1>1
<1> HIDE DEF now, due, stallS, ahead, stalled
<1>5. PICK e \in Nat : e = written /\ (~stalled => e = 0)
  BY <1>2, <1>3, RoundedNear
<1> HIDE DEF written
<1>6. TypeOK'
  <2>1. clock' \in Nat
    BY <1>2, <1>3, <1>4 DEF AddIf
  <2> QED
    BY <1>4, <2>1 DEF Plays, ViewerInv, TypeOK, controllerVars
<1>7. /\ count'.played = count.played + 1 /\ count'.media = count.media + segment
      /\ count'.stalls = count.stalls + AddIf(stalled, 1)
      /\ count'.stalledS = count.stalledS + stallS
      /\ count'.skipped = count.skipped /\ count'.bodyFailures = count.bodyFailures
      /\ AddIf(stalled, 1) \in {0, 1}
  BY <1>2, <1>4 DEF Counts, AddIf
<1>8. count' \in Counts
  <2>1. /\ count.played + 1 \in Nat /\ count.stalls + AddIf(stalled, 1) \in Nat
        /\ count.stalledS + stallS \in Nat /\ count.media + segment \in Nat
    BY <1>2, <1>3, <1>7
  <2> QED
    BY <1>2, <1>4, <2>1 DEF Counts
<1>9. l \in Lines /\ l.ev # "summary"
  <2>1. CASE stalled
    BY <1>2, <1>3, <1>5, <2>1 DEF Lines, StalledLines
  <2>2. CASE ~stalled
    BY <1>2, <1>3, <1>5, <2>2 DEF Lines, SmoothLines
  <2> QED
    BY <2>1, <2>2
<1>10. ASSUME NEW w \in Nat, Written(w)
       PROVE  Written(w + e)' /\ w + e \in Nat
  <2>1. CASE stalled
    <3>1. count'.stalls = count.stalls + 1
      BY <1>7, <2>1 DEF AddIf
    <3>2. Within(w, count.stalledS, StallGrain * count.stalls)
      BY <1>10 DEF Written
    <3>3. Within(w + Rounded(stallS, StallGrain), count.stalledS + stallS,
                 StallGrain * (count.stalls + 1))
      BY <1>2, <1>3, <3>2, RoundedSum
    <3> QED
      BY <1>5, <1>7, <3>1, <3>3 DEF Written, written
  <2>2. CASE ~stalled
    <3>1. /\ count'.stalls = count.stalls /\ count'.stalledS = count.stalledS
          /\ w + e = w
      BY <1>2, <1>3, <1>5, <1>7, <2>2 DEF AddIf
    <3> QED
      BY <1>10, <3>1 DEF Written
  <2> QED
    BY <2>1, <2>2
<1>11. ASSUME NEW w \in Nat
       PROVE  Told(w + e)' = Tell([Told(w) EXCEPT !.peersLast = n], l)
  <2>1. Told(w + e)' =
          [segments |-> count.played + 1, mediaS |-> count.media + segment,
           stalls |-> count.stalls + AddIf(stalled, 1), stalledS |-> w + e,
           skipped |-> count.skipped, bodyFailures |-> count.bodyFailures, peersLast |-> n]
    BY <1>4, <1>7 DEF Told
  <2>2. [Told(w) EXCEPT !.peersLast = n] =
          [segments |-> count.played, mediaS |-> count.media, stalls |-> count.stalls,
           stalledS |-> w, skipped |-> count.skipped,
           bodyFailures |-> count.bodyFailures, peersLast |-> n]
    BY DEF Told
  <2> QED
    BY <1>5, <2>1, <2>2 DEF Tell
<1>12. UNCHANGED controllerVars /\ pc \notin {"reported", "ended"}
  BY DEF Plays, GoesOn
<1> HIDE DEF l
<1>13. SaysTurn(n, l)
  BY <1>10, <1>11 DEF SaysTurn
<1>14. pipe' \in Seq(Lines) /\ Heard'
  BY <1>2, <1>4, <1>9, <1>12, <1>13, WritesTurn
<1> QED
  BY <1>6, <1>8, <1>12, <1>14, ProcessStep

(* The viewer reports, and what it says of itself is its tally, but for    *)
(* what was rounded away.                                                  *)
LEMMA EndsKeeps == ASSUME ViewerInv, Ends PROVE ViewerInv'
<1>1. TypeOK' /\ count' \in Counts
  BY DEF Ends, ViewerInv, TypeOK, controllerVars
<1>2. pipe' = pipe \o <<Summary>> /\ UNCHANGED controllerVars /\ pc = "playing" /\ pc' = "reported"
  BY DEF Ends, Emit
<1>3. /\ count.played \in Nat /\ count.media \in Nat /\ count.stalls \in Nat
      /\ count.stalledS \in Nat /\ count.skipped \in Nat /\ count.bodyFailures \in Nat
      /\ peers \in Nat /\ MediaGrain \in Nat \ {0} /\ StallGrain \in Nat \ {0}
  BY OwnType, MockAssumption DEF ViewerInv, Counts
<1>4. /\ Rounded(count.media, MediaGrain) \in Nat /\ Rounded(count.stalledS, StallGrain) \in Nat
      /\ Within(Rounded(count.media, MediaGrain), count.media, MediaGrain)
  BY <1>3, RoundedNear
<1>5. Summary \in Lines /\ Summary.ev = "summary"
  BY <1>3, <1>4 DEF Summary, Lines, SummaryLines
<1>6. PICK w \in Nat : Written(w) /\ Leads(pipe, Tally(record), Told(w))
  BY <1>2 DEF ViewerInv, Heard
<1>7. Tell(Told(w), Summary) =
        [segments |-> count.played, mediaS |-> Rounded(count.media, MediaGrain),
         stalls |-> count.stalls, stalledS |-> Rounded(count.stalledS, StallGrain),
         skipped |-> count.skipped, bodyFailures |-> count.bodyFailures, peersLast |-> peers]
  BY <1>3 DEF Tell, Told, Summary, Larger
<1>8. Within(Rounded(count.stalledS, StallGrain), w, StallGrain * (count.stalls + 1))
  BY <1>3, <1>6, RoundedSum DEF Written
<1>9. Close(Told(w), Tell(Told(w), Summary))
  BY <1>4, <1>7, <1>8 DEF Close, Told
<1>10. /\ pipe' \in Seq(Lines)
       /\ Leads(pipe', Tally(record), Tell(Told(w), Summary))
  BY <1>2, <1>5, <1>6, <1>9, LineWritten DEF ViewerInv
<1>11. Tell(Told(w), Summary) \in Tallies
  BY <1>5, OwnType, TellType
<1>12. Heard'
  BY <1>2, <1>10, <1>11 DEF Heard, controllerVars
<1> QED
  BY <1>1, <1>2, <1>10, <1>12, ProcessStep

(* Steps of the process, and of the agent on it, that write nothing.       *)
LEMMA SilentKeeps ==
  ASSUME ViewerInv, Exits \/ Crashes \/ Term \/ Kill
  PROVE  ViewerInv'
<1>1. /\ UNCHANGED controllerVars /\ pipe' = pipe /\ count' = count /\ peers' = peers
  BY DEF Exits, Crashes, Term, Kill
<1>2. TypeOK'
  <2>1. CASE Exits
    BY <2>1 DEF Exits, ViewerInv, TypeOK, controllerVars
  <2>2. CASE Crashes
    BY <2>2 DEF Crashes, ViewerInv, TypeOK, controllerVars
  <2>3. CASE Term
    BY <2>3 DEF Term, ViewerInv, TypeOK, controllerVars
  <2>4. CASE Kill
    BY <2>4 DEF Kill, ViewerInv, TypeOK, controllerVars
  <2> QED
    BY <2>1, <2>2, <2>3, <2>4
<1>3. /\ count' \in Counts
      /\ pc \in {"reported", "ended"} => pc' \in {"reported", "ended"}
  BY <1>1 DEF Exits, Crashes, Term, Kill, ViewerInv
<1>4. pipe' \in Seq(Lines) /\ Heard'
  BY <1>1, <1>3, WritesNone
<1> QED
  BY <1>1, <1>2, <1>3, <1>4, ProcessStep

(* A stray line says nothing about the viewer.                             *)
LEMMA StrayLineKeeps == ASSUME ViewerInv, StrayLine PROVE ViewerInv'
<1>1. PICK ev \in {"malformed", "unknown"} : pipe' = pipe \o <<[ev |-> ev]>>
  BY DEF StrayLine, Emit
<1>2. TypeOK' /\ count' \in Counts
  <2>1. mishaps + 1 \in 0 .. MaxMishaps
    BY MockAssumption DEF StrayLine, ViewerInv, TypeOK
  <2> QED
    BY <2>1 DEF StrayLine, ViewerInv, TypeOK, controllerVars
<1>3. /\ [ev |-> ev] \in Lines /\ [ev |-> ev].ev # "summary"
      /\ \A t \in Tallies : Tell(t, [ev |-> ev]) = t
  BY DEF Lines, PlainLines, Tell
<1>4. UNCHANGED <<controllerVars, count, peers, pc>>
  BY DEF StrayLine
<1>5. pipe' \in Seq(Lines) /\ Heard'
  BY <1>1, <1>3, <1>4, WritesBeside
<1> QED
  BY <1>2, <1>4, <1>5, ProcessStep

(* A line is read and folded.                                              *)
LEMMA LineReadKeeps ==
  ASSUME ViewerInv, LineRead
  PROVE  /\ ViewerInv'
         /\ Head(pipe).ev = "summary" => Close(record, record')
<1> DEFINE l == Head(pipe)
<1>1. /\ pipe \in Seq(Lines) /\ pipe # <<>> /\ DOMAIN record = Fields
      /\ record' = Apply(record, l)
      /\ Trails(folded, record.window) /\ folded \in Seq(Items)
  BY DEF LineRead, ViewerInv
<1>2. /\ l \in Lines /\ pipe' \in Seq(Lines) /\ pipe' = Tail(pipe)
      /\ l.ev = "summary" => Close(Tally(record), Tell(Tally(record), l))
      /\ \A t : Leads(pipe, Tally(record), t) => Leads(pipe', Tell(Tally(record), l), t)
  <2>1. PICK t \in Tallies : Leads(pipe, Tally(record), t)
    BY DEF ViewerInv, Heard
  <2>2. pipe' = Tail(pipe)
    BY DEF LineRead
  <2> QED
    BY <1>1, <2>1, <2>2, LineTaken
<1> HIDE DEF l
<1>3. /\ DOMAIN record' = Fields /\ Tally(record') = Tell(Tally(record), l)
      /\ record'.window = IF l.ev = "segment"
                            THEN PushWindow(record.window, l.segmentS, l.stallS)
                            ELSE record.window
  BY <1>1, <1>2, ApplyEffect
<1>4. TypeOK' /\ count' \in Counts
  BY DEF LineRead, ViewerInv, TypeOK, viewerVars
<1>5. Heard'
  <2>1. /\ pc' = pc /\ \A w \in Nat : Told(w)' = Told(w) /\ (Written(w) => Written(w)')
    BY DEF LineRead, viewerVars, Told, Written
  <2>2. \E t \in Tallies : Leads(pipe', Tally(record'), t)
    BY <1>2, <1>3 DEF ViewerInv, Heard
  <2>3. ASSUME pc' \notin {"reported", "ended"}
        PROVE  \E w \in Nat : Written(w)' /\ Leads(pipe, Tally(record), Told(w))'
    BY <1>2, <1>3, <2>1, <2>3 DEF ViewerInv, Heard
  <2> QED
    BY <2>2, <2>3 DEF Heard
<1>6. Trails(folded', record'.window) /\ folded' \in Seq(Items)
  <2>1. CASE l.ev = "segment"
    <3> DEFINE x == [media |-> l.segmentS, stall |-> l.stallS]
    <3>1. l.segmentS \in Nat \ {0} /\ l.stallS \in Nat
      <4>1. l \in StalledLines \/ l \in SmoothLines
        BY <1>2, <2>1 DEF Lines, PeerLines, PlainLines, SkipLines, FailureLines, GapLines,
                           SummaryLines
      <4>2. CASE l \in StalledLines
        BY <4>2 DEF StalledLines
      <4>3. CASE l \in SmoothLines
        BY <4>3 DEF SmoothLines
      <4> QED
        BY <4>1, <4>2, <4>3
    <3>2. x \in Items /\ x.media = l.segmentS /\ x.stall = l.stallS
      BY <3>1 DEF Items
    <3>3. folded' = Append(folded, x)
      BY <2>1 DEF LineRead, l
    <3> HIDE DEF x
    <3>4. Trails(Append(folded, x), PushWindow(record.window, x.media, x.stall))
      BY <1>1, <3>2, PushTrails
    <3> QED
      BY <1>1, <1>3, <2>1, <3>2, <3>3, <3>4, AppendProperties
  <2>2. CASE l.ev # "segment"
    <3>1. folded' = folded
      BY <2>2 DEF LineRead, l
    <3> QED
      BY <1>1, <1>3, <2>2, <3>1
  <2> QED
    BY <2>1, <2>2
<1>7. l.ev = "summary" => Close(record, record')
  BY <1>2, <1>3, CloseTallies
<1> QED
  BY <1>2, <1>3, <1>4, <1>5, <1>6, <1>7 DEF ViewerInv, l

(* The record is marked, and nothing else is said of the viewer.           *)
LEMMA MarkKeeps ==
  ASSUME ViewerInv, UNCHANGED <<viewerVars, pipe, asked, agentUp, folded>>,
         NEW e, record' = [record EXCEPT !.exit = e] \/ record' = [record EXCEPT !.lost = TRUE]
  PROVE  ViewerInv' /\ record'.summarySeen = record.summarySeen
<1>1. DOMAIN record = Fields
  BY DEF ViewerInv
<1>2. /\ DOMAIN record' = Fields /\ record'.window = record.window
      /\ Tally(record') = Tally(record) /\ record'.summarySeen = record.summarySeen
  <2>1. CASE record' = [record EXCEPT !.exit = e]
    BY <1>1, <2>1 DEF Fields, Tally
  <2>2. CASE record' = [record EXCEPT !.lost = TRUE]
    BY <1>1, <2>2 DEF Fields, Tally
  <2> QED
    BY <2>1, <2>2
<1>3. TypeOK' /\ count' = count /\ pipe' = pipe /\ folded' = folded /\ peers' = peers
      /\ pc' = pc
  BY DEF viewerVars, ViewerInv, TypeOK
<1>4. Heard'
  <2>1. \A w \in Nat : Told(w)' = Told(w) /\ (Written(w) => Written(w)')
    BY <1>3 DEF Told, Written
  <2>2. \E t \in Tallies : Leads(pipe', Tally(record'), t)
    BY <1>2, <1>3 DEF ViewerInv, Heard
  <2>3. ASSUME pc' \notin {"reported", "ended"}
        PROVE  \E w \in Nat : Written(w)' /\ Leads(pipe, Tally(record), Told(w))'
    BY <1>2, <1>3, <2>1, <2>3 DEF ViewerInv, Heard
  <2> QED
    BY <2>2, <2>3 DEF Heard
<1> QED
  BY <1>2, <1>3, <1>4 DEF ViewerInv

(* The exit is heard of.                                                   *)
LEMMA ExitHeardKeeps ==
  ASSUME ViewerInv, ExitHeard
  PROVE  ViewerInv' /\ record'.summarySeen = record.summarySeen
<1>1. PICK e : record' = [record EXCEPT !.exit = e]
  BY DEF ExitHeard, NoteExit
<1> QED
  BY <1>1, MarkKeeps DEF ExitHeard

(* The loss of the machine is noticed.                                     *)
LEMMA AgentLostKeeps ==
  ASSUME ViewerInv, AgentLost
  PROVE  ViewerInv' /\ record'.summarySeen = record.summarySeen
BY MarkKeeps DEF AgentLost, NoteAgentLost

(* The machine goes, and of what was on its way the first lines are left.  *)
LEMMA AgentDiesKeeps == ASSUME ViewerInv, AgentDies PROVE ViewerInv'
<1>1. PICK k \in 0 .. Len(pipe) : pipe' = SubSeq(pipe, 1, k)
  BY DEF AgentDies
<1>2. PICK t \in Tallies : Leads(pipe, Tally(record), t)
  BY DEF ViewerInv, Heard
<1>3. pipe' \in Seq(Lines) /\ \E b \in Tallies : Leads(pipe', Tally(record), b)
  BY <1>1, <1>2, LinesLeft DEF ViewerInv
<1>4. /\ pc' = "ended" /\ record' = record /\ count' = count /\ folded' = folded
      /\ status' # "none" /\ status' \in {"none", "clean", "failed", "signal", "lost"}
  BY DEF AgentDies, Running, ViewerInv, TypeOK
<1>5. TypeOK'
  BY <1>4 DEF AgentDies, ViewerInv, TypeOK
<1>6. Heard'
  BY <1>3, <1>4 DEF Heard
<1> QED
  BY <1>3, <1>4, <1>5, <1>6 DEF ViewerInv

(* Every step keeps the invariant.                                         *)
LEMMA ViewerInductive == ViewerInv /\ [Next]_vars => ViewerInv'
<1> SUFFICES ASSUME ViewerInv, [Next]_vars PROVE ViewerInv'
  OBVIOUS
<1>1. CASE Progress
  BY <1>1, PeerUpKeeps, EndsUnjoinedKeeps, JoinsKeeps, EndsKeeps, SilentKeeps DEF Progress
<1>2. CASE PeersArrive \/ Released \/ Skip \/ BodyFails \/ Plays \/ StrayLine
  BY <1>2, PeersArriveKeeps, ReleasedKeeps, SkipKeeps, BodyFailsKeeps, PlaysKeeps,
     StrayLineKeeps
<1>3. CASE Crashes \/ Term \/ Kill
  BY <1>3, SilentKeeps
<1>4. CASE LineRead \/ ExitHeard \/ AgentDies \/ AgentLost
  BY <1>4, LineReadKeeps, ExitHeardKeeps, AgentDiesKeeps, AgentLostKeeps
<1>5. CASE UNCHANGED vars
  <2>1. UNCHANGED <<controllerVars, count, peers>> /\ pipe' = pipe /\ pc' = pc
    BY <1>5 DEF vars, viewerVars, controllerVars
  <2>2. TypeOK' /\ count' \in Counts
    BY <1>5 DEF vars, viewerVars, controllerVars, ViewerInv, TypeOK
  <2> QED
    BY <2>1, <2>2, WritesNone, ProcessStep
<1> QED
  BY <1>1, <1>2, <1>3, <1>4, <1>5 DEF Next

(* The variables of a viewer keep their types (mock/viewer.ts).            *)
THEOREM TypeCorrect == Spec => []TypeOK
<1>1. ViewerInv => TypeOK
  BY DEF ViewerInv
<1> QED
  BY <1>1, ViewerInitial, ViewerInductive, PTL DEF Spec

(* The window and its running sums are the shortest run of the newest      *)
(* segments that covers Trailing, or all of them (viewer/rollup.ts         *)
(* pushWindow), for segments of any lengths, mixed as they may be.         *)
THEOREM WindowKept == Spec => []WindowIsTrailing
<1>1. ViewerInv => WindowIsTrailing
  <2> SUFFICES ASSUME ViewerInv, folded # <<>> PROVE WindowIsTrailing
    BY DEF WindowIsTrailing
  <2>1. PICK k \in 1 .. Len(folded) + 1 :
           /\ Consistent(record.window) /\ record.window.items = SubSeq(folded, k, Len(folded))
           /\ k > 1 => Sum(record.window.items, "media") >= Trailing
           /\ folded # <<>> => k <= Len(folded)
           /\ k < Len(folded) => Sum(SubSeq(folded, k + 1, Len(folded)), "media") < Trailing
    BY DEF ViewerInv, Trails
  <2>2. k \in 1 .. Len(folded)
    BY <2>1, LenProperties DEF ViewerInv
  <2> QED
    BY <2>1, <2>2 DEF WindowIsTrailing, From, MediaFrom, Consistent
<1> QED
  BY <1>1, ViewerInitial, ViewerInductive, PTL DEF Spec

(* A viewer's summary says what its lines were folded into already, but    *)
(* for what the viewer rounded away (viewer/rollup.ts, mock/viewer.ts),    *)
(* however late it is read: a viewer that dies without one is judged on    *)
(* the same figures.                                                       *)
THEOREM SummaryIsFold == Spec => SummaryAgrees
<1> DEFINE Agrees == record'.summarySeen /\ ~record.summarySeen => Close(record, record')
<1>1. ViewerInv /\ [Next]_vars => [Agrees]_vars
  <2> SUFFICES ASSUME ViewerInv, [Next]_vars, record'.summarySeen, ~record.summarySeen
               PROVE  Agrees
    OBVIOUS
  <2>1. CASE LineRead
    <3> DEFINE l == Head(pipe)
    <3>1. l \in Lines /\ record' = Apply(record, l) /\ DOMAIN record = Fields
      BY <2>1, HeadTailProperties DEF LineRead, ViewerInv
    <3> HIDE DEF l
    <3>2. l.ev = "summary"
      <4> SUFFICES ASSUME l.ev # "summary" PROVE record'.summarySeen = record.summarySeen
        OBVIOUS
      <4> QED
        BY <3>1, OthersSeeNone
    <3> QED
      BY <2>1, <3>2, LineReadKeeps DEF l
  <2>2. CASE ExitHeard \/ AgentLost
    BY <2>2, ExitHeardKeeps, AgentLostKeeps
  <2>3. CASE ~(LineRead \/ ExitHeard \/ AgentLost)
    <3>1. record' = record
      BY <2>3 DEF Next, Progress, PeersArrive, PeerUp, Released, EndsUnjoined, Joins, Skip,
                  BodyFails, Plays, Ends, Exits, Crashes, Term, Kill, StrayLine, AgentDies,
                  controllerVars, vars
    <3> QED
      BY <3>1
  <2> QED
    BY <2>1, <2>2, <2>3
<1> QED
  BY <1>1, ViewerInitial, ViewerInductive, PTL DEF Spec, SummaryAgrees

-----------------------------------------------------------------------------
(* The viewer that was told to end.                                        *)

(* Nothing more will be heard of it.                                       *)
HeardOf ==
  ~Running /\ pipe = <<>> /\ (IF agentUp THEN record.exit # "none" ELSE record.lost)

SummaryWaits == \E i \in 1 .. Len(pipe) : pipe[i].ev = "summary"

(* Whoever was told was asked, an exit that was heard of was asked for     *)
(* then, the viewer of a machine that is gone does not run, and a summary  *)
(* that was written is read or to be read unless its machine is gone.      *)
ToldInv ==
  /\ told => asked # "no"
  /\ record.exit # "none" => ~Running /\ (told => record.exit = "asked")
  /\ ~agentUp => ~Running
  /\ agentUp /\ (pc = "reported" \/ status = "clean") => record.summarySeen \/ SummaryWaits

(* A line says nothing of the exit, and a summary is seen for good.        *)
LEMMA ApplyKeepsExit ==
  ASSUME NEW r, DOMAIN r = Fields, NEW l \in Lines
  PROVE  /\ Apply(r, l).exit = r.exit /\ Apply(r, l).lost = r.lost
         /\ r.summarySeen \/ l.ev = "summary" => Apply(r, l).summarySeen
<1>1. CASE l.ev = "segment"
  <2>1. Apply(r, l) = ApplySegment(r, l)
    BY <1>1 DEF Apply
  <2> QED
    BY <1>1, <2>1 DEF ApplySegment, WithPeers, Fields
<1>2. CASE l.ev = "summary"
  <2>1. Apply(r, l) = ApplySummary(r, l)
    BY <1>2 DEF Apply
  <2> QED
    BY <2>1 DEF ApplySummary, Fields
<1>3. CASE l.ev \notin {"segment", "summary"}
  BY <1>3 DEF Apply, WithPeers, Fields
<1> QED
  BY <1>1, <1>2, <1>3

(* A summary that waits still does when more is written.                   *)
LEMMA SummaryStays ==
  ASSUME pipe \in Seq(Lines), NEW q \in Seq(Lines), pipe' = pipe \o q, SummaryWaits
  PROVE  SummaryWaits'
<1>1. PICK i \in 1 .. Len(pipe) : pipe[i].ev = "summary"
  BY DEF SummaryWaits
<1>2. i \in 1 .. Len(pipe') /\ pipe'[i] = pipe[i]
  BY ConcatProperties, LenProperties
<1> QED
  BY <1>1, <1>2 DEF SummaryWaits

(* Every step keeps it.                                                    *)
LEMMA ToldInductive == ViewerInv /\ ToldInv /\ [Next]_vars => ToldInv'
<1> SUFFICES ASSUME ViewerInv, ToldInv, [Next]_vars PROVE ToldInv'
  OBVIOUS
<1>1. CASE UNCHANGED controllerVars /\ asked' = asked /\ told' = told
             /\ (~Running => ~Running') /\ ~(pc' = "reported" \/ status' = "clean")
  BY <1>1 DEF ToldInv, controllerVars, Running
<1>2. CASE PeersArrive \/ PeerUp \/ Released \/ EndsUnjoined \/ Joins \/ Skip \/ BodyFails
             \/ Plays \/ Crashes
  <2>1. UNCHANGED controllerVars /\ asked' = asked /\ told' = told /\ Running
    BY <1>2 DEF PeersArrive, PeerUp, Released, EndsUnjoined, Joins, Skip, BodyFails, Plays,
                Crashes, GoesOn
  <2>2. pc' # "reported" /\ status' # "clean"
    BY <1>2 DEF PeersArrive, PeerUp, Released, EndsUnjoined, Joins, Skip, BodyFails, Plays,
                Crashes, GoesOn, Running
  <2> QED
    BY <1>1, <2>1, <2>2
<1>3. CASE StrayLine
  <2>1. /\ UNCHANGED controllerVars /\ asked' = asked /\ told' = told
        /\ pc' = pc /\ status' = status
    BY <1>3 DEF StrayLine
  <2>2. pipe = <<>>
    BY <1>3, EmptySeq DEF StrayLine, ViewerInv
  <2>3. ~SummaryWaits
    BY <2>2 DEF SummaryWaits
  <2> QED
    BY <2>1, <2>3 DEF ToldInv, controllerVars, Running
<1>4. CASE Ends
  <2>1. /\ UNCHANGED controllerVars /\ asked' = asked /\ told' = told /\ Running
        /\ status' = status
    BY <1>4 DEF Ends
  <2> DEFINE l == Summary
  <2>2. pipe' = pipe \o <<l>> /\ l.ev = "summary"
    BY <1>4 DEF Ends, Emit, Summary
  <2> HIDE DEF l
  <2>3. Len(pipe) \in Nat /\ Len(pipe') = Len(pipe) + 1 /\ pipe'[Len(pipe) + 1] = l
    <3> DEFINE S == Lines \cup {l}
    <3>1. pipe \in Seq(S) /\ l \in S
      BY SeqMonotonic DEF ViewerInv
    <3> HIDE DEF S
    <3> QED
      BY <2>2, <3>1, AppendIsConcat, AppendProperties, LenProperties
  <2>4. SummaryWaits'
    BY <2>2, <2>3 DEF SummaryWaits
  <2> QED
    BY <2>1, <2>4 DEF ToldInv, controllerVars, Running
<1>5. CASE Exits
  BY <1>5 DEF Exits, ToldInv, controllerVars, Running, SummaryWaits
<1>6. CASE Term
  BY <1>6 DEF Term, ToldInv, controllerVars, Running, SummaryWaits
<1>7. CASE Kill
  BY <1>7 DEF Kill, ToldInv, controllerVars, Running
<1>8. CASE LineRead
  <2>1. /\ pipe \in Seq(Lines) /\ pipe # <<>> /\ Head(pipe) \in Lines /\ DOMAIN record = Fields
        /\ record' = Apply(record, Head(pipe)) /\ pipe' = Tail(pipe)
        /\ agentUp' = agentUp /\ asked' = asked
        /\ told' = told /\ status' = status /\ pc' = pc
    BY <1>8, HeadTailProperties DEF LineRead, ViewerInv, viewerVars
  <2>2. /\ record'.exit = record.exit
        /\ record.summarySeen \/ Head(pipe).ev = "summary" => record'.summarySeen
    BY <2>1, ApplyKeepsExit
  <2>3. SummaryWaits => SummaryWaits' \/ Head(pipe).ev = "summary"
    <3> SUFFICES ASSUME SummaryWaits, Head(pipe).ev # "summary" PROVE SummaryWaits'
      OBVIOUS
    <3>1. PICK i \in 1 .. Len(pipe) : pipe[i].ev = "summary"
      BY DEF SummaryWaits
    <3>2. /\ Len(pipe) \in Nat /\ Len(pipe') = Len(pipe) - 1 /\ Head(pipe) = pipe[1]
          /\ \A j \in 1 .. Len(pipe') : pipe'[j] = pipe[j + 1]
      BY <2>1, HeadTailProperties, LenProperties
    <3>3. i # 1
      BY <3>1, <3>2
    <3>4. i - 1 \in 1 .. Len(pipe') /\ pipe'[i - 1] = pipe[i]
      BY <3>2, <3>3
    <3> QED
      BY <3>1, <3>4 DEF SummaryWaits
  <2> QED
    BY <2>1, <2>2, <2>3 DEF ToldInv, Running
<1>9. CASE ExitHeard
  <2> DEFINE e == IF asked # "no" THEN "asked" ELSE IF status = "clean" THEN "clean" ELSE "crashed"
  <2>1. /\ ~Running /\ DOMAIN record = Fields
        /\ record' = [record EXCEPT !.exit = e]
        /\ agentUp' = agentUp /\ asked' = asked /\ pipe' = pipe
        /\ told' = told /\ status' = status /\ pc' = pc
    BY <1>9 DEF ExitHeard, NoteExit, ViewerInv, viewerVars
  <2>2. record'.exit = e /\ record'.summarySeen = record.summarySeen
    BY <2>1 DEF Fields
  <2> QED
    BY <2>1, <2>2 DEF ToldInv, Running, SummaryWaits
<1>10. CASE AgentLost
  <2>1. /\ ~agentUp /\ DOMAIN record = Fields
        /\ record' = [record EXCEPT !.lost = TRUE]
        /\ agentUp' = agentUp /\ asked' = asked /\ told' = told /\ status' = status
    BY <1>10 DEF AgentLost, NoteAgentLost, ViewerInv, viewerVars
  <2>2. record'.exit = record.exit
    BY <2>1 DEF Fields
  <2> QED
    BY <2>1, <2>2 DEF ToldInv, Running
<1>11. CASE AgentDies
  BY <1>11 DEF AgentDies, ToldInv, Running
<1>12. CASE UNCHANGED vars
  BY <1>12 DEF vars, viewerVars, controllerVars, ToldInv, Running, SummaryWaits
<1> QED
  BY <1>2, <1>3, <1>4, <1>5, <1>6, <1>7, <1>8, <1>9, <1>10, <1>11, <1>12
  DEF Next, Progress

(* The half of ReportsWhenTold that is not about time: of a viewer that    *)
(* was told to end (viewer/spawn.ts), once nothing more will be heard of   *)
(* it, the record says what ReportsWhenTold wants (viewer/rollup.ts        *)
(* classify), in whichever order its exit, its lines and the loss of its   *)
(* machine came.                                                           *)
THEOREM ToldIsAccounted == Spec => [](told /\ HeardOf => Accounted)
<1>1. Init => ToldInv
  BY DEF Init, NoRecord, ToldInv
<1>2. ViewerInv /\ ToldInv => (told /\ HeardOf => Accounted)
  <2> SUFFICES ASSUME ViewerInv, ToldInv, told, HeardOf PROVE Accounted
    OBVIOUS
  <2>1. ~Running /\ pipe = <<>> /\ ~SummaryWaits
    BY DEF HeardOf, SummaryWaits
  <2>2. CASE record.exit # "none"
    <3>1. record.exit = "asked"
      BY <2>2 DEF ToldInv
    <3>2. Outcome(record) \in {"never_joined", "stalled_out", "killed"}
      BY <3>1 DEF Outcome
    <3>3. agentUp /\ status = "clean" => record.summarySeen
      BY <2>1 DEF ToldInv
    <3> QED
      BY <2>1, <2>2, <3>2, <3>3 DEF Accounted
  <2>3. CASE record.exit = "none"
    <3>1. ~agentUp /\ record.lost
      BY <2>3 DEF HeardOf
    <3>2. Outcome(record) = "agent_lost"
      <4>1. Outcome(record) = IF record.lost THEN "agent_lost" ELSE "running"
        BY <2>3 DEF Outcome
      <4> QED
        BY <3>1, <4>1
    <3> QED
      BY <2>1, <2>3, <3>1, <3>2 DEF Accounted
  <2> QED
    BY <2>2, <2>3
<1> QED
  BY <1>1, <1>2, ViewerInitial, ViewerInductive, ToldInductive, PTL DEF Spec

=============================================================================
