-------------------------------- MODULE Ranks --------------------------------
(***************************************************************************)
(* Ranks of the elements of a finite set in a strict order: they are 0 to  *)
(* the size of the set without 1, each taken once.  Sorting puts the       *)
(* element of rank k at place k + 1.                                       *)
(***************************************************************************)
EXTENDS Integers, FiniteSetTheorems, FunctionTheorems, WellFoundedInduction, TLAPS

\* R orders S strictly.
StrictOrder(R, S) ==
    /\ \A x \in S : <<x, x>> \notin R
    /\ IsTransitivelyClosedOn(R, S)
    /\ \A x, y \in S : x # y => <<x, y>> \in R \/ <<y, x>> \in R

\* The rank of x among the elements of S.
RankIn(R, S, x) == Cardinality(SetLessThan(x, R, S))

\* A set whose elements another numbers is of its size.
LEMMA SameSize ==
    ASSUME NEW D, NEW N, NEW name \in [D -> N], \A a, b \in D : name[a] = name[b] => a = b,
           \A m \in N : \E a \in D : name[a] = m, IsFiniteSet(D), NEW n, Cardinality(D) = n
    PROVE  IsFiniteSet(N) /\ Cardinality(N) = n
<1>1. name \in Injection(D, N)
  BY DEF Injection, IsInjective
<1>2. name \in Surjection(D, N)
  BY DEF Surjection
<1>3. ExistsBijection(D, N)
  BY ONLY <1>1, <1>2 DEF Bijection, ExistsBijection
<1>4. QED
  BY ONLY <1>3, IsFiniteSet(D), Cardinality(D) = n, FS_Bijection

\* The rank of an element in a finite ordered set is below its size.
LEMMA RankTyped ==
    ASSUME NEW S, IsFiniteSet(S), NEW R, StrictOrder(R, S), NEW x \in S
    PROVE  /\ IsFiniteSet(SetLessThan(x, R, S)) /\ Cardinality(S) \in Nat
           /\ RankIn(R, S, x) \in 0 .. Cardinality(S) - 1
<1> PICK L : L = SetLessThan(x, R, S)
  OBVIOUS
<1> PICK n : n = Cardinality(S)
  OBVIOUS
<1> PICK r : r = Cardinality(L)
  OBVIOUS
<1>1. L \in SUBSET S /\ x \notin L
  BY DEF SetLessThan, StrictOrder
<1>2. IsFiniteSet(L) /\ n \in Nat /\ r \in Nat /\ r <= n
  BY <1>1, FS_Subset, FS_CardinalityType
<1>3. r # n
  <2>1. r = n => S = L
    BY <1>1, FS_Subset
  <2>2. QED
    BY <1>1, <2>1
<1>4. r \in 0 .. n - 1
  BY <1>2, <1>3
<1>5. QED
  BY <1>2, <1>4 DEF RankIn

\* Ranks follow the order.
LEMMA RankGrows ==
    ASSUME NEW S, IsFiniteSet(S), NEW R, StrictOrder(R, S), NEW x \in S, NEW y \in S,
           <<x, y>> \in R
    PROVE  RankIn(R, S, x) < RankIn(R, S, y)
<1> PICK K : K = SetLessThan(x, R, S)
  OBVIOUS
<1> PICK L : L = SetLessThan(y, R, S)
  OBVIOUS
<1> PICK k : k = Cardinality(K)
  OBVIOUS
<1> PICK m : m = Cardinality(L)
  OBVIOUS
<1>1. K \in SUBSET L /\ x \in L /\ x \notin K
  BY DEF SetLessThan, StrictOrder, IsTransitivelyClosedOn
<1>2. IsFiniteSet(L) /\ IsFiniteSet(K)
  BY RankTyped
<1>3. k \in Nat /\ m \in Nat /\ k <= m /\ k # m
  BY <1>1, <1>2, FS_Subset, FS_CardinalityType
<1>4. k < m
  BY <1>3
<1>5. QED
  BY <1>4 DEF RankIn

\* What it is to be a surjection, with no set of functions left in the goal.
LEMMA EveryValueTaken ==
    ASSUME NEW S, NEW T, NEW f \in Surjection(S, T)
    PROVE  \A t \in T : \E s \in S : f[s] = t
BY Fun_SurjectionProperties, Zenon

\* Every rank up to the size of the set is that of an element.
LEMMA EveryRankTaken ==
    ASSUME NEW S, IsFiniteSet(S), NEW R, StrictOrder(R, S),
           NEW i \in 0 .. Cardinality(S) - 1
    PROVE  \E x \in S : RankIn(R, S, x) = i
<1> PICK n : n = Cardinality(S)
  OBVIOUS
<1> PICK T : T = 0 .. n - 1
  OBVIOUS
<1> PICK r : r = [x \in S |-> RankIn(R, S, x)]
  OBVIOUS
<1>1. n \in Nat
  BY FS_CardinalityType
<1>2. r \in [S -> T]
  BY RankTyped
<1>3. \A x, y \in S : r[x] = r[y] => x = y
  <2> SUFFICES ASSUME NEW x \in S, NEW y \in S, RankIn(R, S, x) = RankIn(R, S, y), x # y
               PROVE  FALSE
    OBVIOUS
  <2>1. <<x, y>> \in R \/ <<y, x>> \in R
    BY DEF StrictOrder
  <2> PICK rank : rank = RankIn(R, S, x)
    OBVIOUS
  <2>2. rank \in 0 .. n - 1
    BY RankTyped
  <2>3. rank < rank
    BY <2>1, RankGrows
  <2>4. QED
    BY <1>1, <2>2, <2>3
<1>4. r \in Injection(S, T)
  BY <1>2, <1>3, Fun_IsInj
<1>5. IsFiniteSet(T) /\ Cardinality(T) = n
  <2>1. 0 \in Int /\ n - 1 \in Int /\ (IF 0 > n - 1 THEN 0 ELSE n - 1 - 0 + 1) = n
    BY <1>1
  <2>2. QED
    BY <1>1, <2>1, FS_Interval
<1>6. r \in Surjection(S, T)
  BY <1>1, <1>4, <1>5, FS_Injection
<1>7. \A t \in T : \E x \in S : r[x] = t
  BY ONLY <1>6, EveryValueTaken
<1>8. QED
  BY <1>7
=============================================================================
