--------------------------- MODULE SelectionProofs ---------------------------
(***************************************************************************)
(* Theorems about Selection, for any texts and constraints and any number  *)
(* of candidates, and the lemmas on SemVer and Constraint they rest on,    *)
(* with proofs checked by TLAPS.                                           *)
(***************************************************************************)
EXTENDS Selection, WellFoundedInduction, TLAPS

-----------------------------------------------------------------------------
(* Signs and first differences.                                            *)

\* What a comparison returns.
Signs == {-1, 0, 1}

\* Sign turns round with its arguments and orders the integers.
LEMMA SignOrders ==
    ASSUME NEW x \in Int, NEW y \in Int, NEW z \in Int
    PROVE  /\ Sign(x, y) \in Signs
           /\ Sign(x, y) = -Sign(y, x)
           /\ Sign(x, y) = 0 <=> x = y
           /\ Sign(x, y) < 0 <=> x < y
           /\ Sign(x, y) <= 0 /\ Sign(y, z) <= 0 => Sign(x, z) <= 0
BY DEF Sign, Signs

\* A set of numbers has a smallest.
LEMMA SmallestOf ==
    ASSUME NEW S, S \subseteq Nat, S # {}
    PROVE  \E x \in S : \A y \in S : x <= y
<1> DEFINE Less == {p \in Nat \X Nat : p[1] < p[2]}
<1>1. \E x \in S : \A y \in S : <<y, x>> \notin Less
  <2>1. IsWellFoundedOn(Less, Nat)
    BY NatLessThanWellFounded DEF OpToRel
  <2>2. QED
    BY <2>1, WFMin
<1>2. \A x, y \in Nat : <<y, x>> \notin Less => x <= y
  OBVIOUS
<1>3. QED
  BY <1>1, <1>2

\* With no difference the rest decides.
LEMMA NoDifference ==
    ASSUME NEW signs, NEW rest, \A i \in DOMAIN signs : signs[i] = 0
    PROVE  FirstDifference(signs, rest) = rest
BY DEF FirstDifference

\* Otherwise the smallest place at which there is one.
LEMMA DifferenceAt ==
    ASSUME NEW signs, NEW rest, DOMAIN signs \subseteq Nat,
           NEW i \in DOMAIN signs, signs[i] # 0,
           \A j \in DOMAIN signs : j < i => signs[j] = 0
    PROVE  FirstDifference(signs, rest) = signs[i]
<1> DEFINE D == {j \in DOMAIN signs : signs[j] # 0}
           c == CHOOSE j \in D : \A k \in D : j <= k
<1>1. i \in D /\ D \subseteq Nat
  OBVIOUS
<1>2. \A k \in D : i <= k
  <2> SUFFICES ASSUME NEW k \in D PROVE i <= k
    OBVIOUS
  <2>1. k \in Nat /\ i \in Nat /\ ~(k < i)
    BY <1>1
  <2>2. QED
    BY <2>1
<1>3. c \in D /\ \A k \in D : c <= k
  <2>1. \E j \in D : \A k \in D : j <= k
    BY <1>1, <1>2
  <2>2. QED
    BY <2>1
<1>4. c <= i /\ i <= c /\ c \in Nat /\ i \in Nat
  BY <1>1, <1>2, <1>3
<1>5. c = i
  BY <1>4
<1>6. QED
  BY <1>1, <1>5 DEF FirstDifference
-----------------------------------------------------------------------------
(* Cores: three numbers, compared from the left.                           *)

Cores == [1 .. 3 -> Nat]

CoreSign(c, d) == FirstDifference([i \in 1 .. 3 |-> Sign(c[i], d[i])], 0)

\* Comparing cores is comparing their first numbers that differ.
LEMMA CoresCompare ==
    ASSUME NEW c \in Cores, NEW d \in Cores
    PROVE  /\ CoreSign(c, d) \in Signs
           /\ CoreSign(c, d) < 0 <=> Below(c, d)
           /\ CoreSign(c, d) > 0 <=> Below(d, c)
           /\ CoreSign(c, d) = 0 <=> c = d
<1> DEFINE s == [i \in 1 .. 3 |-> Sign(c[i], d[i])]
<1>1. /\ c[1] \in Nat /\ c[2] \in Nat /\ c[3] \in Nat
      /\ d[1] \in Nat /\ d[2] \in Nat /\ d[3] \in Nat
  BY DEF Cores
<1>2. /\ DOMAIN s = {1, 2, 3} /\ DOMAIN s \subseteq Nat
      /\ s[1] = Sign(c[1], d[1]) /\ s[2] = Sign(c[2], d[2]) /\ s[3] = Sign(c[3], d[3])
  OBVIOUS
<1>3. c = d <=> (c[1] = d[1] /\ c[2] = d[2] /\ c[3] = d[3])
  BY DEF Cores
<1>4. FirstDifference(s, 0) = IF s[1] # 0 THEN s[1]
                              ELSE IF s[2] # 0 THEN s[2] ELSE s[3]
  <2> HIDE DEF s
  <2>1. CASE s[1] # 0
    <3>1. \A j \in DOMAIN s : j < 1 => s[j] = 0
      BY <1>2
    <3>2. QED
      BY <2>1, <3>1, <1>2, DifferenceAt
  <2>2. CASE s[1] = 0 /\ s[2] # 0
    <3>1. \A j \in DOMAIN s : j < 2 => s[j] = 0
      BY <2>2, <1>2
    <3>2. QED
      BY <2>2, <3>1, <1>2, DifferenceAt
  <2>3. CASE s[1] = 0 /\ s[2] = 0 /\ s[3] # 0
    <3>1. \A j \in DOMAIN s : j < 3 => s[j] = 0
      BY <2>3, <1>2
    <3>2. QED
      BY <2>3, <3>1, <1>2, DifferenceAt
  <2>4. CASE s[1] = 0 /\ s[2] = 0 /\ s[3] = 0
    <3>1. \A j \in DOMAIN s : s[j] = 0
      BY <2>4, <1>2
    <3>2. QED
      BY <2>4, <3>1, NoDifference
  <2>5. QED
    BY <2>1, <2>2, <2>3, <2>4
<1>5. CoreSign(c, d) = IF s[1] # 0 THEN s[1] ELSE IF s[2] # 0 THEN s[2] ELSE s[3]
  BY <1>4 DEF CoreSign
<1> HIDE DEF s
<1>6. QED
  BY <1>1, <1>2, <1>3, <1>5 DEF Sign, Signs, Below

\* So it is the lexicographic order.
LEMMA BelowIsOrder ==
    ASSUME NEW c \in Cores, NEW d \in Cores, NEW e \in Cores
    PROVE  /\ ~Below(c, c)
           /\ Below(c, d) \/ Below(d, c) \/ c = d
           /\ ~(Below(c, d) /\ Below(d, c))
           /\ Below(c, d) /\ Below(d, e) => Below(c, e)
<1>1. /\ c[1] \in Nat /\ c[2] \in Nat /\ c[3] \in Nat
      /\ d[1] \in Nat /\ d[2] \in Nat /\ d[3] \in Nat
      /\ e[1] \in Nat /\ e[2] \in Nat /\ e[3] \in Nat
  BY DEF Cores
<1>2. c = d <=> (c[1] = d[1] /\ c[2] = d[2] /\ c[3] = d[3])
  BY DEF Cores
<1>3. QED
  BY <1>1, <1>2 DEF Below
-----------------------------------------------------------------------------
(* Prereleases: identifiers compared from the left, as if each ended in      *)
(* identifiers 0, below all others.                                          *)

Places == Nat \ {0}

IdAt(p, i) == IF i \in DOMAIN p THEN p[i] ELSE 0

IdSign(x, y) == IF x = 0 \/ y = 0 THEN Sign(x, y) ELSE CompareId(x, y)

\* Numbers by value, before words in byte order.
LEMMA IdsCompare ==
    ASSUME NEW x \in Ids \cup {0}, NEW y \in Ids \cup {0}, NEW z \in Ids \cup {0}
    PROVE  /\ IdSign(x, y) \in Signs
           /\ IdSign(x, y) = -IdSign(y, x)
           /\ IdSign(x, y) <= 0 /\ IdSign(y, z) <= 0 => IdSign(x, z) <= 0
<1> DEFINE Number(i) == i # 0 /\ Numeric(i)
           Value(i) == IF Number(i) THEN Atoi[i] ELSE i
           Kind(i) == IF i = 0 THEN 0 ELSE IF Number(i) THEN 1 ELSE 2
<1>1. \A i \in Ids \cup {0} : i \in Nat /\ Value(i) \in Int /\ (i # 0 => i \in Ids)
  BY IdentifiersOK DEF Numeric
<1>2. \A i, j \in Ids \cup {0} :
        IdSign(i, j) = IF Kind(i) < Kind(j) THEN -1
                       ELSE IF Kind(i) > Kind(j) THEN 1 ELSE Sign(Value(i), Value(j))
  <2> SUFFICES ASSUME NEW i \in Ids \cup {0}, NEW j \in Ids \cup {0}
               PROVE  IdSign(i, j) = IF Kind(i) < Kind(j) THEN -1
                         ELSE IF Kind(i) > Kind(j) THEN 1 ELSE Sign(Value(i), Value(j))
    OBVIOUS
  <2>1. i \in Nat /\ j \in Nat
    BY <1>1
  <2>2. CASE i = 0 \/ j = 0
    BY <2>1, <2>2 DEF IdSign, Sign
  <2>3. CASE i # 0 /\ j # 0
    BY <2>1, <2>3 DEF IdSign, CompareId
  <2>4. QED
    BY <2>2, <2>3
<1>3. \A i \in Ids \cup {0} : Kind(i) \in Int
  OBVIOUS
<1> HIDE DEF Kind, Value
<1> PICK a \in Int, b \in Int, c \in Int : a = Kind(x) /\ b = Kind(y) /\ c = Kind(z)
  BY <1>3
<1> PICK u \in Int, v \in Int, w \in Int : u = Value(x) /\ v = Value(y) /\ w = Value(z)
  BY <1>1
<1>4. /\ IdSign(x, y) = IF a < b THEN -1 ELSE IF a > b THEN 1 ELSE Sign(u, v)
      /\ IdSign(y, x) = IF b < a THEN -1 ELSE IF b > a THEN 1 ELSE Sign(v, u)
      /\ IdSign(y, z) = IF b < c THEN -1 ELSE IF b > c THEN 1 ELSE Sign(v, w)
      /\ IdSign(x, z) = IF a < c THEN -1 ELSE IF a > c THEN 1 ELSE Sign(u, w)
  BY <1>2
<1>5. QED
  BY <1>4 DEF Sign, Signs

\* Comparing two identifiers the other way round turns the sign.
LEMMA IdsTurn ==
    ASSUME NEW x \in Ids \cup {0}, NEW y \in Ids \cup {0}
    PROVE  \/ IdSign(x, y) = 0 /\ IdSign(y, x) = 0
           \/ IdSign(x, y) = -1 /\ IdSign(y, x) = 1
           \/ IdSign(x, y) = 1 /\ IdSign(y, x) = -1
<1> PICK a \in Signs, b \in Signs : a = IdSign(x, y) /\ b = IdSign(y, x)
  BY IdsCompare
<1>1. a = -b
  BY IdsCompare
<1>2. QED
  BY <1>1 DEF Signs

\* A prerelease has an identifier at each place it has, and 0 after them.
LEMMA IdAtTyped ==
    ASSUME NEW p \in Seq(Ids), NEW i \in Places
    PROVE  /\ IdAt(p, i) \in Ids \cup {0}
           /\ IdAt(p, i) = 0 <=> i > Len(p)
BY IdentifiersOK DEF IdAt, Places

\* The places at which two prereleases are first told apart, or none.
PreBelow(p, q) ==
    \E i \in Places : /\ IdSign(IdAt(p, i), IdAt(q, i)) < 0
                      /\ \A j \in Places : j < i => IdSign(IdAt(p, j), IdAt(q, j)) = 0

PreSame(p, q) == \A i \in Places : IdSign(IdAt(p, i), IdAt(q, i)) = 0

\* ComparePrerelease finds that place, the end of the shorter one included.
LEMMA PrereleasesCompare ==
    ASSUME NEW p \in Seq(Ids), NEW q \in Seq(Ids)
    PROVE  \/ ComparePrerelease(p, q) = -1 /\ PreBelow(p, q)
           \/ ComparePrerelease(p, q) = 0 /\ PreSame(p, q)
           \/ ComparePrerelease(p, q) = 1 /\ PreBelow(q, p)
<1> DEFINE s == [i \in DOMAIN p \cap DOMAIN q |-> CompareId(p[i], q[i])]
           D == {i \in DOMAIN s : s[i] # 0}
<1>1. /\ DOMAIN s \subseteq Places /\ DOMAIN s \subseteq Nat
      /\ \A i \in Places : i \in DOMAIN s <=> i <= Len(p) /\ i <= Len(q)
      /\ Len(p) \in Nat /\ Len(q) \in Nat
  BY DEF Places
<1>2. ComparePrerelease(p, q) = FirstDifference(s, Sign(Len(p), Len(q)))
  BY DEF ComparePrerelease
<1>3. \A i \in DOMAIN s : s[i] = IdSign(IdAt(p, i), IdAt(q, i))
  BY IdentifiersOK DEF IdAt, IdSign
<1>4. \A i \in Places :
        \/ IdSign(IdAt(p, i), IdAt(q, i)) = 0 /\ IdSign(IdAt(q, i), IdAt(p, i)) = 0
        \/ IdSign(IdAt(p, i), IdAt(q, i)) = -1 /\ IdSign(IdAt(q, i), IdAt(p, i)) = 1
        \/ IdSign(IdAt(p, i), IdAt(q, i)) = 1 /\ IdSign(IdAt(q, i), IdAt(p, i)) = -1
  BY IdAtTyped, IdsTurn
<1>5. \A j \in DOMAIN s : j \notin D =>
        IdSign(IdAt(p, j), IdAt(q, j)) = 0 /\ IdSign(IdAt(q, j), IdAt(p, j)) = 0
  <2> SUFFICES ASSUME NEW j \in DOMAIN s, j \notin D
               PROVE  /\ IdSign(IdAt(p, j), IdAt(q, j)) = 0
                      /\ IdSign(IdAt(q, j), IdAt(p, j)) = 0
    OBVIOUS
  <2>1. IdSign(IdAt(p, j), IdAt(q, j)) = 0
    BY <1>3
  <2>2. QED
    BY <2>1, <1>1, <1>4
<1>6. CASE D # {}
  <2>1. PICK i \in D : \A j \in D : i <= j
    BY <1>6, <1>1, SmallestOf
  <2>2. i \in DOMAIN s /\ i \in Places /\ i \in Nat /\ s[i] # 0
    BY <1>1
  <2>3. \A j \in DOMAIN s : j < i => j \notin D
    BY <2>1, <2>2, <1>1
  <2>4. FirstDifference(s, Sign(Len(p), Len(q))) = s[i]
    <3>1. \A j \in DOMAIN s : j < i => s[j] = 0
      BY <2>3
    <3> HIDE DEF s
    <3>2. QED
      BY <1>1, <2>2, <3>1, DifferenceAt
  <2>5. \A j \in Places : j < i =>
          IdSign(IdAt(p, j), IdAt(q, j)) = 0 /\ IdSign(IdAt(q, j), IdAt(p, j)) = 0
    <3> SUFFICES ASSUME NEW j \in Places, j < i PROVE j \in DOMAIN s
      BY <1>5, <2>3
    <3>1. QED
      BY <1>1, <2>2 DEF Places
  <2>6. s[i] = IdSign(IdAt(p, i), IdAt(q, i))
    BY <1>3, <2>2
  <2>7. CASE s[i] < 0
    <3>1. s[i] = -1
      BY <2>6, <2>7, <2>2, <1>4
    <3>2. PreBelow(p, q)
      BY <2>2, <2>5, <2>6, <2>7 DEF PreBelow
    <3>3. QED
      BY <3>1, <3>2, <1>2, <2>4
  <2>8. CASE ~(s[i] < 0)
    <3>1. s[i] = 1 /\ IdSign(IdAt(q, i), IdAt(p, i)) < 0
      BY <2>6, <2>8, <2>2, <1>4
    <3>2. PreBelow(q, p)
      BY <2>2, <2>5, <3>1 DEF PreBelow
    <3>3. QED
      BY <3>1, <3>2, <1>2, <2>4
  <2>9. QED
    BY <2>7, <2>8
<1>7. CASE D = {}
  <2>1. FirstDifference(s, Sign(Len(p), Len(q))) = Sign(Len(p), Len(q))
    <3>1. \A j \in DOMAIN s : s[j] = 0
      BY <1>7
    <3> HIDE DEF s
    <3>2. QED
      BY <3>1, NoDifference
  <2>2. \A j \in DOMAIN s :
          IdSign(IdAt(p, j), IdAt(q, j)) = 0 /\ IdSign(IdAt(q, j), IdAt(p, j)) = 0
    BY <1>5, <1>7
  <2>3. CASE Len(p) < Len(q)
    <3> PICK i : i = Len(p) + 1
      OBVIOUS
    <3>1. i \in Places /\ \A j \in Places : j < i => j \in DOMAIN s
      BY <1>1, <2>3 DEF Places
    <3>2. IdAt(p, i) = 0 /\ IdAt(q, i) # 0 /\ IdAt(q, i) \in Nat
      <4>1. i > Len(p) /\ ~(i > Len(q))
        BY <1>1, <2>3
      <4>2. IdAt(p, i) = 0 /\ IdAt(q, i) # 0 /\ IdAt(q, i) \in Ids \cup {0}
        BY <3>1, <4>1, IdAtTyped
      <4>3. QED
        BY <4>2, IdentifiersOK
    <3>3. IdSign(IdAt(p, i), IdAt(q, i)) < 0
      BY <3>2 DEF IdSign, Sign
    <3>4. PreBelow(p, q)
      BY <2>2, <3>1, <3>3 DEF PreBelow
    <3>5. Sign(Len(p), Len(q)) = -1
      BY <2>3 DEF Sign
    <3>6. QED
      BY <1>2, <2>1, <3>4, <3>5
  <2>4. CASE Len(q) < Len(p)
    <3> PICK i : i = Len(q) + 1
      OBVIOUS
    <3>1. i \in Places /\ \A j \in Places : j < i => j \in DOMAIN s
      BY <1>1, <2>4 DEF Places
    <3>2. IdAt(q, i) = 0 /\ IdAt(p, i) # 0 /\ IdAt(p, i) \in Nat
      <4>1. i > Len(q) /\ ~(i > Len(p))
        BY <1>1, <2>4
      <4>2. IdAt(q, i) = 0 /\ IdAt(p, i) # 0 /\ IdAt(p, i) \in Ids \cup {0}
        BY <3>1, <4>1, IdAtTyped
      <4>3. QED
        BY <4>2, IdentifiersOK
    <3>3. IdSign(IdAt(q, i), IdAt(p, i)) < 0
      BY <3>2 DEF IdSign, Sign
    <3>4. PreBelow(q, p)
      BY <2>2, <3>1, <3>3 DEF PreBelow
    <3>5. Sign(Len(p), Len(q)) = 1
      BY <1>1, <2>4 DEF Sign
    <3>6. QED
      BY <1>2, <2>1, <3>4, <3>5
  <2>5. CASE Len(q) = Len(p)
    <3>1. Sign(Len(p), Len(q)) = 0
      BY <1>1, <2>5 DEF Sign
    <3>2. PreSame(p, q)
      <4> SUFFICES ASSUME NEW i \in Places
                   PROVE  IdSign(IdAt(p, i), IdAt(q, i)) = 0
        BY DEF PreSame
      <4>1. CASE i \in DOMAIN s
        BY <4>1, <2>2
      <4>2. CASE i \notin DOMAIN s
        <5>1. IdAt(p, i) = 0 /\ IdAt(q, i) = 0
          BY <1>1, <4>2, <2>5 DEF IdAt
        <5>2. QED
          BY <5>1 DEF IdSign, Sign
      <4>3. QED
        BY <4>1, <4>2
    <3>3. QED
      BY <1>2, <2>1, <3>1, <3>2
  <2>6. QED
    BY <1>1, <2>3, <2>4, <2>5
<1>8. QED
  BY <1>6, <1>7

\* Identifiers are strictly ordered, and the equal ones alike.
LEMMA IdsStrict ==
    ASSUME NEW x \in Ids \cup {0}, NEW y \in Ids \cup {0}, NEW z \in Ids \cup {0}
    PROVE  /\ IdSign(x, y) = 0 /\ IdSign(y, z) = 0 => IdSign(x, z) = 0
           /\ IdSign(x, y) < 0 /\ IdSign(y, z) = 0 => IdSign(x, z) < 0
           /\ IdSign(x, y) = 0 /\ IdSign(y, z) < 0 => IdSign(x, z) < 0
           /\ IdSign(x, y) < 0 /\ IdSign(y, z) < 0 => IdSign(x, z) < 0
<1> PICK a \in Signs, b \in Signs, c \in Signs :
      a = IdSign(x, y) /\ b = IdSign(y, z) /\ c = IdSign(x, z)
  BY IdsCompare
<1>1. a = -IdSign(y, x) /\ b = -IdSign(z, y) /\ c = -IdSign(z, x)
  BY IdsTurn
<1> PICK d \in Signs, e \in Signs, g \in Signs :
      d = IdSign(y, x) /\ e = IdSign(z, y) /\ g = IdSign(z, x)
  BY IdsCompare
<1>2. /\ a <= 0 /\ b <= 0 => c <= 0
      /\ e <= 0 /\ d <= 0 => g <= 0
      /\ g <= 0 /\ a <= 0 => e <= 0
      /\ b <= 0 /\ g <= 0 => d <= 0
  BY IdsCompare
<1>3. a = -d /\ b = -e /\ c = -g
  BY <1>1
<1>4. /\ a = 0 /\ b = 0 => c = 0
      /\ a < 0 /\ b = 0 => c < 0
      /\ a = 0 /\ b < 0 => c < 0
      /\ a < 0 /\ b < 0 => c < 0
  BY <1>2, <1>3 DEF Signs
<1>5. QED
  BY <1>4

\* The first place of two is the first place at which three are told apart.
LEMMA PreTransitive ==
    ASSUME NEW p \in Seq(Ids), NEW q \in Seq(Ids), NEW r \in Seq(Ids),
           PreBelow(p, q) \/ PreSame(p, q), PreBelow(q, r) \/ PreSame(q, r)
    PROVE  PreBelow(p, r) \/ PreSame(p, r)
<1> DEFINE A(i) == IdSign(IdAt(p, i), IdAt(q, i))
           B(i) == IdSign(IdAt(q, i), IdAt(r, i))
           C(i) == IdSign(IdAt(p, i), IdAt(r, i))
<1>1. \A i \in Places : /\ A(i) = 0 /\ B(i) = 0 => C(i) = 0
                        /\ A(i) < 0 /\ B(i) = 0 => C(i) < 0
                        /\ A(i) = 0 /\ B(i) < 0 => C(i) < 0
                        /\ A(i) < 0 /\ B(i) < 0 => C(i) < 0
  BY IdAtTyped, IdsStrict
<1>2. /\ PreBelow(p, q) <=> \E i \in Places : A(i) < 0 /\ \A j \in Places : j < i => A(j) = 0
      /\ PreBelow(q, r) <=> \E i \in Places : B(i) < 0 /\ \A j \in Places : j < i => B(j) = 0
      /\ PreBelow(p, r) <=> \E i \in Places : C(i) < 0 /\ \A j \in Places : j < i => C(j) = 0
      /\ PreSame(p, q) <=> \A i \in Places : A(i) = 0
      /\ PreSame(q, r) <=> \A i \in Places : B(i) = 0
      /\ PreSame(p, r) <=> \A i \in Places : C(i) = 0
  BY DEF PreBelow, PreSame
<1> HIDE DEF A, B, C
<1>3. CASE PreSame(p, q) /\ PreSame(q, r)
  BY <1>1, <1>2, <1>3
<1>4. CASE PreBelow(p, q) /\ PreSame(q, r)
  BY <1>1, <1>2, <1>4
<1>5. CASE PreSame(p, q) /\ PreBelow(q, r)
  BY <1>1, <1>2, <1>5
<1>6. CASE PreBelow(p, q) /\ PreBelow(q, r)
  <2> PICK i \in Places : A(i) < 0 /\ \A j \in Places : j < i => A(j) = 0
    BY <1>2, <1>6
  <2> PICK k \in Places : B(k) < 0 /\ \A j \in Places : j < k => B(j) = 0
    BY <1>2, <1>6
  <2>1. i \in Nat /\ k \in Nat
    BY DEF Places
  <2>2. CASE i < k
    <3>1. C(i) < 0
      BY <1>1, <2>2
    <3>2. \A j \in Places : j < i => C(j) = 0
      <4> SUFFICES ASSUME NEW j \in Places, j < i PROVE C(j) = 0
        OBVIOUS
      <4>1. j < k
        BY <2>1, <2>2 DEF Places
      <4>2. QED
        BY <1>1, <4>1
    <3>3. QED
      BY <1>2, <3>1, <3>2
  <2>3. CASE k < i
    <3>1. C(k) < 0
      BY <1>1, <2>3
    <3>2. \A j \in Places : j < k => C(j) = 0
      <4> SUFFICES ASSUME NEW j \in Places, j < k PROVE C(j) = 0
        OBVIOUS
      <4>1. j < i
        BY <2>1, <2>3 DEF Places
      <4>2. QED
        BY <1>1, <4>1
    <3>3. QED
      BY <1>2, <3>1, <3>2
  <2>4. CASE i = k
    <3>1. C(i) < 0
      BY <1>1, <2>4
    <3>2. \A j \in Places : j < i => C(j) = 0
      BY <1>1, <2>4
    <3>3. QED
      BY <1>2, <3>1, <3>2
  <2>5. QED
    BY <2>1, <2>2, <2>3, <2>4
<1>7. QED
  BY <1>3, <1>4, <1>5, <1>6

\* Of two prereleases one is below the other, or they are the same, and only one.
LEMMA PreApart ==
    ASSUME NEW p \in Seq(Ids), NEW q \in Seq(Ids)
    PROVE  /\ ~(PreBelow(p, q) /\ PreBelow(q, p))
           /\ ~(PreBelow(p, q) /\ PreSame(p, q))
           /\ ~(PreBelow(p, q) /\ PreSame(q, p))
           /\ PreSame(p, q) => PreSame(q, p)
<1> DEFINE A(i) == IdSign(IdAt(p, i), IdAt(q, i))
           B(i) == IdSign(IdAt(q, i), IdAt(p, i))
<1>1. \A i \in Places : \/ A(i) = 0 /\ B(i) = 0
                        \/ A(i) = -1 /\ B(i) = 1
                        \/ A(i) = 1 /\ B(i) = -1
  BY IdAtTyped, IdsTurn
<1>2. /\ PreBelow(p, q) <=> \E i \in Places : A(i) < 0 /\ \A j \in Places : j < i => A(j) = 0
      /\ PreBelow(q, p) <=> \E i \in Places : B(i) < 0 /\ \A j \in Places : j < i => B(j) = 0
      /\ PreSame(p, q) <=> \A i \in Places : A(i) = 0
      /\ PreSame(q, p) <=> \A i \in Places : B(i) = 0
  BY DEF PreBelow, PreSame
<1> HIDE DEF A, B
<1>3. PreSame(p, q) <=> PreSame(q, p)
  BY <1>1, <1>2
<1>4. ~(PreBelow(p, q) /\ PreSame(p, q))
  BY <1>2
<1>5. ASSUME PreBelow(p, q), PreBelow(q, p) PROVE FALSE
  <2> PICK i \in Places : A(i) < 0 /\ \A j \in Places : j < i => A(j) = 0
    BY <1>2, <1>5
  <2> PICK k \in Places : B(k) < 0 /\ \A j \in Places : j < k => B(j) = 0
    BY <1>2, <1>5
  <2>1. i < k \/ k < i \/ i = k
    BY DEF Places
  <2>2. QED
    BY <1>1, <2>1
<1>6. QED
  BY <1>3, <1>4, <1>5

\* ComparePrerelease is an order, and its sign turns round.
LEMMA PrereleaseOrder ==
    ASSUME NEW p \in Seq(Ids), NEW q \in Seq(Ids), NEW r \in Seq(Ids)
    PROVE  /\ ComparePrerelease(p, q) \in Signs
           /\ ComparePrerelease(p, q) = -ComparePrerelease(q, p)
           /\ ComparePrerelease(p, q) <= 0 /\ ComparePrerelease(q, r) <= 0
                => ComparePrerelease(p, r) <= 0
<1>1. \A x, y \in Seq(Ids) :
        \/ ComparePrerelease(x, y) = -1 /\ PreBelow(x, y)
        \/ ComparePrerelease(x, y) = 0 /\ PreSame(x, y)
        \/ ComparePrerelease(x, y) = 1 /\ PreBelow(y, x)
  BY PrereleasesCompare
<1>2. \A x, y \in Seq(Ids) : /\ ~(PreBelow(x, y) /\ PreBelow(y, x))
                             /\ ~(PreBelow(x, y) /\ PreSame(x, y))
                             /\ ~(PreBelow(x, y) /\ PreSame(y, x))
                             /\ PreSame(x, y) => PreSame(y, x)
  BY PreApart
<1>3. ComparePrerelease(p, q) \in Signs
  BY <1>1 DEF Signs
<1>4. ComparePrerelease(p, q) = -ComparePrerelease(q, p)
  <2>1. \/ ComparePrerelease(p, q) = -1 /\ PreBelow(p, q)
        \/ ComparePrerelease(p, q) = 0 /\ PreSame(p, q)
        \/ ComparePrerelease(p, q) = 1 /\ PreBelow(q, p)
    BY <1>1
  <2>2. \/ ComparePrerelease(q, p) = -1 /\ PreBelow(q, p)
        \/ ComparePrerelease(q, p) = 0 /\ PreSame(q, p)
        \/ ComparePrerelease(q, p) = 1 /\ PreBelow(p, q)
    BY <1>1
  <2>3. /\ ~(PreBelow(p, q) /\ PreBelow(q, p))
        /\ ~(PreBelow(p, q) /\ PreSame(p, q)) /\ ~(PreBelow(p, q) /\ PreSame(q, p))
        /\ ~(PreBelow(q, p) /\ PreSame(q, p)) /\ ~(PreBelow(q, p) /\ PreSame(p, q))
    BY <1>2
  <2>4. QED
    BY ONLY <2>1, <2>2, <2>3
<1>5. ASSUME ComparePrerelease(p, q) <= 0, ComparePrerelease(q, r) <= 0
      PROVE  ComparePrerelease(p, r) <= 0
  <2>1. PreBelow(p, q) \/ PreSame(p, q)
    BY <1>1, <1>5
  <2>2. PreBelow(q, r) \/ PreSame(q, r)
    BY <1>1, <1>5
  <2>3. PreBelow(p, r) \/ PreSame(p, r)
    BY <2>1, <2>2, PreTransitive
  <2>4. ComparePrerelease(p, r) # 1
    BY <1>1, <1>2, <2>3
  <2>5. QED
    BY <1>1, <2>4
<1>6. QED
  BY <1>3, <1>4, <1>5
-----------------------------------------------------------------------------
(* Versions.                                                               *)

AVersion(a) == a.core \in Cores /\ a.pre \in Seq(Ids)

\* What tells versions of one core apart.
PreSign(p, q) == CASE p = << >> /\ q # << >> -> 1
                   [] p # << >> /\ q = << >> -> -1
                   [] OTHER -> ComparePrerelease(p, q)

\* The numbers decide, then the prereleases.
LEMMA CompareParts ==
    ASSUME NEW a, NEW b
    PROVE  Compare(a, b) = IF a.core # b.core THEN CoreSign(a.core, b.core)
                           ELSE PreSign(a.pre, b.pre)
BY DEF Compare, CoreSign, PreSign

\* The comparison of prereleases is a total order.
LEMMA PreSignOrder ==
    ASSUME NEW p \in Seq(Ids), NEW q \in Seq(Ids), NEW r \in Seq(Ids)
    PROVE  /\ PreSign(p, q) \in Signs
           /\ PreSign(p, q) = -PreSign(q, p)
           /\ PreSign(p, q) <= 0 /\ PreSign(q, r) <= 0 => PreSign(p, r) <= 0
<1>1. /\ ComparePrerelease(p, q) \in Signs
      /\ ComparePrerelease(p, q) = -ComparePrerelease(q, p)
      /\ ComparePrerelease(p, q) <= 0 /\ ComparePrerelease(q, r) <= 0
           => ComparePrerelease(p, r) <= 0
  BY PrereleaseOrder
<1>2. QED
  BY <1>1 DEF PreSign, Signs

\* Compare orders versions.
LEMMA VersionOrder ==
    ASSUME NEW a, NEW b, NEW c, AVersion(a), AVersion(b), AVersion(c)
    PROVE  /\ Compare(a, b) \in Signs
           /\ Compare(a, b) = -Compare(b, a)
           /\ Compare(a, b) <= 0 /\ Compare(b, c) <= 0 => Compare(a, c) <= 0
<1> PICK x \in Cores, y \in Cores, z \in Cores : x = a.core /\ y = b.core /\ z = c.core
  BY DEF AVersion
<1> PICK p \in Seq(Ids), q \in Seq(Ids), r \in Seq(Ids) : p = a.pre /\ q = b.pre /\ r = c.pre
  BY DEF AVersion
<1>1. /\ Compare(a, b) = IF x # y THEN CoreSign(x, y) ELSE PreSign(p, q)
      /\ Compare(b, a) = IF y # x THEN CoreSign(y, x) ELSE PreSign(q, p)
      /\ Compare(b, c) = IF y # z THEN CoreSign(y, z) ELSE PreSign(q, r)
      /\ Compare(a, c) = IF x # z THEN CoreSign(x, z) ELSE PreSign(p, r)
  BY CompareParts
<1>2. /\ PreSign(p, q) \in Signs /\ PreSign(q, r) \in Signs /\ PreSign(p, r) \in Signs
      /\ PreSign(p, q) = -PreSign(q, p)
      /\ PreSign(p, q) <= 0 /\ PreSign(q, r) <= 0 => PreSign(p, r) <= 0
  BY PreSignOrder
<1>3. \A d, e \in Cores : /\ CoreSign(d, e) \in Signs
                          /\ CoreSign(d, e) < 0 <=> Below(d, e)
                          /\ CoreSign(d, e) > 0 <=> Below(e, d)
                          /\ CoreSign(d, e) = 0 <=> d = e
  BY CoresCompare
<1>4. CoreSign(x, y) = -CoreSign(y, x)
  <2> PICK m \in Signs, n \in Signs : m = CoreSign(x, y) /\ n = CoreSign(y, x)
    BY <1>3
  <2>1. (m < 0 <=> n > 0) /\ (m > 0 <=> n < 0)
    BY <1>3
  <2>2. QED
    BY <2>1 DEF Signs
<1>5. Compare(a, b) \in Signs /\ Compare(a, b) = -Compare(b, a)
  BY <1>1, <1>2, <1>3, <1>4
<1>6. ASSUME Compare(a, b) <= 0, Compare(b, c) <= 0 PROVE Compare(a, c) <= 0
  <2>1. x = y \/ Below(x, y)
    BY <1>1, <1>3, <1>6 DEF Signs
  <2>2. y = z \/ Below(y, z)
    BY <1>1, <1>3, <1>6 DEF Signs
  <2>3. CASE x = y /\ y = z
    BY <1>1, <1>2, <1>6, <2>3
  <2>4. CASE Below(x, y) \/ Below(y, z)
    <3>1. Below(x, z)
      BY <2>1, <2>2, <2>4, BelowIsOrder
    <3>2. x # z
      BY <3>1, BelowIsOrder
    <3>3. CoreSign(x, z) < 0
      BY <3>1, <1>3
    <3>4. CoreSign(x, z) <= 0
      BY <3>3, <1>3 DEF Signs
    <3>5. QED
      BY <1>1, <3>2, <3>4
  <2>5. QED
    BY <2>1, <2>2, <2>3, <2>4
<1>7. QED
  BY <1>5, <1>6

\* What strict comparisons add up to.
LEMMA VersionStrict ==
    ASSUME NEW a, NEW b, NEW c, AVersion(a), AVersion(b), AVersion(c)
    PROVE  /\ Compare(a, a) = 0
           /\ Compare(a, b) < 0 <=> Compare(b, a) > 0
           /\ Compare(a, b) = 0 <=> Compare(b, a) = 0
           /\ Compare(a, b) < 0 /\ Compare(b, c) <= 0 => Compare(a, c) < 0
           /\ Compare(a, b) <= 0 /\ Compare(b, c) < 0 => Compare(a, c) < 0
           /\ Compare(a, b) = 0 /\ Compare(b, c) = 0 => Compare(a, c) = 0
<1>1. \A x, y \in {a, b, c} : Compare(x, y) \in Signs /\ Compare(x, y) = -Compare(y, x)
  BY VersionOrder
<1>2. \A x, y, z \in {a, b, c} :
        Compare(x, y) <= 0 /\ Compare(y, z) <= 0 => Compare(x, z) <= 0
  BY VersionOrder
<1> PICK aa \in Signs, ab \in Signs, ba \in Signs, bc \in Signs, cb \in Signs,
         ac \in Signs, ca \in Signs :
      /\ aa = Compare(a, a) /\ ab = Compare(a, b) /\ ba = Compare(b, a)
      /\ bc = Compare(b, c) /\ cb = Compare(c, b)
      /\ ac = Compare(a, c) /\ ca = Compare(c, a)
  BY <1>1
<1>3. aa = -aa /\ ab = -ba /\ bc = -cb /\ ac = -ca
  BY <1>1
<1>4. /\ ab <= 0 /\ bc <= 0 => ac <= 0
      /\ cb <= 0 /\ ba <= 0 => ca <= 0
      /\ ca <= 0 /\ ab <= 0 => cb <= 0
      /\ bc <= 0 /\ ca <= 0 => ba <= 0
  BY <1>2
<1>5. /\ aa = 0 /\ (ab < 0 <=> ba > 0) /\ (ab = 0 <=> ba = 0)
      /\ ab < 0 /\ bc <= 0 => ac < 0
      /\ ab <= 0 /\ bc < 0 => ac < 0
      /\ ab = 0 /\ bc = 0 => ac = 0
  BY <1>3, <1>4 DEF Signs
<1>6. QED
  BY <1>5
-----------------------------------------------------------------------------
(* What parses.                                                            *)

\* A text that parses is a version.
LEMMA ParsedText ==
    ASSUME NEW t \in AText, Parses(t)
    PROVE  AVersion(Parse(t))
<1>1. /\ t.parts \in Seq(Nat \cup {Bad}) /\ t.pre \in Seq(Ids \cup {0})
  BY DEF AText
<1>2. t.parts \in Cores
  <2>1. DOMAIN t.parts = 1 .. 3
    BY <1>1 DEF Parses
  <2>2. \A i \in 1 .. 3 : t.parts[i] \in Nat
    BY <1>1, <2>1 DEF Parses
  <2>3. t.parts = [i \in 1 .. 3 |-> t.parts[i]]
    BY <1>1, <2>1
  <2>4. QED
    BY <2>2, <2>3 DEF Cores
<1>3. t.pre \in Seq(Ids)
  <2>1. \A i \in DOMAIN t.pre : t.pre[i] \in Ids
    BY <1>1 DEF Parses
  <2>2. QED
    BY <1>1, <2>1
<1>4. QED
  BY <1>2, <1>3 DEF AVersion, Parse

\* Each candidate is a version, as the registry stores no other.
LEMMA CandidatesParse ==
    ASSUME NEW c \in CandidateLists
    PROVE  /\ c \in Seq(AText) /\ Len(c) \in Nat /\ Len(c) <= MaxCandidates
           /\ \A k \in DOMAIN c : AVersion(Parse(c[k]))
<1> PICK n \in 0 .. MaxCandidates :
      \E f \in [1 .. n -> DOMAIN Texts] : c = [i \in 1 .. n |-> Texts[f[i]]]
  BY DEF CandidateLists
<1> PICK f \in [1 .. n -> DOMAIN Texts] : c = [i \in 1 .. n |-> Texts[f[i]]]
  OBVIOUS
<1>1. n \in Nat /\ n <= MaxCandidates
  BY TextsOK
<1>2. \A k \in 1 .. n : c[k] \in AText /\ Parses(c[k])
  <2>1. \A k \in 1 .. n : f[k] \in DOMAIN Texts /\ c[k] = Texts[f[k]]
    OBVIOUS
  <2>2. \A j \in DOMAIN Texts : Texts[j] \in AText /\ Parses(Texts[j])
    BY TextsOK
  <2>3. QED
    BY <2>1, <2>2
<1>3. c \in Seq(AText) /\ Len(c) = n /\ DOMAIN c = 1 .. n
  BY <1>1, <1>2
<1>4. QED
  BY <1>1, <1>2, <1>3, ParsedText

\* Elements of a sequence.
LEMMA ElementOf ==
    ASSUME NEW S, NEW q \in Seq(S), NEW k \in DOMAIN q
    PROVE  q[k] \in S
OBVIOUS

\* The node of a term that parses has a core.
LEMMA ParsedTerm ==
    ASSUME NEW c \in Constraints, ConstraintParses(c), NEW i \in DOMAIN c, NEW j \in DOMAIN c[i]
    PROVE  ParseNode(c[i][j]).core \in Cores
<1> DEFINE t == c[i][j].text
           u == [t EXCEPT !.v = FALSE]
<1>1. t \in AText /\ TermParses(c[i][j])
  <2>1. c \in Seq(Seq([op : STRING, text : AText]))
    BY TextsOK
  <2>2. c[i] \in Seq([op : STRING, text : AText])
    BY <2>1, ElementOf
  <2>3. c[i][j] \in [op : STRING, text : AText]
    BY <2>2, ElementOf
  <2>4. QED
    BY <2>3 DEF ConstraintParses
<1>2. u \in AText /\ u.parts = t.parts /\ Parses(u)
  BY <1>1 DEF AText, TermParses
<1>3. u.parts \in Cores
  <2> HIDE DEF u
  <2>1. AVersion(Parse(u))
    BY <1>2, ParsedText
  <2>2. QED
    BY <2>1 DEF AVersion, Parse
<1>4. QED
  BY <1>2, <1>3 DEF ParseNode
-----------------------------------------------------------------------------
(* The inductive invariant.                                                *)

\* The candidates are versions; nothing is done before they are read; the loop
\* is over when the function returns.
RunOK ==
    /\ \A k \in DOMAIN cands : AVersion(Version(k))
    /\ phase \in {"parsing", "refused"} =>
         cands = << >> /\ next = 1 /\ best = 0 /\ elims = << >>
    /\ phase \in {"scanning", "returned"} => ConstraintParses(constraint)
    /\ phase = "returned" => next = Len(cands) + 1

\* best is what ChoosesHighest says of the candidates looked at so far.
BestOK ==
    /\ best < next
    /\ best = 0 => \A k \in 1 .. next - 1 : ~Matches(k)
    /\ best # 0 =>
         /\ Matches(best)
         /\ \A k \in 1 .. next - 1 : Matches(k) =>
              Order(k, best) < 0 \/ (Order(k, best) = 0 /\ best <= k)

\* An elimination that is true.
Explained(c, by) ==
    IF by = 0 THEN ~Matches(c) ELSE Matches(c) /\ Matches(by) /\ Order(c, by) <= 0

\* elims is what EliminationsExplain says of them.
ElimsOK ==
    /\ \A k \in 1 .. next - 1 : (k # best) <=> (\E e \in DOMAIN elims : elims[e].cand = k)
    /\ \A e \in DOMAIN elims :
         elims[e].cand \in 1 .. next - 1 /\ Explained(elims[e].cand, elims[e].by)
    /\ \A d, e \in DOMAIN elims : elims[d].cand = elims[e].cand => d = e

SelectionInv == TypeOK /\ RunOK /\ BestOK /\ ElimsOK

\* What depends on the constraint and the candidates alone does not change.
LEMMA SameRun ==
    ASSUME UNCHANGED <<constraint, cands>>
    PROVE  /\ \A k : Matches(k)' <=> Matches(k)
           /\ \A i, j : Order(i, j)' = Order(i, j)
           /\ \A i, j : Explained(i, j)' <=> Explained(i, j)
           /\ \A k : Version(k)' = Version(k)
<1>1. \A k : Matches(k)' <=> Matches(k)
  BY DEF Matches, Version
<1>2. \A i, j : Order(i, j)' = Order(i, j)
  BY DEF Order, Version
<1>3. \A k : Version(k)' = Version(k)
  BY DEF Version
<1>4. \A i, j : Explained(i, j)' <=> Explained(i, j)
  BY <1>1, <1>2 DEF Explained
<1>5. QED
  BY <1>1, <1>2, <1>3, <1>4

\* What appending does to a sequence.
LEMMA Appended ==
    ASSUME NEW S, NEW q \in Seq(S), NEW x \in S, NEW r, r = Append(q, x)
    PROVE  /\ r \in Seq(S) /\ Len(q) \in Nat
           /\ DOMAIN q = 1 .. Len(q) /\ DOMAIN r = 1 .. Len(q) + 1
           /\ r[Len(q) + 1] = x /\ \A e \in 1 .. Len(q) : r[e] = q[e]
OBVIOUS

\* One more candidate is looked at, and it or the best so far is eliminated.
LEMMA EliminationAdded ==
    ASSUME TypeOK, ElimsOK, UNCHANGED <<constraint, cands>>, next' = next + 1,
           NEW x \in Elim, elims' = Append(elims, x), Explained(x.cand, x.by),
           \/ x.cand = next /\ best' = best /\ best # next
           \/ x.cand = best /\ best' = next /\ best \in 1 .. next - 1
    PROVE  ElimsOK'
<1> PICK n \in Nat, L \in Nat : n = next /\ L = Len(elims)
  BY DEF TypeOK
<1> PICK q \in Seq(Elim) : q = elims
  BY DEF TypeOK
<1> PICK r : r = elims'
  OBVIOUS
<1>1. /\ DOMAIN q = 1 .. L /\ DOMAIN r = 1 .. L + 1
      /\ r[L + 1] = x /\ \A e \in 1 .. L : r[e] = q[e]
  BY Appended
<1>2. \A e \in 1 .. L : q[e].cand \in 1 .. n - 1 /\ q[e].cand # x.cand
  <2> SUFFICES ASSUME NEW e \in 1 .. L PROVE q[e].cand \in 1 .. n - 1 /\ q[e].cand # x.cand
    OBVIOUS
  <2>1. q[e].cand \in 1 .. n - 1
    BY <1>1 DEF ElimsOK
  <2>2. q[e].cand # best
    BY <1>1, <2>1 DEF ElimsOK
  <2>3. QED
    BY <2>1, <2>2
<1>3. x.cand \in 1 .. n
  BY DEF TypeOK
<1>4. \A k \in 1 .. n : (k # best') <=> (\E e \in 1 .. L + 1 : r[e].cand = k)
  <2> SUFFICES ASSUME NEW k \in 1 .. n
               PROVE  (k # best') <=> (\E e \in 1 .. L + 1 : r[e].cand = k)
    OBVIOUS
  <2>1. (\E e \in 1 .. L + 1 : r[e].cand = k) <=>
          (k = x.cand \/ \E e \in 1 .. L : q[e].cand = k)
    <3>1. \A e \in 1 .. L + 1 : e = L + 1 \/ e \in 1 .. L
      OBVIOUS
    <3>2. L + 1 \in 1 .. L + 1 /\ \A e \in 1 .. L : e \in 1 .. L + 1
      OBVIOUS
    <3>3. QED
      BY <1>1, <3>1, <3>2
  <2>2. k \in 1 .. n - 1 \/ k = n
    OBVIOUS
  <2>3. k \in 1 .. n - 1 => ((k # best) <=> \E e \in 1 .. L : q[e].cand = k)
    BY <1>1 DEF ElimsOK
  <2>4. k = n => ~\E e \in 1 .. L : q[e].cand = k
    BY <1>2
  <2>5. QED
    BY <2>1, <2>2, <2>3, <2>4
<1>5. \A e \in 1 .. L + 1 : r[e].cand \in 1 .. n /\ Explained(r[e].cand, r[e].by)'
  <2> SUFFICES ASSUME NEW e \in 1 .. L + 1
               PROVE  r[e].cand \in 1 .. n /\ Explained(r[e].cand, r[e].by)'
    OBVIOUS
  <2>1. CASE e = L + 1
    BY <2>1, <1>1, <1>3, SameRun
  <2>2. CASE e \in 1 .. L
    <3>1. q[e].cand \in 1 .. n - 1 /\ Explained(q[e].cand, q[e].by)
      BY <1>1, <2>2 DEF ElimsOK
    <3>2. QED
      BY <3>1, <2>2, <1>1, SameRun
  <2>3. QED
    BY <2>1, <2>2
<1>6. \A d, e \in 1 .. L + 1 : r[d].cand = r[e].cand => d = e
  <2> SUFFICES ASSUME NEW d \in 1 .. L + 1, NEW e \in 1 .. L + 1, r[d].cand = r[e].cand
               PROVE  d = e
    OBVIOUS
  <2>1. (d = L + 1 \/ d \in 1 .. L) /\ (e = L + 1 \/ e \in 1 .. L)
    OBVIOUS
  <2>2. CASE d \in 1 .. L /\ e \in 1 .. L
    BY <2>2, <1>1 DEF ElimsOK
  <2>3. CASE d = L + 1 \/ e = L + 1
    BY <2>1, <2>3, <1>1, <1>2
  <2>4. QED
    BY <2>1, <2>2, <2>3
<1>7. 1 .. next' - 1 = 1 .. n
  OBVIOUS
<1>8. \A k \in 1 .. next' - 1 :
        (k # best') <=> (\E e \in DOMAIN elims' : elims'[e].cand = k)
  BY <1>1, <1>4, <1>7
<1>9. \A e \in DOMAIN elims' :
        elims'[e].cand \in 1 .. next' - 1 /\ Explained(elims[e].cand, elims[e].by)'
  BY <1>1, <1>5, <1>7
<1>10. \A d, e \in DOMAIN elims' : elims'[d].cand = elims'[e].cand => d = e
  BY <1>1, <1>6
<1>11. QED
  BY <1>8, <1>9, <1>10 DEF ElimsOK

\* Candidates are totally ordered by what they parse to.
LEMMA CandidatesOrdered ==
    ASSUME RunOK, NEW i \in DOMAIN cands, NEW j \in DOMAIN cands, NEW k \in DOMAIN cands
    PROVE  /\ Order(i, j) \in Signs /\ Order(i, j) = -Order(j, i)
           /\ Order(i, j) <= 0 /\ Order(j, k) <= 0 => Order(i, k) <= 0
           /\ Order(i, i) = 0
           /\ Order(i, j) < 0 <=> Order(j, i) > 0
           /\ Order(i, j) = 0 <=> Order(j, i) = 0
           /\ Order(i, j) < 0 /\ Order(j, k) <= 0 => Order(i, k) < 0
           /\ Order(i, j) <= 0 /\ Order(j, k) < 0 => Order(i, k) < 0
           /\ Order(i, j) = 0 /\ Order(j, k) = 0 => Order(i, k) = 0
<1>1. AVersion(Version(i)) /\ AVersion(Version(j)) /\ AVersion(Version(k))
  BY DEF RunOK
<1>2. QED
  BY <1>1, VersionOrder, VersionStrict DEF Order

\* A run that starts satisfies the invariant.
LEMMA InitEstablishes == Init => SelectionInv
BY TextsOK DEF Init, SelectionInv, TypeOK, RunOK, BestOK, ElimsOK

\* The steps before and after the loop.
LEMMA OutsideLoop ==
    ASSUME SelectionInv, Refuse \/ Accept \/ Return \/ UNCHANGED vars
    PROVE  SelectionInv'
<1> USE DEF SelectionInv
<1>1. CASE Refuse
  BY <1>1 DEF Refuse, TypeOK, RunOK, BestOK, ElimsOK
<1>2. CASE Accept
  <2>1. /\ phase = "parsing" /\ phase' = "scanning" /\ ConstraintParses(constraint)'
        /\ next = 1 /\ best = 0 /\ elims = << >>
        /\ UNCHANGED <<constraint, next, best, elims>>
    BY <1>2 DEF Accept, RunOK
  <2>2. /\ cands' \in Seq(AText) /\ Len(cands') \in Nat /\ Len(cands') <= MaxCandidates
        /\ \A k \in DOMAIN cands' : AVersion(Version(k)')
    BY <1>2, CandidatesParse DEF Accept, Version
  <2>3. TypeOK'
    <3>1. 1 \in 1 .. Len(cands') + 1 /\ 0 \in 0 .. Len(cands')
      BY <2>2
    <3>2. QED
      BY <2>1, <2>2, <3>1 DEF TypeOK
  <2>4. RunOK'
    BY <2>1, <2>2 DEF RunOK
  <2>5. BestOK' /\ ElimsOK'
    BY <2>1 DEF BestOK, ElimsOK
  <2>6. QED
    BY <2>3, <2>4, <2>5
<1>3. CASE Return
  <2>1. /\ UNCHANGED <<constraint, cands, next, best, elims>> /\ phase = "scanning"
        /\ phase' = "returned" /\ next > Len(cands)
    BY <1>3 DEF Return
  <2>2. next = Len(cands) + 1
    BY <2>1 DEF TypeOK
  <2>3. TypeOK'
    BY <2>1 DEF TypeOK
  <2>4. \A k : Version(k)' = Version(k)
    BY <2>1, SameRun
  <2>5. RunOK'
    BY <2>1, <2>2, <2>4 DEF RunOK
  <2>6. BestOK'
    BY <2>1, SameRun DEF BestOK
  <2>7. ElimsOK'
    BY <2>1, SameRun DEF ElimsOK
  <2>8. QED
    BY <2>3, <2>5, <2>6, <2>7
<1>4. CASE UNCHANGED vars
  <2>1. UNCHANGED <<phase, constraint, cands, next, best, elims>>
    BY <1>4 DEF vars
  <2>2. TypeOK'
    BY <2>1 DEF TypeOK
  <2>3. RunOK'
    BY <2>1, SameRun DEF RunOK
  <2>4. BestOK'
    BY <2>1, SameRun DEF BestOK
  <2>5. ElimsOK'
    BY <2>1, SameRun DEF ElimsOK
  <2>6. QED
    BY <2>2, <2>3, <2>4, <2>5
<1>5. QED
  BY <1>1, <1>2, <1>3, <1>4

\* What the steps of the loop have in common.
LEMMA LoopStep ==
    ASSUME SelectionInv, Scanning, UNCHANGED <<phase, constraint, cands>>,
           best' \in {best, next}, elims' \in Seq(Elim)
    PROVE  /\ TypeOK' /\ RunOK'
           /\ next \in Nat /\ next \in DOMAIN cands /\ next # 0 /\ best # next
           /\ best # 0 => best \in DOMAIN cands /\ best \in 1 .. next - 1 /\ best < next
           /\ 1 .. next - 1 \subseteq DOMAIN cands
           /\ next' = next + 1
<1> USE DEF SelectionInv
<1>1. /\ next' = next + 1 /\ next <= Len(cands) /\ phase = "scanning"
      /\ Len(cands) \in Nat /\ DOMAIN cands = 1 .. Len(cands)
  BY DEF Scanning, TypeOK
<1>2. next \in Nat /\ next \in 1 .. Len(cands) /\ best \in Nat /\ best < next
  BY <1>1 DEF TypeOK, BestOK
<1>3. TypeOK'
  <2>1. next + 1 \in 1 .. Len(cands) + 1 /\ best' \in 0 .. Len(cands)
    BY <1>1, <1>2
  <2>2. QED
    BY <1>1, <2>1 DEF TypeOK
<1>4. RunOK'
  BY <1>1, SameRun DEF RunOK
<1>5. QED
  BY <1>1, <1>2, <1>3, <1>4

\* A candidate that does not match is eliminated for that.
LEMMA NoMatchKeeps ==
    ASSUME SelectionInv, NoMatch
    PROVE  SelectionInv'
<1> USE DEF SelectionInv
<1> DEFINE x == [cand |-> next, by |-> 0]
<1>1. /\ Scanning /\ UNCHANGED <<phase, constraint, cands, best>> /\ ~Matches(next)
      /\ elims' = Append(elims, x) /\ next <= Len(cands)
  BY DEF NoMatch, Eliminate, Scanning
<1>2. x \in Elim
  BY <1>1, TextsOK DEF TypeOK, Elim
<1>3. elims' \in Seq(Elim)
  BY <1>1, <1>2, Appended DEF TypeOK
<1>4. /\ TypeOK' /\ RunOK' /\ next \in Nat /\ best # next /\ next' = next + 1
  BY <1>1, <1>3, LoopStep
<1>5. BestOK'
  <2>1. best < next' /\ \A k \in 1 .. next' - 1 : k \in 1 .. next - 1 \/ k = next
    BY <1>4 DEF BestOK, TypeOK
  <2>2. \A k \in 1 .. next' - 1 : Matches(k) => k \in 1 .. next - 1
    BY <1>1, <2>1
  <2>3. QED
    BY <1>1, <2>1, <2>2, SameRun DEF BestOK
<1>6. Explained(x.cand, x.by) /\ x.cand = next
  BY <1>1 DEF Explained
<1> HIDE DEF x
<1>7. ElimsOK'
  BY <1>1, <1>2, <1>4, <1>6, EliminationAdded
<1>8. QED
  BY <1>4, <1>5, <1>7

\* The first match is the best so far.
LEMMA FirstMatchKeeps ==
    ASSUME SelectionInv, FirstMatch
    PROVE  SelectionInv'
<1> USE DEF SelectionInv
<1>1. /\ Scanning /\ UNCHANGED <<phase, constraint, cands, elims>> /\ Matches(next)
      /\ best = 0 /\ best' = next
  BY DEF FirstMatch
<1>2. elims' \in Seq(Elim)
  BY <1>1 DEF TypeOK
<1>3. /\ TypeOK' /\ RunOK' /\ next \in Nat /\ next \in DOMAIN cands /\ next # 0
      /\ next' = next + 1
  BY <1>1, <1>2, LoopStep
<1>4. \A k \in 1 .. next' - 1 : k \in 1 .. next - 1 \/ k = next
  BY <1>3
<1>5. BestOK'
  <2>1. \A k \in 1 .. next' - 1 : Matches(k) => k = next
    BY <1>1, <1>4 DEF BestOK
  <2>2. Order(next, next) = 0 /\ next <= next /\ next < next'
    BY <1>3, CandidatesOrdered
  <2>3. \A i, j : Order(i, j)' = Order(i, j) /\ (Matches(i)' <=> Matches(i))
    BY <1>1, SameRun
  <2>4. QED
    BY <1>1, <1>3, <2>1, <2>2, <2>3 DEF BestOK
<1>6. ElimsOK'
  <2>1. \A e \in DOMAIN elims : elims[e].cand \in 1 .. next - 1
    BY DEF ElimsOK
  <2>2. \A k \in 1 .. next' - 1 :
          (k # next) <=> (\E e \in DOMAIN elims : elims[e].cand = k)
    <3> SUFFICES ASSUME NEW k \in 1 .. next' - 1
                 PROVE  (k # next) <=> (\E e \in DOMAIN elims : elims[e].cand = k)
      OBVIOUS
    <3>1. CASE k = next
      BY <3>1, <1>3, <2>1
    <3>2. CASE k \in 1 .. next - 1
      <4>1. k # next /\ k # best
        BY <3>2, <1>1, <1>3
      <4>2. QED
        BY <3>2, <4>1 DEF ElimsOK
    <3>3. QED
      BY <1>4, <3>1, <3>2
  <2>3. \A e \in DOMAIN elims : elims[e].cand \in 1 .. next' - 1
    BY <1>3, <2>1
  <2>4. QED
    BY <1>1, <2>2, <2>3, SameRun DEF ElimsOK
<1>7. QED
  BY <1>3, <1>5, <1>6

\* A higher match eliminates the best so far.
LEMMA HigherKeeps ==
    ASSUME SelectionInv, Higher
    PROVE  SelectionInv'
<1> USE DEF SelectionInv
<1> DEFINE x == [cand |-> best, by |-> next]
<1>1. /\ Scanning /\ UNCHANGED <<phase, constraint, cands>> /\ Matches(next)
      /\ best # 0 /\ best' = next /\ Order(next, best) > 0
      /\ elims' = Append(elims, x) /\ next <= Len(cands)
  BY DEF Higher, Eliminate, Scanning, Order
<1>2. x \in Elim
  BY <1>1, TextsOK DEF TypeOK, Elim
<1>3. elims' \in Seq(Elim)
  BY <1>1, <1>2, Appended DEF TypeOK
<1>4. /\ TypeOK' /\ RunOK' /\ next \in Nat /\ next \in DOMAIN cands /\ next # 0
      /\ best \in DOMAIN cands /\ best \in 1 .. next - 1 /\ next' = next + 1
      /\ 1 .. next - 1 \subseteq DOMAIN cands
  BY <1>1, <1>3, LoopStep
<1>5. Order(best, next) < 0
  BY <1>1, <1>4, CandidatesOrdered
<1>6. BestOK'
  <2>1. \A k \in 1 .. next' - 1 : Matches(k) => Order(k, next) < 0 \/ k = next
    <3> SUFFICES ASSUME NEW k \in 1 .. next - 1, Matches(k) PROVE Order(k, next) < 0
      BY <1>4
    <3>1. k \in DOMAIN cands /\ (Order(k, best) < 0 \/ Order(k, best) = 0)
      BY <1>1, <1>4 DEF BestOK
    <3>2. Order(k, best) \in Signs
      BY <3>1, <1>4, CandidatesOrdered
    <3>3. Order(k, best) <= 0
      BY <3>1, <3>2 DEF Signs
    <3>4. QED
      BY <1>4, <1>5, <3>1, <3>3, CandidatesOrdered
  <2>2. Order(next, next) = 0 /\ next <= next /\ next < next'
    BY <1>4, CandidatesOrdered
  <2>3. \A i, j : Order(i, j)' = Order(i, j) /\ (Matches(i)' <=> Matches(i))
    BY <1>1, SameRun
  <2>4. QED
    BY <1>1, <1>4, <2>1, <2>2, <2>3 DEF BestOK
<1>7. Explained(x.cand, x.by) /\ x.cand = best
  <2>1. Matches(best) /\ Order(best, next) <= 0
    <3>1. Order(best, next) \in Signs
      BY <1>4, CandidatesOrdered
    <3>2. QED
      BY <1>1, <1>5, <3>1 DEF BestOK, Signs
  <2>2. QED
    BY <1>1, <1>4, <2>1 DEF Explained
<1> HIDE DEF x
<1>8. ElimsOK'
  BY <1>1, <1>2, <1>4, <1>7, EliminationAdded
<1>9. QED
  BY <1>4, <1>6, <1>8

\* A match that is not higher is eliminated by the best so far.
LEMMA NotHigherKeeps ==
    ASSUME SelectionInv, NotHigher
    PROVE  SelectionInv'
<1> USE DEF SelectionInv
<1> DEFINE x == [cand |-> next, by |-> best]
<1>1. /\ Scanning /\ UNCHANGED <<phase, constraint, cands, best>> /\ Matches(next)
      /\ best # 0 /\ Order(next, best) <= 0
      /\ elims' = Append(elims, x) /\ next <= Len(cands)
  BY DEF NotHigher, Eliminate, Scanning, Order
<1>2. x \in Elim
  BY <1>1, TextsOK DEF TypeOK, Elim
<1>3. elims' \in Seq(Elim)
  BY <1>1, <1>2, Appended DEF TypeOK
<1>4. /\ TypeOK' /\ RunOK' /\ next \in Nat /\ next \in DOMAIN cands /\ next # 0
      /\ best \in DOMAIN cands /\ best < next /\ best # next /\ next' = next + 1
  BY <1>1, <1>3, LoopStep
<1>5. Order(next, best) < 0 \/ (Order(next, best) = 0 /\ best <= next)
  <2>1. Order(next, best) \in Signs
    BY <1>4, CandidatesOrdered
  <2>2. QED
    BY <1>1, <1>4, <2>1 DEF Signs, TypeOK
<1>6. BestOK'
  <2>1. best < next' /\ \A k \in 1 .. next' - 1 : k \in 1 .. next - 1 \/ k = next
    BY <1>4 DEF BestOK, TypeOK
  <2>2. \A k \in 1 .. next' - 1 : Matches(k) =>
          Order(k, best) < 0 \/ (Order(k, best) = 0 /\ best <= k)
    BY <1>1, <1>5, <2>1 DEF BestOK
  <2>3. \A i, j : Order(i, j)' = Order(i, j) /\ (Matches(i)' <=> Matches(i))
    BY <1>1, SameRun
  <2>4. QED
    BY <1>1, <2>1, <2>2, <2>3 DEF BestOK
<1>7. Explained(x.cand, x.by) /\ x.cand = next
  BY <1>1 DEF Explained, BestOK
<1> HIDE DEF x
<1>8. ElimsOK'
  BY <1>1, <1>2, <1>4, <1>7, EliminationAdded
<1>9. QED
  BY <1>4, <1>6, <1>8

\* Every step keeps the invariant.
LEMMA NextKeeps == SelectionInv /\ [Next]_vars => SelectionInv'
<1> SUFFICES ASSUME SelectionInv, [Next]_vars PROVE SelectionInv'
  OBVIOUS
<1>1. CASE Refuse \/ Accept \/ Return \/ UNCHANGED vars
  BY <1>1, OutsideLoop
<1>2. CASE NoMatch
  BY <1>2, NoMatchKeeps
<1>3. CASE FirstMatch
  BY <1>3, FirstMatchKeeps
<1>4. CASE Higher
  BY <1>4, HigherKeeps
<1>5. CASE NotHigher
  BY <1>5, NotHigherKeeps
<1>6. CASE Done
  BY <1>6, OutsideLoop DEF Done
<1>7. QED
  BY <1>1, <1>2, <1>3, <1>4, <1>5, <1>6 DEF Next

\* The invariant holds in every reachable state.
LEMMA Invariant == Spec => []SelectionInv
BY InitEstablishes, NextKeeps, PTL DEF Spec
-----------------------------------------------------------------------------
(* The theorems.                                                           *)

\* The loop of selectVersion keeps its types, with any texts and constraints.
THEOREM SelectionTyped == Spec => []TypeOK
BY Invariant, PTL DEF SelectionInv

\* All candidates have been seen when the loop is over.
LEMMA OverAtReturn ==
    ASSUME SelectionInv, phase = "returned"
    PROVE  /\ 1 .. next - 1 = DOMAIN cands
           /\ best # 0 => best \in DOMAIN cands
<1>1. next = Len(cands) + 1 /\ Len(cands) \in Nat /\ DOMAIN cands = 1 .. Len(cands)
  BY DEF SelectionInv, RunOK, TypeOK
<1>2. QED
  BY <1>1 DEF SelectionInv, TypeOK

\* Compare (semver.go) is an order on whatever versions the texts parse to.
THEOREM CompareIsOrder == Spec => []ComparesLikeAnOrder
<1>1. SelectionInv => ComparesLikeAnOrder
  BY CandidatesOrdered DEF SelectionInv, ComparesLikeAnOrder
<1>2. QED
  BY <1>1, Invariant, PTL

\* selectVersion returns the highest match, the first row's among equals.
THEOREM HighestIsChosen == Spec => []ChoosesHighest
<1>1. SelectionInv => ChoosesHighest
  <2> SUFFICES ASSUME SelectionInv, phase = "returned"
               PROVE  IF best = 0 THEN \A k \in DOMAIN cands : ~Matches(k)
                      ELSE /\ Matches(best)
                           /\ \A k \in DOMAIN cands : Matches(k) =>
                                Order(k, best) < 0 \/ (Order(k, best) = 0 /\ best <= k)
    BY DEF ChoosesHighest
  <2>1. QED
    BY OverAtReturn DEF SelectionInv, BestOK
<1>2. QED
  BY <1>1, Invariant, PTL

\* The eliminations of a diagnosis are complete, without repetition, and true.
THEOREM EliminationsAreTrue == Spec => []EliminationsExplain
<1>1. SelectionInv => EliminationsExplain
  <2> SUFFICES ASSUME SelectionInv, phase = "returned" PROVE EliminationsExplain
    BY DEF EliminationsExplain
  <2>1. \A k \in DOMAIN cands : (k # best) <=> (\E e \in DOMAIN elims : elims[e].cand = k)
    BY OverAtReturn DEF SelectionInv, ElimsOK
  <2>2. \A d, e \in DOMAIN elims : elims[d].cand = elims[e].cand => d = e
    BY DEF SelectionInv, ElimsOK
  <2>3. \A e \in DOMAIN elims : Explained(elims[e].cand, elims[e].by)
    BY DEF SelectionInv, ElimsOK
  <2>4. QED
    BY <2>1, <2>2, <2>3 DEF EliminationsExplain, Explained
<1>2. QED
  BY <1>1, Invariant, PTL
-----------------------------------------------------------------------------
(* Ranges.                                                                 *)

\* Three numbers make a release.
LEMMA ReleaseIsVersion ==
    ASSUME NEW c \in Cores
    PROVE  AVersion(Release(c)) /\ Release(c).core = c /\ Release(c).pre = << >>
BY DEF AVersion, Release

\* A version is compared with a release by its core, and a prerelease is below
\* the release of its core.
LEMMA CompareWithRelease ==
    ASSUME NEW a, AVersion(a), NEW c \in Cores
    PROVE  /\ Compare(a, Release(c)) < 0 <=> Below(a.core, c) \/ (a.core = c /\ a.pre # << >>)
           /\ Compare(a, Release(c)) >= 0 <=>
                ~(Below(a.core, c) \/ (a.core = c /\ a.pre # << >>))
           /\ Compare(Release(a.core), Release(c)) > 0 <=> Below(c, a.core)
           /\ Compare(Release(a.core), Release(c)) < 0 <=> Below(a.core, c)
           /\ Compare(Release(a.core), Release(c)) >= 0 <=> ~Below(a.core, c)
           /\ Compare(Release(a.core), Release(c)) <= 0 <=> ~Below(c, a.core)
<1> PICK d \in Cores, p \in Seq(Ids) : d = a.core /\ p = a.pre
  BY DEF AVersion
<1>1. /\ CoreSign(d, c) \in Signs
      /\ CoreSign(d, c) < 0 <=> Below(d, c)
      /\ CoreSign(d, c) > 0 <=> Below(c, d)
      /\ CoreSign(d, c) = 0 <=> d = c
  BY CoresCompare
<1>2. << >> \in Seq(Ids)
  OBVIOUS
<1>3. ComparePrerelease(<< >>, << >>) = 0
  <2>1. ComparePrerelease(<< >>, << >>) \in Signs
           /\ ComparePrerelease(<< >>, << >>) = -ComparePrerelease(<< >>, << >>)
    BY <1>2, PrereleaseOrder
  <2>2. QED
    BY <2>1 DEF Signs
<1>4. /\ Compare(a, Release(c)) =
           IF d # c THEN CoreSign(d, c) ELSE IF p = << >> THEN 0 ELSE -1
      /\ Compare(Release(d), Release(c)) = IF d # c THEN CoreSign(d, c) ELSE 0
  BY <1>3, CompareParts, ReleaseIsVersion DEF PreSign
<1>5. ~Below(c, c)
  BY BelowIsOrder
<1>6. QED
  BY <1>1, <1>4, <1>5 DEF Signs

\* Three numbers are the numbers of a version.
LEMMA TripleIsCore ==
    ASSUME NEW x \in Nat, NEW y \in Nat, NEW z \in Nat
    PROVE  <<x, y, z>> \in Cores
<1>1. <<x, y, z>> = [i \in 1 .. 3 |-> IF i = 1 THEN x ELSE IF i = 2 THEN y ELSE z]
  OBVIOUS
<1>2. QED
  BY <1>1 DEF Cores

\* The numbers of a version are numbers.
LEMMA CoreNumbers ==
    ASSUME NEW c \in Cores
    PROVE  c[1] \in Nat /\ c[2] \in Nat /\ c[3] \in Nat
BY DEF Cores

\* The end of a caret range is given by three numbers.
LEMMA CaretLimitIsCore ==
    ASSUME NEW c \in Cores
    PROVE  CaretLimit(c) \in Cores
<1> PICK x \in Nat, y \in Nat, z \in Nat : x = c[1] /\ y = c[2] /\ z = c[3]
  BY CoreNumbers
<1>1. /\ <<x + 1, 0, 0>> \in Cores /\ <<0, y + 1, 0>> \in Cores
      /\ <<0, 0, z + 1>> \in Cores
  BY TripleIsCore
<1>2. QED
  BY <1>1 DEF CaretLimit

\* A known operator accepts, of releases, those of its range.
LEMMA TermRange ==
    ASSUME NEW n, n.core \in Cores, n.op \in KnownOps, NEW v, AVersion(v), v.pre = << >>
    PROVE  MatchNode(n, v) <=> /\ ~Below(v.core, Low(n))
                               /\ Bounded(n) => Below(v.core, Limit(n))
<1> PICK c \in Cores, d \in Cores : c = n.core /\ d = v.core
  BY DEF AVersion
<1>1. /\ c[1] \in Nat /\ c[2] \in Nat /\ c[3] \in Nat
      /\ d[1] \in Nat /\ d[2] \in Nat /\ d[3] \in Nat
  BY CoreNumbers
<1>2. d = c <=> (d[1] = c[1] /\ d[2] = c[2] /\ d[3] = c[3])
  BY DEF Cores
<1>3. /\ CompareCore(v, n) > 0 <=> Below(c, d)
      /\ CompareCore(v, n) >= 0 <=> ~Below(d, c)
      /\ CompareCore(v, n) < 0 <=> Below(d, c)
      /\ CompareCore(v, n) <= 0 <=> ~Below(c, d)
  BY CompareWithRelease DEF CompareCore
<1>4. CASE n.op = "="
  <2>1. Low(n) = c /\ Bounded(n) /\ Limit(n) = <<c[1], c[2], c[3] + 1>>
    BY <1>4 DEF Low, Bounded, Limit
  <2>2. MatchNode(n, v) <=> d = c
    BY <1>4 DEF MatchNode
  <2>3. QED
    BY <1>1, <1>2, <2>1, <2>2 DEF Below
<1>5. CASE n.op = ">"
  <2>1. Low(n) = <<c[1], c[2], c[3] + 1>> /\ ~Bounded(n)
    BY <1>5 DEF Low, Bounded
  <2>2. MatchNode(n, v) <=> Below(c, d)
    BY <1>3, <1>5 DEF MatchNode
  <2>3. QED
    BY <1>1, <2>1, <2>2 DEF Below
<1>6. CASE n.op = ">="
  <2>1. Low(n) = c /\ ~Bounded(n)
    BY <1>6 DEF Low, Bounded
  <2>2. MatchNode(n, v) <=> ~Below(d, c)
    BY <1>3, <1>6 DEF MatchNode
  <2>3. QED
    BY <2>1, <2>2
<1>7. CASE n.op = "<"
  <2>1. Low(n) = <<0, 0, 0>> /\ Bounded(n) /\ Limit(n) = c
    BY <1>7 DEF Low, Bounded, Limit
  <2>2. MatchNode(n, v) <=> Below(d, c)
    BY <1>3, <1>7 DEF MatchNode
  <2>3. ~Below(d, <<0, 0, 0>>)
    BY <1>1 DEF Below
  <2>4. QED
    BY <2>1, <2>2, <2>3
<1>8. CASE n.op = "<="
  <2>1. Low(n) = <<0, 0, 0>> /\ Bounded(n) /\ Limit(n) = <<c[1], c[2], c[3] + 1>>
    BY <1>8 DEF Low, Bounded, Limit
  <2>2. MatchNode(n, v) <=> ~Below(c, d)
    BY <1>3, <1>8 DEF MatchNode
  <2>3. QED
    BY <1>1, <2>1, <2>2 DEF Below
<1>9. CASE n.op = "^"
  <2>1. Low(n) = c /\ Bounded(n) /\ Limit(n) = CaretLimit(c)
    BY <1>1, <1>9 DEF Low, Bounded, Limit, CaretLimit
  <2>2. CaretLimit(c) \in Cores
    BY CaretLimitIsCore
  <2>3. MatchNode(n, v) <=> ~Below(d, c) /\ Below(d, CaretLimit(c))
    BY <1>9, <2>2, CompareWithRelease DEF MatchNode, MatchCaret
  <2>4. QED
    BY <2>1, <2>3
<1>10. CASE n.op = "~"
  <2>1. Low(n) = c /\ Bounded(n) /\ Limit(n) = <<c[1], c[2] + 1, 0>>
    BY <1>10 DEF Low, Bounded, Limit
  <2>2. MatchNode(n, v) <=> d[1] = c[1] /\ d[2] = c[2] /\ d[3] >= c[3]
    BY <1>10 DEF MatchNode, MatchTilde
  <2>3. QED
    BY <1>1, <2>1, <2>2 DEF Below
<1>11. QED
  BY <1>4, <1>5, <1>6, <1>7, <1>8, <1>9, <1>10 DEF KnownOps

\* No operator has a gap, prereleases included.
LEMMA TermConvex ==
    ASSUME NEW n, n.core \in Cores,
           NEW u, NEW v, NEW w, AVersion(u), AVersion(v), AVersion(w),
           Compare(u, v) < 0, Compare(v, w) < 0, MatchNode(n, u), MatchNode(n, w)
    PROVE  MatchNode(n, v)
<1> PICK a \in Cores, b \in Cores, c \in Cores, m \in Cores :
      a = u.core /\ b = v.core /\ c = w.core /\ m = n.core
  BY DEF AVersion
<1>1. (Below(a, b) \/ a = b) /\ (Below(b, c) \/ b = c)
  BY CompareParts, CoresCompare
<1>2. /\ \A x, y, z \in {a, b, c, m} : Below(x, y) /\ Below(y, z) => Below(x, z)
      /\ \A x, y \in {a, b, c, m} : Below(x, y) \/ Below(y, x) \/ x = y
      /\ \A x, y \in {a, b, c, m} : ~(Below(x, y) /\ Below(y, x)) /\ ~Below(x, x)
  BY BelowIsOrder
<1>3. /\ CompareCore(u, n) > 0 <=> Below(m, a)
      /\ CompareCore(v, n) > 0 <=> Below(m, b)
      /\ CompareCore(u, n) >= 0 <=> ~Below(a, m)
      /\ CompareCore(v, n) >= 0 <=> ~Below(b, m)
      /\ CompareCore(w, n) < 0 <=> Below(c, m)
      /\ CompareCore(v, n) < 0 <=> Below(b, m)
      /\ CompareCore(w, n) <= 0 <=> ~Below(m, c)
      /\ CompareCore(v, n) <= 0 <=> ~Below(m, b)
  BY CompareWithRelease DEF CompareCore
<1>4. Compare(u, w) < 0
  <2>1. Compare(v, w) <= 0
    <3>1. Compare(v, w) \in Signs
      BY VersionOrder
    <3>2. QED
      BY <3>1 DEF Signs
  <2>2. QED
    BY <2>1, VersionStrict
<1>5. CASE n.op = "="
  <2>1. a = m /\ c = m /\ u.pre = << >> /\ w.pre = << >>
    BY <1>5 DEF MatchNode
  <2>2. ~Below(a, c)
    BY <1>2, <2>1
  <2>3. ~(Compare(u, Release(c)) < 0)
    BY <2>1, <2>2, CompareWithRelease
  <2>4. w.core = Release(c).core /\ w.pre = Release(c).pre
    BY <2>1, ReleaseIsVersion
  <2>5. Compare(u, w) = Compare(u, Release(c))
    BY <2>4, CompareParts
  <2>6. QED
    BY <1>4, <2>3, <2>5
<1>6. CASE n.op = ">"
  BY <1>1, <1>2, <1>3, <1>6 DEF MatchNode
<1>7. CASE n.op = ">="
  BY <1>1, <1>2, <1>3, <1>7 DEF MatchNode
<1>8. CASE n.op = "<"
  BY <1>1, <1>2, <1>3, <1>8 DEF MatchNode
<1>9. CASE n.op = "<="
  BY <1>1, <1>2, <1>3, <1>9 DEF MatchNode
<1>10. CASE n.op = "^"
  <2> PICK l, h : l = Release(m) /\ h = Release(CaretLimit(m))
    OBVIOUS
  <2>1. AVersion(l) /\ AVersion(h)
    BY CaretLimitIsCore, ReleaseIsVersion
  <2>2. Compare(u, l) >= 0 /\ Compare(w, h) < 0
    BY <1>10 DEF MatchNode, MatchCaret
  <2>3. /\ Compare(u, l) = -Compare(l, u) /\ Compare(u, l) \in Signs
        /\ Compare(l, u) \in Signs /\ Compare(v, w) \in Signs /\ Compare(w, h) \in Signs
        /\ Compare(v, l) \in Signs
    BY <2>1, VersionOrder
  <2>4. Compare(l, u) <= 0
    <3> PICK x \in Signs, y \in Signs : x = Compare(u, l) /\ y = Compare(l, u)
      BY <2>3
    <3>1. x >= 0 /\ x = -y
      BY <2>2, <2>3
    <3>2. QED
      BY <3>1 DEF Signs
  <2>5. Compare(l, v) < 0
    BY <2>1, <2>4, VersionStrict
  <2>6. Compare(v, l) >= 0
    <3>1. Compare(v, l) > 0
      BY <2>1, <2>5, VersionStrict
    <3>2. QED
      BY <2>3, <3>1 DEF Signs
  <2>7. Compare(w, h) <= 0
    BY <2>2, <2>3 DEF Signs
  <2>8. Compare(v, h) < 0
    BY <2>1, <2>7, VersionStrict
  <2>9. QED
    BY <1>10, <2>6, <2>8 DEF MatchNode, MatchCaret
<1>11. CASE n.op = "~"
  <2>1. /\ a[1] \in Nat /\ a[2] \in Nat /\ a[3] \in Nat
        /\ b[1] \in Nat /\ b[2] \in Nat /\ b[3] \in Nat
        /\ c[1] \in Nat /\ c[2] \in Nat /\ c[3] \in Nat
        /\ m[1] \in Nat /\ m[2] \in Nat /\ m[3] \in Nat
    BY CoreNumbers
  <2>2. /\ a[1] = m[1] /\ a[2] = m[2] /\ a[3] >= m[3]
        /\ c[1] = m[1] /\ c[2] = m[2]
    BY <1>11 DEF MatchNode, MatchTilde
  <2>3. b[1] = m[1] /\ b[2] = m[2] /\ b[3] >= m[3]
    BY <1>1, <2>1, <2>2 DEF Below
  <2>4. QED
    BY <1>11, <2>3 DEF MatchNode, MatchTilde
<1>12. QED
  BY <1>5, <1>6, <1>7, <1>8, <1>9, <1>10, <1>11 DEF MatchNode

\* What an operator accepts is a range of releases, and a constraint without
\* "||" has no gaps (matchNode, matchCaret, matchTilde), whatever the versions.
THEOREM OperatorsAreRanges == Spec => []TermsAreRanges
<1>1. SelectionInv => TermsAreRanges
  <2> SUFFICES ASSUME SelectionInv, phase = "returned" PROVE TermsAreRanges
    BY DEF TermsAreRanges
  <2>1. /\ constraint \in Constraints /\ ConstraintParses(constraint)
        /\ \A k \in DOMAIN cands : AVersion(Version(k))
    BY DEF SelectionInv, TypeOK, RunOK
  <2>2. \A i \in DOMAIN constraint : \A j \in DOMAIN constraint[i] :
          ParseNode(constraint[i][j]).core \in Cores
    BY <2>1, ParsedTerm
  <2>3. ASSUME NEW i \in DOMAIN constraint, NEW j \in DOMAIN constraint[i], NEW n,
               n = ParseNode(constraint[i][j]), n.op \in KnownOps,
               NEW k \in DOMAIN cands, cands[k].pre = << >>
        PROVE  MatchNode(n, Version(k)) <=>
                   /\ ~Below(cands[k].parts, Low(n))
                   /\ Bounded(n) => Below(cands[k].parts, Limit(n))
    <3>1. Version(k).core = cands[k].parts /\ Version(k).pre = << >>
      BY <2>3 DEF Version, Parse
    <3>2. n.core \in Cores /\ AVersion(Version(k))
      BY <2>1, <2>2, <2>3
    <3>3. QED
      BY <2>3, <3>1, <3>2, TermRange
  <2>4. ASSUME Len(constraint) = 1,
               NEW i \in DOMAIN cands, NEW j \in DOMAIN cands, NEW k \in DOMAIN cands,
               Order(i, j) < 0, Order(j, k) < 0, Matches(i), Matches(k)
        PROVE  Matches(j)
    <3>1. DOMAIN constraint = {1}
      <4>1. constraint \in Seq(Seq([op : STRING, text : AText]))
        BY <2>1, TextsOK
      <4>2. QED
        BY <2>4, <4>1
    <3> DEFINE c == ParseConstraint(constraint)
    <3>2. /\ DOMAIN c = {1} /\ DOMAIN c[1] = DOMAIN constraint[1]
          /\ \A x \in DOMAIN c[1] : c[1][x] = ParseNode(constraint[1][x])
      BY <3>1 DEF ParseConstraint
    <3> HIDE DEF c
    <3>3. \A y : Matches(y) <=> \A x \in DOMAIN c[1] : MatchNode(c[1][x], Version(y))
      BY <3>2 DEF Matches, Match, c
    <3>4. ASSUME NEW x \in DOMAIN c[1] PROVE MatchNode(c[1][x], Version(j))
      <4>1. c[1][x].core \in Cores
        BY <2>2, <3>1, <3>2
      <4>2. /\ Compare(Version(i), Version(j)) < 0 /\ Compare(Version(j), Version(k)) < 0
            /\ AVersion(Version(i)) /\ AVersion(Version(j)) /\ AVersion(Version(k))
        BY <2>1, <2>4 DEF Order
      <4>3. MatchNode(c[1][x], Version(i)) /\ MatchNode(c[1][x], Version(k))
        BY <2>4, <3>3
      <4>4. QED
        BY <4>1, <4>2, <4>3, TermConvex
    <3>5. QED
      BY <3>3, <3>4
  <2>5. QED
    BY <2>3, <2>4 DEF TermsAreRanges
<1>2. QED
  BY <1>1, Invariant, PTL
=============================================================================
