--------------------------- MODULE ReadinessProofs ---------------------------
(***************************************************************************)
(* Theorems about Readiness for every catalog, draft and number of faults, *)
(* with proofs checked by TLAPS.                                           *)
(*                                                                         *)
(* The check is over when the resolution runs, so the proof cannot step    *)
(* through both.  It looks at the check as if the draft were selected      *)
(* already and its declarations were the calls left in the bottom frame of *)
(* the stack, which is how the resolution will see them; After(st, dp, X)  *)
(* is then the one step either of them makes from X, and the invariant     *)
(* says what lies on the way to what the check ended with.                 *)
(***************************************************************************)
EXTENDS Readiness, ResolverProofs

-----------------------------------------------------------------------------
(* A run as the steps of a function.                                       *)

\* A run X is a record of its stack, the versions selected, and the verdicts
\* found; st and dp are the rows and the dependencies of the catalog.
TopOf(X) == X.stack[Len(X.stack)]

Within(X) == {X.stack[k].name : k \in DOMAIN X.stack}

\* The next call, its text, and the versions that fit it.
Due(X) == CHOOSE m \in TopOf(X).todo : \A o \in TopOf(X).todo : m <= o

DueText(dp, X) == dp[TopOf(X).name][X.selected[TopOf(X).name]][Due(X)]

Fitting(st, dp, X) ==
    {v \in Vers : st[Due(X)][v] = "published" /\ v \in Accepts[DueText(dp, X)]}

Best(S) == CHOOSE v \in S : \A o \in S : o <= v

\* The stack when the call is made and its frames are pushed.
Going(X, pushed) == [X.stack EXCEPT ![Len(X.stack)].todo = @ \ {Due(X)}] \o pushed

\* The call.
Called(st, dp, X) ==
    IF Due(X) \in Within(X)
    THEN [stack |-> Going(X, << >>), selected |-> X.selected,
          found |-> Append(X.found, <<"CYCLE", Due(X)>>)]
    ELSE IF X.selected[Due(X)] # 0
    THEN [stack |-> Going(X, << >>), selected |-> X.selected, found |-> X.found]
    ELSE IF Due(X) \notin Registered \/ Fitting(st, dp, X) = {}
    THEN [stack |-> Going(X, << >>), selected |-> X.selected,
          found |-> Append(X.found, <<"MISSING", Due(X)>>)]
    ELSE [stack |-> Going(X, <<[name |-> Due(X), loaded |-> FALSE, todo |-> {}]>>),
          selected |-> [X.selected EXCEPT ![Due(X)] = Best(Fitting(st, dp, X))],
          found |-> X.found]

\* The dependencies of the version on top.
TopNeeds(dp, X) == {m \in Names : dp[TopOf(X).name][X.selected[TopOf(X).name]][m] # NoText}

\* The step: dependencies are loaded, the top returns, or a call is made.
After(st, dp, X) ==
    IF ~TopOf(X).loaded
    THEN [stack |-> [X.stack EXCEPT ![Len(X.stack)].loaded = TRUE,
                                    ![Len(X.stack)].todo = TopNeeds(dp, X)],
          selected |-> X.selected, found |-> X.found]
    ELSE IF TopOf(X).todo = {}
    THEN [stack |-> SubSeq(X.stack, 1, Len(X.stack) - 1),
          selected |-> X.selected, found |-> X.found]
    ELSE Called(st, dp, X)

\* Only the bottom is left, with nothing to visit.
Ended(X) == Len(X.stack) = 1 /\ TopOf(X).loaded /\ TopOf(X).todo = {}

\* The steps from X lead to F: it is in every set that has X and, with a run that
\* has not ended, the one after it.
Reaches(st, dp, X, F) ==
    \A S : X \in S /\ (\A Z \in S : ~Ended(Z) => After(st, dp, Z) \in S) => F \in S

\* A run reaches itself.
LEMMA ReachesSelf ==
    ASSUME NEW st, NEW dp, NEW X
    PROVE  Reaches(st, dp, X, X)
BY DEF Reaches

\* What is after a run that is reached is reached.
LEMMA ReachesOn ==
    ASSUME NEW st, NEW dp, NEW X, NEW Z, Reaches(st, dp, X, Z), ~Ended(Z)
    PROVE  Reaches(st, dp, X, After(st, dp, Z))
<1> SUFFICES ASSUME NEW S, X \in S, \A Y \in S : ~Ended(Y) => After(st, dp, Y) \in S
             PROVE  After(st, dp, Z) \in S
  BY DEF Reaches
<1>1. Z \in S
  BY DEF Reaches
<1>2. QED
  BY <1>1

\* There is one way on: what a run reaches, its next one reaches, but itself.
LEMMA ReachedNext ==
    ASSUME NEW st, NEW dp, NEW X, NEW F, Reaches(st, dp, X, F), X # F
    PROVE  Reaches(st, dp, After(st, dp, X), F)
<1> SUFFICES ASSUME NEW S, After(st, dp, X) \in S,
                    \A Y \in S : ~Ended(Y) => After(st, dp, Y) \in S
             PROVE  F \in S
  BY DEF Reaches
<1> PICK T : T = S \cup {X}
  OBVIOUS
<1>1. X \in T /\ \A Y \in T : ~Ended(Y) => After(st, dp, Y) \in T
  OBVIOUS
<1>2. F \in T
  BY <1>1 DEF Reaches
<1>3. QED
  BY <1>2

\* A run that has ended reaches only itself.
LEMMA EndReached ==
    ASSUME NEW st, NEW dp, NEW X, NEW F, Reaches(st, dp, X, F), Ended(X)
    PROVE  F = X
<1>1. X \in {X} /\ \A Y \in {X} : ~Ended(Y) => After(st, dp, Y) \in {X}
  OBVIOUS
<1>2. F \in {X}
  BY <1>1 DEF Reaches
<1>3. QED
  BY <1>2
-----------------------------------------------------------------------------
(* The declarations as items, and the stack with a frame below it.         *)

USE ConstantsOK, DraftsOK

\* Items in the order of their names.
Ordered(items) ==
    /\ items \in Seq(Items)
    /\ \A j, k \in 1 .. Len(items) : j < k => items[j].name < items[k].name

\* The names from item i on.
LeftOf(items, i) == {items[k].name : k \in i .. Len(items)}

\* The declarations are items in the order of their names, one for each target.
LEMMA DeclaredShape ==
    ASSUME TypeOK, NEW n \in Names, NEW v \in Vers, NEW items, items = Declared(n, v)
    PROVE  /\ Ordered(items) /\ LeftOf(items, 1) = Targets(n, v)
           /\ \A k \in 1 .. Len(items) : items[k].text = deps[n][v][items[k].name]
<1> PICK D : D = Targets(n, v)
  OBVIOUS
<1> PICK c : c = Cardinality(D)
  OBVIOUS
<1> PICK need : need = deps[n][v]
  OBVIOUS
<1>1. D \subseteq Names /\ D \subseteq Nat /\ IsFiniteSet(D) /\ \A m \in D : need[m] \in Texts
  BY NodeTyped, FS_Subset
<1>2. c \in Nat
  BY <1>1, FS_CardinalityType
<1>3. /\ \A k \in 1 .. c : Nth(D, k) \in D
      /\ \A j, k \in 1 .. c : j < k => Nth(D, j) < Nth(D, k)
      /\ \A x \in D : \E k \in 1 .. c : x = Nth(D, k)
  BY <1>1, NthCounts
<1>4. items = [k \in 1 .. c |-> [name |-> Nth(D, k), text |-> need[Nth(D, k)]]]
  BY DEF Declared
<1>5. \A k \in 1 .. c : /\ items[k] = [name |-> Nth(D, k), text |-> need[Nth(D, k)]]
                        /\ items[k] \in Items
  BY <1>1, <1>3, <1>4 DEF Items
<1>6. DOMAIN items = 1 .. c /\ items = [k \in 1 .. c |-> items[k]]
  BY <1>4
<1>7. items \in Seq(Items) /\ Len(items) = c
  <2>1. items \in [1 .. c -> Items]
    BY <1>5, <1>6
  <2>2. QED
    BY ONLY <1>2, <2>1
<1>8. \A k \in 1 .. c : items[k].name = Nth(D, k) /\ items[k].text = need[items[k].name]
  <2> SUFFICES ASSUME NEW k \in 1 .. c
               PROVE  items[k].name = Nth(D, k) /\ items[k].text = need[items[k].name]
    OBVIOUS
  <2> PICK x : x = Nth(D, k)
    OBVIOUS
  <2>1. items[k] = [name |-> x, text |-> need[x]]
    BY <1>5
  <2>2. QED
    BY ONLY <2>1, x = Nth(D, k)
<1>9. Ordered(items)
  BY <1>3, <1>7, <1>8 DEF Ordered
<1>10. LeftOf(items, 1) = D
  <2>1. LeftOf(items, 1) = {items[k].name : k \in 1 .. c}
    BY <1>7 DEF LeftOf
  <2>2. \A k \in 1 .. c : items[k].name \in D
    BY <1>3, <1>8
  <2>3. \A x \in D : \E k \in 1 .. c : x = items[k].name
    BY <1>3, <1>8
  <2>4. QED
    BY ONLY <2>1, <2>2, <2>3
<1>11. QED
  BY <1>7, <1>8, <1>9, <1>10

\* The next item is the smallest of those left, and not among those after it.
LEMMA NextItem ==
    ASSUME NEW items, Ordered(items), NEW i \in 1 .. Len(items)
    PROVE  /\ items[i].name \in LeftOf(items, i) /\ LeftOf(items, i) \subseteq Names
           /\ \A o \in LeftOf(items, i) : items[i].name <= o
           /\ LeftOf(items, i + 1) = LeftOf(items, i) \ {items[i].name}
<1> PICK n : n = Len(items)
  OBVIOUS
<1> PICK name : name = [k \in 1 .. n |-> items[k].name]
  OBVIOUS
<1>1. n \in Nat /\ items \in Seq(Items) /\ i \in 1 .. n
  BY DEF Ordered
<1>2. \A k \in 1 .. n : items[k].name = name[k] /\ name[k] \in Names /\ name[k] \in Nat
  <2> SUFFICES ASSUME NEW k \in 1 .. n
               PROVE  items[k].name = name[k] /\ name[k] \in Names /\ name[k] \in Nat
    OBVIOUS
  <2>1. items[k] \in Items
    BY <1>1
  <2>2. items[k].name \in Names /\ name[k] = items[k].name
    BY <2>1 DEF Items
  <2>3. QED
    BY <2>2
<1>3. \A j, k \in 1 .. n : j < k => name[j] < name[k]
  BY <1>2 DEF Ordered
<1>4. \A j \in 1 .. n : LeftOf(items, j) = {name[k] : k \in j .. n}
  <2> SUFFICES ASSUME NEW j \in 1 .. n PROVE LeftOf(items, j) = {name[k] : k \in j .. n}
    OBVIOUS
  <2>1. \A k \in j .. n : items[k].name = name[k]
    BY <1>1, <1>2
  <2>2. QED
    BY <2>1 DEF LeftOf
<1>5. LeftOf(items, i + 1) = {name[k] : k \in i + 1 .. n}
  <2>1. \A k \in i + 1 .. n : items[k].name = name[k]
    BY <1>1, <1>2
  <2>2. QED
    BY <2>1 DEF LeftOf
<1>6. i \in i .. n /\ \A k \in i .. n : k = i \/ k \in i + 1 .. n
  BY <1>1
<1>7. \A k \in i + 1 .. n : k \in 1 .. n /\ i < k /\ k \in i .. n
  BY <1>1
<1>8. \A k \in i .. n : name[k] \in Names /\ name[i] <= name[k]
  BY <1>1, <1>2, <1>3, <1>6, <1>7
<1>9. \A k \in i + 1 .. n : name[k] # name[i]
  BY <1>1, <1>2, <1>3, <1>7
<1>10. {name[k] : k \in i + 1 .. n} = {name[k] : k \in i .. n} \ {name[i]}
  BY ONLY <1>6, <1>7, <1>9
<1>11. items[i].name = name[i] /\ LeftOf(items, i) = {name[k] : k \in i .. n}
  BY <1>1, <1>2, <1>4
<1>12. QED
  BY ONLY <1>5, <1>6, <1>8, <1>10, <1>11

\* After the last item none is left.
LEMMA NoItemLeft ==
    ASSUME NEW items, Ordered(items)
    PROVE  LeftOf(items, Len(items) + 1) = {}
<1>1. Len(items) \in Nat
  BY DEF Ordered
<1>2. QED
  BY <1>1 DEF LeftOf

\* Ordered items do not contradict each other, since none has the name of another.
LEMMA OrderedAgree ==
    ASSUME TypeOK, Ordered(manifest), NEW k \in DOMAIN manifest
    PROVE  ~Conflicting(k)
<1> SUFFICES ASSUME NEW j \in 1 .. k - 1, manifest[j].name = manifest[k].name PROVE FALSE
  BY DEF Conflicting
<1>1. manifest \in Seq(Items) /\ k \in 1 .. Len(manifest) /\ Len(manifest) \in Nat
  BY DEF TypeOK
<1>2. j \in 1 .. Len(manifest) /\ j < k
  BY <1>1
<1>3. manifest[k].name \in Nat
  BY ManifestTyped
<1>4. manifest[j].name < manifest[k].name
  BY <1>1, <1>2 DEF Ordered
<1>5. QED
  BY <1>3, <1>4
-----------------------------------------------------------------------------
(* Verdicts, and a stack with a frame below it.                            *)

Verdict == {"CYCLE", "MISSING", "CONFLICT"} \X Names

\* Verdicts are a sequence as long as the diagnostics.
LEMMA VerdictsTyped ==
    ASSUME NEW ds \in Seq(Diag)
    PROVE  /\ Verdicts(ds) \in Seq(Verdict) /\ Len(Verdicts(ds)) = Len(ds)
           /\ DOMAIN ds = 1 .. Len(ds) /\ Len(ds) \in Nat
           /\ \A k \in 1 .. Len(ds) : Verdicts(ds)[k] = <<ds[k].type, ds[k].name>>
<1> PICK n : n = Len(ds)
  OBVIOUS
<1> PICK vs : vs = Verdicts(ds)
  OBVIOUS
<1>1. n \in Nat /\ DOMAIN ds = 1 .. n
  OBVIOUS
<1>2. \A k \in 1 .. n : <<ds[k].type, ds[k].name>> \in Verdict
  <2> SUFFICES ASSUME NEW k \in 1 .. n PROVE <<ds[k].type, ds[k].name>> \in Verdict
    OBVIOUS
  <2>1. ds[k] \in Diag
    BY <1>1
  <2>2. QED
    BY <2>1 DEF Diag, Verdict
<1>3. vs = [k \in 1 .. n |-> <<ds[k].type, ds[k].name>>]
  BY <1>1 DEF Verdicts
<1>4. vs \in [1 .. n -> Verdict]
  BY ONLY <1>2, <1>3
<1>5. vs \in Seq(Verdict) /\ Len(vs) = n
  BY ONLY <1>1, <1>4
<1>6. QED
  BY <1>1, <1>3, <1>5

\* A diagnosis more is a verdict more.
LEMMA VerdictAdded ==
    ASSUME NEW ds \in Seq(Diag), NEW d \in Diag
    PROVE  Verdicts(Append(ds, d)) = Append(Verdicts(ds), <<d.type, d.name>>)
<1> PICK n : n = Len(ds)
  OBVIOUS
<1> PICK more : more = Append(ds, d)
  OBVIOUS
<1> PICK old : old = Verdicts(ds)
  OBVIOUS
<1> PICK vs : vs = Verdicts(more)
  OBVIOUS
<1> PICK w : w = <<d.type, d.name>>
  OBVIOUS
<1> PICK ws : ws = Append(old, w)
  OBVIOUS
<1>1. n \in Nat /\ DOMAIN ds = 1 .. n
  OBVIOUS
<1>2. w \in Verdict
  BY DEF Diag, Verdict
<1>3. old \in Seq(Verdict) /\ Len(old) = n /\ \A k \in 1 .. n : old[k] = <<ds[k].type, ds[k].name>>
  BY VerdictsTyped
<1>4. /\ more \in Seq(Diag) /\ Len(more) = n + 1
      /\ more[n + 1] = d /\ \A k \in 1 .. n : more[k] = ds[k]
  BY <1>1
<1>5. /\ vs \in Seq(Verdict) /\ Len(vs) = n + 1
      /\ \A k \in 1 .. n + 1 : vs[k] = <<more[k].type, more[k].name>>
  BY <1>4, VerdictsTyped
<1>6. /\ ws \in Seq(Verdict) /\ Len(ws) = n + 1
      /\ ws[n + 1] = w /\ \A k \in 1 .. n : ws[k] = old[k]
  BY <1>1, <1>2, <1>3
<1>7. \A k \in 1 .. n + 1 : vs[k] = ws[k]
  <2> SUFFICES ASSUME NEW k \in 1 .. n + 1 PROVE vs[k] = ws[k]
    OBVIOUS
  <2>0. vs[k] = <<more[k].type, more[k].name>>
    BY ONLY <1>5, k \in 1 .. n + 1
  <2>1. CASE k = n + 1
    <3>1. more[k] = d /\ ws[k] = w
      BY ONLY <1>4, <1>6, <2>1
    <3>2. QED
      BY ONLY <2>0, <3>1, w = <<d.type, d.name>>
  <2>2. CASE k # n + 1
    <3>1. k \in 1 .. n
      BY <1>1, <2>2
    <3>2. more[k] = ds[k] /\ ws[k] = old[k]
      BY ONLY <1>4, <1>6, <3>1
    <3>3. old[k] = <<ds[k].type, ds[k].name>>
      BY ONLY <1>3, <3>1
    <3>4. QED
      BY ONLY <2>0, <3>2, <3>3
  <2>3. QED
    BY <2>1, <2>2
<1>8. vs = ws
  BY ONLY <1>5, <1>6, <1>7, SeqEqual
<1>9. QED
  BY <1>8

\* A stack with the frame B below it.
LEMMA StackAbove ==
    ASSUME NEW B \in Frame, NEW s \in Seq(Frame), NEW r, r = <<B>> \o s
    PROVE  /\ r \in Seq(Frame) /\ Len(r) = Len(s) + 1 /\ DOMAIN r = 1 .. Len(s) + 1
           /\ Len(s) \in Nat /\ DOMAIN s = 1 .. Len(s)
           /\ r[1] = B /\ \A k \in 1 .. Len(s) : r[k + 1] = s[k]
           /\ \A k \in 1 .. Len(s) + 1 : r[k] = IF k = 1 THEN B ELSE s[k - 1]
<1>1. <<B>> \in Seq(Frame) /\ Len(<<B>>) = 1
  OBVIOUS
<1>2. QED
  BY <1>1

\* Its top can be replaced before or after the frame is put below.
LEMMA TopReplaced ==
    ASSUME NEW B \in Frame, NEW s \in Seq(Frame), s # << >>, NEW f \in Frame
    PROVE  <<B>> \o [s EXCEPT ![Len(s)] = f] = [<<B>> \o s EXCEPT ![Len(s) + 1] = f]
<1> PICK n : n = Len(s)
  OBVIOUS
<1> PICK r : r = <<B>> \o s
  OBVIOUS
<1> PICK t : t = [s EXCEPT ![n] = f]
  OBVIOUS
<1> PICK u : u = <<B>> \o t
  OBVIOUS
<1> PICK w : w = [r EXCEPT ![n + 1] = f]
  OBVIOUS
<1>1. n \in Nat \ {0} /\ DOMAIN s = 1 .. n
  OBVIOUS
<1>2. t \in Seq(Frame) /\ Len(t) = n /\ \A k \in 1 .. n : t[k] = IF k = n THEN f ELSE s[k]
  BY <1>1
<1>3. /\ r \in Seq(Frame) /\ DOMAIN r = 1 .. n + 1 /\ r[1] = B
      /\ \A k \in 1 .. n + 1 : r[k] = IF k = 1 THEN B ELSE s[k - 1]
  BY StackAbove
<1>4. /\ u \in Seq(Frame) /\ DOMAIN u = 1 .. n + 1
      /\ \A k \in 1 .. n + 1 : u[k] = IF k = 1 THEN B ELSE t[k - 1]
  BY <1>2, StackAbove
<1>5. \A k \in 1 .. n + 1 : u[k] = IF k = n + 1 THEN f ELSE r[k]
  BY <1>1, <1>2, <1>3, <1>4
<1>6. /\ w \in Seq(Frame) /\ Len(w) = n + 1
      /\ \A k \in 1 .. n + 1 : w[k] = IF k = n + 1 THEN f ELSE r[k]
  <2>1. r \in Seq(Frame) /\ Len(r) = n + 1 /\ n + 1 \in 1 .. n + 1
    BY <1>1, StackAbove
  <2>2. QED
    BY ONLY <2>1, f \in Frame, w = [r EXCEPT ![n + 1] = f], ExceptSeq
<1>7. u = w
  <2>1. Len(u) = n + 1
    BY <1>2, StackAbove
  <2>2. \A k \in 1 .. n + 1 : u[k] = w[k]
    BY ONLY <1>5, <1>6
  <2>3. u \in Seq(Frame) /\ w \in Seq(Frame) /\ Len(u) = Len(w) /\ \A k \in 1 .. Len(u) : u[k] = w[k]
    BY ONLY <1>4, <1>6, <2>1, <2>2
  <2>4. QED
    BY ONLY <2>3, SeqEqual
<1>8. QED
  BY <1>7

\* So can its top be taken off.
LEMMA TopTaken ==
    ASSUME NEW B \in Frame, NEW s \in Seq(Frame), s # << >>
    PROVE  <<B>> \o SubSeq(s, 1, Len(s) - 1) = SubSeq(<<B>> \o s, 1, Len(s))
<1> PICK n : n = Len(s)
  OBVIOUS
<1> PICK r : r = <<B>> \o s
  OBVIOUS
<1> PICK t : t = SubSeq(s, 1, n - 1)
  OBVIOUS
<1> PICK u : u = <<B>> \o t
  OBVIOUS
<1> PICK w : w = SubSeq(r, 1, n)
  OBVIOUS
<1>1. n \in Nat \ {0} /\ DOMAIN s = 1 .. n
  OBVIOUS
<1>2. t \in Seq(Frame) /\ Len(t) = n - 1 /\ \A k \in 1 .. n - 1 : t[k] = s[k]
  <2>1. \A k \in 1 .. n - 1 : k \in 1 .. n /\ s[k] \in Frame
    BY <1>1
  <2>2. n - 1 \in Nat
    BY <1>1
  <2>3. t = [k \in 1 .. n - 1 |-> s[k]]
    BY <1>1, <2>2
  <2>4. QED
    BY ONLY <2>1, <2>2, <2>3
<1>3. /\ r \in Seq(Frame) /\ Len(r) = n + 1 /\ DOMAIN r = 1 .. n + 1
      /\ \A k \in 1 .. n + 1 : r[k] = IF k = 1 THEN B ELSE s[k - 1]
  BY StackAbove
<1>4. /\ u \in Seq(Frame) /\ Len(u) = n
      /\ \A k \in 1 .. n : u[k] = IF k = 1 THEN B ELSE t[k - 1]
  <2>1. Len(t) + 1 = n
    BY <1>1, <1>2
  <2>2. QED
    BY <1>2, <2>1, StackAbove
<1>5. w \in Seq(Frame) /\ Len(w) = n /\ \A k \in 1 .. n : w[k] = r[k]
  <2>1. \A k \in 1 .. n : k \in 1 .. n + 1 /\ r[k] \in Frame
    BY <1>1, <1>3
  <2>2. w = [k \in 1 .. n |-> r[k]]
    <3>1. r \in Seq(Frame) /\ Len(r) = n + 1
      BY <1>3
    <3>2. QED
      BY ONLY <1>1, <3>1, w = SubSeq(r, 1, n)
  <2>3. QED
    BY ONLY <1>1, <2>1, <2>2
<1>6. \A k \in 1 .. n : u[k] = w[k]
  BY <1>1, <1>2, <1>3, <1>4, <1>5
<1>7. u = w
  <2>1. u \in Seq(Frame) /\ w \in Seq(Frame) /\ Len(u) = Len(w) /\ \A k \in 1 .. Len(u) : u[k] = w[k]
    BY ONLY <1>4, <1>5, <1>6
  <2>2. QED
    BY ONLY <2>1, SeqEqual
<1>8. QED
  BY <1>7
-----------------------------------------------------------------------------
(* The engine's steps, seen as those of a run.                             *)

\* A call of the engine is the call of a run that has the same one due, knows the
\* same names, and has the same versions to choose from.
LEMMA CallMirrored ==
    ASSUME TypeOK, StackOK, HasNext, Cycle \/ AlreadySelected \/ Missing \/ Select,
           NEW st, NEW dp, NEW X, NEW Y,
           TopOf(X).loaded, TopOf(X).todo # {}, Due(X) = Pending.name,
           Pending.name \in Within(X) <=> Pending.name \in InStack,
           X.selected[Pending.name] = selected[Pending.name],
           Fitting(st, dp, X) = Matching,
           X.found = Verdicts(diags),
           Y = [stack |-> Y.stack, selected |-> Y.selected, found |-> Verdicts(diags')],
           \A pushed \in Seq(Frame) : Call(pushed) => Y.stack = Going(X, pushed),
           selected' = selected => Y.selected = X.selected,
           \A v : selected' = [selected EXCEPT ![Pending.name] = v] =>
                    Y.selected = [X.selected EXCEPT ![Pending.name] = v]
    PROVE  Y = After(st, dp, X)
<1> PICK p : p = Pending.name
  OBVIOUS
<1>1. After(st, dp, X) = Called(st, dp, X) /\ Due(X) = p
  BY DEF After
<1>2. diags \in Seq(Diag) /\ << >> \in Seq(Frame) /\ p \in Names
  BY PendingShape DEF TypeOK
<1>3. ASSUME NEW type \in {"CYCLE", "MISSING"}, NEW path \in Seq(Names), Report(type, path)
      PROVE  Verdicts(diags') = Append(X.found, <<type, p>>)
  <2> PICK d \in Diag : d.type = type /\ d.name = Pending.name /\ diags' = Append(diags, d)
    BY <1>3, ReportShape
  <2>1. Verdicts(diags') = Append(Verdicts(diags), <<d.type, d.name>>)
    BY <1>2, VerdictAdded
  <2>2. QED
    BY <2>1
<1>4. CASE Cycle
  <2> PICK path : path = [k \in 1 .. Len(stack) |->
                            IF k < Len(stack) THEN stack[k + 1].name ELSE Pending.name]
    OBVIOUS
  <2>1. p \in InStack /\ Report("CYCLE", path) /\ Call(<< >>) /\ selected' = selected
    BY <1>4 DEF Cycle
  <2>2. path \in Seq(Names)
    BY <2>1, CyclePathWalks
  <2>3. Verdicts(diags') = Append(X.found, <<"CYCLE", p>>)
    BY <1>3, <2>1, <2>2
  <2>4. Y.stack = Going(X, << >>) /\ Y.selected = X.selected
    BY <1>2, <2>1
  <2>5. p \in Within(X)
    BY <2>1
  <2>6. Called(st, dp, X) = [stack |-> Going(X, << >>), selected |-> X.selected,
                             found |-> Append(X.found, <<"CYCLE", p>>)]
    BY <1>1, <2>5 DEF Called
  <2>7. QED
    BY ONLY <1>1, <2>3, <2>4, <2>6,
            Y = [stack |-> Y.stack, selected |-> Y.selected, found |-> Verdicts(diags')]
<1>5. CASE AlreadySelected
  <2>1. /\ p \notin InStack /\ selected[p] # 0 /\ Call(<< >>)
        /\ selected' = selected /\ diags' = diags
    BY <1>5 DEF AlreadySelected
  <2>2. Y.stack = Going(X, << >>) /\ Y.selected = X.selected /\ Verdicts(diags') = X.found
    BY <1>2, <2>1
  <2>3. p \notin Within(X) /\ X.selected[p] # 0
    BY <2>1
  <2>4. Called(st, dp, X) = [stack |-> Going(X, << >>), selected |-> X.selected,
                             found |-> X.found]
    BY <1>1, <2>3 DEF Called
  <2>5. QED
    BY ONLY <1>1, <2>2, <2>4,
            Y = [stack |-> Y.stack, selected |-> Y.selected, found |-> Verdicts(diags')]
<1>6. CASE Missing
  <2>1. /\ Fresh /\ (p \notin Registered \/ Matching = {}) /\ Report("MISSING", << >>)
        /\ Call(<< >>) /\ selected' = selected
    BY <1>6 DEF Missing
  <2>2. Verdicts(diags') = Append(X.found, <<"MISSING", p>>)
    <3>1. << >> \in Seq(Names)
      OBVIOUS
    <3>2. QED
      BY <1>3, <2>1, <3>1
  <2>3. Y.stack = Going(X, << >>) /\ Y.selected = X.selected
    BY <1>2, <2>1
  <2>4. p \notin Within(X) /\ X.selected[p] = 0 /\ (p \notin Registered \/ Fitting(st, dp, X) = {})
    BY <2>1 DEF Fresh
  <2>5. Called(st, dp, X) = [stack |-> Going(X, << >>), selected |-> X.selected,
                             found |-> Append(X.found, <<"MISSING", p>>)]
    BY <1>1, <2>4 DEF Called
  <2>6. QED
    BY ONLY <1>1, <2>2, <2>3, <2>5,
            Y = [stack |-> Y.stack, selected |-> Y.selected, found |-> Verdicts(diags')]
<1>7. CASE Select
  <2> PICK f : f = [name |-> p, loaded |-> FALSE, todo |-> {}]
    OBVIOUS
  <2> PICK v : v = Best(Matching)
    OBVIOUS
  <2>1. /\ Fresh /\ p \in Registered /\ Matching # {} /\ Call(<<f>>) /\ diags' = diags
        /\ selected' = [selected EXCEPT ![p] = v]
    BY <1>7 DEF Select, Best
  <2>2. <<f>> \in Seq(Frame)
    <3>1. f \in Frame
      BY <1>2 DEF Frame
    <3>2. QED
      BY <3>1
  <2>3. /\ Y.stack = Going(X, <<f>>) /\ Y.selected = [X.selected EXCEPT ![p] = v]
        /\ Verdicts(diags') = X.found
    BY <2>1, <2>2
  <2>4. /\ p \notin Within(X) /\ X.selected[p] = 0 /\ p \in Registered
        /\ Fitting(st, dp, X) # {} /\ v = Best(Fitting(st, dp, X))
    BY <2>1 DEF Fresh
  <2>5. Called(st, dp, X) = [stack |-> Going(X, <<f>>),
                             selected |-> [X.selected EXCEPT ![p] = v], found |-> X.found]
    BY <1>1, <2>4 DEF Called
  <2>6. QED
    BY ONLY <1>1, <2>3, <2>5,
            Y = [stack |-> Y.stack, selected |-> Y.selected, found |-> Verdicts(diags')]
<1>8. QED
  BY <1>4, <1>5, <1>6, <1>7

\* No version is revived.
Calm == \A n \in Names, v \in Vers : status[n][v] # "revived"

\* The run of the engine as it is.
Seen == [stack |-> stack, selected |-> selected, found |-> Verdicts(diags)]

\* While the stack is not empty, the engine makes the steps of the run as it is.
LEMMA SeenMirrored ==
    ASSUME TypeOK, StackOK, Calm, stack # << >>, Engine, ~ReadFails
    PROVE  Seen' = After(status, deps, Seen)
<1> PICK X : X = Seen
  OBVIOUS
<1> PICK Y : Y = Seen'
  OBVIOUS
<1>1. X = [stack |-> stack, selected |-> selected, found |-> Verdicts(diags)]
  BY DEF Seen
<1>2. Y = [stack |-> stack', selected |-> selected', found |-> Verdicts(diags')]
  BY DEF Seen
<1>3. X.stack = stack /\ X.selected = selected /\ X.found = Verdicts(diags) /\ TopOf(X) = Top
  BY <1>1 DEF TopOf, Top
<1>4. Y.stack = stack' /\ Y.selected = selected' /\ Y.found = Verdicts(diags')
  BY <1>2
<1>5. CASE Cycle \/ AlreadySelected \/ Missing \/ Select
  <2>1. HasNext
    BY <1>5 DEF Cycle, AlreadySelected, Missing, Select, Fresh
  <2>2. TopOf(X).loaded /\ TopOf(X).todo # {}
    BY <1>3, <2>1 DEF HasNext
  <2>3. Due(X) = Pending.name /\ DueText(deps, X) = Pending.text
    BY <1>3 DEF Due, DueText, Pending
  <2>4. Within(X) = InStack
    BY <1>3 DEF Within, InStack
  <2>5. Fitting(status, deps, X) = Matching
    <3>1. Pending.name \in Names
      BY <2>1, PendingShape
    <3>2. Candidates(Pending.name) = {v \in Vers : status[Pending.name][v] = "published"}
      BY <3>1 DEF Candidates, Calm
    <3>3. QED
      BY <2>3, <3>2 DEF Fitting, Matching
  <2>6. ASSUME NEW pushed \in Seq(Frame), Call(pushed) PROVE Y.stack = Going(X, pushed)
    <3>1. stack' = [stack EXCEPT ![Len(stack)].todo = @ \ {Pending.name}] \o pushed
      BY <2>6 DEF Call
    <3>2. QED
      BY <1>3, <1>4, <2>3, <3>1 DEF Going
  <2>7. selected' = selected => Y.selected = X.selected
    BY <1>3, <1>4
  <2>8. \A v : selected' = [selected EXCEPT ![Pending.name] = v] =>
                 Y.selected = [X.selected EXCEPT ![Pending.name] = v]
    BY <1>3, <1>4
  <2>9. X.selected[Pending.name] = selected[Pending.name]
    BY <1>3
  <2>10. Y = [stack |-> Y.stack, selected |-> Y.selected, found |-> Verdicts(diags')]
    BY <1>2, <1>4
  <2>11. Y = After(status, deps, X)
    BY ONLY TypeOK, StackOK, <1>3, <1>5, <2>1, <2>2, <2>3, <2>4, <2>5, <2>6, <2>7, <2>8, <2>9,
            <2>10, CallMirrored
  <2>12. QED
    BY <2>11
<1>6. CASE Load
  <2>1. ~TopOf(X).loaded /\ selected' = selected /\ diags' = diags
    BY <1>3, <1>6 DEF Load
  <2>2. TopNeeds(deps, X) = Targets(Top.name, selected[Top.name])
    BY <1>3 DEF TopNeeds, Targets
  <2>3. stack' = [stack EXCEPT ![Len(stack)].loaded = TRUE,
                               ![Len(stack)].todo = Targets(Top.name, selected[Top.name])]
    BY <1>6 DEF Load
  <2>4. After(status, deps, X) =
          [stack |-> [X.stack EXCEPT ![Len(X.stack)].loaded = TRUE,
                                     ![Len(X.stack)].todo = TopNeeds(deps, X)],
           selected |-> X.selected, found |-> X.found]
    BY <2>1 DEF After
  <2>5. QED
    BY <1>2, <1>3, <2>1, <2>2, <2>3, <2>4
<1>7. CASE Return
  <2>1. TopOf(X).loaded /\ TopOf(X).todo = {} /\ selected' = selected /\ diags' = diags
        /\ stack' = SubSeq(stack, 1, Len(stack) - 1)
    BY <1>3, <1>7 DEF Return
  <2>2. After(status, deps, X) = [stack |-> SubSeq(X.stack, 1, Len(X.stack) - 1),
                                  selected |-> X.selected, found |-> X.found]
    BY <2>1 DEF After
  <2>3. QED
    BY <1>2, <1>3, <2>1, <2>2
<1>8. ~Finish
  BY DEF Finish
<1>9. QED
  BY <1>5, <1>6, <1>7, <1>8 DEF Engine

\* The engine has met the draft's own artifact.
Met == selected[draft[1]] # 0 \/ \E k \in DOMAIN diags : diags[k].name = draft[1]

\* The rows as they will be when the draft is published.
Coming == [status EXCEPT ![draft[1]][draft[2]] = "published"]

\* The check as the resolution will see it: the draft selected and loaded, and the
\* declarations that are left to resolve left in its frame.
Bottom == [name |-> draft[1], loaded |-> TRUE, todo |-> LeftOf(manifest, item)]

Ahead == [stack |-> <<Bottom>> \o stack,
          selected |-> [selected EXCEPT ![draft[1]] = draft[2]], found |-> Verdicts(diags)]

\* A draft is a version of an artifact.
LEMMA DraftTyped ==
    ASSUME draft \in Drafts
    PROVE  draft[1] \in Names /\ draft[2] \in Vers /\ draft[1] \in Registered /\ draft[2] # 0
BY DEF DraftsOK, ConstantsOK

\* The frame below is typed.
LEMMA BottomTyped ==
    ASSUME TypeOK, draft \in Drafts, Ordered(manifest)
    PROVE  /\ Bottom \in Frame /\ LeftOf(manifest, item) \subseteq Names
           /\ Bottom.name = draft[1] /\ Bottom.loaded /\ Bottom.todo = LeftOf(manifest, item)
<1>1. item \in 1 .. Len(manifest) + 1 /\ Len(manifest) \in Nat
  BY DEF TypeOK
<1>2. LeftOf(manifest, item) \subseteq Names
  <2>1. CASE item \in 1 .. Len(manifest)
    BY <2>1, NextItem
  <2>2. CASE item = Len(manifest) + 1
    BY <2>2, NoItemLeft
  <2>3. QED
    BY <1>1, <2>1, <2>2
<1>3. QED
  BY <1>2, DraftTyped DEF Bottom, Frame

\* What was met stays met.
LEMMA MetStays ==
    ASSUME TypeOK, StackOK, GraphOK, draft \in Drafts, [Next]_vars, draft' = draft, Met
    PROVE  Met'
<1> PICK d : d = draft[1]
  OBVIOUS
<1>1. d \in Names /\ draft'[1] = d
  BY DraftTyped
<1>2. CASE selected[d] # 0
  <2>1. selected'[d] # 0
    BY <1>1, <1>2, SelectionsStay
  <2>2. QED
    BY <1>1, <2>1 DEF Met
<1>3. CASE \E k \in DOMAIN diags : diags[k].name = d
  <2>1. \E k \in DOMAIN diags' : diags'[k].name = d
    BY <1>3, DiagsGrow
  <2>2. QED
    BY <1>1, <2>1 DEF Met
<1>4. QED
  BY <1>2, <1>3 DEF Met

\* The draft's artifact is met when it is called.
LEMMA CalledIsMet ==
    ASSUME TypeOK, StackOK, HasNext, Cycle \/ AlreadySelected \/ Missing \/ Select,
           draft \in Drafts, draft' = draft, Pending.name = draft[1]
    PROVE  Met'
<1> PICK p : p = Pending.name
  OBVIOUS
<1>0. p \in Names /\ draft'[1] = p
  BY PendingShape
<1>1. ASSUME NEW type \in {"CYCLE", "MISSING"}, NEW path \in Seq(Names), Report(type, path)
      PROVE  Met'
  <2> PICK d \in Diag : d.name = p /\ diags' \in Seq(Diag) /\ Len(diags') = Len(diags) + 1
                        /\ diags'[Len(diags) + 1] = d
    BY <1>1, ReportShape
  <2> PICK k : k = Len(diags) + 1
    OBVIOUS
  <2>1. k \in DOMAIN diags'
    <3>1. Len(diags) \in Nat
      BY DEF TypeOK
    <3>2. QED
      BY <3>1
  <2>2. diags'[k].name = p
    OBVIOUS
  <2>3. QED
    BY <1>0, <2>1, <2>2 DEF Met
<1>2. ASSUME selected'[p] # 0 PROVE Met'
  BY <1>0, <1>2 DEF Met
<1>3. CASE Cycle
  <2> PICK path : path = [k \in 1 .. Len(stack) |->
                            IF k < Len(stack) THEN stack[k + 1].name ELSE Pending.name]
    OBVIOUS
  <2>1. p \in InStack /\ Report("CYCLE", path)
    BY <1>3 DEF Cycle
  <2>2. path \in Seq(Names)
    BY <2>1, CyclePathWalks
  <2>3. QED
    BY <1>1, <2>1, <2>2
<1>4. CASE AlreadySelected
  BY <1>2, <1>4 DEF AlreadySelected
<1>5. CASE Missing
  <2>1. Report("MISSING", << >>) /\ << >> \in Seq(Names)
    BY <1>5 DEF Missing
  <2>2. QED
    BY <1>1, <2>1
<1>6. CASE Select
  <2> PICK v \in Vers : selected' = [selected EXCEPT ![p] = v]
    BY <1>6, SelectShape
  <2>1. selected'[p] = v /\ v # 0
    BY <1>0 DEF TypeOK
  <2>2. QED
    BY <1>2, <2>1
<1>7. QED
  BY <1>3, <1>4, <1>5, <1>6

\* The call that is due of the check is the same when it is seen ahead, and the
\* stack changes in the same way.
LEMMA CallAhead ==
    ASSUME TypeOK, StackOK, draft \in Drafts, draft' = draft, manifest' = manifest,
           manifest = Declared(draft[1], draft[2]), HasNext, Pending.name # draft[1],
           selected[draft[1]] = 0,
           NEW X, X = Ahead
    PROVE  /\ TopOf(X).loaded /\ TopOf(X).todo # {}
           /\ Due(X) = Pending.name /\ DueText(deps, X) = Pending.text
           /\ Pending.name \in Within(X) <=> Pending.name \in InStack
           /\ \A pushed \in Seq(Frame) : Call(pushed) => <<Bottom'>> \o stack' = Going(X, pushed)
<1> PICK d : d = draft[1]
  OBVIOUS
<1> PICK e : e = draft[2]
  OBVIOUS
<1> PICK p : p = Pending.name
  OBVIOUS
<1> PICK B : B = Bottom
  OBVIOUS
<1> PICK C : C = Bottom'
  OBVIOUS
<1> PICK n : n = Len(stack)
  OBVIOUS
<1> PICK r : r = <<B>> \o stack
  OBVIOUS
<1>1. d \in Names /\ e \in Vers /\ p \in Names /\ p # d /\ selected[d] = 0
  BY DraftTyped, PendingShape
<1>2. /\ Ordered(manifest) /\ LeftOf(manifest, 1) = Targets(d, e)
      /\ \A k \in 1 .. Len(manifest) : manifest[k].text = deps[d][e][manifest[k].name]
  BY <1>1, DeclaredShape
<1>3. /\ B \in Frame /\ B.name = d /\ B.loaded /\ B.todo = LeftOf(manifest, item)
  BY <1>2, BottomTyped
<1>4. C = [name |-> d, loaded |-> TRUE, todo |-> LeftOf(manifest, item')]
  BY DEF Bottom
<1>5. /\ stack \in Seq(Frame) /\ r \in Seq(Frame) /\ Len(r) = n + 1 /\ DOMAIN r = 1 .. n + 1
      /\ n \in Nat /\ DOMAIN stack = 1 .. n /\ r[1] = B
      /\ \A k \in 1 .. n : r[k + 1] = stack[k]
      /\ \A k \in 1 .. n + 1 : r[k] = IF k = 1 THEN B ELSE stack[k - 1]
  <2>1. stack \in Seq(Frame)
    BY DEF TypeOK
  <2>2. QED
    BY <1>3, <2>1, StackAbove
<1>6. X.stack = r /\ X.selected = [selected EXCEPT ![d] = e]
  BY DEF Ahead
<1>7. TopOf(X) = r[n + 1]
  BY <1>5, <1>6 DEF TopOf
<1>8. p \in Within(X) <=> p \in InStack
  <2>1. Within(X) = {r[k].name : k \in 1 .. n + 1}
    <3>1. Within(X) = {r[k].name : k \in DOMAIN r}
      BY ONLY <1>6 DEF Within
    <3>2. DOMAIN r = 1 .. n + 1
      BY ONLY <1>5
    <3>3. QED
      BY ONLY <3>1, <3>2
  <2>2. InStack = {stack[k].name : k \in 1 .. n}
    BY <1>5 DEF InStack
  <2>3. ASSUME NEW k \in 1 .. n, p = stack[k].name PROVE p \in Within(X)
    <3> PICK j : j = k + 1
      OBVIOUS
    <3>1. j \in 1 .. n + 1 /\ r[j] = stack[k]
      BY <1>5
    <3>2. r[j].name \in Within(X)
      BY ONLY <2>1, <3>1
    <3>3. QED
      BY ONLY <2>3, <3>1, <3>2
  <2>4. ASSUME NEW k \in 1 .. n + 1, p = r[k].name PROVE p \in InStack
    <3>1. k # 1
      BY <1>1, <1>3, <1>5, <2>4
    <3>2. k - 1 \in 1 .. n /\ r[k] = stack[k - 1]
      BY <1>5, <3>1
    <3>3. QED
      BY ONLY <2>2, <2>4, <3>2
  <2>5. QED
    BY <2>1, <2>2, <2>3, <2>4
<1>9. CASE stack = << >>
  <2>1. n = 0 /\ r = <<B>> /\ TopOf(X) = B
    BY <1>5, <1>7, <1>9
  <2>2. /\ item \in 1 .. Len(manifest) /\ p = manifest[item].name
        /\ Pending.text = manifest[item].text
    <3>1. item \in DOMAIN manifest /\ p = manifest[item].name /\ Pending.text = manifest[item].text
      BY <1>9, PendingShape
    <3>2. QED
      BY <3>1 DEF TypeOK
  <2>3. /\ p \in B.todo /\ B.todo \subseteq Names /\ \A o \in B.todo : p <= o
        /\ LeftOf(manifest, item + 1) = B.todo \ {p}
    BY <1>2, <1>3, <2>2, NextItem
  <2>4. Due(X) = p
    <3> PICK m : m = Due(X)
      OBVIOUS
    <3>1. m = CHOOSE x \in B.todo : \A o \in B.todo : x <= o
      BY <2>1 DEF Due
    <3>2. m \in B.todo /\ \A o \in B.todo : m <= o
      BY ONLY <2>3, <3>1
    <3>3. m <= p /\ p <= m /\ m \in Nat /\ p \in Nat
      BY <1>1, <2>3, <3>2
    <3>4. QED
      BY ONLY <3>3, m = Due(X)
  <2>5. DueText(deps, X) = Pending.text
    <3>1. X.selected[d] = e
      BY <1>1, <1>6 DEF TypeOK
    <3>2. DueText(deps, X) = deps[d][e][p]
      BY <1>3, <2>1, <2>4, <3>1 DEF DueText
    <3>3. QED
      BY <1>2, <2>2, <3>2
  <2>6. ASSUME NEW pushed \in Seq(Frame), Call(pushed) PROVE <<C>> \o stack' = Going(X, pushed)
    <3>1. item' = item + 1 /\ stack' = pushed
      BY <1>9, <2>6 DEF Call
    <3> PICK f : f = [B EXCEPT !.todo = @ \ {p}]
      OBVIOUS
    <3> PICK w : w = [r EXCEPT ![1] = f]
      OBVIOUS
    <3> PICK left : left = LeftOf(manifest, item)
      OBVIOUS
    <3>2. B = [name |-> d, loaded |-> TRUE, todo |-> left]
      BY DEF Bottom
    <3>3. f = [name |-> d, loaded |-> TRUE, todo |-> left \ {p}] /\ f \in Frame
      <4>1. f = [name |-> d, loaded |-> TRUE, todo |-> left \ {p}]
        BY ONLY <3>2, f = [B EXCEPT !.todo = @ \ {p}]
      <4>2. left \subseteq Names
        BY <1>3, <2>3
      <4>3. left \ {p} \in SUBSET Names /\ TRUE \in BOOLEAN
        BY <4>2
      <4>4. QED
        BY ONLY <1>1, <4>1, <4>3 DEF Frame
    <3>4. C = f
      <4>1. LeftOf(manifest, item') = left \ {p}
        BY <1>3, <2>3, <3>1
      <4>2. QED
        BY ONLY <1>4, <3>3, <4>1
    <3>5. Going(X, pushed) = [r EXCEPT ![n + 1].todo = @ \ {p}] \o pushed
      BY <1>5, <1>6, <2>4 DEF Going
    <3>6. [r EXCEPT ![n + 1].todo = @ \ {p}] = w
      BY <1>5, <2>1
    <3>7. w = <<f>>
      <4>1. 1 \in 1 .. Len(r) /\ Len(r) = 1
        BY <1>5, <2>1
      <4>2. w \in Seq(Frame) /\ Len(w) = 1 /\ w[1] = f
        BY <1>5, <3>3, <4>1, ExceptSeq
      <4>3. <<f>> \in Seq(Frame) /\ Len(<<f>>) = 1 /\ <<f>>[1] = f
        BY <3>3
      <4>4. \A k \in 1 .. 1 : w[k] = <<f>>[k]
        <5>1. \A k \in 1 .. 1 : k = 1
          OBVIOUS
        <5>2. QED
          BY ONLY <4>2, <4>3, <5>1
      <4>5. QED
        BY ONLY <4>2, <4>3, <4>4, SeqEqual
    <3>8. QED
      BY ONLY <3>1, <3>4, <3>5, <3>6, <3>7
  <2>7. QED
    BY <1>3, <1>8, <2>1, <2>3, <2>4, <2>5, <2>6
<1>10. CASE stack # << >>
  <2> PICK top : top = Top
    OBVIOUS
  <2>1. n \in 1 .. n /\ top = stack[n] /\ TopOf(X) = top /\ top \in Frame
    <3>1. n \in 1 .. n /\ top = stack[n] /\ top \in Frame
      BY <1>10, TopTyped
    <3>2. r[n + 1] = stack[n]
      BY <1>5, <3>1
    <3>3. QED
      BY <1>7, <3>1, <3>2
  <2>2. top.loaded /\ top.todo # {}
    BY <1>10 DEF HasNext
  <2>3. Due(X) = p
    BY <1>10, <2>1 DEF Due, Pending
  <2>4. DueText(deps, X) = Pending.text
    <3>1. selected[top.name] # 0
      BY <1>10, PendingShape
    <3>2. X.selected[top.name] = selected[top.name]
      <4>1. top.name # d
        BY <1>1, <3>1
      <4>2. QED
        BY <1>6, <4>1
    <3>3. Pending.text = deps[top.name][selected[top.name]][p]
      BY <1>10, PendingShape
    <3>4. QED
      BY <2>1, <2>3, <3>2, <3>3 DEF DueText
  <2>5. ASSUME NEW pushed \in Seq(Frame), Call(pushed) PROVE <<C>> \o stack' = Going(X, pushed)
    <3> PICK f : f = [top EXCEPT !.todo = @ \ {p}]
      OBVIOUS
    <3> PICK s : s = [stack EXCEPT ![n] = f]
      OBVIOUS
    <3>1. item' = item /\ stack' = [stack EXCEPT ![n].todo = @ \ {p}] \o pushed
      BY <1>10, <2>5 DEF Call
    <3>2. f \in Frame
      BY <2>1 DEF Frame
    <3>3. [stack EXCEPT ![n].todo = @ \ {p}] = s
      BY <1>5, <2>1
    <3>4. [r EXCEPT ![n + 1].todo = @ \ {p}] = [r EXCEPT ![n + 1] = f]
      <4>1. r[n + 1] = top /\ n + 1 \in DOMAIN r
        BY <1>5, <1>7, <2>1
      <4>2. QED
        BY <4>1
    <3>5. C = B
      <4>1. C = Bottom
        BY <1>4, <3>1 DEF Bottom
      <4>2. QED
        BY <4>1
    <3>6. <<B>> \o s = [r EXCEPT ![n + 1] = f]
      <4>1. B \in Frame /\ stack \in Seq(Frame) /\ stack # << >>
        BY ONLY <1>3, <1>5, <1>10
      <4>2. <<B>> \o [stack EXCEPT ![Len(stack)] = f] = [<<B>> \o stack EXCEPT ![Len(stack) + 1] = f]
        BY ONLY <3>2, <4>1, TopReplaced
      <4>3. QED
        BY ONLY <4>2, n = Len(stack), s = [stack EXCEPT ![n] = f], r = <<B>> \o stack
    <3>7. s \in Seq(Frame) /\ <<B>> \in Seq(Frame)
      BY <1>3, <1>5, <2>1, <3>2, ExceptSeq
    <3>8. (<<B>> \o s) \o pushed = <<B>> \o (s \o pushed)
      BY <3>7, ConcatAssociative
    <3>9. Going(X, pushed) = [r EXCEPT ![n + 1].todo = @ \ {p}] \o pushed
      BY <1>5, <1>6, <2>3 DEF Going
    <3>10. QED
      BY ONLY <3>1, <3>3, <3>4, <3>5, <3>6, <3>8, <3>9
  <2>6. QED
    BY <1>8, <2>1, <2>2, <2>3, <2>4, <2>5
<1>11. QED
  BY <1>9, <1>10

\* As long as the check does not meet the draft's own artifact, the engine makes
\* the steps of the run that is seen ahead.
LEMMA AheadMirrored ==
    ASSUME TypeOK, StackOK, Calm, draft \in Drafts, draft' = draft,
           manifest = Declared(draft[1], draft[2]), Engine, ~ReadFails, ~Finish, ~Met, ~Met'
    PROVE  Ahead' = After(Coming, deps, Ahead)
<1> PICK d : d = draft[1]
  OBVIOUS
<1> PICK e : e = draft[2]
  OBVIOUS
<1> PICK X : X = Ahead
  OBVIOUS
<1> PICK Y : Y = Ahead'
  OBVIOUS
<1> PICK B : B = Bottom
  OBVIOUS
<1> PICK C : C = Bottom'
  OBVIOUS
<1>1. d \in Names /\ e \in Vers /\ selected[d] = 0
  BY DraftTyped DEF Met
<1>2. manifest' = manifest /\ deps' = deps
  BY SelectionsStay DEF Next
<1>3. Ordered(manifest)
  BY <1>1, DeclaredShape
<1>4. X = [stack |-> <<B>> \o stack, selected |-> [selected EXCEPT ![d] = e],
           found |-> Verdicts(diags)]
  BY DEF Ahead
<1>5. Y = [stack |-> <<C>> \o stack', selected |-> [selected' EXCEPT ![d] = e],
           found |-> Verdicts(diags')]
  BY DEF Ahead
<1>6. B \in Frame /\ stack \in Seq(Frame)
  BY <1>3, BottomTyped DEF TypeOK
<1>7. CASE Cycle \/ AlreadySelected \/ Missing \/ Select
  <2> PICK p : p = Pending.name
    OBVIOUS
  <2>1. HasNext
    BY <1>7 DEF Cycle, AlreadySelected, Missing, Select, Fresh
  <2>2. p # d /\ p \in Names
    BY <1>7, <2>1, CalledIsMet, PendingShape
  <2>3. /\ TopOf(X).loaded /\ TopOf(X).todo # {}
        /\ Due(X) = p /\ DueText(deps, X) = Pending.text
        /\ p \in Within(X) <=> p \in InStack
        /\ \A pushed \in Seq(Frame) : Call(pushed) => <<C>> \o stack' = Going(X, pushed)
    BY <1>1, <1>2, <2>1, <2>2, CallAhead
  <2>4. Fitting(Coming, deps, X) = Matching
    <3> PICK st : st = Coming
      OBVIOUS
    <3>1. \A v \in Vers : st[p][v] = status[p][v]
      <4>1. st = [status EXCEPT ![d][e] = "published"]
        BY DEF Coming
      <4>2. QED
        BY <2>2, <4>1 DEF TypeOK
    <3>2. Candidates(p) = {v \in Vers : st[p][v] = "published"}
      BY <2>2, <3>1 DEF Candidates, Calm
    <3>3. QED
      BY <2>3, <3>2 DEF Fitting, Matching
  <2>5. \A pushed \in Seq(Frame) : Call(pushed) => Y.stack = Going(X, pushed)
    BY <1>5, <2>3
  <2>6. selected' = selected => Y.selected = X.selected
    BY <1>4, <1>5
  <2>7. ASSUME NEW v, selected' = [selected EXCEPT ![p] = v]
        PROVE  Y.selected = [X.selected EXCEPT ![p] = v]
    <3> PICK now : now = selected
      OBVIOUS
    <3> PICK next : next = selected'
      OBVIOUS
    <3>1. now \in [Names -> Vers \cup {0}] /\ next = [now EXCEPT ![p] = v]
      BY <2>7 DEF TypeOK
    <3>2. [next EXCEPT ![d] = e] = [[now EXCEPT ![d] = e] EXCEPT ![p] = v]
      BY ONLY <1>1, <2>2, <3>1
    <3>3. QED
      BY <1>4, <1>5, <3>2
  <2>8. X.selected[p] = selected[p]
    BY <1>4, <2>2 DEF TypeOK
  <2>9. Y = [stack |-> Y.stack, selected |-> Y.selected, found |-> Verdicts(diags')]
    BY ONLY <1>5
  <2>10. X.found = Verdicts(diags)
    BY <1>4
  <2>11. Y = After(Coming, deps, X)
    BY ONLY TypeOK, StackOK, p = Pending.name, <1>7, <2>1, <2>3, <2>4, <2>5, <2>6, <2>7, <2>8,
            <2>9, <2>10, CallMirrored
  <2>12. QED
    BY <2>11
<1>8. ASSUME Load \/ Return PROVE Y = After(Coming, deps, X)
  <2> PICK n : n = Len(stack)
    OBVIOUS
  <2> PICK top : top = Top
    OBVIOUS
  <2> PICK r : r = <<B>> \o stack
    OBVIOUS
  <2>1. stack # << >> /\ selected' = selected /\ diags' = diags /\ item' = item
    BY <1>8 DEF Load, Return
  <2>2. /\ n \in Nat \ {0} /\ n \in 1 .. n /\ DOMAIN stack = 1 .. n /\ top \in Frame
        /\ top = stack[n]
    BY <2>1, TopTyped
  <2>3. r \in Seq(Frame) /\ Len(r) = n + 1 /\ DOMAIN r = 1 .. n + 1 /\ r[n + 1] = top
    BY <1>6, <2>2, StackAbove
  <2>4. C = B
    BY <1>2, <2>1 DEF Bottom
  <2>5. X.stack = r /\ X.selected = [selected EXCEPT ![d] = e] /\ TopOf(X) = top
    BY <1>4, <2>3 DEF TopOf
  <2>6. Y = [stack |-> <<B>> \o stack', selected |-> X.selected, found |-> X.found]
    BY <1>4, <1>5, <2>1, <2>4
  <2>7. CASE Load
    <3> PICK T : T = Targets(top.name, selected[top.name])
      OBVIOUS
    <3> PICK f : f = [[top EXCEPT !.loaded = TRUE] EXCEPT !.todo = T]
      OBVIOUS
    <3>1. ~top.loaded /\ stack' = [stack EXCEPT ![n].loaded = TRUE, ![n].todo = T]
      BY <2>7 DEF Load
    <3>2. X.selected[top.name] = selected[top.name]
      <4>1. selected[top.name] # 0
        BY <2>2 DEF StackOK
      <4>2. top.name # d
        BY <1>1, <4>1
      <4>3. QED
        BY <2>5, <4>2
    <3>3. TopNeeds(deps, X) = T
      BY <2>5, <3>2 DEF TopNeeds, Targets
    <3>4. f \in Frame
      <4>1. T \in SUBSET Names
        BY DEF Targets
      <4>2. QED
        BY <2>2, <4>1 DEF Frame
    <3>5. stack' = [stack EXCEPT ![n] = f]
      BY <2>2, <3>1
    <3>6. [r EXCEPT ![n + 1].loaded = TRUE, ![n + 1].todo = T] = [r EXCEPT ![n + 1] = f]
      BY <2>2, <2>3
    <3>7. <<B>> \o [stack EXCEPT ![n] = f] = [r EXCEPT ![n + 1] = f]
      BY <1>6, <2>1, <3>4, TopReplaced
    <3>8. After(Coming, deps, X) =
            [stack |-> [X.stack EXCEPT ![Len(X.stack)].loaded = TRUE,
                                       ![Len(X.stack)].todo = TopNeeds(deps, X)],
             selected |-> X.selected, found |-> X.found]
      BY <2>5, <3>1 DEF After
    <3>9. QED
      BY ONLY <2>3, <2>5, <2>6, <3>3, <3>5, <3>6, <3>7, <3>8
  <2>8. CASE Return
    <3>1. top.loaded /\ top.todo = {} /\ stack' = SubSeq(stack, 1, n - 1)
      BY <2>8 DEF Return
    <3>2. <<B>> \o SubSeq(stack, 1, n - 1) = SubSeq(r, 1, n)
      BY <1>6, <2>1, TopTaken
    <3>3. Len(r) - 1 = n
      BY <2>2, <2>3
    <3>4. After(Coming, deps, X) = [stack |-> SubSeq(X.stack, 1, Len(X.stack) - 1),
                                    selected |-> X.selected, found |-> X.found]
      BY <2>5, <3>1 DEF After
    <3>5. QED
      BY ONLY <2>5, <2>6, <3>1, <3>2, <3>3, <3>4
  <2>9. QED
    BY <1>8, <2>7, <2>8
<1>9. QED
  BY <1>7, <1>8 DEF Engine

\* A check that is seen at the end has nothing left but to finish.
LEMMA AheadGoesOn ==
    ASSUME TypeOK, draft \in Drafts, Ordered(manifest), Engine, ~Finish
    PROVE  ~Ended(Ahead)
<1> PICK B : B = Bottom
  OBVIOUS
<1> PICK X : X = Ahead
  OBVIOUS
<1>1. B \in Frame /\ stack \in Seq(Frame) /\ B.todo = LeftOf(manifest, item)
  BY BottomTyped DEF TypeOK
<1>2. X.stack = <<B>> \o stack
  BY DEF Ahead
<1>3. Len(X.stack) = Len(stack) + 1 /\ X.stack[1] = B /\ Len(stack) \in Nat
  BY <1>1, <1>2, StackAbove
<1>4. CASE stack # << >>
  <2>1. Len(stack) # 0
    BY <1>1, <1>4
  <2>2. QED
    BY <1>3, <2>1 DEF Ended
<1>5. CASE stack = << >>
  <2>1. ~Load /\ ~Return
    BY <1>5 DEF Load, Return
  <2>2. HasNext
    BY <1>5, <2>1 DEF Engine, Cycle, AlreadySelected, Missing, Select, ReadFails, Fresh
  <2>3. item \in 1 .. Len(manifest)
    BY <1>5, <2>2 DEF HasNext, TypeOK
  <2>4. B.todo # {}
    BY <1>1, <2>3, NextItem
  <2>5. TopOf(X) = B
    BY <1>3, <1>5 DEF TopOf
  <2>6. QED
    BY <2>4, <2>5 DEF Ended
<1>6. QED
  BY <1>4, <1>5

\* Items in order have no conflicts to report at the end.
LEMMA FinishAddsNothing ==
    ASSUME TypeOK, GraphOK, Ordered(manifest), Finish
    PROVE  diags' = diags
<1> PICK found \in Seq(Diag) : /\ diags' = diags \o found
                               /\ found # << >> => \E k \in DOMAIN manifest : Conflicting(k)
  BY FinishShape
<1>1. found = << >>
  BY OrderedAgree
<1>2. QED
  BY <1>1 DEF TypeOK

\* The engine leaves the catalog and the manifest alone.
LEMMA EngineLeaves ==
    ASSUME TypeOK, Engine
    PROVE  /\ UNCHANGED <<status, deps, manifest, edits>> /\ Next
           /\ faults' = 0 => faults = 0 /\ ~ReadFails
<1>1. UNCHANGED <<status, deps, manifest, edits>>
  BY DEF Engine, Cycle, AlreadySelected, Missing, Select, Load, Return, Finish, ReadFails, catalog
<1>2. ASSUME ~ReadFails PROVE faults' = faults
  BY <1>2 DEF Engine, Cycle, AlreadySelected, Missing, Select, Load, Return, Finish
<1>3. ASSUME ReadFails PROVE faults' # 0
  BY <1>3 DEF ReadFails, TypeOK
<1>4. QED
  BY <1>1, <1>2, <1>3 DEF Next
-----------------------------------------------------------------------------
(* The inductive invariant.                                                *)

\* No read has failed, and no version is revived.
Undisturbed == faults = 0 /\ Calm

\* The run the resolution will make from the draft's dependencies on, and how it
\* ends if the check was right.
Beginning ==
    [stack |-> <<[name |-> draft[1], loaded |-> TRUE, todo |-> Targets(draft[1], draft[2])]>>,
     selected |-> [NothingSelected EXCEPT ![draft[1]] = draft[2]], found |-> << >>]

Ending ==
    [stack |-> <<[name |-> draft[1], loaded |-> TRUE, todo |-> {}]>>,
     selected |-> [check.selected EXCEPT ![draft[1]] = draft[2]],
     found |-> Said(check.blockers)]

\* The path of a cycle ends with the name that was met again.
CyclesNamed ==
    \A k \in DOMAIN diags : diags[k].type = "CYCLE" =>
        diags[k].path[Len(diags[k].path)] = diags[k].name

EngineOK == TypeOK /\ StackOK /\ EndOK /\ GraphOK

\* Before the check, and the row of the draft in the requests after it.
RowOK ==
    /\ phase = "asked" => check.blockers = << >> /\ check.selected = NothingSelected
    /\ phase \in {"checking", "checked"} => status[draft[1]][draft[2]] = "draft"
    /\ phase \in {"published", "resolving"} => status[draft[1]][draft[2]] = "published"

\* What the check has done is on the way of the resolution.
CheckingOK ==
    phase = "checking" =>
        /\ manifest = Declared(draft[1], draft[2]) /\ CyclesNamed
        /\ Undisturbed /\ ~Met => Reaches(Coming, deps, Beginning, Ahead)

\* What the check ended with is where that way leads.
AnswerOK ==
    phase \in {"checked", "published", "resolving"} =>
        /\ check.code \in {"READY", "BLOCKED"} /\ (check.code = "READY" <=> check.blockers = << >>)
        /\ Undisturbed /\ ~MetItself => Reaches(Coming, deps, Beginning, Ending)

\* The resolution selects the draft, loads its dependencies, is on the way to
\* what the check ended with, and gets there.
OnTheWay ==
    \/ /\ item = 1 /\ stack = << >> /\ result = "running"
       /\ selected = NothingSelected /\ diags = << >>
    \/ /\ item = 2 /\ stack = <<[name |-> draft[1], loaded |-> FALSE, todo |-> {}]>>
       /\ result = "running"
       /\ selected = [NothingSelected EXCEPT ![draft[1]] = draft[2]] /\ diags = << >>
    \/ /\ item = 2 /\ stack # << >> /\ result = "running"
       /\ Reaches(Coming, deps, Seen, Ending)
    \/ /\ item = 2 /\ stack = << >>
       /\ selected = Ending.selected /\ Verdicts(diags) = Ending.found

ResolvingOK ==
    phase = "resolving" =>
        /\ \E t \in Texts : /\ Accepts[t] = {draft[2]}
                            /\ manifest = <<[name |-> draft[1], text |-> t]>>
        /\ Undisturbed /\ ~MetItself => OnTheWay

ReadyInv == ReadinessTypeOK /\ EngineOK /\ RowOK /\ CheckingOK /\ AnswerOK /\ ResolvingOK

\* A new run starts well.
LEMMA RunStarts ==
    ASSUME TypeOK, NEW items \in Seq(Items), Run(items)
    PROVE  EngineOK'
<1>1. /\ manifest' = items /\ item' = 1 /\ stack' = << >> /\ selected' = NothingSelected
      /\ graph' = << >> /\ diags' = << >> /\ result' = "running"
      /\ UNCHANGED <<status, deps, edits, faults>>
  BY DEF Run, catalog
<1>2. Len(items) \in Nat /\ DOMAIN << >> = {}
  OBVIOUS
<1>3. TypeOK'
  BY <1>1, <1>2 DEF TypeOK, NothingSelected
<1>4. StackOK'
  BY <1>1, <1>2 DEF StackOK
<1>5. EndOK'
  BY <1>1 DEF EndOK
<1>6. GraphOK'
  BY <1>1, <1>2 DEF GraphOK, NothingSelected
<1>7. QED
  BY <1>3, <1>4, <1>5, <1>6 DEF EngineOK

\* The engine keeps its own invariant.
LEMMA EngineKeeps ==
    ASSUME EngineOK, Engine
    PROVE  EngineOK'
<1>1. TypeOK /\ StackOK /\ EndOK /\ GraphOK /\ [Next]_vars
  BY DEF EngineOK, Next
<1>2. QED
  BY <1>1, TypesKept, StackKept, EndKept, GraphKept DEF EngineOK
-----------------------------------------------------------------------------
(* Each action keeps the invariant.                                        *)

\* The beginning depends on the catalog and the draft only.
LEMMA WayKept ==
    ASSUME status' = status, deps' = deps, draft' = draft
    PROVE  Coming' = Coming /\ Beginning' = Beginning /\ (Calm' <=> Calm)
BY DEF Coming, Beginning, NothingSelected, Targets, Calm

\* So does the end, besides on what the check answered.
LEMMA EndKeptAside ==
    ASSUME check' = check, draft' = draft
    PROVE  Ending' = Ending /\ (MetItself' <=> MetItself)
BY DEF Ending, Said, MetItself

\* The requests begin well.
LEMMA ReadinessBegins == ReadinessInit => ReadyInv
<1> SUFFICES ASSUME ReadinessInit PROVE ReadyInv
  OBVIOUS
<1>1. Inv
  BY InitEstablishes DEF ReadinessInit
<1>2. EngineOK
  BY <1>1 DEF Inv, EngineOK
<1>3. draft \in Drafts /\ phase = "asked"
      /\ check = [code |-> "NONE", blockers |-> << >>, selected |-> NothingSelected]
  BY DEF ReadinessInit
<1>4. ReadinessTypeOK
  <2>1. << >> \in Seq(Blocker) /\ NothingSelected \in [Names -> Vers \cup {0}]
    BY DEF NothingSelected
  <2>2. check \in Found
    BY <1>3, <2>1 DEF Found
  <2>3. QED
    BY <1>2, <1>3, <2>2 DEF ReadinessTypeOK, EngineOK
<1>5. RowOK /\ CheckingOK /\ AnswerOK /\ ResolvingOK
  BY <1>3 DEF RowOK, CheckingOK, AnswerOK, ResolvingOK
<1>6. QED
  BY <1>2, <1>4, <1>5 DEF ReadyInv

\* Nothing asked, nothing changed.
LEMMA NothingChanges ==
    ASSUME ReadyInv, UNCHANGED readinessVars
    PROVE  ReadyInv'
<1>1. UNCHANGED <<status, deps, manifest, item, stack, selected, graph, diags, result, edits,
                  faults, draft, phase, check>>
  BY DEF readinessVars, vars
<1>2. /\ Coming' = Coming /\ Beginning' = Beginning /\ Ending' = Ending /\ (Calm' <=> Calm)
      /\ (MetItself' <=> MetItself)
  BY <1>1, WayKept, EndKeptAside
<1>3. Seen' = Seen /\ Ahead' = Ahead /\ (Met' <=> Met)
  BY <1>1 DEF Seen, Ahead, Bottom, LeftOf, Verdicts, Met
<1>4. Declared(draft[1], draft[2])' = Declared(draft[1], draft[2])
  BY <1>1 DEF Declared, Targets
<1>5. ReadinessTypeOK' /\ EngineOK' /\ RowOK'
  <2>1. TypeOK' /\ StackOK' /\ EndOK' /\ GraphOK'
    <3>1. TypeOK /\ StackOK /\ EndOK /\ GraphOK /\ UNCHANGED vars
      BY DEF ReadyInv, EngineOK, readinessVars
    <3>2. QED
      BY <3>1, TypesKept, StackKept, EndKept, GraphKept
  <2>2. QED
    BY <1>1, <2>1 DEF ReadyInv, ReadinessTypeOK, EngineOK, RowOK
<1>6. CheckingOK'
  BY <1>1, <1>2, <1>3, <1>4 DEF ReadyInv, CheckingOK, CyclesNamed, Undisturbed
<1>7. AnswerOK'
  BY <1>1, <1>2 DEF ReadyInv, AnswerOK, Undisturbed
<1>8. ResolvingOK'
  BY <1>1, <1>2, <1>3 DEF ReadyInv, ResolvingOK, OnTheWay, Undisturbed
<1>9. QED
  BY <1>5, <1>6, <1>7, <1>8 DEF ReadyInv

\* A cycle is reported with the name that was met again at the end of its path.
LEMMA CycleNamed ==
    ASSUME TypeOK, StackOK, Cycle
    PROVE  diags'[Len(diags) + 1].path[Len(diags'[Len(diags) + 1].path)]
             = diags'[Len(diags) + 1].name
<1> PICK path : path = [k \in 1 .. Len(stack) |->
                          IF k < Len(stack) THEN stack[k + 1].name ELSE Pending.name]
  OBVIOUS
<1> PICK n : n = Len(stack)
  OBVIOUS
<1>1. HasNext /\ Pending.name \in InStack /\ Report("CYCLE", path)
  BY DEF Cycle
<1>2. path \in Seq(Names)
  BY <1>1, CyclePathWalks
<1> PICK d \in Diag :
       /\ d.type = "CYCLE" /\ d.name = Pending.name /\ d.path = path
       /\ diags' = Append(diags, d) /\ diags' \in Seq(Diag)
       /\ Len(diags') = Len(diags) + 1 /\ diags'[Len(diags) + 1] = d
       /\ \A k \in DOMAIN diags : k \in DOMAIN diags' /\ diags'[k] = diags[k]
  BY <1>1, <1>2, ReportShape
<1>3. n \in Nat /\ n # 0 /\ DOMAIN path = 1 .. n
  BY <1>1 DEF TypeOK, InStack
<1>4. Len(path) = n
  BY <1>2, <1>3
<1>5. path[n] = Pending.name
  BY <1>3
<1>6. QED
  BY <1>4, <1>5

\* So the names stay the last ones.
LEMMA NamesStayLast ==
    ASSUME TypeOK, StackOK, GraphOK, Next, CyclesNamed
    PROVE  CyclesNamed'
<1> SUFFICES ASSUME NEW k \in DOMAIN diags', diags'[k].type = "CYCLE"
             PROVE  diags'[k].path[Len(diags'[k].path)] = diags'[k].name
  BY DEF CyclesNamed
<1>1. CASE k \in DOMAIN diags
  <2>1. diags'[k] = diags[k]
    BY <1>1, DiagsGrow
  <2>2. QED
    BY <1>1, <2>1 DEF CyclesNamed
<1>2. CASE k \notin DOMAIN diags
  <2>1. Cycle /\ k = Len(diags) + 1
    BY <1>2, DiagsGrow
  <2>2. QED
    BY <2>1, CycleNamed
<1>3. QED
  BY <1>1, <1>2

\* The check begins a run, or answers at once.
LEMMA CheckKeeps ==
    ASSUME ReadyInv, Check
    PROVE  ReadyInv'
<1> PICK d : d = draft[1]
  OBVIOUS
<1> PICK e : e = draft[2]
  OBVIOUS
<1> PICK items : items = Declared(draft[1], draft[2])
  OBVIOUS
<1>1. /\ ReadinessTypeOK /\ TypeOK /\ EngineOK /\ draft \in Drafts /\ d \in Names /\ e \in Vers
      /\ phase = "asked" /\ check.blockers = << >> /\ check.selected = NothingSelected
      /\ check \in Found
  BY DraftTyped DEF ReadyInv, ReadinessTypeOK, RowOK, Check
<1>2. /\ Ordered(items) /\ items \in Seq(Items) /\ LeftOf(items, 1) = Targets(d, e)
  BY <1>1, DeclaredShape DEF Ordered
<1>3. CASE status[d][e] # "draft"
  <2>1. phase' = "refused" /\ check' = [check EXCEPT !.code = "ALREADY_PUBLISHED"]
        /\ UNCHANGED <<vars, draft>>
    BY <1>3 DEF Check
  <2>2. EngineOK'
    <3>1. TypeOK /\ StackOK /\ EndOK /\ GraphOK
      BY <1>1 DEF EngineOK
    <3>2. QED
      BY <2>1, <3>1, TypesKept, StackKept, EndKept, GraphKept DEF EngineOK
  <2>3. check' \in Found
    BY <1>1, <2>1 DEF Found
  <2>4. ReadinessTypeOK'
    BY <1>1, <2>1, <2>2, <2>3 DEF ReadinessTypeOK, EngineOK
  <2>5. RowOK' /\ CheckingOK' /\ AnswerOK' /\ ResolvingOK'
    BY <2>1 DEF RowOK, CheckingOK, AnswerOK, ResolvingOK
  <2>6. QED
    BY <2>2, <2>4, <2>5 DEF ReadyInv
<1>4. CASE status[d][e] = "draft" /\ items = << >>
  <2>1. phase' = "checked" /\ check' = [check EXCEPT !.code = "READY"]
        /\ UNCHANGED <<vars, draft>>
    BY <1>4 DEF Check
  <2>2. EngineOK'
    <3>1. TypeOK /\ StackOK /\ EndOK /\ GraphOK
      BY <1>1 DEF EngineOK
    <3>2. QED
      BY <2>1, <3>1, TypesKept, StackKept, EndKept, GraphKept DEF EngineOK
  <2>3. /\ check' \in Found /\ check'.code = "READY" /\ check'.blockers = << >>
        /\ check'.selected = NothingSelected
    BY <1>1, <2>1 DEF Found
  <2>4. ReadinessTypeOK'
    BY <1>1, <2>1, <2>2, <2>3 DEF ReadinessTypeOK, EngineOK
  <2>5. RowOK' /\ CheckingOK' /\ ResolvingOK'
    BY <1>4, <2>1 DEF RowOK, CheckingOK, ResolvingOK, vars
  <2>6. Coming' = Coming /\ Beginning' = Beginning /\ deps' = deps
    BY <2>1, WayKept DEF vars
  <2>7. Targets(d, e) = {}
    <3>1. LeftOf(items, 1) = {}
      BY <1>4 DEF LeftOf
    <3>2. QED
      BY <1>2, <3>1
  <2>8. Ending' = Beginning
    <3>1. Said(<< >>) = << >>
      BY DEF Said
    <3>2. Ending' = [stack |-> <<[name |-> d, loaded |-> TRUE, todo |-> {}]>>,
                     selected |-> [NothingSelected EXCEPT ![d] = e], found |-> << >>]
      BY <2>1, <2>3, <3>1 DEF Ending
    <3>3. QED
      BY <2>7, <3>2 DEF Beginning
  <2>9. AnswerOK'
    <3>1. Reaches(Coming, deps, Beginning, Ending)'
      BY <2>6, <2>8, ReachesSelf
    <3>2. QED
      BY <2>3, <3>1 DEF AnswerOK
  <2>10. QED
    BY <2>2, <2>4, <2>5, <2>9 DEF ReadyInv
<1>5. CASE status[d][e] = "draft" /\ items # << >>
  <2>1. phase' = "checking" /\ Run(items) /\ check' = check
    BY <1>5 DEF Check
  <2>2. EngineOK'
    BY <1>1, <1>2, <2>1, RunStarts
  <2>3. /\ manifest' = items /\ item' = 1 /\ stack' = << >> /\ selected' = NothingSelected
        /\ diags' = << >> /\ UNCHANGED <<status, deps, draft>>
    BY <2>1 DEF Run, catalog
  <2>4. ReadinessTypeOK'
    BY <1>1, <2>1, <2>2, <2>3 DEF ReadinessTypeOK, EngineOK
  <2>5. RowOK' /\ AnswerOK' /\ ResolvingOK'
    BY <1>5, <2>1, <2>3 DEF RowOK, AnswerOK, ResolvingOK
  <2>6. Coming' = Coming /\ Beginning' = Beginning
    BY <2>3, WayKept
  <2>7. Declared(draft[1], draft[2])' = Declared(draft[1], draft[2])
    BY <2>3 DEF Declared, Targets
  <2>8. Ahead' = Beginning
    <3> PICK B : B = Bottom'
      OBVIOUS
    <3>1. B = [name |-> d, loaded |-> TRUE, todo |-> Targets(d, e)]
      BY <1>2, <2>3 DEF Bottom
    <3>2. <<B>> \o << >> = <<B>>
      <4>1. B \in Frame
        BY <1>1, <3>1 DEF Frame, Targets
      <4>2. <<B>> \in Seq(Frame)
        BY <4>1
      <4>3. QED
        BY <4>2, ConcatEmptySeq
    <3>3. Verdicts(<< >>) = << >>
      BY DEF Verdicts
    <3>4. Ahead' = [stack |-> <<B>> \o << >>,
                    selected |-> [NothingSelected EXCEPT ![d] = e], found |-> << >>]
      BY <2>3, <3>3 DEF Ahead
    <3>5. QED
      BY <3>1, <3>2, <3>4 DEF Beginning
  <2>9. CheckingOK'
    <3>1. Reaches(Coming, deps, Beginning, Ahead)'
      BY <2>3, <2>6, <2>8, ReachesSelf
    <3>2. CyclesNamed'
      BY <2>3 DEF CyclesNamed
    <3>3. QED
      BY <2>3, <2>7, <3>1, <3>2 DEF CheckingOK
  <2>10. QED
    BY <2>2, <2>4, <2>5, <2>9 DEF ReadyInv
<1>6. QED
  BY <1>3, <1>4, <1>5

\* The engine goes on with the check.
LEMMA CheckGoesOn ==
    ASSUME ReadyInv, Resolve, phase = "checking"
    PROVE  ReadyInv'
<1>1. Engine /\ UNCHANGED <<draft, phase, check>>
  BY DEF Resolve
<1>2. /\ ReadinessTypeOK /\ EngineOK /\ TypeOK /\ StackOK /\ EndOK /\ GraphOK /\ draft \in Drafts
      /\ manifest = Declared(draft[1], draft[2]) /\ CyclesNamed
      /\ Undisturbed /\ ~Met => Reaches(Coming, deps, Beginning, Ahead)
  BY DEF ReadyInv, ReadinessTypeOK, EngineOK, CheckingOK
<1>3. /\ UNCHANGED <<status, deps, manifest, edits>> /\ Next
      /\ faults' = 0 => faults = 0 /\ ~ReadFails
  BY <1>1, <1>2, EngineLeaves
<1>4. EngineOK'
  BY <1>1, <1>2, EngineKeeps
<1>5. ReadinessTypeOK'
  BY <1>1, <1>2, <1>4 DEF ReadinessTypeOK, EngineOK
<1>6. RowOK' /\ AnswerOK' /\ ResolvingOK'
  BY <1>1, <1>3 DEF ReadyInv, RowOK, AnswerOK, ResolvingOK
<1>7. Coming' = Coming /\ Beginning' = Beginning /\ (Calm' <=> Calm)
  BY <1>1, <1>3, WayKept
<1>8. Declared(draft[1], draft[2])' = Declared(draft[1], draft[2])
  BY <1>1, <1>3 DEF Declared, Targets
<1>9. Ordered(manifest)
  <2>1. draft[1] \in Names /\ draft[2] \in Vers
    BY <1>2, DraftTyped
  <2>2. QED
    BY <1>2, <2>1, DeclaredShape
<1>10. ASSUME Undisturbed', ~Met' PROVE Reaches(Coming, deps, Beginning, Ahead')
  <2>1. faults' = 0 /\ Calm
    BY <1>7, <1>10 DEF Undisturbed
  <2>2. Undisturbed /\ ~ReadFails
    BY <1>3, <2>1 DEF Undisturbed
  <2>3. ~Met
    BY <1>1, <1>2, <1>3, <1>10, MetStays
  <2>4. Reaches(Coming, deps, Beginning, Ahead)
    BY <1>2, <2>2, <2>3
  <2>5. CASE Finish
    <3>1. diags' = diags /\ UNCHANGED <<manifest, item, stack, selected, draft>>
      BY <1>1, <1>2, <1>3, <1>9, <2>5, FinishAddsNothing DEF Finish
    <3>2. Ahead' = Ahead
      BY <3>1 DEF Ahead, Bottom, LeftOf, Verdicts
    <3>3. QED
      BY <2>4, <3>2
  <2>6. CASE ~Finish
    <3>1. Ahead' = After(Coming, deps, Ahead)
      BY <1>1, <1>2, <1>10, <2>1, <2>2, <2>3, <2>6, AheadMirrored
    <3>2. ~Ended(Ahead)
      BY <1>1, <1>2, <1>9, <2>6, AheadGoesOn
    <3>3. QED
      BY <2>4, <3>1, <3>2, ReachesOn
  <2>7. QED
    BY <2>5, <2>6
<1>11. CheckingOK'
  <2>1. manifest' = Declared(draft[1], draft[2])'
    BY <1>2, <1>3, <1>8
  <2>2. Undisturbed' /\ ~Met' => Reaches(Coming, deps, Beginning, Ahead)'
    BY <1>3, <1>7, <1>10
  <2>3. CyclesNamed'
    BY <1>2, <1>3, NamesStayLast
  <2>4. QED
    BY <2>1, <2>2, <2>3 DEF CheckingOK
<1>12. QED
  BY <1>4, <1>5, <1>6, <1>11 DEF ReadyInv

\* The blockers are as many as the diagnostics, and about the same artifacts.
LEMMA BlockersSaid ==
    ASSUME TypeOK, CyclesNamed, NEW kinds \in [DOMAIN diags -> Kinds], NEW bs,
           bs = [k \in DOMAIN diags |-> Converted(diags[k], kinds[k])]
    PROVE  /\ bs \in Seq(Blocker) /\ DOMAIN bs = DOMAIN diags
           /\ bs = << >> <=> diags = << >>
           /\ \A k \in DOMAIN diags : bs[k].about = diags[k].name
<1> PICK n : n = Len(diags)
  OBVIOUS
<1>1. /\ diags \in Seq(Diag) /\ n \in Nat /\ DOMAIN diags = 1 .. n
      /\ \A k \in 1 .. n : diags[k] \in Diag
  BY DEF TypeOK
<1>2. ASSUME NEW k \in 1 .. n PROVE bs[k] \in Blocker /\ bs[k].about = diags[k].name
  <2>1. bs[k] = [name |-> 0, kind |-> kinds[k], about |-> diags[k].name]
    BY <1>1 DEF Converted, CyclesNamed
  <2>2. diags[k].name \in Names /\ kinds[k] \in Kinds
    BY <1>1 DEF Diag
  <2>3. QED
    BY ONLY <2>1, <2>2 DEF Blocker
<1>3. DOMAIN bs = 1 .. n
  BY <1>1
<1>4. bs \in [1 .. n -> Blocker]
  BY <1>1, <1>2
<1>5. bs \in Seq(Blocker) /\ Len(bs) = n
  BY ONLY <1>1, <1>4
<1>6. bs = << >> <=> diags = << >>
  <2>1. bs = << >> <=> n = 0
    BY ONLY <1>1, <1>5
  <2>2. diags = << >> <=> n = 0
    BY <1>1
  <2>3. QED
    BY <2>1, <2>2
<1>7. QED
  BY <1>1, <1>2, <1>3, <1>5, <1>6

\* The check answers when its run has ended.
LEMMA ConcludeKeeps ==
    ASSUME ReadyInv, Conclude
    PROVE  ReadyInv'
<1> PICK code : code = IF result = "failed" THEN "BLOCKED" ELSE "READY"
  OBVIOUS
<1>1. /\ phase = "checking" /\ result # "running" /\ phase' = "checked" /\ UNCHANGED <<vars, draft>>
      /\ Told(code)
  BY DEF Conclude
<1> PICK kinds \in [DOMAIN diags -> Kinds] :
       /\ \A k \in DOMAIN diags : kinds[k] \in Wordings(diags[k])
       /\ check' = [code |-> code, selected |-> selected,
                    blockers |-> [k \in DOMAIN diags |-> Converted(diags[k], kinds[k])]]
  BY <1>1 DEF Told
<1> PICK bs : bs = [k \in DOMAIN diags |-> Converted(diags[k], kinds[k])]
  OBVIOUS
<1>2. /\ ReadinessTypeOK /\ TypeOK /\ StackOK /\ EndOK /\ GraphOK /\ draft \in Drafts
      /\ manifest = Declared(draft[1], draft[2]) /\ CyclesNamed
      /\ Undisturbed /\ ~Met => Reaches(Coming, deps, Beginning, Ahead)
  BY <1>1 DEF ReadyInv, ReadinessTypeOK, EngineOK, CheckingOK
<1>3. /\ check'.code = code /\ check'.blockers = bs /\ check'.selected = selected
  OBVIOUS
<1>b. /\ bs \in Seq(Blocker) /\ DOMAIN bs = DOMAIN diags /\ (bs = << >> <=> diags = << >>)
      /\ \A k \in DOMAIN diags : bs[k].about = diags[k].name
  BY <1>2, BlockersSaid
<1>v. faults = 0 => Said(bs) = Verdicts(diags)
  <2> SUFFICES ASSUME faults = 0
               PROVE  \A k \in DOMAIN diags : bs[k].kind = diags[k].type
    BY <1>b DEF Said, Verdicts
  <2>1. \A k \in DOMAIN diags : kinds[k] = diags[k].type
    BY DEF Wordings
  <2>2. QED
    BY <2>1 DEF Converted
<1>4. EngineOK'
  BY <1>1, <1>2, TypesKept, StackKept, EndKept, GraphKept DEF EngineOK
<1>5. ReadinessTypeOK'
  <2>1. check' \in Found
    <3>1. code \in {"READY", "BLOCKED"} /\ selected \in [Names -> Vers \cup {0}]
      BY <1>2 DEF TypeOK
    <3>2. QED
      BY <1>b, <3>1 DEF Found
  <2>2. QED
    BY <1>1, <1>2, <1>4, <2>1 DEF ReadinessTypeOK, EngineOK
<1>6. RowOK' /\ CheckingOK' /\ ResolvingOK'
  BY <1>1 DEF ReadyInv, RowOK, CheckingOK, ResolvingOK, vars
<1>7. Coming' = Coming /\ Beginning' = Beginning /\ (Calm' <=> Calm) /\ deps' = deps
  BY <1>1, WayKept DEF vars
<1>8. code \in {"READY", "BLOCKED"} /\ (code = "READY" <=> diags = << >>)
  BY <1>1, <1>2 DEF EndOK, TypeOK
<1>9. ASSUME faults = 0 PROVE Ending' = Ahead
  <2> PICK B : B = Bottom
    OBVIOUS
  <2>1. Ordered(manifest)
    <3>1. draft[1] \in Names /\ draft[2] \in Vers
      BY <1>2, DraftTyped
    <3>2. QED
      BY <1>2, <3>1, DeclaredShape
  <2>2. stack = << >> /\ item = Len(manifest) + 1
    <3>1. stack = << >> /\ item > Len(manifest)
      BY <1>1, <1>2 DEF EndOK
    <3>2. item \in 1 .. Len(manifest) + 1 /\ Len(manifest) \in Nat
      BY <1>2 DEF TypeOK
    <3>3. QED
      BY ONLY <3>1, <3>2
  <2>3. B = [name |-> draft[1], loaded |-> TRUE, todo |-> {}]
    BY <2>1, <2>2, NoItemLeft DEF Bottom
  <2>4. <<B>> \o << >> = <<B>>
    <3>1. <<B>> \in Seq(Frame)
      BY <1>2, <2>1, BottomTyped
    <3>2. QED
      BY <3>1, ConcatEmptySeq
  <2>5. Ahead = [stack |-> <<B>>, selected |-> [selected EXCEPT ![draft[1]] = draft[2]],
                 found |-> Verdicts(diags)]
    BY <2>2, <2>4 DEF Ahead
  <2>6. Ending' = [stack |-> <<[name |-> draft[1], loaded |-> TRUE, todo |-> {}]>>,
                   selected |-> [selected EXCEPT ![draft[1]] = draft[2]],
                   found |-> Verdicts(diags)]
    BY <1>1, <1>3, <1>v, <1>9 DEF Ending, Said
  <2>7. QED
    BY <2>3, <2>5, <2>6
<1>11. Met => MetItself'
  BY <1>1, <1>3, <1>b DEF MetItself, Met
<1>12. AnswerOK'
  <2>1. (Undisturbed' <=> Undisturbed) /\ (Undisturbed => faults = 0)
    BY <1>1, <1>7 DEF Undisturbed, vars
  <2>2. Undisturbed' /\ ~MetItself' => Reaches(Coming, deps, Beginning, Ending)'
    BY <1>2, <1>7, <1>9, <1>11, <2>1
  <2>3. QED
    BY <1>3, <1>8, <1>b, <2>2 DEF AnswerOK
<1>13. QED
  BY <1>4, <1>5, <1>6, <1>12 DEF ReadyInv

\* Publication changes the row of the draft, as was foreseen.
LEMMA PublishKeeps ==
    ASSUME ReadyInv, Publish
    PROVE  ReadyInv'
<1> PICK d : d = draft[1]
  OBVIOUS
<1> PICK e : e = draft[2]
  OBVIOUS
<1>1. /\ phase = "checked" /\ status[d][e] = "draft"
      /\ UNCHANGED <<deps, manifest, item, stack, selected, graph, diags, result, edits,
                     faults, draft, check>>
  BY DEF Publish
<1>2. /\ ReadinessTypeOK /\ TypeOK /\ StackOK /\ EndOK /\ GraphOK /\ draft \in Drafts
      /\ d \in Names /\ e \in Vers
  BY DraftTyped DEF ReadyInv, ReadinessTypeOK, EngineOK
<1>3. status' \in [Names -> [Vers -> Statuses]]
  <2>1. CASE status' = [status EXCEPT ![d][e] = "published"]
    BY <1>2, <2>1 DEF TypeOK, Statuses
  <2>2. CASE status' = status
    BY <1>2, <2>2 DEF TypeOK
  <2>3. QED
    BY <2>1, <2>2 DEF Publish
<1>4. EngineOK'
  <2>1. TypeOK'
    BY <1>1, <1>2, <1>3 DEF TypeOK
  <2>2. StackOK'
    BY <1>1, <1>2 DEF StackOK, Needed, Targets
  <2>3. EndOK'
    BY <1>1, <1>2 DEF EndOK, Conflicting
  <2>4. GraphOK'
    BY <1>1, <1>2 DEF GraphOK
  <2>5. QED
    BY <2>1, <2>2, <2>3, <2>4 DEF EngineOK
<1>5. CASE phase' = "refused"
  <2>1. ReadinessTypeOK'
    BY <1>1, <1>2, <1>4, <1>5 DEF ReadinessTypeOK, EngineOK
  <2>2. RowOK' /\ CheckingOK' /\ AnswerOK' /\ ResolvingOK'
    BY <1>5 DEF RowOK, CheckingOK, AnswerOK, ResolvingOK
  <2>3. QED
    BY <1>4, <2>1, <2>2 DEF ReadyInv
<1>6. CASE phase' = "published" /\ status' = [status EXCEPT ![d][e] = "published"]
  <2>1. ReadinessTypeOK'
    BY <1>1, <1>2, <1>4, <1>6 DEF ReadinessTypeOK, EngineOK
  <2> PICK now : now = status
    OBVIOUS
  <2> PICK next : next = status'
    OBVIOUS
  <2>2. /\ now \in [Names -> [Vers -> Statuses]] /\ next = [now EXCEPT ![d][e] = "published"]
        /\ now[d][e] = "draft"
    BY <1>1, <1>2, <1>6 DEF TypeOK
  <2>3. next[d][e] = "published" /\ [next EXCEPT ![d][e] = "published"] = next
    BY ONLY <1>2, <2>2
  <2>4. \A n \in Names, v \in Vers : next[n][v] = now[n][v] \/ (n = d /\ v = e)
    BY ONLY <1>2, <2>2
  <2>5. Coming' = Coming /\ Beginning' = Beginning
    <3>1. Coming = next /\ Coming' = next
      BY <1>1, <2>2, <2>3 DEF Coming
    <3>2. Beginning' = Beginning
      BY <1>1 DEF Beginning, NothingSelected, Targets
    <3>3. QED
      BY <3>1, <3>2
  <2>6. Calm' => Calm
    <3> SUFFICES ASSUME Calm', NEW n \in Names, NEW v \in Vers PROVE now[n][v] # "revived"
      BY DEF Calm
    <3>1. next[n][v] # "revived"
      BY DEF Calm
    <3>2. QED
      BY <2>2, <2>4, <3>1
  <2>7. Ending' = Ending /\ (MetItself' <=> MetItself)
    BY <1>1, EndKeptAside
  <2>8. RowOK' /\ CheckingOK' /\ ResolvingOK'
    BY <1>1, <1>6, <2>3 DEF RowOK, CheckingOK, ResolvingOK
  <2>9. AnswerOK'
    <3>1. /\ check.code \in {"READY", "BLOCKED"} /\ (check.code = "READY" <=> check.blockers = << >>)
          /\ Undisturbed /\ ~MetItself => Reaches(Coming, deps, Beginning, Ending)
      BY <1>1 DEF ReadyInv, AnswerOK
    <3>2. Undisturbed' => Undisturbed
      BY <1>1, <2>6 DEF Undisturbed
    <3>3. QED
      BY <1>1, <2>5, <2>7, <3>1, <3>2 DEF AnswerOK
  <2>10. QED
    BY <1>4, <2>1, <2>8, <2>9 DEF ReadyInv
<1>7. QED
  BY <1>5, <1>6 DEF Publish

\* The resolution begins with the published version as its only item.
LEMMA AskKeeps ==
    ASSUME ReadyInv, Ask
    PROVE  ReadyInv'
<1> PICK t \in Texts : Accepts[t] = {draft[2]} /\ Run(<<[name |-> draft[1], text |-> t]>>)
  BY DEF Ask
<1> PICK items : items = <<[name |-> draft[1], text |-> t]>>
  OBVIOUS
<1>1. phase = "published" /\ phase' = "resolving" /\ check' = check /\ Run(items)
  BY DEF Ask
<1>2. /\ ReadinessTypeOK /\ TypeOK /\ draft \in Drafts /\ draft[1] \in Names
  BY DraftTyped DEF ReadyInv, ReadinessTypeOK
<1>3. items \in Seq(Items)
  <2>1. [name |-> draft[1], text |-> t] \in Items
    BY <1>2 DEF Items
  <2>2. QED
    BY <2>1
<1>4. EngineOK'
  BY <1>1, <1>2, <1>3, RunStarts
<1>5. /\ manifest' = items /\ item' = 1 /\ stack' = << >> /\ selected' = NothingSelected
      /\ diags' = << >> /\ result' = "running" /\ UNCHANGED <<status, deps, faults, draft>>
  BY <1>1 DEF Run, catalog
<1>6. ReadinessTypeOK'
  BY <1>1, <1>2, <1>4, <1>5 DEF ReadinessTypeOK, EngineOK
<1>7. RowOK' /\ CheckingOK'
  BY <1>1, <1>5 DEF ReadyInv, RowOK, CheckingOK
<1>8. /\ Coming' = Coming /\ Beginning' = Beginning /\ (Calm' <=> Calm)
      /\ Ending' = Ending /\ (MetItself' <=> MetItself)
  BY <1>1, <1>5, WayKept, EndKeptAside
<1>9. AnswerOK'
  <2>1. /\ check.code \in {"READY", "BLOCKED"} /\ (check.code = "READY" <=> check.blockers = << >>)
        /\ Undisturbed /\ ~MetItself => Reaches(Coming, deps, Beginning, Ending)
    BY <1>1 DEF ReadyInv, AnswerOK
  <2>2. Undisturbed' => Undisturbed
    BY <1>5, <1>8 DEF Undisturbed
  <2>3. QED
    BY <1>1, <1>5, <1>8, <2>1, <2>2 DEF AnswerOK
<1>10. ResolvingOK'
  <2>1. OnTheWay'
    BY <1>5 DEF OnTheWay, NothingSelected
  <2>2. Accepts[t] = {draft'[2]} /\ manifest' = <<[name |-> draft'[1], text |-> t]>>
    BY <1>5
  <2>3. QED
    BY <2>1, <2>2 DEF ResolvingOK
<1>11. QED
  BY <1>4, <1>6, <1>7, <1>9, <1>10 DEF ReadyInv

\* The first call of the resolution finds the draft, now published, and nothing
\* else for its item.
LEMMA DraftIsSelected ==
    ASSUME TypeOK, StackOK, draft \in Drafts, Engine, ~ReadFails,
           status[draft[1]][draft[2]] = "published",
           NEW t \in Texts, Accepts[t] = {draft[2]},
           manifest = <<[name |-> draft[1], text |-> t]>>,
           item = 1, stack = << >>, selected = NothingSelected
    PROVE  /\ item' = 2 /\ stack' = <<[name |-> draft[1], loaded |-> FALSE, todo |-> {}]>>
           /\ result' = result /\ diags' = diags
           /\ selected' = [NothingSelected EXCEPT ![draft[1]] = draft[2]]
<1> PICK d : d = draft[1]
  OBVIOUS
<1> PICK e : e = draft[2]
  OBVIOUS
<1>1. d \in Names /\ e \in Vers /\ d \in Registered /\ e # 0
  BY DraftTyped
<1>2. Len(manifest) = 1 /\ manifest[1].name = d /\ manifest[1].text = t
  OBVIOUS
<1>3. Pending.name = d /\ Pending.text = t
  BY <1>2 DEF Pending
<1>4. InStack = {}
  BY DEF InStack
<1>5. selected[d] = 0
  BY <1>1 DEF NothingSelected
<1>6. Matching = {e}
  <2>1. e \in Candidates(d)
    BY <1>1 DEF Candidates
  <2>2. QED
    BY <1>3, <2>1 DEF Matching
<1>7. ~Cycle /\ ~AlreadySelected /\ ~Missing
  BY <1>1, <1>3, <1>4, <1>5, <1>6 DEF Cycle, AlreadySelected, Missing
<1>8. ~Load /\ ~Return /\ ~Finish
  BY <1>2 DEF Load, Return, Finish
<1>9. Select
  BY <1>7, <1>8 DEF Engine
<1>10. PICK v \in Matching, f \in Frame :
         /\ f = [name |-> Pending.name, loaded |-> FALSE, todo |-> {}]
         /\ selected' = [selected EXCEPT ![Pending.name] = v] /\ Call(<<f>>)
  BY <1>9, SelectShape
<1>11. item' = 2 /\ stack' = <<f>>
  BY <1>10 DEF Call
<1>12. result' = result /\ diags' = diags
  BY <1>9 DEF Select
<1>13. QED
  BY <1>3, <1>6, <1>10, <1>11, <1>12

\* The next step loads the draft's dependencies.
LEMMA DraftIsLoaded ==
    ASSUME TypeOK, draft \in Drafts, Engine, ~ReadFails, deps' = deps, draft' = draft,
           stack = <<[name |-> draft[1], loaded |-> FALSE, todo |-> {}]>>,
           selected = [NothingSelected EXCEPT ![draft[1]] = draft[2]], diags = << >>
    PROVE  Seen' = Beginning /\ item' = item /\ stack' # << >> /\ result' = result
<1> PICK d : d = draft[1]
  OBVIOUS
<1> PICK e : e = draft[2]
  OBVIOUS
<1> PICK f : f = [name |-> d, loaded |-> FALSE, todo |-> {}]
  OBVIOUS
<1> PICK T : T = Targets(d, e)
  OBVIOUS
<1> PICK g : g = [name |-> d, loaded |-> TRUE, todo |-> T]
  OBVIOUS
<1>1. d \in Names /\ e \in Vers
  BY DraftTyped
<1>2. f \in Frame /\ g \in Frame /\ f.loaded = FALSE /\ f.name = d
  BY <1>1 DEF Frame, Targets
<1>3. stack = <<f>> /\ stack # << >> /\ Len(stack) = 1 /\ Top = f
  <2>1. stack = <<f>> /\ Len(stack) = 1 /\ stack # << >>
    OBVIOUS
  <2>2. Top = f
    BY <2>1 DEF Top
  <2>3. QED
    BY <2>1, <2>2
<1>4. ~HasNext /\ ~Return /\ ~Finish
  BY <1>2, <1>3 DEF HasNext, Return, Finish
<1>5. Load
  BY <1>4 DEF Engine, Cycle, AlreadySelected, Missing, Select, Fresh
<1>6. selected[d] = e
  BY <1>1 DEF NothingSelected
<1>7. stack' = [stack EXCEPT ![1].loaded = TRUE, ![1].todo = T]
      /\ UNCHANGED <<item, selected, diags, result>>
  BY <1>2, <1>3, <1>5, <1>6 DEF Load
<1>8. stack' = <<g>>
  <2>1. [[f EXCEPT !.loaded = TRUE] EXCEPT !.todo = T] = g
    <3> PICK mid : mid = [f EXCEPT !.loaded = TRUE]
      OBVIOUS
    <3>1. mid = [name |-> d, loaded |-> TRUE, todo |-> {}]
      BY ONLY f = [name |-> d, loaded |-> FALSE, todo |-> {}], mid = [f EXCEPT !.loaded = TRUE]
    <3> PICK last : last = [mid EXCEPT !.todo = T]
      OBVIOUS
    <3>2. T \in SUBSET Names
      BY DEF Targets
    <3>3. mid \in Frame /\ mid.name = d /\ mid.loaded = TRUE
      BY <1>1, <3>1 DEF Frame
    <3>4. last \in Frame /\ last.name = d /\ last.loaded = TRUE /\ last.todo = T
      BY ONLY <3>2, <3>3, last = [mid EXCEPT !.todo = T] DEF Frame
    <3>5. last = [name |-> last.name, loaded |-> last.loaded, todo |-> last.todo]
      BY ONLY <3>4 DEF Frame
    <3>6. QED
      BY ONLY <3>4, <3>5, last = [mid EXCEPT !.todo = T], mid = [f EXCEPT !.loaded = TRUE],
              g = [name |-> d, loaded |-> TRUE, todo |-> T]
  <2>2. stack \in Seq(Frame) /\ 1 \in 1 .. Len(stack) /\ stack[1] = f
    BY <1>2, <1>3
  <2>3. stack' = [stack EXCEPT ![1] = g]
    BY <1>7, <2>1, <2>2
  <2> PICK next : next = stack'
    OBVIOUS
  <2>4. next \in Seq(Frame) /\ Len(next) = 1 /\ next[1] = g
    BY <1>2, <1>3, <2>2, <2>3, ExceptSeq
  <2>5. <<g>> \in Seq(Frame) /\ Len(<<g>>) = 1 /\ <<g>>[1] = g
    BY <1>2
  <2>6. \A k \in 1 .. 1 : next[k] = <<g>>[k]
    <3>1. \A k \in 1 .. 1 : k = 1
      OBVIOUS
    <3>2. QED
      BY ONLY <2>4, <2>5, <3>1
  <2>7. QED
    BY ONLY <2>4, <2>5, <2>6, SeqEqual, next = stack'
<1>9. Seen' = [stack |-> <<g>>, selected |-> selected, found |-> << >>]
  <2>1. Verdicts(<< >>) = << >>
    BY DEF Verdicts
  <2>2. QED
    BY <1>7, <1>8, <2>1 DEF Seen
<1>10. Seen' = Beginning
  BY <1>9 DEF Beginning
<1>11. stack' # << >>
  BY <1>8
<1>12. QED
  BY <1>7, <1>10, <1>11

\* A run that has not ended goes on with frames left; one that has, returns.
LEMMA SeenGoesOn ==
    ASSUME TypeOK, StackOK, stack # << >>, Engine, ~ReadFails
    PROVE  /\ item' = item /\ result' = result
           /\ ~Ended(Seen) => stack' # << >>
           /\ Ended(Seen) => stack' = << >> /\ selected' = selected /\ diags' = diags
<1> PICK n : n = Len(stack)
  OBVIOUS
<1>1. n \in Nat \ {0} /\ Top \in Frame /\ Top = stack[n]
  BY TopTyped DEF TypeOK
<1>2. Ended(Seen) <=> n = 1 /\ Top.loaded /\ Top.todo = {}
  BY DEF Ended, Seen, TopOf, Top
<1>3. ~Finish
  BY DEF Finish
<1>4. \/ Cycle \/ AlreadySelected \/ Missing \/ Select \/ Load \/ Return
  BY <1>3 DEF Engine
<1>5. CASE Cycle \/ AlreadySelected \/ Missing \/ Select
  <2>1. HasNext /\ result' = result
    BY <1>5 DEF Cycle, AlreadySelected, Missing, Select, Fresh
  <2>2. PICK pushed \in {<< >>} \cup {<<f>> : f \in Frame} : Call(pushed)
    <3>1. CASE Select
      BY <3>1, SelectShape
    <3>2. CASE ~Select
      BY <1>5, <3>2 DEF Cycle, AlreadySelected, Missing
    <3>3. QED
      BY <3>1, <3>2
  <2>3. Len(pushed) \in Nat
    OBVIOUS
  <2>4. Len(stack') = n + Len(pushed) /\ item' = item
    BY <2>1, <2>2, CallShape
  <2>5. stack' # << >>
    BY <1>1, <2>3, <2>4
  <2>6. ~Ended(Seen)
    BY <1>2, <2>1 DEF HasNext
  <2>7. QED
    BY <2>1, <2>4, <2>5, <2>6
<1>6. CASE Load
  <2> PICK T : T = Targets(Top.name, selected[Top.name])
    OBVIOUS
  <2>1. ~Top.loaded /\ UNCHANGED <<item, result>>
        /\ stack' = [stack EXCEPT ![Len(stack)].loaded = TRUE, ![Len(stack)].todo = T]
    BY <1>6 DEF Load
  <2>2. T \in SUBSET Names
    BY DEF Targets
  <2>3. Len(stack') = n
    BY <2>1, <2>2, LoadShape
  <2>4. stack' # << >> /\ ~Ended(Seen)
    BY <1>1, <1>2, <2>1, <2>3
  <2>5. QED
    BY <2>1, <2>4
<1>7. CASE Return
  <2>1. /\ Top.loaded /\ Top.todo = {} /\ stack' = SubSeq(stack, 1, Len(stack) - 1)
        /\ UNCHANGED <<item, result, selected, diags>>
    BY <1>7 DEF Return
  <2>2. stack' \in Seq(Frame) /\ Len(stack') = n - 1
    BY <2>1, ReturnShape
  <2>3. n = 1 => stack' = << >>
    BY <2>2
  <2>4. n # 1 => stack' # << >>
    BY <1>1, <2>2
  <2>5. QED
    BY <1>2, <2>1, <2>3, <2>4
<1>8. QED
  BY <1>4, <1>5, <1>6, <1>7

\* The resolution goes on the way of the check.
LEMMA ResolutionGoesOn ==
    ASSUME ReadyInv, Resolve, phase = "resolving"
    PROVE  ReadyInv'
<1>1. Engine /\ UNCHANGED <<draft, phase, check>>
  BY DEF Resolve
<1>2. /\ ReadinessTypeOK /\ EngineOK /\ TypeOK /\ StackOK /\ EndOK /\ GraphOK /\ draft \in Drafts
      /\ status[draft[1]][draft[2]] = "published"
      /\ Undisturbed /\ ~MetItself => Reaches(Coming, deps, Beginning, Ending) /\ OnTheWay
  BY DEF ReadyInv, ReadinessTypeOK, EngineOK, RowOK, AnswerOK, ResolvingOK
<1> PICK t \in Texts : Accepts[t] = {draft[2]} /\ manifest = <<[name |-> draft[1], text |-> t]>>
  BY DEF ReadyInv, ResolvingOK
<1>3. /\ UNCHANGED <<status, deps, manifest, edits>> /\ Next
      /\ faults' = 0 => faults = 0 /\ ~ReadFails
  BY <1>1, <1>2, EngineLeaves
<1>4. EngineOK'
  BY <1>1, <1>2, EngineKeeps
<1>5. ReadinessTypeOK'
  BY <1>1, <1>2, <1>4 DEF ReadinessTypeOK, EngineOK
<1>6. RowOK' /\ CheckingOK'
  BY <1>1, <1>3 DEF ReadyInv, RowOK, CheckingOK
<1>7. /\ Coming' = Coming /\ Beginning' = Beginning /\ (Calm' <=> Calm)
      /\ Ending' = Ending /\ (MetItself' <=> MetItself)
  BY <1>1, <1>3, WayKept, EndKeptAside
<1>8. Undisturbed' => Undisturbed /\ ~ReadFails
  BY <1>3, <1>7 DEF Undisturbed
<1>9. AnswerOK'
  <2>1. /\ check.code \in {"READY", "BLOCKED"} /\ (check.code = "READY" <=> check.blockers = << >>)
        /\ Undisturbed /\ ~MetItself => Reaches(Coming, deps, Beginning, Ending)
    BY DEF ReadyInv, AnswerOK
  <2>2. QED
    BY <1>1, <1>3, <1>7, <1>8, <2>1 DEF AnswerOK
<1>10. ASSUME Undisturbed', ~MetItself' PROVE OnTheWay'
  <2>1. Undisturbed /\ Calm /\ ~ReadFails /\ ~MetItself
    BY <1>7, <1>8, <1>10 DEF Undisturbed
  <2>2. Reaches(Coming, deps, Beginning, Ending) /\ OnTheWay
    BY <1>2, <2>1
  <2>3. CASE item = 1 /\ stack = << >> /\ result = "running"
             /\ selected = NothingSelected /\ diags = << >>
    <3>1. /\ item' = 2 /\ stack' = <<[name |-> draft[1], loaded |-> FALSE, todo |-> {}]>>
          /\ result' = result /\ diags' = diags
          /\ selected' = [NothingSelected EXCEPT ![draft[1]] = draft[2]]
      BY <1>1, <1>2, <2>1, <2>3, DraftIsSelected
    <3>2. QED
      BY <1>1, <2>3, <3>1 DEF OnTheWay, NothingSelected
  <2>4. CASE item = 2 /\ stack = <<[name |-> draft[1], loaded |-> FALSE, todo |-> {}]>>
             /\ result = "running"
             /\ selected = [NothingSelected EXCEPT ![draft[1]] = draft[2]] /\ diags = << >>
    <3>1. Seen' = Beginning /\ item' = item /\ stack' # << >> /\ result' = result
      BY <1>1, <1>2, <1>3, <2>1, <2>4, DraftIsLoaded
    <3>2. Reaches(Coming, deps, Seen, Ending)'
      BY <1>3, <1>7, <2>2, <3>1
    <3>3. QED
      BY <2>4, <3>1, <3>2 DEF OnTheWay
  <2>5. CASE item = 2 /\ stack # << >> /\ result = "running"
             /\ Reaches(Coming, deps, Seen, Ending)
    <3>1. Coming = status
      <4> PICK row : row = status
        OBVIOUS
      <4>1. row \in [Names -> [Vers -> Statuses]] /\ row[draft[1]][draft[2]] = "published"
        BY <1>2 DEF TypeOK
      <4>2. [row EXCEPT ![draft[1]][draft[2]] = "published"] = row
        BY ONLY <4>1
      <4>3. QED
        BY <4>2 DEF Coming
    <3>2. Seen' = After(Coming, deps, Seen)
      BY <1>1, <1>2, <2>1, <2>5, <3>1, SeenMirrored
    <3>3. /\ item' = item /\ result' = result
          /\ ~Ended(Seen) => stack' # << >>
          /\ Ended(Seen) => stack' = << >> /\ selected' = selected /\ diags' = diags
      BY <1>1, <1>2, <2>1, <2>5, SeenGoesOn
    <3>4. CASE Ended(Seen)
      <4>1. Ending = Seen
        BY <2>5, <3>4, EndReached
      <4>2. selected = Ending.selected /\ Verdicts(diags) = Ending.found
        BY <4>1 DEF Seen
      <4>3. selected' = Ending'.selected /\ Verdicts(diags') = Ending'.found
        BY <1>7, <3>3, <3>4, <4>2
      <4>4. QED
        BY <2>5, <3>3, <3>4, <4>3 DEF OnTheWay, Verdicts
    <3>5. CASE ~Ended(Seen)
      <4>1. Ended(Ending)
        <5> PICK F : F = Ending
          OBVIOUS
        <5> PICK B : B = [name |-> draft[1], loaded |-> TRUE, todo |-> {}]
          OBVIOUS
        <5>1. F.stack = <<B>> /\ B.loaded /\ B.todo = {}
          BY DEF Ending
        <5>2. Len(F.stack) = 1 /\ TopOf(F) = B
          BY <5>1 DEF TopOf
        <5>3. QED
          BY <5>1, <5>2 DEF Ended
      <4>2. Seen # Ending
        BY <3>5, <4>1
      <4>3. Reaches(Coming, deps, After(Coming, deps, Seen), Ending)
        BY <2>5, <4>2, ReachedNext
      <4>4. Reaches(Coming, deps, Seen, Ending)'
        BY <1>3, <1>7, <3>2, <4>3
      <4>5. QED
        BY <2>5, <3>3, <3>5, <4>4 DEF OnTheWay
    <3>6. QED
      BY <3>4, <3>5
  <2>6. CASE item = 2 /\ stack = << >>
             /\ selected = Ending.selected /\ Verdicts(diags) = Ending.found
    <3>1. Len(manifest) = 1
      OBVIOUS
    <3>2. Finish
      <4>1. ~HasNext /\ ~Load /\ ~Return
        BY <2>6, <3>1 DEF HasNext, Load, Return
      <4>2. QED
        BY <1>1, <2>1, <4>1 DEF Engine, Cycle, AlreadySelected, Missing, Select, Fresh
    <3>3. Ordered(manifest)
      <4>1. manifest \in Seq(Items)
        BY <1>2 DEF TypeOK
      <4>2. \A j, k \in 1 .. 1 : j = k
        <5>1. \A k \in 1 .. 1 : k = 1
          OBVIOUS
        <5>2. QED
          BY <5>1
      <4>3. \A j, k \in 1 .. 1 : ~(j < k)
        BY <4>2
      <4>4. QED
        BY <3>1, <4>1, <4>3 DEF Ordered
    <3>4. diags' = diags /\ UNCHANGED <<item, stack, selected>>
      BY <1>2, <3>2, <3>3, FinishAddsNothing DEF Finish
    <3>5. Verdicts(diags') = Verdicts(diags)
      BY <3>4
    <3>6. QED
      BY <1>7, <2>6, <3>4, <3>5 DEF OnTheWay
  <2>7. QED
    BY <2>2, <2>3, <2>4, <2>5, <2>6 DEF OnTheWay
<1>11. ResolvingOK'
  <2>1. Accepts[t] = {draft'[2]} /\ manifest' = <<[name |-> draft'[1], text |-> t]>>
    BY <1>1, <1>3
  <2>2. QED
    BY <1>10, <2>1 DEF ResolvingOK
<1>12. QED
  BY <1>4, <1>5, <1>6, <1>9, <1>11 DEF ReadyInv

\* A request that is refused has changed nothing.
LEMMA FailureKeeps ==
    ASSUME ReadyInv, StatementFails
    PROVE  ReadyInv'
<1>1. /\ phase' = "refused" /\ faults' = faults + 1 /\ faults < MaxFaults
      /\ UNCHANGED <<status, deps, manifest, item, stack, selected, graph, diags, result,
                     edits, draft>>
      /\ check' = check \/ check' = [check EXCEPT !.code = "INTERNAL"]
  BY DEF StatementFails, catalog
<1>2. ReadinessTypeOK /\ TypeOK /\ StackOK /\ EndOK /\ GraphOK
  BY DEF ReadyInv, ReadinessTypeOK, EngineOK
<1>3. TypeOK'
  BY <1>1, <1>2 DEF TypeOK
<1>4. StackOK'
  BY <1>1, <1>2 DEF StackOK, Needed, Targets
<1>5. EndOK'
  BY <1>1, <1>2 DEF EndOK, Conflicting
<1>6. GraphOK'
  BY <1>1, <1>2 DEF GraphOK
<1>7. check' \in Found
  BY <1>1, <1>2 DEF ReadinessTypeOK, Found
<1>8. ReadinessTypeOK'
  BY <1>1, <1>2, <1>3, <1>7 DEF ReadinessTypeOK
<1>9. RowOK' /\ CheckingOK' /\ AnswerOK' /\ ResolvingOK'
  BY <1>1 DEF RowOK, CheckingOK, AnswerOK, ResolvingOK
<1>10. QED
  BY <1>3, <1>4, <1>5, <1>6, <1>8, <1>9 DEF ReadyInv, EngineOK

\* Every step keeps the invariant.
LEMMA ReadinessNextKeeps == ReadyInv /\ [ReadinessNext]_readinessVars => ReadyInv'
<1> SUFFICES ASSUME ReadyInv, [ReadinessNext]_readinessVars PROVE ReadyInv'
  OBVIOUS
<1>1. CASE UNCHANGED readinessVars
  BY <1>1, NothingChanges
<1>2. CASE Check
  BY <1>2, CheckKeeps
<1>3. CASE Resolve
  <2>1. phase \in {"checking", "resolving"}
    BY <1>3 DEF Resolve
  <2>2. QED
    BY <1>3, <2>1, CheckGoesOn, ResolutionGoesOn
<1>4. CASE Conclude
  BY <1>4, ConcludeKeeps
<1>5. CASE Publish
  BY <1>5, PublishKeeps
<1>6. CASE Ask
  BY <1>6, AskKeeps
<1>7. CASE StatementFails
  BY <1>7, FailureKeeps
<1>8. CASE Over
  BY <1>8, NothingChanges DEF Over
<1>9. QED
  BY <1>1, <1>2, <1>3, <1>4, <1>5, <1>6, <1>7, <1>8 DEF ReadinessNext

\* The invariant holds in every state of the three requests.
LEMMA ReadinessInvariant == ReadinessSpec => []ReadyInv
BY ReadinessBegins, ReadinessNextKeeps, PTL DEF ReadinessSpec

\* What the resolution returns with is what the check answered.
LEMMA ReadyPredicts == ReadyInv => ReadinessPredictsResolution
<1> SUFFICES ASSUME ReadyInv, phase = "resolving", Returned, faults = 0, ~MetItself,
                    \A n \in Names, v \in Vers : status[n][v] # "revived"
             PROVE  /\ (result = "succeeded") <=> (check.code = "READY")
                    /\ Verdicts(diags) = Said(check.blockers)
                    /\ selected = [check.selected EXCEPT ![draft[1]] = draft[2]]
  BY DEF ReadinessPredictsResolution
<1>1. /\ TypeOK /\ EndOK /\ check \in Found /\ result # "running"
      /\ check.code = "READY" <=> check.blockers = << >>
  BY DEF ReadyInv, ReadinessTypeOK, EngineOK, AnswerOK, Returned
<1>2. OnTheWay
  BY DEF ReadyInv, ResolvingOK, Undisturbed, Calm
<1>3. selected = Ending.selected /\ Verdicts(diags) = Ending.found
  BY <1>1, <1>2 DEF OnTheWay
<1>4. /\ selected = [check.selected EXCEPT ![draft[1]] = draft[2]]
      /\ Verdicts(diags) = Said(check.blockers)
  BY <1>3 DEF Ending
<1>5. result = "succeeded" <=> diags = << >>
  BY <1>1 DEF EndOK, TypeOK
<1>6. diags = << >> <=> check.blockers = << >>
  <2>1. diags \in Seq(Diag) /\ check.blockers \in Seq(Blocker)
    BY <1>1 DEF TypeOK, Found
  <2>2. DOMAIN diags = DOMAIN check.blockers
    <3>1. DOMAIN Verdicts(diags) = DOMAIN diags
      BY DEF Verdicts
    <3>2. DOMAIN Said(check.blockers) = DOMAIN check.blockers
      BY DEF Said
    <3>3. QED
      BY <1>4, <3>1, <3>2
  <2>3. QED
    BY <2>1, <2>2
<1>7. QED
  BY <1>1, <1>4, <1>5, <1>6
-----------------------------------------------------------------------------
(* The theorems.                                                           *)

\* The three requests keep their types: the stored rows, the engine's state in
\* both of its runs, and the answer of CheckReadiness with its blockers.
THEOREM ReadinessTyped == ReadinessSpec => []ReadinessTypeOK
<1>1. ReadyInv => ReadinessTypeOK
  BY DEF ReadyInv
<1>2. QED
  BY <1>1, ReadinessInvariant, PTL

\* The check tells what publication will bring: the resolution of the published
\* version succeeds exactly when CheckReadiness answered READY, selects what the
\* check selected and the version itself, and is refused for its blockers.
THEOREM ReadinessPredicted == ReadinessSpec => []ReadinessPredictsResolution
BY ReadinessInvariant, ReadyPredicts, PTL
=============================================================================
