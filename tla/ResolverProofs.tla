---------------------------- MODULE ResolverProofs ----------------------------
(***************************************************************************)
(* Theorems about Resolver for every catalog, manifest and number of       *)
(* changes and faults, with proofs checked by TLAPS.                       *)
(***************************************************************************)
EXTENDS Resolver, Ranks, SequenceTheorems

-----------------------------------------------------------------------------
(* The inductive invariant.                                                *)

\* The dependencies of the version selected of n.
Needed(n) == Targets(n, selected[n])

\* The calls in progress are of different names, each a dependency of the one
\* below; what is left to visit are dependencies; only the last call may have
\* its dependencies still to read.  No call is in progress at the end.
StackOK ==
    /\ \A k \in DOMAIN stack :
         /\ selected[stack[k].name] # 0
         /\ stack[k].todo \subseteq Needed(stack[k].name)
         /\ ~stack[k].loaded => k = Len(stack) /\ stack[k].todo = {}
         /\ k > 1 => stack[k].name \in Needed(stack[k - 1].name)
    /\ \A j, k \in DOMAIN stack : stack[j].name = stack[k].name => j = k

EndOK ==
    /\ result # "running" => stack = << >> /\ item > Len(manifest)
    /\ result = "succeeded" => diags = << >> /\ \A k \in DOMAIN manifest : ~Conflicting(k)
    /\ result = "failed" => diags # << >>

\* There is one node for each version selected; it comes after the node that
\* required it, one level down, and a call's node is at the level of its frame.
GraphOK ==
    /\ \A k \in DOMAIN graph :
         /\ graph[k].ver = selected[graph[k].name]
         /\ graph[k].parent = 0 => graph[k].depth = 0
         /\ graph[k].parent # 0 =>
              \E j \in 1 .. k - 1 : /\ graph[j].name = graph[k].parent
                                    /\ graph[j].depth = graph[k].depth - 1
    /\ \A j, k \in DOMAIN graph : graph[j].name = graph[k].name => j = k
    /\ \A n \in Names : selected[n] # 0 => \E k \in DOMAIN graph : graph[k].name = n
    /\ \A i \in DOMAIN stack :
         \E k \in DOMAIN graph : graph[k].name = stack[i].name /\ graph[k].depth = i - 1

PathsOK ==
    /\ \A k \in DOMAIN diags : diags[k].type = "CYCLE" => Len(diags[k].path) > 0
    /\ CyclePathIsWalk

\* No row that the engine looks at for the name is accepted.
NoCandidate(n, text) ==
    n \notin Registered \/ \A v \in Accepts[text] : v \notin Candidates(n)

\* A diagnosis has a cause, as the engine sees it.
Cause ==
    \/ Cyclic
    \/ \E k \in DOMAIN manifest :
         \/ Conflicting(k)
         \/ NoCandidate(manifest[k].name, manifest[k].text)
    \/ \E n, m \in Names :
         /\ selected[n] # 0 /\ m \in Needed(n)
         /\ NoCandidate(m, deps[n][selected[n]][m])

CausesOK ==
    /\ Reported("CYCLE") # {} => Cyclic
    /\ diags # << >> /\ faults = 0 /\ edits = 0 => Cause

\* The names whose call has returned with a version.
Finished == {n \in Names : selected[n] # 0} \ InStack

Missed == Reported("MISSING")

\* A call that has returned has seen its dependencies return or reported missing;
\* one in progress, those it has visited but the one in progress above it.
ReturnedOK == \A n \in Finished : Needed(n) \subseteq Finished \cup Missed

VisitedOK ==
    \A k \in DOMAIN stack : stack[k].loaded =>
        \A m \in Needed(stack[k].name) \ stack[k].todo :
            m \in Finished \cup Missed \/ (k < Len(stack) /\ m = stack[k + 1].name)

\* The circles among the names that have returned all have one that was reported
\* missing.
CirclesOK == \A C \in SUBSET Finished : Circle(C) => C \cap Missed # {}

\* What the search has seen as long as no cycle was reported.
SearchOK == faults = 0 /\ Reported("CYCLE") = {} => ReturnedOK /\ VisitedOK /\ CirclesOK

\* What the manifest asked for so far has been selected, or diagnosed.
ItemsOK ==
    faults = 0 /\ diags = << >> =>
        \A k \in 1 .. item - 1 : selected[manifest[k].name] # 0

Inv == /\ TypeOK /\ StackOK /\ EndOK /\ GraphOK /\ PathsOK /\ CausesOK
       /\ HighestForFirstRequirement /\ SearchOK /\ ItemsOK
-----------------------------------------------------------------------------
(* Numbers in their order.                                                 *)

\* The order of the natural numbers.
Below == {p \in Nat \X Nat : p[1] < p[2]}

\* Numbers are ordered by their size.
LEMMA BelowOrders ==
    ASSUME NEW S, S \subseteq Nat
    PROVE  /\ StrictOrder(Below, S)
           /\ \A x \in S : SetLessThan(x, Below, S) = {y \in S : y < x}
<1>1. \A x, y \in Nat : <<x, y>> \in Below <=> x < y
  BY DEF Below
<1>2. \A x, y \in S : <<x, y>> \in Below <=> x < y
  BY <1>1
<1>3. StrictOrder(Below, S)
  BY <1>2 DEF StrictOrder, IsTransitivelyClosedOn
<1>4. QED
  BY <1>2, <1>3 DEF SetLessThan

\* Nth counts the elements of a set of numbers from the smallest on.
LEMMA NthCounts ==
    ASSUME NEW S, S \subseteq Nat, IsFiniteSet(S)
    PROVE  /\ \A k \in 1 .. Cardinality(S) : Nth(S, k) \in S
           /\ \A j, k \in 1 .. Cardinality(S) : j < k => Nth(S, j) < Nth(S, k)
           /\ \A x \in S : \E k \in 1 .. Cardinality(S) : x = Nth(S, k)
<1> PICK n : n = Cardinality(S)
  OBVIOUS
<1>1. n \in Nat
  BY FS_CardinalityType
<1>2. \A x \in S : RankIn(Below, S, x) = Cardinality({y \in S : y < x})
  BY BelowOrders DEF RankIn
<1>3. \A k \in 1 .. n : Nth(S, k) \in S /\ RankIn(Below, S, Nth(S, k)) = k - 1
  <2> SUFFICES ASSUME NEW k \in 1 .. n
               PROVE  Nth(S, k) \in S /\ RankIn(Below, S, Nth(S, k)) = k - 1
    OBVIOUS
  <2>1. k - 1 \in 0 .. n - 1
    BY <1>1
  <2>2. \E x \in S : RankIn(Below, S, x) = k - 1
    <3>1. IsFiniteSet(S) /\ StrictOrder(Below, S)
      BY BelowOrders
    <3>2. k - 1 \in 0 .. Cardinality(S) - 1
      BY <2>1
    <3>3. QED
      BY ONLY <3>1, <3>2, EveryRankTaken
  <2>3. \E x \in S : Cardinality({y \in S : y < x}) = k - 1
    BY <1>2, <2>2
  <2>4. Nth(S, k) \in S /\ Cardinality({y \in S : y < Nth(S, k)}) = k - 1
    BY <2>3 DEF Nth
  <2>5. QED
    BY <1>2, <2>4
<1>4. \A x, y \in S : x < y => RankIn(Below, S, x) < RankIn(Below, S, y)
  <2> SUFFICES ASSUME NEW x \in S, NEW y \in S, x < y
               PROVE  RankIn(Below, S, x) < RankIn(Below, S, y)
    OBVIOUS
  <2>1. x \in Nat /\ y \in Nat
    OBVIOUS
  <2>2. <<x, y>> \in Below
    BY <2>1 DEF Below
  <2>3. QED
    BY <2>2, RankGrows, BelowOrders
<1>5. \A j, k \in 1 .. n : j < k => Nth(S, j) < Nth(S, k)
  <2> SUFFICES ASSUME NEW j \in 1 .. n, NEW k \in 1 .. n, j < k
               PROVE  Nth(S, j) < Nth(S, k)
    OBVIOUS
  <2> PICK x : x = Nth(S, j)
    OBVIOUS
  <2> PICK y : y = Nth(S, k)
    OBVIOUS
  <2>1. x \in S /\ y \in S /\ RankIn(Below, S, x) = j - 1 /\ RankIn(Below, S, y) = k - 1
    BY <1>3
  <2>2. x # y
    BY <1>1, <2>1
  <2>3. ~(y < x)
    <3>1. y < x => k - 1 < j - 1
      BY <1>4, <2>1
    <3>2. QED
      BY <1>1, <3>1
  <2>4. x \in Nat /\ y \in Nat
    BY <2>1
  <2>5. QED
    BY <2>2, <2>3, <2>4
<1>6. \A x \in S : \E k \in 1 .. n : x = Nth(S, k)
  <2> SUFFICES ASSUME NEW x \in S PROVE \E k \in 1 .. n : x = Nth(S, k)
    OBVIOUS
  <2> PICK i : i = RankIn(Below, S, x)
    OBVIOUS
  <2>1. i \in 0 .. n - 1
    BY RankTyped, BelowOrders
  <2> PICK k : k = i + 1
    OBVIOUS
  <2>2. k \in 1 .. n /\ k - 1 = i
    BY <1>1, <2>1
  <2>3. Nth(S, k) \in S /\ RankIn(Below, S, Nth(S, k)) = i
    BY <1>3, <2>2
  <2> PICK y : y = Nth(S, k)
    OBVIOUS
  <2>4. y \in S /\ x \in Nat /\ y \in Nat /\ RankIn(Below, S, y) = i
    BY <2>3
  <2>5. (x < y => i < i) /\ (y < x => i < i)
    BY <1>4, <2>4
  <2>6. ~(i < i)
    BY <2>1, <1>1
  <2>7. x = y
    BY <2>4, <2>5, <2>6
  <2>8. QED
    BY <2>2, <2>7
<1>7. QED
  BY <1>3, <1>5, <1>6

\* A set of numbers has a smallest, a finite one a highest.
LEMMA SmallestExists ==
    ASSUME NEW S, S \subseteq Nat, S # {}
    PROVE  \E x \in S : \A y \in S : x <= y
<1>1. \E x \in S : \A y \in S : <<y, x>> \notin Below
  <2>1. IsWellFoundedOn(Below, Nat)
    BY NatLessThanWellFounded DEF Below, OpToRel
  <2>2. QED
    BY <2>1, WFMin
<1>2. \A x, y \in Nat : <<y, x>> \notin Below => x <= y
  BY DEF Below
<1>3. QED
  BY <1>1, <1>2

\* A finite set of numbers has a highest one.
LEMMA HighestExists ==
    ASSUME NEW S, S \subseteq Nat, IsFiniteSet(S), S # {}
    PROVE  \E x \in S : \A y \in S : y <= x
<1> PICK n : n = Cardinality(S)
  OBVIOUS
<1>1. n \in Nat /\ n # 0
  BY FS_CardinalityType, FS_EmptySet
<1> PICK x : x = Nth(S, n)
  OBVIOUS
<1>2. n \in 1 .. n
  BY <1>1
<1>3. x \in S
  BY <1>2, NthCounts
<1>4. \A y \in S : y <= x
  <2> SUFFICES ASSUME NEW y \in S PROVE y <= x
    OBVIOUS
  <2> PICK k \in 1 .. n : y = Nth(S, k)
    BY NthCounts
  <2>1. k < n => y < x
    BY <1>2, NthCounts
  <2>2. k = n \/ k < n
    BY <1>1
  <2>3. x \in Nat /\ y \in Nat
    BY <1>3
  <2>4. QED
    BY <2>1, <2>2, <2>3
<1>5. QED
  BY <1>3, <1>4
-----------------------------------------------------------------------------
(* The stack of calls.                                                     *)

USE ConstantsOK

\* What a version requires is typed.
LEMMA NodeTyped ==
    ASSUME TypeOK, NEW n \in Names, NEW v \in Vers
    PROVE  /\ Targets(n, v) \subseteq Names
           /\ \A m \in Targets(n, v) : deps[n][v][m] \in Texts
BY DEF TypeOK, Targets

\* Items of a manifest are typed.
LEMMA ManifestTyped ==
    ASSUME TypeOK, NEW k \in DOMAIN manifest
    PROVE  manifest[k].name \in Names /\ manifest[k].text \in Texts
<1>1. manifest \in Seq(Items)
  BY DEF TypeOK
<1>2. manifest[k] \in Items
  BY <1>1
<1>3. QED
  BY <1>2 DEF Items

\* Frames of the stack are typed.
LEMMA FrameTyped ==
    ASSUME TypeOK, NEW k \in DOMAIN stack
    PROVE  /\ stack[k] \in Frame /\ stack[k].name \in Names /\ stack[k].todo \subseteq Names
           /\ DOMAIN stack = 1 .. Len(stack) /\ Len(stack) \in Nat
<1>1. stack \in Seq(Frame)
  BY DEF TypeOK
<1>2. stack[k] \in Frame
  BY <1>1
<1>3. QED
  BY <1>1, <1>2 DEF Frame

\* So is the frame on top.
LEMMA TopTyped ==
    ASSUME TypeOK, stack # << >>
    PROVE  /\ Len(stack) \in Nat /\ Len(stack) \in DOMAIN stack /\ DOMAIN stack = 1 .. Len(stack)
           /\ Top \in Frame /\ Top = stack[Len(stack)]
BY DEF TypeOK, Top

\* The call to come is the next of the manifest, or the smallest dependency left
\* of the version on top.
LEMMA PendingShape ==
    ASSUME TypeOK, StackOK, HasNext
    PROVE  /\ Pending.name \in Names /\ Pending.text \in Texts /\ Pending.parent \in Names \cup {0}
           /\ stack = << >> =>
                /\ item \in DOMAIN manifest /\ Pending.name = manifest[item].name
                /\ Pending.text = manifest[item].text /\ Pending.parent = 0
           /\ stack # << >> =>
                /\ Top.loaded /\ Top.name \in Names /\ selected[Top.name] # 0
                /\ Pending.name \in Top.todo /\ Pending.name \in Needed(Top.name)
                /\ Pending.text = deps[Top.name][selected[Top.name]][Pending.name]
                /\ Pending.parent = Top.name
<1>1. CASE stack = << >>
  <2>1. manifest \in Seq(Items) /\ item \in 1 .. Len(manifest)
    BY <1>1 DEF TypeOK, HasNext
  <2>2. item \in DOMAIN manifest /\ manifest[item] \in Items
    BY <2>1
  <2>3. manifest[item].name \in Names /\ manifest[item].text \in Texts
    BY <2>2 DEF Items
  <2>4. QED
    BY <1>1, <2>2, <2>3 DEF Pending
<1>2. CASE stack # << >>
  <2> PICK top : top = Top
    OBVIOUS
  <2>1. top \in Frame /\ selected[top.name] # 0 /\ top.todo \subseteq Needed(top.name)
    BY <1>2, TopTyped DEF StackOK
  <2>2. top.loaded /\ top.todo # {}
    BY <1>2 DEF HasNext
  <2>3. top.name \in Names /\ selected[top.name] \in Vers /\ top.todo \subseteq Names
    BY <2>1 DEF Frame, TypeOK
  <2>4. \E m \in top.todo : \A o \in top.todo : m <= o
    <3>1. top.todo \subseteq Nat
      BY <2>3
    <3>2. QED
      BY <2>2, <3>1, SmallestExists
  <2> PICK m : m = CHOOSE x \in top.todo : \A o \in top.todo : x <= o
    OBVIOUS
  <2>5. m \in top.todo
    BY <2>4
  <2>6. Pending = [name |-> m, text |-> deps[top.name][selected[top.name]][m],
                   parent |-> top.name]
    BY <1>2 DEF Pending
  <2>7. m \in Needed(top.name) /\ deps[top.name][selected[top.name]][m] \in Texts
    BY <2>1, <2>3, <2>5, NodeTyped DEF Needed
  <2>8. QED
    BY <1>2, <2>1, <2>2, <2>3, <2>5, <2>6, <2>7
<1>3. QED
  BY <1>1, <1>2

\* What a call changes of the stack: the caller's frame loses the name called,
\* and the frame of the call comes on top if it has one.
LEMMA CallShape ==
    ASSUME TypeOK, StackOK, HasNext, NEW pushed \in {<< >>} \cup {<<f>> : f \in Frame},
           Call(pushed)
    PROVE  /\ stack' \in Seq(Frame) /\ Len(stack') = Len(stack) + Len(pushed)
           /\ \A k \in DOMAIN stack :
                /\ k \in DOMAIN stack'
                /\ stack'[k].name = stack[k].name /\ stack'[k].loaded = stack[k].loaded
                /\ stack'[k].todo \subseteq stack[k].todo
                /\ \A m \in stack[k].todo \ stack'[k].todo : k = Len(stack) /\ m = Pending.name
           /\ pushed # << >> => stack'[Len(stack) + 1] = pushed[1]
           /\ item' \in 1 .. Len(manifest) + 1
           /\ IF stack = << >> THEN item' = item + 1 ELSE item' = item
<1>0. pushed \in Seq(Frame) /\ Len(pushed) \in Nat
  <2>1. CASE pushed = << >>
    BY <2>1
  <2>2. ASSUME NEW f \in Frame, pushed = <<f>> PROVE pushed \in Seq(Frame) /\ Len(pushed) \in Nat
    BY <2>2
  <2>3. QED
    BY <2>1, <2>2
<1>1. CASE stack = << >>
  <2>1. item' = item + 1 /\ stack' = pushed
    BY <1>1 DEF Call
  <2>2. item \in 1 .. Len(manifest) /\ Len(manifest) \in Nat
    BY <1>1 DEF HasNext, TypeOK
  <2>3. item' \in 1 .. Len(manifest) + 1
    BY <2>1, <2>2
  <2>4. Len(stack) = 0 /\ DOMAIN stack = {}
    BY <1>1
  <2>5. QED
    BY <1>0, <1>1, <2>1, <2>3, <2>4
<1>2. CASE stack # << >>
  <2> PICK n : n = Len(stack)
    OBVIOUS
  <2> PICK top : top = Top
    OBVIOUS
  <2> PICK below : below = [stack EXCEPT ![n].todo = @ \ {Pending.name}]
    OBVIOUS
  <2>1. stack' = below \o pushed /\ item' = item
    BY <1>2 DEF Call
  <2>2. n \in Nat /\ n \in DOMAIN stack /\ DOMAIN stack = 1 .. n /\ top \in Frame /\ top = stack[n]
        /\ stack \in Seq(Frame)
    BY <1>2, TopTyped DEF TypeOK
  <2> PICK frame : frame = [top EXCEPT !.todo = @ \ {Pending.name}]
    OBVIOUS
  <2>3. /\ frame \in Frame /\ frame.name = top.name /\ frame.loaded = top.loaded
        /\ frame.todo = top.todo \ {Pending.name}
    BY <2>2 DEF Frame
  <2>4. below = [stack EXCEPT ![n] = frame]
    BY <2>2
  <2>5. /\ below \in Seq(Frame) /\ Len(below) = n
        /\ \A k \in 1 .. n : below[k] = IF k = n THEN frame ELSE stack[k]
    BY <2>2, <2>3, <2>4
  <2>6. /\ stack' \in Seq(Frame) /\ Len(stack') = n + Len(pushed)
        /\ \A k \in 1 .. n : stack'[k] = below[k]
        /\ pushed # << >> => stack'[n + 1] = pushed[1]
    BY <1>0, <2>1, <2>2, <2>5
  <2>7. \A k \in 1 .. n : k \in DOMAIN stack'
    BY <1>0, <2>2, <2>6
  <2>8. item' \in 1 .. Len(manifest) + 1
    BY <2>1 DEF TypeOK
  <2>9. \A k \in DOMAIN stack :
           /\ stack'[k].name = stack[k].name /\ stack'[k].loaded = stack[k].loaded
           /\ stack'[k].todo \subseteq stack[k].todo
           /\ \A m \in stack[k].todo \ stack'[k].todo : k = n /\ m = Pending.name
    <3> SUFFICES ASSUME NEW k \in DOMAIN stack, NEW now, now = stack[k], NEW next, next = stack'[k]
                 PROVE  /\ next.name = now.name /\ next.loaded = now.loaded
                        /\ next.todo \subseteq now.todo
                        /\ \A m \in now.todo \ next.todo : k = n /\ m = Pending.name
      OBVIOUS
    <3>1. CASE k = n
      <4>1. next = frame /\ now = top
        BY <2>2, <2>5, <2>6, <3>1
      <4>2. QED
        BY <2>3, <3>1, <4>1
    <3>2. CASE k # n
      BY <2>2, <2>5, <2>6, <3>2
    <3>3. QED
      BY <3>1, <3>2
  <2>10. QED
    BY <1>2, <2>1, <2>2, <2>6, <2>7, <2>8, <2>9
<1>3. QED
  BY <1>1, <1>2
-----------------------------------------------------------------------------
(* Sorting the nodes.                                                      *)

\* Nodes of different names are ordered strictly by depth, then name.
LEMMA BeforeOrders ==
    ASSUME NEW D, NEW nodes \in [D -> Node],
           \A j, k \in D : nodes[j].name = nodes[k].name => j = k,
           NEW R, R = {p \in D \X D : p[1] # p[2] /\ Before(nodes[p[1]], nodes[p[2]])}
    PROVE  StrictOrder(R, D)
<1> PICK name : name = [k \in D |-> nodes[k].name]
  OBVIOUS
<1> PICK depth : depth = [k \in D |-> nodes[k].depth]
  OBVIOUS
<1>1. name \in [D -> Nat] /\ depth \in [D -> Nat]
  <2>1. \A x \in Node : x.name \in Nat /\ x.depth \in Nat
    BY DEF Node
  <2>2. QED
    BY <2>1
<1>2. \A j, k \in D : name[j] = name[k] => j = k
  OBVIOUS
<1>3. \A j, k \in D : <<j, k>> \in R <=>
          j # k /\ (depth[j] < depth[k] \/ (depth[j] = depth[k] /\ name[j] <= name[k]))
  <2> SUFFICES ASSUME NEW j \in D, NEW k \in D
               PROVE  <<j, k>> \in R <=>
                        j # k /\ (depth[j] < depth[k] \/ (depth[j] = depth[k] /\ name[j] <= name[k]))
    OBVIOUS
  <2>1. <<j, k>> \in R <=> j # k /\ Before(nodes[j], nodes[k])
    OBVIOUS
  <2>2. QED
    BY <2>1 DEF Before
<1>4. \A i, j, k \in D : <<i, j>> \in R /\ <<j, k>> \in R => <<i, k>> \in R
  <2> SUFFICES ASSUME NEW i \in D, NEW j \in D, NEW k \in D, <<i, j>> \in R, <<j, k>> \in R
               PROVE  <<i, k>> \in R
    OBVIOUS
  <2> PICK ni, nj, nk : ni = name[i] /\ nj = name[j] /\ nk = name[k]
    OBVIOUS
  <2> PICK di, dj, dk : di = depth[i] /\ dj = depth[j] /\ dk = depth[k]
    OBVIOUS
  <2>1. /\ ni \in Nat /\ nj \in Nat /\ nk \in Nat /\ di \in Nat /\ dj \in Nat /\ dk \in Nat
        /\ ni # nj /\ nj # nk
    BY <1>1, <1>2, <1>3
  <2>2. /\ di < dj \/ (di = dj /\ ni <= nj)
        /\ dj < dk \/ (dj = dk /\ nj <= nk)
    BY <1>3
  <2>3. /\ di < dk \/ (di = dk /\ ni <= nk)
        /\ di = dk => ni # nk
    BY <2>1, <2>2
  <2>4. i # k
    BY <2>1, <2>2
  <2>5. QED
    BY <1>3, <2>3, <2>4
<1>5. \A j, k \in D : j # k => <<j, k>> \in R \/ <<k, j>> \in R
  <2> SUFFICES ASSUME NEW j \in D, NEW k \in D, j # k
               PROVE  <<j, k>> \in R \/ <<k, j>> \in R
    OBVIOUS
  <2>1. name[j] \in Nat /\ name[k] \in Nat /\ depth[j] \in Nat /\ depth[k] \in Nat
    BY <1>1
  <2>2. \/ depth[j] < depth[k] \/ (depth[j] = depth[k] /\ name[j] <= name[k])
        \/ depth[k] < depth[j] \/ (depth[k] = depth[j] /\ name[k] <= name[j])
    BY <2>1
  <2>3. QED
    BY <1>3, <2>2
<1>6. QED
  BY <1>3, <1>4, <1>5 DEF StrictOrder, IsTransitivelyClosedOn

\* A sequence has as many indices as elements.
LEMMA DomainIsFinite ==
    ASSUME NEW S, NEW s \in Seq(S)
    PROVE  /\ DOMAIN s = 1 .. Len(s) /\ Len(s) \in Nat /\ IsFiniteSet(DOMAIN s)
           /\ Cardinality(DOMAIN s) = Len(s)
<1>1. DOMAIN s = 1 .. Len(s) /\ Len(s) \in Nat
  OBVIOUS
<1> PICK n : n = Len(s)
  OBVIOUS
<1>2. n \in Int /\ 1 \in Int /\ (IF 1 > n THEN 0 ELSE n - 1 + 1) = n
  BY <1>1
<1>3. QED
  BY <1>1, <1>2, FS_Interval

\* at puts the nodes in order: the i-th is the one that was at[i].
Sorts(at, D, nodes) ==
    /\ at \in [D -> D] /\ \A x \in D : \E i \in D : at[i] = x
    /\ \A j, k \in D : j <= k => Before(nodes[at[j]], nodes[at[k]])

\* Nodes of different names can be sorted.
LEMMA SortExists ==
    ASSUME NEW n, n \in Nat, NEW D, D = 1 .. n, NEW nodes, nodes \in [D -> Node],
           \A j, k \in D : nodes[j].name = nodes[k].name => j = k
    PROVE  \E at : Sorts(at, D, nodes)
<1> PICK R : R = {p \in D \X D : p[1] # p[2] /\ Before(nodes[p[1]], nodes[p[2]])}
  OBVIOUS
<1>1. D = 1 .. n /\ n \in Nat /\ IsFiniteSet(D) /\ Cardinality(D) = n
  <2>1. n \in Int /\ 1 \in Int /\ (IF 1 > n THEN 0 ELSE n - 1 + 1) = n
    OBVIOUS
  <2>2. QED
    BY <2>1, FS_Interval
<1>2. StrictOrder(R, D)
  BY BeforeOrders
<1>3. \A i \in D : \E x \in D : RankIn(R, D, x) = i - 1
  <2> SUFFICES ASSUME NEW i \in D PROVE \E x \in D : RankIn(R, D, x) = i - 1
    OBVIOUS
  <2>1. i - 1 \in 0 .. Cardinality(D) - 1
    BY <1>1
  <2>2. QED
    BY ONLY <1>1, <1>2, <2>1, EveryRankTaken
<1> PICK at : at = [i \in D |-> CHOOSE x \in D : RankIn(R, D, x) = i - 1]
  OBVIOUS
<1>4. \A i \in D : at[i] \in D /\ RankIn(R, D, at[i]) = i - 1
  BY <1>3
<1>5. \A j, k \in D : j # k => (<<j, k>> \in R /\ RankIn(R, D, j) < RankIn(R, D, k))
                               \/ (<<k, j>> \in R /\ RankIn(R, D, k) < RankIn(R, D, j))
  BY <1>1, <1>2, RankGrows DEF StrictOrder
<1>6. \A x \in D : \E i \in D : at[i] = x
  <2> SUFFICES ASSUME NEW x \in D PROVE \E i \in D : at[i] = x
    OBVIOUS
  <2> PICK r : r = RankIn(R, D, x)
    OBVIOUS
  <2>1. r \in 0 .. n - 1
    BY <1>1, <1>2, RankTyped
  <2> PICK i : i = r + 1
    OBVIOUS
  <2>2. i \in D /\ i - 1 = r
    BY <1>1, <2>1
  <2>3. at[i] \in D /\ RankIn(R, D, at[i]) = r /\ RankIn(R, D, x) = r
    BY <1>4, <2>2
  <2>4. ~(r < r)
    BY <1>1, <2>1
  <2>5. at[i] = x
    BY ONLY <1>5, <2>3, <2>4
  <2>6. QED
    BY <2>2, <2>5
<1>7. \A j, k \in D : <<j, k>> \in R => Before(nodes[j], nodes[k])
  OBVIOUS
<1>8. \A k \in D : Before(nodes[k], nodes[k])
  <2>1. \A x \in Node : x.name \in Nat /\ x.depth \in Nat
    BY DEF Node
  <2>2. \A x \in Node : Before(x, x)
    BY <2>1 DEF Before
  <2>3. QED
    BY <2>2
<1>9. \A j, k \in D : j <= k => Before(nodes[at[j]], nodes[at[k]])
  <2> SUFFICES ASSUME NEW j \in D, NEW k \in D, j <= k
               PROVE  Before(nodes[at[j]], nodes[at[k]])
    OBVIOUS
  <2> PICK a \in D : a = at[j]
    BY <1>4
  <2> PICK b \in D : b = at[k]
    BY <1>4
  <2>1. RankIn(R, D, a) = j - 1 /\ RankIn(R, D, b) = k - 1
    BY <1>4
  <2>2. ~(k - 1 < j - 1)
    BY <1>1
  <2>3. a = b \/ <<a, b>> \in R
    BY ONLY <1>5, <2>1, <2>2
  <2>4. QED
    BY <1>7, <1>8, <2>3
<1>10. at \in [D -> D]
  BY <1>4
<1>11. Sorts(at, D, nodes)
  BY ONLY <1>6, <1>9, <1>10 DEF Sorts
<1>12. QED
  BY <1>11

Apart(nodes) ==
    /\ nodes \in Seq(Node)
    /\ \A j, k \in DOMAIN nodes : nodes[j].name = nodes[k].name => j = k

SortOf(s, nodes) ==
    /\ s \in Seq(Node) /\ Len(s) = Len(nodes)
    /\ \A k \in DOMAIN s : \E j \in DOMAIN nodes : s[k] = nodes[j]
    /\ \A j \in DOMAIN nodes : \E k \in DOMAIN s : s[k] = nodes[j]
    /\ \A j, k \in DOMAIN s : j <= k => Before(s[j], s[k])
    /\ \A j, k \in DOMAIN s : s[j].name = s[k].name => j = k

\* The nodes sorted are the same nodes, each one once.
LEMMA SortedShape ==
    ASSUME NEW nodes, Apart(nodes), NEW s, s = Sorted(nodes)
    PROVE  SortOf(s, nodes)
<1> /\ nodes \in Seq(Node)
    /\ \A j, k \in DOMAIN nodes : nodes[j].name = nodes[k].name => j = k
  BY DEF Apart
<1> PICK D : D = DOMAIN nodes
  OBVIOUS
<1> PICK T : T = {nodes[k] : k \in D}
  OBVIOUS
<1> PICK n : n = Len(nodes)
  OBVIOUS
<1>1. D = 1 .. n /\ n \in Nat /\ IsFiniteSet(D) /\ Cardinality(D) = n
  BY DomainIsFinite
<1>2. /\ s \in [D -> T] /\ {s[k] : k \in DOMAIN s} = T
      /\ \A j, k \in DOMAIN s : j <= k => Before(s[j], s[k])
  <2>1. /\ nodes \in [D -> Node]
        /\ \A j, k \in D : nodes[j].name = nodes[k].name => j = k
    BY <1>1
  <2>2. (\A k \in D : nodes[k] \in T) /\ (\A t \in T : \E k \in D : t = nodes[k])
    OBVIOUS
  <2> PICK at : Sorts(at, D, nodes)
    BY ONLY <1>1, <2>1, SortExists
  <2>3. /\ at \in [D -> D] /\ \A x \in D : \E i \in D : at[i] = x
        /\ \A j, k \in D : j <= k => Before(nodes[at[j]], nodes[at[k]])
    BY DEF Sorts
  <2> PICK f : f = [i \in D |-> nodes[at[i]]]
    OBVIOUS
  <2>4. f \in [D -> T] /\ DOMAIN f = D /\ \A j, k \in D : j <= k => Before(f[j], f[k])
    BY <2>2, <2>3
  <2>5. \A t \in T : \E i \in D : t = f[i]
    <3> SUFFICES ASSUME NEW t \in T PROVE \E i \in D : t = f[i]
      OBVIOUS
    <3> PICK x \in D : t = nodes[x]
      BY <2>2
    <3> PICK i \in D : at[i] = x
      BY <2>3
    <3>1. QED
      OBVIOUS
  <2>6. {f[k] : k \in DOMAIN f} = T
    BY ONLY <2>4, <2>5
  <2>7. s = CHOOSE g \in [D -> T] : /\ {g[k] : k \in DOMAIN g} = T
                                   /\ \A j, k \in DOMAIN g : j <= k => Before(g[j], g[k])
    BY DEF Sorted
  <2>8. /\ f \in [D -> T] /\ {f[k] : k \in DOMAIN f} = T
        /\ \A j, k \in DOMAIN f : j <= k => Before(f[j], f[k])
    BY <2>4, <2>6
  <2>9. QED
    BY ONLY <2>7, <2>8
<1>3. T \subseteq Node
  OBVIOUS
<1>4. s \in Seq(Node) /\ DOMAIN s = D /\ Len(s) = n
  <2>1. s \in [1 .. n -> Node]
    BY <1>1, <1>2, <1>3
  <2>2. QED
    BY <1>1, <2>1
<1>5. \A t \in T : \E k \in D : s[k] = t
  BY <1>2
<1>6. s \in Surjection(D, T)
  BY <1>2, <1>5, Fun_IsSurj
<1>7. nodes \in Bijection(D, T)
  <2>1. nodes \in [D -> T]
    <3>1. nodes = [k \in D |-> nodes[k]]
      BY <1>1
    <3>2. QED
      BY <3>1
  <2>2. \A a, b \in D : nodes[a] = nodes[b] => a = b
    OBVIOUS
  <2>3. \A t \in T : \E a \in D : nodes[a] = t
    OBVIOUS
  <2>4. QED
    BY <2>1, <2>2, <2>3, Fun_IsBij
<1>8. Cardinality(T) = Cardinality(D)
  <2>1. ExistsBijection(D, T)
    BY <1>7 DEF ExistsBijection
  <2>2. QED
    BY <1>1, <2>1, FS_Bijection
<1>9. s \in Injection(D, T)
  BY <1>1, <1>6, <1>8, FS_SurjSameCardinalityImpliesInj
<1>10. \A a, b \in D : s[a] = s[b] => a = b
  BY <1>9, Fun_InjectionProperties
<1>11. \A j, k \in D : s[j].name = s[k].name => j = k
  <2> SUFFICES ASSUME NEW j \in D, NEW k \in D, s[j].name = s[k].name PROVE j = k
    OBVIOUS
  <2> PICK a \in D : s[j] = nodes[a]
    BY <1>2
  <2> PICK b \in D : s[k] = nodes[b]
    BY <1>2
  <2>1. a = b
    OBVIOUS
  <2>2. QED
    BY <1>10, <2>1
<1>12. /\ \A k \in D : \E j \in D : s[k] = nodes[j]
       /\ \A j \in D : \E k \in D : s[k] = nodes[j]
  <2>1. \A k \in D : s[k] \in T
    BY <1>2
  <2>2. (\A j \in D : nodes[j] \in T) /\ (\A t \in T : \E j \in D : t = nodes[j])
    OBVIOUS
  <2>3. QED
    BY ONLY <1>5, <2>1, <2>2
<1>13. \A j, k \in D : j <= k => Before(s[j], s[k])
  BY <1>2, <1>4
<1>14. DOMAIN s = D /\ DOMAIN nodes = D /\ Len(nodes) = n
  BY <1>4
<1>15. QED
  BY ONLY <1>4, <1>11, <1>12, <1>13, <1>14 DEF SortOf
-----------------------------------------------------------------------------
(* What the steps do.                                                      *)

\* A diagnosis is added at the end.
LEMMA ReportShape ==
    ASSUME TypeOK, StackOK, HasNext, NEW type \in {"CYCLE", "MISSING"},
           NEW path \in Seq(Names), Report(type, path)
    PROVE  \E d \in Diag :
              /\ d.type = type /\ d.name = Pending.name /\ d.path = path
              /\ diags' = Append(diags, d) /\ diags' \in Seq(Diag)
              /\ Len(diags') = Len(diags) + 1 /\ diags'[Len(diags) + 1] = d
              /\ \A k \in DOMAIN diags : k \in DOMAIN diags' /\ diags'[k] = diags[k]
<1> PICK d : d = [type |-> type, name |-> Pending.name, path |-> path]
  OBVIOUS
<1>1. d \in Diag /\ d.type = type /\ d.name = Pending.name /\ d.path = path
  BY PendingShape DEF Diag
<1>2. diags' = Append(diags, d)
  BY DEF Report
<1>3. diags \in Seq(Diag)
  BY DEF TypeOK
<1>4. /\ diags' \in Seq(Diag) /\ Len(diags') = Len(diags) + 1 /\ diags'[Len(diags) + 1] = d
      /\ \A k \in DOMAIN diags : k \in DOMAIN diags' /\ diags'[k] = diags[k]
  BY <1>1, <1>2, <1>3
<1>5. QED
  BY <1>1, <1>2, <1>4

\* The versions that match a requirement can be selected.
LEMMA CandidatesTyped ==
    ASSUME TypeOK, StackOK, HasNext
    PROVE  /\ Matching \subseteq Vers /\ Matching \subseteq Accepts[Pending.text]
           /\ \A v \in Matching : status[Pending.name][v] \in {"published", "revived"}
           /\ \A v \in Accepts[Pending.text] :
                status[Pending.name][v] = "published" => v \in Matching
<1>1. Accepts[Pending.text] \subseteq Vers
  BY PendingShape
<1>2. QED
  BY <1>1 DEF Matching, Candidates

\* The node and the frame of the version selected.
LEMMA SelectShape ==
    ASSUME TypeOK, StackOK, Select
    PROVE  \E v \in Matching, x \in Node, f \in Frame :
              /\ v \in Vers /\ \A o \in Matching : o <= v
              /\ x = [name |-> Pending.name, ver |-> v, depth |-> Len(stack),
                      parent |-> Pending.parent, text |-> Pending.text]
              /\ f = [name |-> Pending.name, loaded |-> FALSE, todo |-> {}]
              /\ selected' = [selected EXCEPT ![Pending.name] = v]
              /\ graph' = Append(graph, x) /\ Call(<<f>>)
<1>1. HasNext /\ Matching # {}
  BY DEF Select, Fresh
<1>2. Matching \subseteq Vers
  BY <1>1, CandidatesTyped
<1>3. \E v \in Matching : \A o \in Matching : o <= v
  <2>1. Matching \subseteq Nat /\ IsFiniteSet(Matching)
    BY <1>2, FS_Subset
  <2>2. QED
    BY <1>1, <2>1, HighestExists
<1> PICK v : v = CHOOSE w \in Matching : \A o \in Matching : o <= w
  OBVIOUS
<1>4. v \in Matching /\ v \in Vers /\ \A o \in Matching : o <= v
  BY <1>2, <1>3
<1> PICK x : x = [name |-> Pending.name, ver |-> v, depth |-> Len(stack),
                  parent |-> Pending.parent, text |-> Pending.text]
  OBVIOUS
<1> PICK f : f = [name |-> Pending.name, loaded |-> FALSE, todo |-> {}]
  OBVIOUS
<1>5. x \in Node
  <2>1. Len(stack) \in Nat
    BY DEF TypeOK
  <2>2. QED
    BY <1>1, <1>4, <2>1, PendingShape DEF Node
<1>6. f \in Frame
  BY <1>1, PendingShape DEF Frame
<1>7. /\ selected' = [selected EXCEPT ![Pending.name] = v]
      /\ graph' = Append(graph, x) /\ Call(<<f>>)
  BY DEF Select
<1>8. QED
  BY <1>4, <1>5, <1>6, <1>7

\* The diagnostics added at the end are of contradictions of the manifest.
LEMMA FinishShape ==
    ASSUME TypeOK, GraphOK, Finish
    PROVE  \E found \in Seq(Diag) :
              /\ diags' = diags \o found /\ diags' \in Seq(Diag)
              /\ \A k \in DOMAIN found : found[k].type = "CONFLICT"
              /\ found # << >> <=> \E k \in DOMAIN manifest : Conflicting(k)
<1> PICK at : at = {k \in DOMAIN manifest : Conflicting(k)}
  OBVIOUS
<1> PICK n : n = Cardinality(at)
  OBVIOUS
<1> PICK found : found = [k \in 1 .. n |-> [type |-> "CONFLICT", name |-> manifest[Nth(at, k)].name,
                                           path |-> << >>]]
  OBVIOUS
<1>1. manifest \in Seq(Items) /\ diags \in Seq(Diag)
  BY DEF TypeOK
<1>2. at \subseteq Nat /\ IsFiniteSet(at) /\ at \subseteq DOMAIN manifest
  BY <1>1, DomainIsFinite, FS_Subset
<1>3. n \in Nat /\ (n # 0 <=> at # {})
  BY <1>2, FS_CardinalityType, FS_EmptySet
<1>4. \A k \in 1 .. n : Nth(at, k) \in at
  BY <1>2, NthCounts
<1>5. \A k \in 1 .. n : manifest[Nth(at, k)].name \in Names
  <2>1. \A j \in DOMAIN manifest : manifest[j].name \in Names
    BY ManifestTyped
  <2>2. QED
    BY ONLY <1>2, <1>4, <2>1
<1>6. \A k \in 1 .. n : found[k] \in Diag /\ found[k].type = "CONFLICT"
  BY <1>5 DEF Diag
<1>7. found \in Seq(Diag) /\ DOMAIN found = 1 .. n /\ (found # << >> <=> at # {})
  <2>1. found \in [1 .. n -> Diag]
    BY <1>6
  <2>2. n \in Nat
    BY <1>3
  <2>3. found \in Seq(Diag) /\ DOMAIN found = 1 .. n /\ Len(found) = n
    BY ONLY <2>1, <2>2
  <2>4. n = 0 <=> found = << >>
    BY ONLY <2>2, <2>3
  <2>5. QED
    BY <1>3, <2>3, <2>4
<1>8. diags' = diags \o found
  BY DEF Finish
<1>9. diags' \in Seq(Diag)
  BY <1>1, <1>7, <1>8
<1>10. found # << >> <=> \E k \in DOMAIN manifest : Conflicting(k)
  BY <1>7
<1>11. QED
  BY <1>6, <1>7, <1>8, <1>9, <1>10

\* The frame on top gets its dependencies.
LEMMA LoadShape ==
    ASSUME TypeOK, StackOK, stack # << >>, NEW todo \in SUBSET Names,
           stack' = [stack EXCEPT ![Len(stack)].loaded = TRUE, ![Len(stack)].todo = todo]
    PROVE  /\ stack' \in Seq(Frame) /\ Len(stack') = Len(stack) /\ DOMAIN stack' = DOMAIN stack
           /\ \A k \in DOMAIN stack :
                /\ stack'[k].name = stack[k].name
                /\ k # Len(stack) => stack'[k] = stack[k]
                /\ k = Len(stack) => stack'[k].loaded /\ stack'[k].todo = todo
<1> PICK n : n = Len(stack)
  OBVIOUS
<1> PICK top : top = Top
  OBVIOUS
<1> PICK mid : mid = [top EXCEPT !.loaded = TRUE]
  OBVIOUS
<1> PICK frame : frame = [mid EXCEPT !.todo = todo]
  OBVIOUS
<1>1. n \in Nat /\ n \in DOMAIN stack /\ DOMAIN stack = 1 .. n /\ top \in Frame /\ top = stack[n]
      /\ stack \in Seq(Frame)
  BY TopTyped DEF TypeOK
<1>2. mid \in Frame /\ mid.name = top.name /\ mid.loaded
  BY <1>1 DEF Frame
<1>3. frame \in Frame /\ frame.name = top.name /\ frame.loaded /\ frame.todo = todo
  BY <1>2 DEF Frame
<1>4. stack' = [stack EXCEPT ![n] = frame]
  BY <1>1
<1>5. stack' \in Seq(Frame) /\ Len(stack') = n /\ DOMAIN stack' = 1 .. n
  BY ONLY <1>1, <1>3, <1>4
<1>6. \A k \in 1 .. n : stack'[k] = IF k = n THEN frame ELSE stack[k]
  BY ONLY <1>1, <1>4
<1>7. \A k \in 1 .. n :
         /\ stack'[k].name = stack[k].name
         /\ k # n => stack'[k] = stack[k]
         /\ k = n => stack'[k].loaded /\ stack'[k].todo = todo
  BY <1>1, <1>3, <1>6
<1>8. QED
  BY <1>1, <1>5, <1>7

\* What the stack is after the top returned.
LEMMA ReturnShape ==
    ASSUME TypeOK, stack # << >>, stack' = SubSeq(stack, 1, Len(stack) - 1)
    PROVE  /\ stack' \in Seq(Frame) /\ Len(stack') = Len(stack) - 1
           /\ DOMAIN stack' = 1 .. Len(stack) - 1 /\ DOMAIN stack = 1 .. Len(stack)
           /\ Len(stack) \in Nat \ {0}
           /\ \A k \in DOMAIN stack' : k \in DOMAIN stack /\ stack'[k] = stack[k]
<1> PICK n : n = Len(stack)
  OBVIOUS
<1>1. stack \in Seq(Frame) /\ n \in Nat \ {0} /\ DOMAIN stack = 1 .. n
  BY DEF TypeOK
<1>2. stack' = SubSeq(stack, 1, n - 1) /\ n - 1 \in Nat
  BY <1>1
<1>3. \A k \in 1 .. n - 1 : k \in 1 .. n /\ stack[k] \in Frame
  BY <1>1
<1>4. /\ stack' \in Seq(Frame) /\ Len(stack') = n - 1
      /\ \A k \in 1 .. n - 1 : stack'[k] = stack[k]
  BY <1>1, <1>2, <1>3
<1>5. DOMAIN stack' = 1 .. n - 1
  BY <1>4
<1>6. QED
  BY <1>1, <1>3, <1>4, <1>5

-----------------------------------------------------------------------------
(* The invariant is kept, part by part.                                    *)

\* Every step keeps the types.
LEMMA TypesKept ==
    ASSUME TypeOK, StackOK, GraphOK, [Next]_vars
    PROVE  TypeOK'
<1>1. CASE Cycle
  <2> PICK path : path = [k \in 1 .. Len(stack) |->
                            IF k < Len(stack) THEN stack[k + 1].name ELSE Pending.name]
    OBVIOUS
  <2>1. HasNext /\ Report("CYCLE", path) /\ Call(<< >>)
        /\ UNCHANGED <<catalog, manifest, selected, graph, result, edits, faults>>
    BY <1>1 DEF Cycle
  <2>2. path \in Seq(Names)
    <3>1. stack \in Seq(Frame) /\ Pending.name \in Names
      BY <2>1, PendingShape DEF TypeOK
    <3>2. \A k \in 1 .. Len(stack) : stack[k].name \in Names
      BY <3>1, FrameTyped
    <3> PICK n : n = Len(stack)
      OBVIOUS
    <3>3. n \in Nat
      BY <3>1
    <3>4. path \in [1 .. n -> Names]
      BY <3>1, <3>2, <3>3
    <3>5. QED
      BY <3>3, <3>4
  <2>3. diags' \in Seq(Diag)
    BY <2>1, <2>2, ReportShape
  <2>4. stack' \in Seq(Frame) /\ item' \in 1 .. Len(manifest) + 1
    BY <2>1, CallShape
  <2>5. QED
    BY <2>1, <2>3, <2>4 DEF TypeOK, catalog
<1>2. CASE AlreadySelected
  <2>1. stack' \in Seq(Frame) /\ item' \in 1 .. Len(manifest) + 1
    BY <1>2, CallShape DEF AlreadySelected
  <2>2. QED
    BY <1>2, <2>1 DEF AlreadySelected, TypeOK, catalog
<1>3. CASE Missing
  <2>1. HasNext /\ Report("MISSING", << >>) /\ Call(<< >>)
        /\ UNCHANGED <<catalog, manifest, selected, graph, result, edits, faults>>
    BY <1>3 DEF Missing, Fresh
  <2>2. << >> \in Seq(Names)
    OBVIOUS
  <2>3. diags' \in Seq(Diag)
    BY <2>1, <2>2, ReportShape
  <2>4. stack' \in Seq(Frame) /\ item' \in 1 .. Len(manifest) + 1
    BY <2>1, CallShape
  <2>5. QED
    BY <2>1, <2>3, <2>4 DEF TypeOK, catalog
<1>4. CASE Select
  <2>1. HasNext /\ UNCHANGED <<catalog, manifest, diags, result, edits, faults>>
    BY <1>4 DEF Select, Fresh
  <2> PICK v \in Matching, x \in Node, f \in Frame :
         /\ v \in Vers /\ selected' = [selected EXCEPT ![Pending.name] = v]
         /\ graph' = Append(graph, x) /\ Call(<<f>>)
    BY <1>4, SelectShape
  <2>2. stack' \in Seq(Frame) /\ item' \in 1 .. Len(manifest) + 1
    BY <2>1, CallShape
  <2>3. selected' \in [Names -> Vers \cup {0}]
    BY <2>1, PendingShape DEF TypeOK
  <2>4. graph' \in Seq(Node)
    BY DEF TypeOK
  <2>5. QED
    BY <2>1, <2>2, <2>3, <2>4 DEF TypeOK, catalog
<1>5. CASE Load
  <2>1. stack # << >> /\ Top \in Frame /\ selected[Top.name] # 0
    BY <1>5, TopTyped DEF Load, StackOK
  <2>2. Targets(Top.name, selected[Top.name]) \in SUBSET Names
    BY DEF Targets
  <2>3. stack' \in Seq(Frame)
    BY <1>5, <2>1, <2>2, LoadShape DEF Load
  <2>4. QED
    BY <1>5, <2>3 DEF Load, TypeOK, catalog
<1>6. CASE Return
  <2>1. stack' \in Seq(Frame)
    BY <1>6, ReturnShape DEF Return
  <2>2. QED
    BY <1>6, <2>1 DEF Return, TypeOK, catalog
<1>7. CASE Finish
  <2>1. diags' \in Seq(Diag)
    BY <1>7, FinishShape
  <2>2. graph' \in Seq(Node)
    <3>1. graph' = Sorted(graph) /\ Apart(graph)
      BY <1>7 DEF Finish, TypeOK, GraphOK, Apart
    <3>2. QED
      BY <3>1, SortedShape DEF SortOf
  <2>3. result' \in {"succeeded", "failed"}
    BY <1>7 DEF Finish
  <2>4. QED
    BY <1>7, <2>1, <2>2, <2>3 DEF Finish, TypeOK, catalog
<1>8. CASE ReadFails
  <2>1. faults' \in 0 .. MaxFaults
    BY <1>8 DEF ReadFails, TypeOK
  <2>2. CASE Fresh /\ Report("MISSING", << >>) /\ Call(<< >>)
    <3>1. HasNext /\ << >> \in Seq(Names)
      BY <2>2 DEF Fresh
    <3>2. diags' \in Seq(Diag)
      BY <2>2, <3>1, ReportShape
    <3>3. stack' \in Seq(Frame) /\ item' \in 1 .. Len(manifest) + 1
      BY <2>2, <3>1, CallShape
    <3>4. QED
      BY <1>8, <2>1, <3>2, <3>3 DEF ReadFails, TypeOK, catalog
  <2>3. ASSUME stack # << >>, NEW last \in Names \cup {0},
               stack' = [stack EXCEPT
                 ![Len(stack)].loaded = TRUE,
                 ![Len(stack)].todo = {m \in Targets(Top.name, selected[Top.name]) :
                                         m <= last}],
               UNCHANGED <<item, diags>>
        PROVE  TypeOK'
    <3>1. {m \in Targets(Top.name, selected[Top.name]) : m <= last} \in SUBSET Names
      BY DEF Targets
    <3>2. stack' \in Seq(Frame)
      BY <2>3, <3>1, LoadShape
    <3>3. QED
      BY <1>8, <2>1, <2>3, <3>2 DEF ReadFails, TypeOK, catalog
  <2>4. QED
    BY <1>8, <2>2, <2>3 DEF ReadFails
<1>9. CASE Edit
  <2>1. edits' \in 0 .. MaxEdits
    BY <1>9 DEF Edit, TypeOK
  <2> PICK n \in Names, v \in Vers, x \in Statuses : status' = [status EXCEPT ![n][v] = x]
    BY <1>9 DEF Edit, Statuses
  <2>2. status' \in [Names -> [Vers -> Statuses]]
    BY DEF TypeOK
  <2>3. QED
    BY <1>9, <2>1, <2>2 DEF Edit, TypeOK
<1>10. CASE Done \/ UNCHANGED vars
  BY <1>10 DEF Done, vars, catalog, TypeOK
<1>11. QED
  BY <1>1, <1>2, <1>3, <1>4, <1>5, <1>6, <1>7, <1>8, <1>9, <1>10 DEF Next, Engine

\* A requirement that is not followed leaves the path as it is.
LEMMA SkipKeepsStack ==
    ASSUME TypeOK, StackOK, HasNext, Call(<< >>), selected' = selected, deps' = deps
    PROVE  StackOK'
<1>1. \A n : Needed(n)' = Needed(n)
  BY DEF Needed, Targets
<1>2. Len(stack') = Len(stack) /\ DOMAIN stack' = DOMAIN stack
  BY CallShape DEF TypeOK
<1>3. \A k \in DOMAIN stack : /\ stack'[k].name = stack[k].name /\ stack'[k].loaded = stack[k].loaded
                             /\ stack'[k].todo \subseteq stack[k].todo
  BY CallShape
<1>4. \A k \in DOMAIN stack : k > 1 => k - 1 \in DOMAIN stack
  BY FrameTyped
<1>5. QED
  BY <1>1, <1>2, <1>3, <1>4 DEF StackOK

\* Selecting a version makes the path one longer.
LEMMA SelectKeepsStack ==
    ASSUME TypeOK, StackOK, Select
    PROVE  StackOK'
<1>1. HasNext /\ Pending.name \notin InStack /\ deps' = deps
  BY DEF Select, Fresh, catalog
<1> PICK v \in Matching, f \in Frame :
       /\ v \in Vers /\ f = [name |-> Pending.name, loaded |-> FALSE, todo |-> {}]
       /\ selected' = [selected EXCEPT ![Pending.name] = v] /\ Call(<<f>>)
  BY SelectShape
<1> PICK n : n = Len(stack)
  OBVIOUS
<1> PICK p : p = Pending.name
  OBVIOUS
<1> PICK need : need = [m \in Names |-> Needed(m)']
  OBVIOUS
<1>2. p \in Names /\ v # 0 /\ n \in Nat /\ DOMAIN stack = 1 .. n
  BY <1>1, PendingShape DEF TypeOK
<1>3. /\ stack' \in Seq(Frame) /\ Len(stack') = n + 1 /\ stack'[n + 1] = f
      /\ \A k \in 1 .. n :
           /\ stack'[k].name = stack[k].name /\ stack'[k].loaded = stack[k].loaded
           /\ stack'[k].todo \subseteq stack[k].todo
  <2>1. <<f>> # << >> /\ Len(<<f>>) = 1 /\ <<f>>[1] = f
    OBVIOUS
  <2>2. <<f>> \in {<< >>} \cup {<<g>> : g \in Frame}
    OBVIOUS
  <2>3. QED
    BY <1>1, <1>2, <2>1, <2>2, CallShape
<1>4. DOMAIN stack' = 1 .. n + 1
  BY <1>2, <1>3
<1>5. \A k \in 1 .. n : stack[k].name \in Names /\ stack[k].name # p
  BY <1>1, <1>2, FrameTyped DEF InStack
<1>6. selected'[p] = v /\ \A m \in Names : m # p => selected'[m] = selected[m] /\ need[m] = Needed(m)
  BY <1>1, <1>2 DEF TypeOK, Needed, Targets
<1>7. \A k \in 1 .. n + 1 :
        /\ selected'[stack'[k].name] # 0
        /\ stack'[k].todo \subseteq need[stack'[k].name]
        /\ ~stack'[k].loaded => k = n + 1 /\ stack'[k].todo = {}
        /\ k > 1 => stack'[k].name \in need[stack'[k - 1].name]
  <2> SUFFICES ASSUME NEW k \in 1 .. n + 1
               PROVE  /\ selected'[stack'[k].name] # 0
                      /\ stack'[k].todo \subseteq need[stack'[k].name]
                      /\ ~stack'[k].loaded => k = n + 1 /\ stack'[k].todo = {}
                      /\ k > 1 => stack'[k].name \in need[stack'[k - 1].name]
    OBVIOUS
  <2>1. CASE k = n + 1
    <3>1. stack'[k].name = p /\ ~stack'[k].loaded /\ stack'[k].todo = {}
      BY <1>3, <2>1
    <3>2. ASSUME k > 1 PROVE stack'[k].name \in need[stack'[k - 1].name]
      <4>1. n \in 1 .. n /\ k - 1 = n /\ stack # << >>
        BY <1>2, <2>1, <3>2
      <4>2. p \in Needed(stack[n].name)
        BY <1>1, <4>1, PendingShape, TopTyped
      <4>3. stack'[k - 1].name = stack[n].name
        BY <1>3, <4>1
      <4>4. need[stack[n].name] = Needed(stack[n].name)
        BY ONLY <1>5, <1>6, <4>1
      <4>5. QED
        BY ONLY <3>1, <4>2, <4>3, <4>4
    <3>3. selected'[p] # 0 /\ stack'[k].todo \subseteq need[stack'[k].name]
      BY <1>2, <1>6, <3>1
    <3>4. QED
      BY ONLY <2>1, <3>1, <3>2, <3>3
  <2>2. CASE k # n + 1
    <3>1. k \in 1 .. n
      BY <1>2, <2>2
    <3>2. /\ stack'[k].name = stack[k].name /\ stack'[k].loaded = stack[k].loaded
          /\ stack'[k].todo \subseteq stack[k].todo
      BY <1>3, <3>1
    <3>3. selected[stack[k].name] # 0 /\ stack[k].todo \subseteq Needed(stack[k].name)
      BY <1>2, <3>1 DEF StackOK
    <3>4. selected'[stack'[k].name] # 0 /\ stack'[k].todo \subseteq need[stack'[k].name]
      BY <1>5, <1>6, <3>1, <3>2, <3>3
    <3>5. stack'[k].loaded
      <4>1. stack # << >> /\ Top.loaded /\ Top = stack[n]
        BY <1>1, <1>2, <3>1, PendingShape, TopTyped
      <4>2. QED
        BY <1>2, <3>1, <3>2, <4>1 DEF StackOK
    <3>6. ASSUME k > 1 PROVE stack'[k].name \in need[stack'[k - 1].name]
      <4>1. k - 1 \in 1 .. n
        BY <3>1, <3>6
      <4>2. stack[k].name \in Needed(stack[k - 1].name)
        BY <1>2, <3>1, <3>6 DEF StackOK
      <4>3. stack'[k - 1].name = stack[k - 1].name
        BY <1>3, <4>1
      <4>4. QED
        BY <1>5, <1>6, <3>2, <4>1, <4>2, <4>3
    <3>7. QED
      BY <3>4, <3>5, <3>6
  <2>3. QED
    BY <2>1, <2>2
<1>8. \A j, k \in 1 .. n + 1 : stack'[j].name = stack'[k].name => j = k
  <2>1. \A k \in 1 .. n + 1 : k = n + 1 \/ k \in 1 .. n
    BY <1>2
  <2>2. stack'[n + 1].name = p
    BY <1>3
  <2>3. \A j, k \in 1 .. n : stack[j].name = stack[k].name => j = k
    BY <1>2 DEF StackOK
  <2>4. QED
    BY <1>3, <1>5, <2>1, <2>2, <2>3
<1>9. \A k \in 1 .. n + 1 : stack'[k].name \in Names
  <2>1. \A k \in 1 .. n + 1 : k = n + 1 \/ k \in 1 .. n
    BY <1>2
  <2>2. stack'[n + 1].name = p
    BY <1>3
  <2>3. QED
    BY <1>2, <1>3, <1>5, <2>1, <2>2
<1>10. \A m \in Names : need[m] = Needed(m)'
  OBVIOUS
<1>11. \A k \in 1 .. n + 1 : k > 1 => k - 1 \in 1 .. n + 1
  BY <1>2
<1>12. QED
  BY <1>3, <1>4, <1>7, <1>8, <1>9, <1>10, <1>11 DEF StackOK

\* Every step keeps the stack a path of selected versions.
LEMMA StackKept ==
    ASSUME TypeOK, StackOK, [Next]_vars
    PROVE  StackOK'
<1>1. CASE Cycle \/ AlreadySelected \/ Missing
  <2>1. HasNext /\ Call(<< >>) /\ selected' = selected /\ deps' = deps
    BY <1>1 DEF Cycle, AlreadySelected, Missing, Fresh, catalog
  <2>2. QED
    BY <2>1, SkipKeepsStack
<1>2. CASE Select
  BY <1>2, SelectKeepsStack
<1>3. ASSUME stack # << >>, ~Top.loaded, NEW todo \in SUBSET Needed(Top.name),
             stack' = [stack EXCEPT ![Len(stack)].loaded = TRUE, ![Len(stack)].todo = todo],
             selected' = selected, deps' = deps
      PROVE  StackOK'
  <2>1. todo \subseteq Names
    BY DEF Needed, Targets
  <2>2. /\ Len(stack') = Len(stack) /\ DOMAIN stack' = DOMAIN stack
        /\ \A k \in DOMAIN stack :
                /\ stack'[k].name = stack[k].name
                /\ k # Len(stack) => stack'[k] = stack[k]
                /\ k = Len(stack) => stack'[k].loaded /\ stack'[k].todo = todo
    BY <1>3, <2>1, LoadShape
  <2>3. \A n : Needed(n)' = Needed(n)
    BY <1>3 DEF Needed, Targets
  <2>4. \A k \in DOMAIN stack : k > 1 => k - 1 \in DOMAIN stack
    BY FrameTyped
  <2>5. Top = stack[Len(stack)]
    BY DEF Top
  <2>6. QED
    BY <1>3, <2>2, <2>3, <2>4, <2>5 DEF StackOK
<1>4. CASE Load
  BY <1>3, <1>4 DEF Load, Needed, catalog
<1>5. CASE Return
  <2>1. selected' = selected /\ deps' = deps
    BY <1>5 DEF Return, catalog
  <2>2. \A n : Needed(n)' = Needed(n)
    BY <2>1 DEF Needed, Targets
  <2> PICK n : n = Len(stack)
    OBVIOUS
  <2>3. /\ n \in Nat /\ DOMAIN stack' = 1 .. n - 1 /\ DOMAIN stack = 1 .. n
        /\ \A k \in DOMAIN stack' : k \in DOMAIN stack /\ stack'[k] = stack[k]
    BY <1>5, ReturnShape DEF Return
  <2>4. \A k \in DOMAIN stack' : k # n /\ (k > 1 => k - 1 \in DOMAIN stack')
    BY <2>3
  <2>5. QED
    BY <2>1, <2>2, <2>3, <2>4 DEF StackOK
<1>6. CASE ReadFails
  <2>1. selected' = selected /\ deps' = deps
    BY <1>6 DEF ReadFails, catalog
  <2>2. CASE Fresh /\ Call(<< >>)
    BY <2>1, <2>2, SkipKeepsStack DEF Fresh
  <2>3. ASSUME stack # << >>, ~Top.loaded, NEW last \in Names \cup {0},
               stack' = [stack EXCEPT
                 ![Len(stack)].loaded = TRUE,
                 ![Len(stack)].todo = {m \in Targets(Top.name, selected[Top.name]) :
                                         m <= last}]
        PROVE  StackOK'
    <3>1. {m \in Targets(Top.name, selected[Top.name]) : m <= last} \in SUBSET Needed(Top.name)
      BY DEF Needed
    <3>2. QED
      BY <1>3, <2>1, <2>3, <3>1
  <2>4. QED
    BY <1>6, <2>2, <2>3 DEF ReadFails
<1>7. CASE Finish \/ Edit \/ Done \/ UNCHANGED vars
  <2>1. UNCHANGED <<stack, selected, deps>>
    BY <1>7 DEF Finish, Edit, Done, vars, catalog
  <2>2. \A n : Needed(n)' = Needed(n)
    BY <2>1 DEF Needed, Targets
  <2>3. QED
    BY <2>1, <2>2 DEF StackOK
<1>8. QED
  BY <1>1, <1>2, <1>4, <1>5, <1>6, <1>7 DEF Next, Engine

\* No step but Select selects, and no other adds a call to the stack.
LEMMA OtherSteps ==
    ASSUME TypeOK, StackOK, [Next]_vars, ~Select
    PROVE  /\ UNCHANGED <<selected, deps, manifest>>
           /\ \A k \in DOMAIN stack' : k \in DOMAIN stack /\ stack'[k].name = stack[k].name
           /\ ~Finish => graph' = graph
<1>1. ASSUME HasNext, Call(<< >>)
      PROVE  \A k \in DOMAIN stack' : k \in DOMAIN stack /\ stack'[k].name = stack[k].name
  <2>1. stack \in Seq(Frame) /\ stack' \in Seq(Frame) /\ Len(stack') = Len(stack)
    BY <1>1, CallShape DEF TypeOK
  <2>2. DOMAIN stack' = DOMAIN stack
    BY <2>1
  <2>3. QED
    BY <1>1, <2>2, CallShape
<1>2. ASSUME stack # << >>, NEW todo \in SUBSET Names,
             stack' = [stack EXCEPT ![Len(stack)].loaded = TRUE, ![Len(stack)].todo = todo]
      PROVE  \A k \in DOMAIN stack' : k \in DOMAIN stack /\ stack'[k].name = stack[k].name
  BY <1>2, LoadShape
<1>3. CASE Cycle \/ AlreadySelected \/ Missing
  BY <1>1, <1>3 DEF Cycle, AlreadySelected, Missing, Fresh, catalog
<1>4. CASE Load
  <2>1. Targets(Top.name, selected[Top.name]) \in SUBSET Names
    BY DEF Targets
  <2>2. QED
    BY <1>2, <1>4, <2>1 DEF Load, catalog
<1>5. CASE Return
  BY <1>5, ReturnShape DEF Return, catalog
<1>6. CASE ReadFails
  <2>1. ASSUME NEW last \in Names \cup {0}
        PROVE  {m \in Targets(Top.name, selected[Top.name]) : m <= last} \in SUBSET Names
    BY DEF Targets
  <2>2. CASE Fresh /\ Call(<< >>)
    BY <1>1, <1>6, <2>2 DEF ReadFails, Fresh, catalog
  <2>3. CASE stack # << >> /\ \E last \in Names \cup {0} :
               stack' = [stack EXCEPT
                 ![Len(stack)].loaded = TRUE,
                 ![Len(stack)].todo = {m \in Targets(Top.name, selected[Top.name]) :
                                         m <= last}]
    BY <1>2, <1>6, <2>1, <2>3 DEF ReadFails, catalog
  <2>4. QED
    BY <1>6, <2>2, <2>3 DEF ReadFails
<1>7. CASE Finish \/ Edit \/ Done \/ UNCHANGED vars
  BY <1>7 DEF Finish, Edit, Done, vars, catalog
<1>8. QED
  BY <1>3, <1>4, <1>5, <1>6, <1>7 DEF Next, Engine

\* A version selected stays selected, and its dependencies what they are.
LEMMA SelectionsStay ==
    ASSUME TypeOK, StackOK, [Next]_vars
    PROVE  /\ deps' = deps /\ manifest' = manifest
           /\ \A n \in Names : selected[n] # 0 => selected'[n] = selected[n] /\ Needed(n)' = Needed(n)
<1>1. CASE Select
  <2>1. HasNext /\ selected[Pending.name] = 0 /\ deps' = deps /\ manifest' = manifest
    BY <1>1 DEF Select, Fresh, catalog
  <2> PICK v \in Matching : selected' = [selected EXCEPT ![Pending.name] = v]
    BY <1>1, SelectShape
  <2>2. QED
    BY <2>1 DEF TypeOK, Needed, Targets
<1>2. CASE ~Select
  BY <1>2, OtherSteps DEF Needed, Targets
<1>3. QED
  BY <1>1, <1>2

\* Every step keeps what is known of a run that has ended.
LEMMA EndKept ==
    ASSUME TypeOK, StackOK, EndOK, GraphOK, [Next]_vars
    PROVE  EndOK'
<1>1. CASE result # "running"
  <2>1. stack = << >> /\ ~HasNext
    BY <1>1 DEF EndOK, HasNext
  <2>2. UNCHANGED vars
    BY <1>1, <2>1 DEF Next, Engine, Cycle, AlreadySelected, Missing, Select, Fresh, Load, Return,
                      Finish, ReadFails, Edit, Done
  <2>3. QED
    BY <2>2 DEF EndOK, Conflicting, vars
<1>2. CASE Finish
  <2> PICK found \in Seq(Diag) :
         /\ diags' = diags \o found /\ diags' \in Seq(Diag)
         /\ found # << >> <=> \E k \in DOMAIN manifest : Conflicting(k)
    BY <1>2, FinishShape
  <2>1. manifest' = manifest /\ diags \in Seq(Diag)
    BY <1>2 DEF Finish, TypeOK
  <2>2. diags' = << >> => \A k \in DOMAIN manifest' : ~Conflicting(k)'
    <3>1. diags' = << >> => found = << >>
      <4> SUFFICES ASSUME diags' = << >>, found # << >> PROVE FALSE
        OBVIOUS
      <4>1. diags \in Seq(Diag) /\ found \in Seq(Diag) /\ diags \o found = << >>
        BY <2>1
      <4>2. Len(diags \o found) = Len(diags) + Len(found) /\ Len(found) > 0
        BY ONLY <4>1, found # << >>
      <4>3. Len(diags \o found) = 0 /\ Len(diags) \in Nat /\ Len(found) \in Nat
        BY ONLY <4>1
      <4>4. QED
        BY ONLY <4>2, <4>3
    <3>2. QED
      BY <2>1, <3>1 DEF Conflicting
  <2>3. manifest' = manifest /\ stack' = << >> /\ item' > Len(manifest)
        /\ result' = IF diags' = << >> THEN "succeeded" ELSE "failed"
    BY <1>2 DEF Finish
  <2>4. QED
    BY ONLY <2>2, <2>3 DEF EndOK, Conflicting
<1>3. CASE result = "running" /\ ~Finish
  <2>1. result' = result
    BY <1>3 DEF Next, Engine, Cycle, AlreadySelected, Missing, Select, Load, Return,
                ReadFails, Edit, Done, vars
  <2>2. QED
    BY <1>3, <2>1 DEF EndOK
<1>4. QED
  BY <1>1, <1>2, <1>3

\* A selection adds one node, whose requirement is recorded.
LEMMA SelectKeepsGraph ==
    ASSUME TypeOK, StackOK, GraphOK, Select
    PROVE  GraphOK'
<1>1. HasNext /\ Pending.name \notin InStack /\ selected[Pending.name] = 0 /\ deps' = deps
  BY DEF Select, Fresh, catalog
<1> PICK v \in Matching, x \in Node, f \in Frame :
       /\ v \in Vers
       /\ x = [name |-> Pending.name, ver |-> v, depth |-> Len(stack),
               parent |-> Pending.parent, text |-> Pending.text]
       /\ f = [name |-> Pending.name, loaded |-> FALSE, todo |-> {}]
       /\ selected' = [selected EXCEPT ![Pending.name] = v]
       /\ graph' = Append(graph, x) /\ Call(<<f>>)
  BY SelectShape
<1> PICK n : n = Len(stack)
  OBVIOUS
<1> PICK g : g = Len(graph)
  OBVIOUS
<1> PICK p : p = Pending.name
  OBVIOUS
<1>2. /\ p \in Names /\ v # 0 /\ n \in Nat /\ DOMAIN stack = 1 .. n
      /\ g \in Nat /\ DOMAIN graph = 1 .. g /\ graph \in Seq(Node)
  BY <1>1, PendingShape DEF TypeOK
<1>3. x.name = p /\ x.ver = v /\ x.depth = n /\ x.parent = Pending.parent
  OBVIOUS
<1>4. /\ DOMAIN graph' = 1 .. g + 1 /\ graph'[g + 1] = x
      /\ \A k \in 1 .. g : graph'[k] = graph[k]
  BY <1>2
<1>5. \A k \in 1 .. g : graph[k].name \in Names /\ graph[k].ver # 0
  <2>1. \A k \in 1 .. g : graph[k] \in Node
    BY <1>2
  <2>2. QED
    BY <2>1 DEF Node
<1>6. \A k \in 1 .. g : graph[k].name # p
  <2>1. \A k \in 1 .. g : graph[k].ver = selected[graph[k].name]
    BY <1>2 DEF GraphOK
  <2>2. selected[p] = 0
    BY <1>1
  <2>3. QED
    BY ONLY <1>5, <2>1, <2>2
<1>7. selected'[p] = v /\ \A m \in Names : m # p => selected'[m] = selected[m]
  BY <1>2 DEF TypeOK
<1>8. \A k \in 1 .. g + 1 : k = g + 1 \/ k \in 1 .. g
  BY <1>2
<1>9. \A i \in 1 .. n : stack'[i].name = stack[i].name
  <2>1. <<f>> \in {<< >>} \cup {<<h>> : h \in Frame}
    OBVIOUS
  <2>2. QED
    BY <1>1, <1>2, <2>1, CallShape
<1>10. DOMAIN stack' = 1 .. n + 1 /\ stack'[n + 1].name = p
  <2>1. <<f>> \in {<< >>} \cup {<<h>> : h \in Frame} /\ <<f>> # << >> /\ Len(<<f>>) = 1 /\ <<f>>[1] = f
    OBVIOUS
  <2>2. stack' \in Seq(Frame) /\ Len(stack') = n + 1 /\ stack'[n + 1] = f
    BY <1>1, <2>1, CallShape
  <2>3. QED
    BY <1>2, <2>2
<1>11. \A k \in 1 .. g + 1 : graph'[k].ver = selected'[graph'[k].name]
  <2>1. \A k \in 1 .. g : graph[k].ver = selected[graph[k].name]
    BY <1>2 DEF GraphOK
  <2>2. x.ver = selected'[x.name]
    BY <1>3, <1>7
  <2>3. QED
    BY ONLY <1>4, <1>5, <1>6, <1>7, <1>8, <2>1, <2>2
<1>12. x.parent = 0 => x.depth = 0
  BY <1>1, <1>2, <1>3, PendingShape
<1>13. x.parent # 0 => \E j \in 1 .. g : graph[j].name = x.parent /\ graph[j].depth = n - 1
  <2> SUFFICES ASSUME x.parent # 0
               PROVE  \E j \in 1 .. g : graph[j].name = x.parent /\ graph[j].depth = n - 1
    OBVIOUS
  <2>1. stack # << >> /\ x.parent = Top.name
    BY <1>1, <1>3, PendingShape
  <2>2. n \in DOMAIN stack /\ Top = stack[n]
    BY <2>1, TopTyped
  <2>3. QED
    BY <1>2, <2>1, <2>2 DEF GraphOK
<1>14. \A k \in 1 .. g + 1 :
         /\ graph'[k].parent = 0 => graph'[k].depth = 0
         /\ graph'[k].parent # 0 =>
              \E j \in 1 .. k - 1 : /\ graph'[j].name = graph'[k].parent
                                    /\ graph'[j].depth = graph'[k].depth - 1
  <2> SUFFICES ASSUME NEW k \in 1 .. g + 1
               PROVE  /\ graph'[k].parent = 0 => graph'[k].depth = 0
                      /\ graph'[k].parent # 0 =>
                           \E j \in 1 .. k - 1 : /\ graph'[j].name = graph'[k].parent
                                                 /\ graph'[j].depth = graph'[k].depth - 1
    OBVIOUS
  <2>1. CASE k = g + 1
    <3>1. 1 .. k - 1 = 1 .. g
      BY <1>2, <2>1
    <3>2. QED
      BY <1>3, <1>4, <1>12, <1>13, <2>1, <3>1
  <2>2. CASE k \in 1 .. g
    <3>1. \A j \in 1 .. k - 1 : j \in 1 .. g
      BY <1>2, <2>2
    <3>2. /\ graph[k].parent = 0 => graph[k].depth = 0
          /\ graph[k].parent # 0 =>
                \E j \in 1 .. k - 1 : /\ graph[j].name = graph[k].parent
                                      /\ graph[j].depth = graph[k].depth - 1
      BY <1>2, <2>2 DEF GraphOK
    <3>3. QED
      BY <1>4, <2>2, <3>1, <3>2
  <2>3. QED
    BY <1>8, <2>1, <2>2
<1>15. \A j, k \in 1 .. g + 1 : graph'[j].name = graph'[k].name => j = k
  <2>1. \A j, k \in 1 .. g : graph[j].name = graph[k].name => j = k
    BY <1>2 DEF GraphOK
  <2>2. QED
    BY <1>3, <1>4, <1>6, <1>8, <2>1
<1>16. \A m \in Names : selected'[m] # 0 => \E k \in 1 .. g + 1 : graph'[k].name = m
  <2> SUFFICES ASSUME NEW m \in Names, selected'[m] # 0
               PROVE  \E k \in 1 .. g + 1 : graph'[k].name = m
    OBVIOUS
  <2>1. CASE m = p
    <3>1. g + 1 \in 1 .. g + 1
      BY <1>2
    <3>2. QED
      BY <1>3, <1>4, <2>1, <3>1
  <2>2. CASE m # p
    <3> PICK k \in 1 .. g : graph[k].name = m
      BY <1>2, <1>7, <2>2 DEF GraphOK
    <3>1. k \in 1 .. g + 1
      BY <1>2
    <3>2. QED
      BY <1>4, <3>1
  <2>3. QED
    BY <2>1, <2>2
<1>17. \A i \in 1 .. n + 1 :
         \E k \in 1 .. g + 1 : graph'[k].name = stack'[i].name /\ graph'[k].depth = i - 1
  <2> SUFFICES ASSUME NEW i \in 1 .. n + 1
               PROVE  \E k \in 1 .. g + 1 : graph'[k].name = stack'[i].name /\ graph'[k].depth = i - 1
    OBVIOUS
  <2>1. CASE i = n + 1
    <3>1. g + 1 \in 1 .. g + 1 /\ i - 1 = n
      BY <1>2, <2>1
    <3>2. QED
      BY <1>3, <1>4, <1>10, <2>1, <3>1
  <2>2. CASE i # n + 1
    <3>1. i \in 1 .. n
      BY <1>2, <2>2
    <3> PICK k \in 1 .. g : graph[k].name = stack[i].name /\ graph[k].depth = i - 1
      BY <1>2, <3>1 DEF GraphOK
    <3>2. k \in 1 .. g + 1
      BY <1>2
    <3>3. QED
      BY <1>4, <1>9, <3>1, <3>2
  <2>3. QED
    BY <2>1, <2>2
<1>18. QED
  BY ONLY <1>4, <1>10, <1>11, <1>14, <1>15, <1>16, <1>17 DEF GraphOK

\* GraphOK holds after every step.
LEMMA GraphKept ==
    ASSUME TypeOK, StackOK, EndOK, GraphOK, [Next]_vars
    PROVE  GraphOK'
<1>1. CASE Select
  BY <1>1, SelectKeepsGraph
<1>2. CASE Finish
  <2>1. graph' = Sorted(graph) /\ selected' = selected /\ stack' = << >>
    BY <1>2 DEF Finish
  <2>2. graph \in Seq(Node) /\ \A j, k \in DOMAIN graph : graph[j].name = graph[k].name => j = k
    BY DEF TypeOK, GraphOK
  <2> PICK s : s = graph'
    OBVIOUS
  <2>3. /\ s \in Seq(Node) /\ Len(s) = Len(graph)
        /\ \A k \in DOMAIN s : \E j \in DOMAIN graph : s[k] = graph[j]
        /\ \A j \in DOMAIN graph : \E k \in DOMAIN s : s[k] = graph[j]
        /\ \A j, k \in DOMAIN s : j <= k => Before(s[j], s[k])
        /\ \A j, k \in DOMAIN s : s[j].name = s[k].name => j = k
    <3>1. s = Sorted(graph) /\ Apart(graph)
      BY <2>1, <2>2 DEF Apart
    <3>2. SortOf(s, graph)
      BY ONLY <3>1, SortedShape
    <3>3. QED
      BY ONLY <3>2 DEF SortOf
  <2>4. \A k \in DOMAIN s :
           /\ s[k].ver = selected[s[k].name]
           /\ s[k].parent = 0 => s[k].depth = 0
           /\ s[k].parent # 0 =>
                \E j \in 1 .. k - 1 : s[j].name = s[k].parent /\ s[j].depth = s[k].depth - 1
    <3> SUFFICES ASSUME NEW k \in DOMAIN s
                 PROVE  /\ s[k].ver = selected[s[k].name]
                        /\ s[k].parent = 0 => s[k].depth = 0
                        /\ s[k].parent # 0 =>
                             \E j \in 1 .. k - 1 : /\ s[j].name = s[k].parent
                                                   /\ s[j].depth = s[k].depth - 1
      OBVIOUS
    <3> PICK o \in DOMAIN graph : s[k] = graph[o]
      BY <2>3
    <3>1. /\ graph[o].ver = selected[graph[o].name]
          /\ graph[o].parent = 0 => graph[o].depth = 0
          /\ graph[o].parent # 0 =>
               \E i \in 1 .. o - 1 : /\ graph[i].name = graph[o].parent
                                     /\ graph[i].depth = graph[o].depth - 1
      BY DEF GraphOK
    <3>2. ASSUME s[k].parent # 0
          PROVE  \E j \in 1 .. k - 1 : s[j].name = s[k].parent /\ s[j].depth = s[k].depth - 1
      <4> PICK i \in 1 .. o - 1 : /\ graph[i].name = graph[o].parent
                                  /\ graph[i].depth = graph[o].depth - 1
        BY <3>1, <3>2
      <4>1. i \in DOMAIN graph
        BY <2>2
      <4> PICK j \in DOMAIN s : s[j] = graph[i]
        BY <2>3, <4>1
      <4>2. s[j].name = s[k].parent /\ s[j].depth = s[k].depth - 1
        OBVIOUS
      <4>3. s[j].depth \in Nat /\ s[k].depth \in Nat
        <5>1. s[j] \in Node /\ s[k] \in Node
          BY <2>3
        <5>2. QED
          BY <5>1 DEF Node
      <4>4. ~Before(s[k], s[j])
        BY <4>2, <4>3 DEF Before
      <4>5. ~(k <= j)
        BY <2>3, <4>4
      <4>6. j \in Nat /\ k \in Nat /\ j >= 1
        <5>1. s \in Seq(Node)
          BY <2>3
        <5>2. DOMAIN s = 1 .. Len(s) /\ Len(s) \in Nat
          BY ONLY <5>1
        <5>3. QED
          BY <5>2
      <4>7. j \in 1 .. k - 1
        BY <4>5, <4>6
      <4>8. QED
        BY <4>2, <4>7
    <3>3. QED
      BY <3>1, <3>2
  <2>5. \A n \in Names : selected[n] # 0 => \E k \in DOMAIN s : s[k].name = n
    <3> SUFFICES ASSUME NEW n \in Names, selected[n] # 0
                 PROVE  \E k \in DOMAIN s : s[k].name = n
      OBVIOUS
    <3>1. PICK k \in DOMAIN graph : graph[k].name = n
      BY DEF GraphOK
    <3>2. QED
      BY <2>3, <3>1
  <2>6. DOMAIN stack' = {}
    BY <2>1
  <2>7. s = graph' /\ selected' = selected
    BY <2>1
  <2>8. \A k \in DOMAIN graph' :
           /\ graph'[k].ver = selected'[graph'[k].name]
           /\ graph'[k].parent = 0 => graph'[k].depth = 0
           /\ graph'[k].parent # 0 =>
                \E j \in 1 .. k - 1 : /\ graph'[j].name = graph'[k].parent
                                      /\ graph'[j].depth = graph'[k].depth - 1
    BY ONLY <2>4, <2>7
  <2>9. /\ \A j, k \in DOMAIN graph' : graph'[j].name = graph'[k].name => j = k
        /\ \A n \in Names : selected'[n] # 0 => \E k \in DOMAIN graph' : graph'[k].name = n
    BY ONLY <2>3, <2>5, <2>7
  <2>10. \A i \in DOMAIN stack' :
           \E k \in DOMAIN graph' : graph'[k].name = stack'[i].name /\ graph'[k].depth = i - 1
    BY ONLY <2>6
  <2>11. QED
    BY ONLY <2>8, <2>9, <2>10 DEF GraphOK
<1>3. CASE ~Select /\ ~Finish
  BY <1>3, OtherSteps DEF GraphOK
<1>4. QED
  BY <1>1, <1>2, <1>3

\* No step disturbs what was chosen for a first requirement.
LEMMA HighestKept ==
    ASSUME TypeOK, StackOK, GraphOK, HighestForFirstRequirement, [Next]_vars
    PROVE  HighestForFirstRequirement'
<1> PICK ok : ok = [x \in Node |->
                      /\ x.ver \in Accepts[x.text]
                      /\ status[x.name][x.ver] \in {"published", "revived", "deprecated"}
                      /\ edits = 0 => \A v \in Accepts[x.text] :
                           v > x.ver => status[x.name][v] # "published"]
  OBVIOUS
<1> PICK okNow : okNow = [x \in Node |->
                      /\ x.ver \in Accepts[x.text]
                      /\ status'[x.name][x.ver] \in {"published", "revived", "deprecated"}
                      /\ edits' = 0 => \A v \in Accepts[x.text] :
                           v > x.ver => status'[x.name][v] # "published"]
  OBVIOUS
<1>1. \A k \in DOMAIN graph : graph[k] \in Node /\ ok[graph[k]]
  <2>1. \A k \in DOMAIN graph : graph[k] \in Node
    BY DEF TypeOK
  <2>2. QED
    BY <2>1 DEF HighestForFirstRequirement
<1>2. SUFFICES \A k \in DOMAIN graph' : graph'[k] \in Node /\ okNow[graph'[k]]
  BY <1>2 DEF HighestForFirstRequirement
<1>3. CASE Edit
  <2>1. graph' = graph /\ edits' # 0
    BY <1>3 DEF Edit, TypeOK
  <2> PICK n \in Names, v \in Vers, x \in {"published", "deprecated", "revived"} :
         status' = [status EXCEPT ![n][v] = x]
    BY <1>3 DEF Edit
  <2>2. \A x1 \in Node : ok[x1] => okNow[x1]
    BY <2>1 DEF TypeOK, Node
  <2>3. QED
    BY <1>1, <2>1, <2>2
<1>4. CASE ~Edit
  <2>1. status' = status /\ edits' = edits
    BY <1>4 DEF Next, Engine, Cycle, AlreadySelected, Missing, Select, Load, Return, Finish,
                ReadFails, Done, vars, catalog
  <2>2. okNow = ok
    BY <2>1
  <2>3. CASE Select
    <3>1. HasNext
      BY <2>3 DEF Select, Fresh
    <3> PICK v \in Matching, x \in Node :
          /\ v \in Vers /\ \A o \in Matching : o <= v
          /\ x = [name |-> Pending.name, ver |-> v, depth |-> Len(stack),
                  parent |-> Pending.parent, text |-> Pending.text]
          /\ graph' = Append(graph, x)
      BY <2>3, SelectShape
    <3>2. x.ver = v /\ x.name = Pending.name /\ x.text = Pending.text
      OBVIOUS
    <3>3. v \in Accepts[Pending.text] /\ status[Pending.name][v] \in {"published", "revived"}
      BY <3>1, CandidatesTyped
    <3>4. ASSUME NEW o \in Accepts[Pending.text], o > v
          PROVE  status[Pending.name][o] # "published"
      <4>1. o \in Nat /\ v \in Nat
        BY <3>1, PendingShape
      <4>2. o \notin Matching
        BY <3>4, <4>1
      <4>3. QED
        BY <3>1, <4>2, CandidatesTyped
    <3>5. ok[x]
      BY <3>2, <3>3, <3>4
    <3>6. /\ DOMAIN graph' = 1 .. Len(graph) + 1 /\ graph'[Len(graph) + 1] = x
          /\ DOMAIN graph = 1 .. Len(graph) /\ Len(graph) \in Nat
          /\ \A k \in 1 .. Len(graph) : graph'[k] = graph[k]
      BY DEF TypeOK
    <3>7. \A k \in DOMAIN graph' : graph'[k] = x \/ \E j \in DOMAIN graph : graph'[k] = graph[j]
      BY <3>6
    <3>8. x \in Node
      OBVIOUS
    <3>9. QED
      BY ONLY <1>1, <2>2, <3>5, <3>7, <3>8
  <2>4. CASE Finish
    <3>1. graph' = Sorted(graph) /\ Apart(graph)
      BY <2>4 DEF Finish, TypeOK, GraphOK, Apart
    <3>2. SortOf(graph', graph)
      BY <3>1, SortedShape
    <3>3. \A k \in DOMAIN graph' : \E j \in DOMAIN graph : graph'[k] = graph[j]
      BY <3>2 DEF SortOf
    <3>4. QED
      BY ONLY <1>1, <2>2, <3>3
  <2>5. CASE ~Select /\ ~Finish
    <3>1. graph' = graph
      BY <2>5, OtherSteps
    <3>2. QED
      BY ONLY <1>1, <2>2, <3>1
  <2>6. QED
    BY <2>3, <2>4, <2>5
<1>5. QED
  BY <1>3, <1>4

\* What the selected versions need, name by name.
Edges == {e \in Names \X Names : selected[e[1]] # 0 /\ e[2] \in Needed(e[1])}

Walk(E, p) ==
    /\ Len(p) > 0
    /\ \A j \in 1 .. Len(p) - 1 : <<p[j], p[j + 1]>> \in E
    /\ (\E j \in 1 .. Len(p) - 1 : p[j] = p[Len(p)]) \/ <<p[Len(p)], p[1]>> \in E

\* The calls in progress are a path of edges, and the call to come goes on from
\* the one on top.
LEMMA StackIsPath ==
    ASSUME TypeOK, StackOK
    PROVE  /\ \A k \in 1 .. Len(stack) - 1 : <<stack[k].name, stack[k + 1].name>> \in Edges
           /\ stack # << >> /\ HasNext => <<stack[Len(stack)].name, Pending.name>> \in Edges
<1>1. /\ \A k \in DOMAIN stack : stack[k].name \in Names /\ selected[stack[k].name] # 0
      /\ \A k \in DOMAIN stack : k > 1 => stack[k].name \in Needed(stack[k - 1].name)
  BY FrameTyped DEF StackOK
<1>2. DOMAIN stack = 1 .. Len(stack) /\ Len(stack) \in Nat
  BY DEF TypeOK
<1>3. ASSUME NEW k \in 1 .. Len(stack) - 1
      PROVE  <<stack[k].name, stack[k + 1].name>> \in Edges
  <2> PICK l : l = k + 1
    OBVIOUS
  <2>1. k \in DOMAIN stack /\ l \in DOMAIN stack /\ l > 1 /\ l - 1 = k
    BY <1>2
  <2>2. stack[l].name \in Needed(stack[k].name)
    BY <1>1, <2>1
  <2>3. <<stack[k].name, stack[l].name>> \in Edges
    BY <1>1, <2>1, <2>2 DEF Edges
  <2>4. QED
    BY <2>3
<1>4. ASSUME stack # << >>, HasNext
      PROVE  <<stack[Len(stack)].name, Pending.name>> \in Edges
  <2>1. Top = stack[Len(stack)]
    BY DEF Top
  <2>2. /\ Top.name \in Names /\ selected[Top.name] # 0 /\ Pending.name \in Names
        /\ Pending.name \in Needed(Top.name)
    BY <1>4, PendingShape
  <2>3. QED
    BY <2>1, <2>2 DEF Edges
<1>5. QED
  BY <1>3, <1>4

\* Requirements between selected versions stay.
LEMMA EdgesStay ==
    ASSUME TypeOK, StackOK, [Next]_vars
    PROVE  Edges \subseteq Edges'
<1> SUFFICES ASSUME NEW n \in Names, NEW m \in Names, selected[n] # 0, m \in Needed(n)
             PROVE  <<n, m>> \in Edges'
  BY DEF Edges
<1> PICK need : need = Needed(n)'
  OBVIOUS
<1>1. selected'[n] # 0 /\ m \in need
  BY SelectionsStay
<1>2. QED
  BY <1>1 DEF Edges, Needed

\* The path of a cycle goes from the call above the bottom up to the name met
\* again.
LEMMA CyclePathWalks ==
    ASSUME TypeOK, StackOK, HasNext, Pending.name \in InStack, NEW path,
           path = [k \in 1 .. Len(stack) |->
                     IF k < Len(stack) THEN stack[k + 1].name ELSE Pending.name]
    PROVE  path \in Seq(Names) /\ Walk(Edges, path)
<1> PICK n : n = Len(stack)
  OBVIOUS
<1> PICK p : p = Pending.name
  OBVIOUS
<1> PICK name : name = [k \in 1 .. n |-> stack[k].name]
  OBVIOUS
<1>1. n \in Nat /\ DOMAIN stack = 1 .. n
  BY DEF TypeOK
<1>2. n > 0 /\ stack # << >> /\ \E i \in 1 .. n : name[i] = p
  BY <1>1 DEF InStack
<1>3. p \in Names /\ \A k \in 1 .. n : name[k] \in Names
  BY <1>1, FrameTyped, PendingShape
<1>4. path = [k \in 1 .. n |-> IF k < n THEN name[k + 1] ELSE p]
  BY <1>1
<1>5. path \in Seq(Names) /\ Len(path) = n /\ path[n] = p
  <2>1. path \in [1 .. n -> Names]
    BY ONLY <1>1, <1>3, <1>4
  <2>2. QED
    BY ONLY <1>1, <1>2, <1>4, <2>1
<1>6. (\A k \in 1 .. n - 1 : <<name[k], name[k + 1]>> \in Edges) /\ <<name[n], p>> \in Edges
  <2>1. \A k \in 1 .. n - 1 : k \in 1 .. n /\ k + 1 \in 1 .. n
    BY <1>1
  <2>2. \A k \in 1 .. n - 1 : <<stack[k].name, stack[k + 1].name>> \in Edges
    BY StackIsPath
  <2>3. \A k \in 1 .. n - 1 : <<name[k], name[k + 1]>> \in Edges
    BY <2>1, <2>2
  <2>4. n \in 1 .. n /\ <<stack[n].name, p>> \in Edges
    BY <1>1, <1>2, StackIsPath
  <2>5. QED
    BY <2>3, <2>4
<1>7. \A k \in 1 .. n - 1 : path[k] = name[k + 1]
  BY ONLY <1>1, <1>4
<1>8. ASSUME NEW j \in 1 .. n - 1 PROVE <<path[j], path[j + 1]>> \in Edges
  <2> PICK k : k = j + 1
    OBVIOUS
  <2>1. k \in 1 .. n /\ path[j] = name[k]
    BY <1>1, <1>7
  <2>2. CASE k = n
    BY <1>5, <1>6, <2>1, <2>2
  <2>3. CASE k # n
    <3>1. k \in 1 .. n - 1
      BY <1>1, <2>1, <2>3
    <3>2. path[k] = name[k + 1] /\ <<name[k], name[k + 1]>> \in Edges
      BY <1>6, <1>7, <3>1
    <3>3. QED
      BY <2>1, <3>2
  <2>4. QED
    BY <2>2, <2>3
<1>9. (\E j \in 1 .. n - 1 : path[j] = path[n]) \/ <<path[n], path[1]>> \in Edges
  <2> PICK i \in 1 .. n : name[i] = p
    BY <1>2
  <2>1. CASE i # 1
    <3> PICK j : j = i - 1
      OBVIOUS
    <3>1. j \in 1 .. n - 1 /\ j + 1 = i
      BY <1>1, <2>1
    <3>2. path[j] = p
      BY <1>7, <3>1
    <3>3. QED
      BY <1>5, <3>1, <3>2
  <2>2. CASE i = 1 /\ n = 1
    BY <1>5, <1>6, <2>2
  <2>3. CASE i = 1 /\ n # 1
    <3>1. 1 \in 1 .. n - 1
      BY <1>1, <1>2, <2>3
    <3>2. path[1] = name[1 + 1] /\ <<name[1], name[1 + 1]>> \in Edges
      BY <1>6, <1>7, <3>1
    <3>3. QED
      BY <1>5, <2>3, <3>2
  <2>4. QED
    BY <2>1, <2>2, <2>3
<1>10. QED
  BY <1>2, <1>5, <1>8, <1>9 DEF Walk

\* Without a fault or a step of Cycle, only a missing name is diagnosed before
\* the end.
LEMMA DiagsGrow ==
    ASSUME TypeOK, StackOK, GraphOK, [Next]_vars
    PROVE  /\ \A k \in DOMAIN diags : k \in DOMAIN diags' /\ diags'[k] = diags[k]
           /\ ~Cycle => \A k \in DOMAIN diags' \ DOMAIN diags : diags'[k].type # "CYCLE"
           /\ Cycle => /\ DOMAIN diags' = DOMAIN diags \cup {Len(diags) + 1}
                       /\ diags'[Len(diags) + 1].type = "CYCLE"
                       /\ Walk(Edges, diags'[Len(diags) + 1].path)
<1>0. diags \in Seq(Diag) /\ DOMAIN diags = 1 .. Len(diags) /\ Len(diags) \in Nat
  BY DEF TypeOK
<1>1. CASE Cycle
  <2> PICK path : path = [k \in 1 .. Len(stack) |->
                     IF k < Len(stack) THEN stack[k + 1].name ELSE Pending.name]
    OBVIOUS
  <2>1. HasNext /\ Pending.name \in InStack /\ Report("CYCLE", path)
    BY <1>1 DEF Cycle
  <2>2. path \in Seq(Names) /\ Walk(Edges, path)
    BY <2>1, CyclePathWalks
  <2> PICK d \in Diag :
         /\ d.type = "CYCLE" /\ d.path = path /\ diags' \in Seq(Diag)
         /\ Len(diags') = Len(diags) + 1 /\ diags'[Len(diags) + 1] = d
         /\ \A k \in DOMAIN diags : k \in DOMAIN diags' /\ diags'[k] = diags[k]
    BY <2>1, <2>2, ReportShape
  <2>3. DOMAIN diags' = 1 .. Len(diags) + 1
    OBVIOUS
  <2>4. DOMAIN diags' = DOMAIN diags \cup {Len(diags) + 1}
    BY ONLY <1>0, <2>3
  <2>5. QED
    BY <1>1, <2>2, <2>4
<1>2. ASSUME HasNext, Report("MISSING", << >>)
      PROVE  /\ \A k \in DOMAIN diags : k \in DOMAIN diags' /\ diags'[k] = diags[k]
             /\ \A k \in DOMAIN diags' \ DOMAIN diags : diags'[k].type # "CYCLE"
  <2>1. << >> \in Seq(Names)
    OBVIOUS
  <2> PICK d \in Diag :
         /\ d.type = "MISSING" /\ diags' \in Seq(Diag)
         /\ Len(diags') = Len(diags) + 1 /\ diags'[Len(diags) + 1] = d
         /\ \A k \in DOMAIN diags : k \in DOMAIN diags' /\ diags'[k] = diags[k]
    BY <1>2, <2>1, ReportShape
  <2>2. DOMAIN diags' = 1 .. Len(diags) + 1
    OBVIOUS
  <2>3. \A k \in DOMAIN diags' \ DOMAIN diags : k = Len(diags) + 1
    BY ONLY <1>0, <2>2
  <2>4. QED
    BY <2>3
<1>3. CASE Finish
  <2> PICK found \in Seq(Diag) :
         /\ diags' = diags \o found /\ diags' \in Seq(Diag)
         /\ \A k \in DOMAIN found : found[k].type = "CONFLICT"
    BY <1>3, FinishShape
  <2>1. /\ \A k \in DOMAIN diags : k \in DOMAIN diags' /\ diags'[k] = diags[k]
        /\ \A k \in DOMAIN diags' \ DOMAIN diags :
             k - Len(diags) \in DOMAIN found /\ diags'[k] = found[k - Len(diags)]
    BY <1>0
  <2>2. \A k \in DOMAIN diags' \ DOMAIN diags : diags'[k].type # "CYCLE"
    BY <2>1
  <2>3. ~Cycle
    BY <1>3 DEF Finish, Cycle, HasNext, InStack
  <2>4. QED
    BY <2>1, <2>2, <2>3
<1>4. CASE ~Cycle /\ ~Finish
  <2>1. diags' = diags \/ (HasNext /\ Report("MISSING", << >>))
    BY <1>4 DEF Next, Engine, AlreadySelected, Missing, Select, Load, Return,
                ReadFails, Fresh, Edit, Done, vars
  <2>2. QED
    BY <1>2, <1>4, <2>1
<1>5. QED
  BY <1>1, <1>3, <1>4

\* PathsOK holds after every step.
LEMMA PathsKept ==
    ASSUME TypeOK, TypeOK', StackOK, GraphOK, PathsOK, [Next]_vars
    PROVE  PathsOK'
<1> PICK E : E = Edges
  OBVIOUS
<1> PICK F : F = Edges'
  OBVIOUS
<1>1. E \subseteq F
  BY EdgesStay
<1>2. \A k \in DOMAIN diags : diags[k].type = "CYCLE" => Walk(E, diags[k].path)
  <2> SUFFICES ASSUME NEW k \in DOMAIN diags, diags[k].type = "CYCLE"
               PROVE  Walk(Edges, diags[k].path)
    OBVIOUS
  <2> PICK p : p = diags[k].path
    OBVIOUS
  <2>0. diags[k] \in Diag
    BY DEF TypeOK
  <2>1. p \in Seq(Names) /\ Len(p) > 0
    BY <2>0 DEF Diag, PathsOK
  <2>2. \A j \in 1 .. Len(p) : p[j] \in Names
    BY <2>1
  <2>3. /\ \A j \in 1 .. Len(p) - 1 : selected[p[j]] # 0 /\ p[j + 1] \in Targets(p[j], selected[p[j]])
        /\ \/ \E j \in 1 .. Len(p) - 1 : p[j] = p[Len(p)]
           \/ selected[p[Len(p)]] # 0 /\ p[1] \in Targets(p[Len(p)], selected[p[Len(p)]])
    BY DEF PathsOK, CyclePathIsWalk
  <2>4. \A j \in 1 .. Len(p) - 1 : j \in 1 .. Len(p) /\ j + 1 \in 1 .. Len(p)
    BY <2>1
  <2>5. 1 \in 1 .. Len(p) /\ Len(p) \in 1 .. Len(p)
    BY <2>1
  <2>6. \A n, m \in Names : selected[n] # 0 /\ m \in Targets(n, selected[n]) => <<n, m>> \in Edges
    BY DEF Edges, Needed
  <2>7. \A j \in 1 .. Len(p) - 1 : <<p[j], p[j + 1]>> \in Edges
    BY <2>2, <2>3, <2>4, <2>6
  <2>8. (\E j \in 1 .. Len(p) - 1 : p[j] = p[Len(p)]) \/ <<p[Len(p)], p[1]>> \in Edges
    BY <2>2, <2>3, <2>5, <2>6
  <2>9. QED
    BY <2>1, <2>7, <2>8 DEF Walk
<1>3. \A k \in DOMAIN diags' : diags'[k].type = "CYCLE" => Walk(E, diags'[k].path)
  <2>1. CASE Cycle
    <3>1. \A k \in DOMAIN diags' : k \in DOMAIN diags \/ k = Len(diags) + 1
      BY <2>1, DiagsGrow
    <3>2. QED
      BY <1>2, <2>1, <3>1, DiagsGrow
  <2>2. CASE ~Cycle
    <3>1. \A k \in DOMAIN diags' : k \notin DOMAIN diags => diags'[k].type # "CYCLE"
      BY <2>2, DiagsGrow
    <3>2. QED
      BY <1>2, <3>1, DiagsGrow
  <2>3. QED
    BY <2>1, <2>2
<1>4. SUFFICES ASSUME NEW k \in DOMAIN diags', diags'[k].type = "CYCLE", NEW p, p = diags'[k].path
               PROVE  /\ Len(p) > 0
                      /\ \A j \in 1 .. Len(p) - 1 :
                           selected'[p[j]] # 0 /\ p[j + 1] \in Targets(p[j], selected[p[j]])'
                      /\ \/ \E j \in 1 .. Len(p) - 1 : p[j] = p[Len(p)]
                         \/ selected'[p[Len(p)]] # 0 /\ p[1] \in Targets(p[Len(p)], selected[p[Len(p)]])'
  BY DEF PathsOK, CyclePathIsWalk
<1>5. Walk(F, p)
  BY <1>1, <1>3, <1>4 DEF Walk
<1>6. \A n, m : <<n, m>> \in F => selected'[n] # 0 /\ m \in Targets(n, selected[n])'
  BY DEF Edges, Needed
<1>7. QED
  BY <1>5, <1>6 DEF Walk

\* A diagnostic reports the name it carries.
LEMMA ReportedOnes ==
    ASSUME NEW type, NEW k \in DOMAIN diags, diags[k].type = type
    PROVE  diags[k].name \in Reported(type)
BY DEF Reported

\* A circle among selected versions stays one.
LEMMA CircleStays ==
    ASSUME TypeOK, StackOK, [Next]_vars, NEW C \in SUBSET Names, Circle(C)
    PROVE  Circle(C)'
<1> PICK need : need = [n \in Names |-> Needed(n)']
  OBVIOUS
<1> PICK chosen : chosen = selected'
  OBVIOUS
<1>1. C # {} /\ \A n \in C : selected[n] # 0 /\ \E m \in C : m \in Needed(n)
  BY DEF Circle, Needed
<1>2. \A n \in Names : selected[n] # 0 => chosen[n] # 0 /\ need[n] = Needed(n)
  BY SelectionsStay
<1>3. C # {} /\ \A n \in C : chosen[n] # 0 /\ \E m \in C : m \in need[n]
  BY <1>1, <1>2
<1>4. \A n \in Names : need[n] = Targets(n, selected[n])'
  BY DEF Needed
<1>5. QED
  BY <1>3, <1>4 DEF Circle

\* Once there is a circle, there is one from then on.
LEMMA CyclicStays ==
    ASSUME TypeOK, StackOK, [Next]_vars, Cyclic
    PROVE  Cyclic'
<1> PICK C \in SUBSET Names : Circle(C)
  BY DEF Cyclic
<1>1. Circle(C)'
  BY CircleStays
<1>2. QED
  BY <1>1 DEF Cyclic

\* A cause remains one while nobody changes the catalog.
LEMMA CauseStays ==
    ASSUME TypeOK, StackOK, [Next]_vars, status' = status, Cause
    PROVE  Cause'
<1>1. deps' = deps /\ manifest' = manifest /\ status' = status
  BY SelectionsStay
<1>2. CASE Cyclic
  BY <1>2, CyclicStays DEF Cause
<1>3. CASE \E k \in DOMAIN manifest :
             Conflicting(k) \/ NoCandidate(manifest[k].name, manifest[k].text)
  BY <1>1, <1>3 DEF Cause, Conflicting, NoCandidate, Candidates, Explicit
<1>4. CASE \E n, m \in Names : /\ selected[n] # 0 /\ m \in Needed(n)
                               /\ NoCandidate(m, deps[n][selected[n]][m])
  <2> PICK n \in Names, m \in Names : /\ selected[n] # 0 /\ m \in Needed(n)
                                      /\ NoCandidate(m, deps[n][selected[n]][m])
    BY <1>4
  <2> PICK need : need = Needed(n)'
    OBVIOUS
  <2>1. selected'[n] = selected[n] /\ need = Needed(n)
    BY SelectionsStay
  <2>2. NoCandidate(m, deps[n][selected[n]][m])'
    BY <1>1, <2>1 DEF NoCandidate, Candidates, Explicit
  <2>3. selected'[n] # 0 /\ m \in Needed(n)'
    BY <2>1
  <2>4. QED
    BY <2>2, <2>3 DEF Cause
<1>5. QED
  BY <1>2, <1>3, <1>4 DEF Cause

\* A call that meets its name on the stack closes a circle of selected versions.
LEMMA CycleCloses ==
    ASSUME TypeOK, StackOK, HasNext, Pending.name \in InStack
    PROVE  Cyclic
<1> PICK n : n = Len(stack)
  OBVIOUS
<1>1. n \in Nat /\ DOMAIN stack = 1 .. n
  BY DEF TypeOK
<1> PICK i \in 1 .. n : stack[i].name = Pending.name
  BY <1>1 DEF InStack
<1>2. stack # << >> /\ n \in 1 .. n
  BY <1>1
<1> PICK C : C = {stack[k].name : k \in i .. n}
  OBVIOUS
<1>3. \A k \in i .. n : k \in 1 .. n
  BY <1>1
<1>4. C \in SUBSET Names
  BY <1>1, <1>3, FrameTyped
<1>5. \A k \in 1 .. n - 1 : <<stack[k].name, stack[k + 1].name>> \in Edges
  BY StackIsPath
<1>6. <<stack[n].name, stack[i].name>> \in Edges
  BY <1>2, StackIsPath
<1>7. \A a, b : <<a, b>> \in Edges => selected[a] # 0 /\ b \in Targets(a, selected[a])
  BY DEF Edges, Needed
<1>8. ASSUME NEW k \in i .. n
      PROVE  selected[stack[k].name] # 0 /\ \E m \in C : m \in Targets(stack[k].name, selected[stack[k].name])
  <2>1. CASE k = n
    <3>1. stack[i].name \in C
      BY <1>1
    <3>2. QED
      BY <1>6, <1>7, <2>1, <3>1
  <2>2. CASE k # n
    <3>1. k \in 1 .. n - 1 /\ k + 1 \in i .. n
      BY <1>1, <2>2
    <3>2. stack[k + 1].name \in C
      BY <3>1
    <3>3. QED
      BY <1>5, <1>7, <3>1, <3>2
  <2>3. QED
    BY <2>1, <2>2
<1>9. C # {}
  <2>1. stack[i].name \in C
    BY <1>1
  <2>2. QED
    BY <2>1
<1>10. Circle(C)
  BY <1>8, <1>9 DEF Circle
<1>11. QED
  BY <1>4, <1>10 DEF Cyclic

\* A call for which there is no candidate is a cause.
LEMMA MissingHasCause ==
    ASSUME TypeOK, StackOK, HasNext, Pending.name \notin Registered \/ Matching = {}
    PROVE  Cause
<1>1. NoCandidate(Pending.name, Pending.text)
  BY DEF NoCandidate, Matching
<1>2. CASE stack = << >>
  BY <1>1, <1>2, PendingShape DEF Cause
<1>3. CASE stack # << >>
  <2> PICK n : n = Top.name
    OBVIOUS
  <2> PICK m : m = Pending.name
    OBVIOUS
  <2>1. n \in Names /\ m \in Names /\ selected[n] # 0 /\ m \in Needed(n)
        /\ Pending.text = deps[n][selected[n]][m]
    BY <1>3, PendingShape
  <2>2. QED
    BY <1>1, <2>1 DEF Cause
<1>4. QED
  BY <1>2, <1>3

\* CausesOK holds after every step.
LEMMA CausesKept ==
    ASSUME TypeOK, StackOK, GraphOK, CausesOK, [Next]_vars
    PROVE  CausesOK'
<1>1. \A k \in DOMAIN diags' : diags'[k].type = "CYCLE" => Cyclic
  <2>1. CASE Cycle
    BY <2>1, CycleCloses DEF Cycle
  <2>2. CASE ~Cycle
    <3> SUFFICES ASSUME NEW k \in DOMAIN diags', diags'[k].type = "CYCLE" PROVE Cyclic
      OBVIOUS
    <3>1. k \in DOMAIN diags /\ diags[k].type = "CYCLE"
      BY <2>2, DiagsGrow
    <3>2. Reported("CYCLE") # {}
      BY <3>1, ReportedOnes
    <3>3. QED
      BY <3>2 DEF CausesOK
  <2>3. QED
    BY <2>1, <2>2
<1>2. (Reported("CYCLE") # {})' => Cyclic'
  <2>1. (Reported("CYCLE") # {})' => Cyclic
    BY <1>1 DEF Reported
  <2>2. QED
    BY <2>1, CyclicStays
<1>3. ASSUME diags' # << >>, faults' = 0, edits' = 0
      PROVE  Cause'
  <2>1. faults = 0 /\ edits = 0 /\ status' = status /\ ~Edit /\ ~ReadFails
    <3>1. ~Edit /\ ~ReadFails
      BY <1>3 DEF Edit, ReadFails, TypeOK
    <3>2. QED
      BY <1>3, <3>1 DEF Next, Engine, Cycle, AlreadySelected, Missing, Select, Load, Return,
                        Finish, Done, vars, catalog
  <2>2. diags # << >> => Cause
    BY <2>1 DEF CausesOK
  <2>3. Cause
    <3>1. CASE Cycle
      BY <3>1, CycleCloses DEF Cycle, Cause
    <3>2. CASE Missing
      BY <3>2, MissingHasCause DEF Missing, Fresh
    <3>3. CASE Finish
      <4> PICK found \in Seq(Diag) :
             /\ diags' = diags \o found
             /\ found # << >> => \E k \in DOMAIN manifest : Conflicting(k)
        BY <3>3, FinishShape
      <4>1. diags \in Seq(Diag)
        BY DEF TypeOK
      <4>2. diags # << >> \/ found # << >>
        BY <1>3, <4>1
      <4>3. QED
        BY <2>2, <4>2 DEF Cause
    <3>4. CASE ~Cycle /\ ~Missing /\ ~Finish
      <4>1. diags' = diags
        BY <2>1, <3>4 DEF Next, Engine, AlreadySelected, Select, Load, Return, Done, vars
      <4>2. QED
        BY <1>3, <2>2, <4>1
    <3>5. QED
      BY <3>1, <3>2, <3>3, <3>4
  <2>4. QED
    BY <2>1, <2>3, CauseStays
<1>4. QED
  BY <1>2, <1>3 DEF CausesOK

\* While no read fails and no cycle is reported, no step is one of those.
LEMMA SearchGoesOn ==
    ASSUME TypeOK, StackOK, GraphOK, [Next]_vars, faults' = 0, (Reported("CYCLE") = {})'
    PROVE  faults = 0 /\ Reported("CYCLE") = {} /\ ~Cycle /\ ~ReadFails
<1>1. \A k \in DOMAIN diags' : diags'[k].type # "CYCLE"
  <2> SUFFICES ASSUME NEW k \in DOMAIN diags', diags'[k].type = "CYCLE" PROVE FALSE
    OBVIOUS
  <2>1. diags'[k].name \in Reported("CYCLE")'
    BY ONLY k \in DOMAIN diags', diags'[k].type = "CYCLE" DEF Reported
  <2>2. QED
    BY <2>1
<1>2. \A k \in DOMAIN diags : k \in DOMAIN diags' /\ diags'[k] = diags[k]
  BY DiagsGrow
<1>3. \A k \in DOMAIN diags : diags[k].type # "CYCLE"
  BY <1>1, <1>2
<1>4. Reported("CYCLE") = {}
  BY <1>3 DEF Reported
<1>5. ~Cycle
  <2> SUFFICES ASSUME Cycle PROVE FALSE
    OBVIOUS
  <2> PICK l : l = Len(diags) + 1
    OBVIOUS
  <2>1. l \in DOMAIN diags' /\ diags'[l].type = "CYCLE"
    BY DiagsGrow
  <2>2. QED
    BY <1>1, <2>1
<1>6. ~ReadFails
  BY DEF ReadFails, TypeOK
<1>7. faults = 0
  BY <1>6 DEF Next, Engine, Cycle, AlreadySelected, Missing, Select, Load, Return,
              Finish, Edit, Done, vars
<1>8. QED
  BY <1>4, <1>5, <1>6, <1>7

\* A name found missing stays missed, and the next one missing is added.
LEMMA MissedGrows ==
    ASSUME TypeOK, StackOK, GraphOK, [Next]_vars
    PROVE  /\ Missed \subseteq Missed'
           /\ Missing => Pending.name \in Missed'
<1>1. \A k \in DOMAIN diags : k \in DOMAIN diags' /\ diags'[k] = diags[k]
  BY DiagsGrow
<1>2. \A x \in Missed : x \in Missed'
  <2> SUFFICES ASSUME NEW x \in Missed PROVE x \in Missed'
    OBVIOUS
  <2> PICK k \in DOMAIN diags : diags[k].type = "MISSING" /\ x = diags[k].name
    BY DEF Missed, Reported
  <2>1. k \in DOMAIN diags' /\ diags'[k].type = "MISSING" /\ x = diags'[k].name
    BY <1>1
  <2>2. QED
    BY <2>1 DEF Missed, Reported
<1>3. ASSUME Missing PROVE Pending.name \in Missed'
  <2>1. HasNext /\ Report("MISSING", << >>) /\ << >> \in Seq(Names)
    BY <1>3 DEF Missing, Fresh
  <2> PICK d \in Diag :
         /\ d.type = "MISSING" /\ d.name = Pending.name /\ diags' \in Seq(Diag)
         /\ Len(diags') = Len(diags) + 1 /\ diags'[Len(diags) + 1] = d
    BY <2>1, ReportShape
  <2> PICK l : l = Len(diags) + 1
    OBVIOUS
  <2>2. l \in DOMAIN diags'
    BY DEF TypeOK
  <2>3. diags'[l].type = "MISSING" /\ Pending.name = diags'[l].name
    OBVIOUS
  <2>4. QED
    BY ONLY <2>2, <2>3 DEF Missed, Reported
<1>4. QED
  BY <1>2, <1>3

\* A name is finished when its call returns, and then for good.
LEMMA FinishedGrows ==
    ASSUME TypeOK, StackOK, [Next]_vars
    PROVE  /\ ~Return => Finished' = Finished
           /\ Return => Finished' = Finished \cup {Top.name} /\ Top.name \notin Finished
<1>1. ASSUME Select PROVE Finished' = Finished
  <2>1. HasNext /\ Pending.name \notin InStack /\ selected[Pending.name] = 0
    BY <1>1 DEF Select, Fresh
  <2> PICK p : p = Pending.name
    OBVIOUS
  <2> PICK v \in Matching, f \in Frame :
         /\ v \in Vers /\ f.name = p /\ selected' = [selected EXCEPT ![p] = v] /\ Call(<<f>>)
    BY <1>1, SelectShape
  <2>2. v # 0 /\ p \in Names
    BY <2>1, PendingShape
  <2>3. /\ stack \in Seq(Frame) /\ stack' \in Seq(Frame) /\ Len(stack') = Len(stack) + 1
        /\ \A k \in DOMAIN stack : k \in DOMAIN stack' /\ stack'[k].name = stack[k].name
        /\ stack'[Len(stack) + 1] = f
    <3>1. <<f>> # << >> /\ Len(<<f>>) = 1 /\ <<f>>[1] = f
      OBVIOUS
    <3>2. <<f>> \in {<< >>} \cup {<<g>> : g \in Frame}
      OBVIOUS
    <3>3. stack \in Seq(Frame)
      BY DEF TypeOK
    <3>4. QED
      BY <2>1, <3>1, <3>2, <3>3, CallShape
  <2>4. DOMAIN stack' = DOMAIN stack \cup {Len(stack) + 1}
    BY <2>3
  <2>5. InStack' = InStack \cup {p}
    <3>1. \A k \in DOMAIN stack' : stack'[k].name \in InStack \cup {p}
      BY <2>3, <2>4 DEF InStack
    <3>2. \A k \in DOMAIN stack : \E j \in DOMAIN stack' : stack'[j].name = stack[k].name
      BY <2>3
    <3>3. \E j \in DOMAIN stack' : stack'[j].name = p
      BY <2>3, <2>4
    <3>4. QED
      BY <3>1, <3>2, <3>3 DEF InStack
  <2>6. \A n \in Names : selected'[n] = IF n = p THEN v ELSE selected[n]
    BY DEF TypeOK
  <2>7. QED
    BY <2>1, <2>2, <2>5, <2>6 DEF Finished
<1>2. ASSUME Return
      PROVE  Finished' = Finished \cup {Top.name} /\ Top.name \notin Finished
  <2> PICK n : n = Len(stack)
    OBVIOUS
  <2> PICK t : t = Top.name
    OBVIOUS
  <2>1. selected' = selected /\ stack # << >>
    BY <1>2 DEF Return
  <2>2. /\ n \in Nat \ {0} /\ DOMAIN stack' = 1 .. n - 1 /\ DOMAIN stack = 1 .. n
        /\ \A k \in DOMAIN stack' : k \in DOMAIN stack /\ stack'[k] = stack[k]
    BY <1>2, ReturnShape DEF Return
  <2>3. n \in DOMAIN stack /\ \A k \in DOMAIN stack : k \in DOMAIN stack' \/ k = n
    BY <2>2
  <2>4. t = stack[n].name /\ t \in Names /\ selected[t] # 0
    BY <2>3, FrameTyped DEF Top, StackOK
  <2>5. \A k \in DOMAIN stack' : stack'[k].name # t
    <3>1. \A k \in DOMAIN stack' : k # n
      BY <2>2
    <3>2. QED
      BY <2>2, <2>3, <2>4, <3>1 DEF StackOK
  <2>6. InStack' = InStack \ {t} /\ t \in InStack
    <3>1. \A k \in DOMAIN stack' : stack'[k].name \in InStack \ {t}
      BY <2>2, <2>5 DEF InStack
    <3>2. \A k \in DOMAIN stack : stack[k].name # t => \E j \in DOMAIN stack' : stack'[j].name = stack[k].name
      BY <2>2, <2>3, <2>4
    <3>3. t \in InStack
      BY <2>3, <2>4 DEF InStack
    <3>4. QED
      BY <3>1, <3>2, <3>3 DEF InStack
  <2>7. QED
    BY <2>1, <2>4, <2>6 DEF Finished
<1>3. ASSUME ~Select, ~Return PROVE Finished' = Finished
  <2>1. /\ selected' = selected
        /\ \A k \in DOMAIN stack' : k \in DOMAIN stack /\ stack'[k].name = stack[k].name
    BY <1>3, OtherSteps
  <2>2. DOMAIN stack' = DOMAIN stack
    <3>1. CASE HasNext /\ Call(<< >>)
      BY <3>1, CallShape DEF TypeOK
    <3>2. CASE stack # << >> /\ \E todo \in SUBSET Names :
                 stack' = [stack EXCEPT ![Len(stack)].loaded = TRUE, ![Len(stack)].todo = todo]
      BY <3>2, LoadShape
    <3>3. Targets(Top.name, selected[Top.name]) \in SUBSET Names
          /\ \A last : {m \in Targets(Top.name, selected[Top.name]) : m <= last} \in SUBSET Names
      BY DEF Targets
    <3>4. CASE Load
      BY <3>2, <3>3, <3>4 DEF Load
    <3>5. CASE ReadFails
      BY <3>1, <3>2, <3>3, <3>5 DEF ReadFails, Fresh
    <3>6. CASE stack' = stack
      BY <3>6
    <3>7. QED
      BY <1>3, <3>1, <3>4, <3>5, <3>6
        DEF Next, Engine, Cycle, AlreadySelected, Missing, Fresh, Finish, Edit, Done, vars
  <2>3. InStack' = InStack
    BY <2>1, <2>2 DEF InStack
  <2>4. QED
    BY <2>1, <2>3 DEF Finished
<1>4. Select => ~Return
  BY DEF Select, Fresh, HasNext, Return
<1>5. QED
  BY <1>1, <1>2, <1>3, <1>4

\* The top of the stack, when its call returns.
LEMMA ReturningTop ==
    ASSUME TypeOK, StackOK, VisitedOK, Return
    PROVE  /\ Top.name \in Names /\ selected[Top.name] # 0 /\ Needed(Top.name) \subseteq Finished \cup Missed
           /\ selected' = selected /\ deps' = deps /\ Missed' = Missed
<1> PICK n : n = Len(stack)
  OBVIOUS
<1>1. stack # << >> /\ Top.loaded /\ Top.todo = {}
  BY DEF Return
<1>2. n \in DOMAIN stack /\ Top = stack[n]
  BY <1>1, TopTyped
<1>3. Needed(Top.name) \subseteq Finished \cup Missed
  <2>1. \A m \in Needed(Top.name) \ Top.todo :
           m \in Finished \cup Missed \/ (n < Len(stack) /\ m = stack[n + 1].name)
    BY <1>1, <1>2 DEF VisitedOK
  <2>2. ~(n < Len(stack))
    BY <1>1, TopTyped
  <2>3. QED
    BY <1>1, <2>1, <2>2
<1>4. Top.name \in Names /\ selected[Top.name] # 0
  BY <1>2, FrameTyped DEF StackOK
<1>5. selected' = selected /\ deps' = deps /\ Missed' = Missed
  BY DEF Return, catalog, Missed, Reported
<1>6. QED
  BY <1>3, <1>4, <1>5

\* A call returns after all it requires have returned or were reported missing.
LEMMA ReturnedKept ==
    ASSUME TypeOK, StackOK, GraphOK, ReturnedOK, VisitedOK, [Next]_vars
    PROVE  ReturnedOK'
<1> PICK F : F = Finished'
  OBVIOUS
<1> PICK M : M = Missed'
  OBVIOUS
<1>1. Finished \subseteq F /\ Missed \subseteq M
  BY MissedGrows, FinishedGrows
<1>2. SUFFICES ASSUME NEW n \in F, NEW need, need = Needed(n)' PROVE need \subseteq F \cup M
  BY DEF ReturnedOK
<1>3. CASE n \in Finished
  <2>1. n \in Names /\ selected[n] # 0
    BY <1>3 DEF Finished
  <2>2. need = Needed(n) /\ Needed(n) \subseteq Finished \cup Missed
    BY <1>2, <1>3, <2>1, SelectionsStay DEF ReturnedOK
  <2>3. QED
    BY <1>1, <2>2
<1>4. CASE n \notin Finished
  <2>1. Return /\ n = Top.name
    BY <1>2, <1>4, FinishedGrows
  <2>2. need = Needed(n) /\ Needed(n) \subseteq Finished \cup Missed
    <3>1. selected' = selected /\ deps' = deps /\ Needed(n) \subseteq Finished \cup Missed
      BY <2>1, ReturningTop
    <3>2. QED
      BY <1>2, <3>1 DEF Needed, Targets
  <2>3. QED
    BY <1>1, <2>2
<1>5. QED
  BY <1>3, <1>4

\* A circle closes among the finished only around a name reported missing.
LEMMA CirclesKept ==
    ASSUME TypeOK, StackOK, GraphOK, ReturnedOK, VisitedOK, CirclesOK, [Next]_vars
    PROVE  CirclesOK'
<1> PICK F : F = Finished'
  OBVIOUS
<1> PICK M : M = Missed'
  OBVIOUS
<1>1. F \subseteq Names /\ Missed \subseteq M
  BY MissedGrows DEF Finished
<1>2. SUFFICES ASSUME NEW C \in SUBSET F, Circle(C)' PROVE C \cap M # {}
  BY DEF CirclesOK
<1>3. CASE ~Return
  <2>1. C \in SUBSET Finished
    BY <1>3, FinishedGrows
  <2> PICK need : need = [n \in Names |-> Needed(n)']
    OBVIOUS
  <2>2. \A n \in C : n \in Names /\ selected[n] # 0 /\ need[n] = Needed(n)
    BY <2>1, SelectionsStay DEF Finished
  <2>3. C # {} /\ \A n \in C : \E m \in C : m \in need[n]
    <3>1. \A n \in C : need[n] = Targets(n, selected[n])'
      BY <2>2 DEF Needed
    <3>2. C # {} /\ \A n \in C : \E m \in C : m \in Targets(n, selected[n])'
      BY <1>2 DEF Circle
    <3>3. QED
      BY ONLY <3>1, <3>2
  <2>4. Circle(C)
    <3>1. \A n \in C : \E m \in C : m \in Needed(n)
      <4> SUFFICES ASSUME NEW n \in C PROVE \E m \in C : m \in Needed(n)
        OBVIOUS
      <4> PICK m \in C : m \in need[n]
        BY <2>3
      <4>1. need[n] = Needed(n)
        BY <2>2
      <4>2. QED
        BY <4>1
    <3>2. QED
      BY ONLY <2>2, <2>3, <3>1 DEF Circle, Needed
  <2>5. C \cap Missed # {}
    BY <2>1, <2>4 DEF CirclesOK
  <2>6. QED
    BY <1>1, <2>5
<1>4. CASE Return
  <2> PICK t : t = Top.name
    OBVIOUS
  <2>1. /\ t \in Names /\ selected[t] # 0 /\ Needed(t) \subseteq Finished \cup Missed
        /\ selected' = selected /\ deps' = deps /\ M = Missed
    BY <1>4, ReturningTop
  <2>2. F = Finished \cup {t} /\ t \notin Finished
    BY <1>4, FinishedGrows
  <2>3. C # {} /\ \A n \in C : selected[n] # 0 /\ \E m \in C : m \in Needed(n)
    BY <1>2, <2>1 DEF Circle, Needed, Targets
  <2> SUFFICES ASSUME C \cap Missed = {} PROVE FALSE
    BY <2>1
  <2> PICK K : K = C \ {t}
    OBVIOUS
  <2>4. \A n \in C : Needed(n) \subseteq Finished \cup Missed
    <3>1. \A n \in C : n \in Finished \/ n = t
      BY <2>2
    <3>2. QED
      BY <2>1, <3>1 DEF ReturnedOK
  <2>5. \A n \in C : \E m \in K : m \in Needed(n)
    BY <2>2, <2>3, <2>4
  <2>6. K # {} /\ K \in SUBSET Finished
    BY <2>2, <2>3, <2>5
  <2>7. Circle(K)
    BY <2>3, <2>5, <2>6 DEF Circle, Needed
  <2>8. K \cap Missed # {}
    BY <2>6, <2>7 DEF CirclesOK
  <2>9. QED
    BY <2>8
<1>5. QED
  BY <1>3, <1>4

\* VisitedOK said of calls, of what names need and of the names seen.
Visited(calls, need, seen) ==
    \A k \in DOMAIN calls : calls[k].loaded =>
        /\ calls[k].name \in Names
        /\ \A m \in need[calls[k].name] \ calls[k].todo :
             m \in seen \/ (k < Len(calls) /\ m = calls[k + 1].name)

\* What it takes for the requirements followed to be known after a step.
LEMMA VisitedNext ==
    ASSUME NEW need, need = [n \in Names |-> Needed(n)'], NEW U, U = Finished' \cup Missed',
           Visited(stack', need, U)
    PROVE  VisitedOK'
<1>1. \A m \in Names : need[m] = Needed(m)'
  OBVIOUS
<1>2. QED
  BY <1>1 DEF Visited, VisitedOK

\* A step that calls without selecting: a name that is skipped is finished, or
\* reported missing.
LEMMA SkipKeepsVisited ==
    ASSUME TypeOK, StackOK, GraphOK, VisitedOK, [Next]_vars, AlreadySelected \/ Missing
    PROVE  VisitedOK'
<1> PICK U : U = Finished' \cup Missed'
  OBVIOUS
<1> PICK need : need = [n \in Names |-> Needed(n)']
  OBVIOUS
<1> PICK p : p = Pending.name
  OBVIOUS
<1>1. HasNext /\ Call(<< >>) /\ selected' = selected /\ deps' = deps /\ ~Return
  BY DEF AlreadySelected, Missing, Fresh, Return, HasNext, catalog
<1>2. Finished \cup Missed \subseteq U
  BY MissedGrows, FinishedGrows
<1>3. p \in U
  <2>1. CASE AlreadySelected
    <3>1. p \in Names /\ p \notin InStack /\ selected[p] # 0
      BY <1>1, <2>1, PendingShape DEF AlreadySelected
    <3>2. QED
      BY <1>2, <3>1 DEF Finished
  <2>2. CASE Missing
    BY <2>2, MissedGrows
  <2>3. QED
    BY <2>1, <2>2
<1>4. /\ Len(stack') = Len(stack) /\ DOMAIN stack' = DOMAIN stack
      /\ \A k \in DOMAIN stack :
           /\ stack'[k].name = stack[k].name /\ stack'[k].loaded = stack[k].loaded
           /\ \A m \in stack[k].todo \ stack'[k].todo : k = Len(stack) /\ m = p
  <2>1. << >> \in {<< >>} \cup {<<g>> : g \in Frame} /\ Len(<< >>) = 0
    OBVIOUS
  <2>2. stack \in Seq(Frame)
    BY DEF TypeOK
  <2>3. stack' \in Seq(Frame) /\ Len(stack') = Len(stack)
    BY <1>1, <2>1, <2>2, CallShape
  <2>4. DOMAIN stack' = DOMAIN stack
    BY <2>2, <2>3
  <2>5. QED
    BY <1>1, <2>1, <2>3, <2>4, CallShape
<1>5. \A k \in DOMAIN stack : stack[k].name \in Names
  BY FrameTyped
<1>6. \A n \in Names : need[n] = Needed(n)
  BY <1>1 DEF Needed, Targets
<1>7. \A k \in DOMAIN stack : k < Len(stack) => k + 1 \in DOMAIN stack
  BY DEF TypeOK
<1>8. ASSUME NEW k \in DOMAIN stack, stack[k].loaded,
             NEW m \in Needed(stack[k].name) \ stack'[k].todo
      PROVE  m \in U \/ (k < Len(stack) /\ m = stack'[k + 1].name)
  <2>1. CASE m \in stack[k].todo
    BY <1>3, <1>4, <1>8, <2>1
  <2>2. CASE m \notin stack[k].todo
    <3>1. m \in Finished \cup Missed \/ (k < Len(stack) /\ m = stack[k + 1].name)
      BY <1>8, <2>2 DEF VisitedOK
    <3>2. QED
      BY <1>2, <1>4, <1>7, <3>1
  <2>3. QED
    BY <2>1, <2>2
<1>9. \A k \in DOMAIN stack' : stack'[k].loaded =>
        \A m \in need[stack'[k].name] \ stack'[k].todo :
            m \in U \/ (k < Len(stack') /\ m = stack'[k + 1].name)
  <2> SUFFICES ASSUME NEW k \in DOMAIN stack, stack'[k].loaded,
                      NEW m \in need[stack'[k].name] \ stack'[k].todo
               PROVE  m \in U \/ (k < Len(stack') /\ m = stack'[k + 1].name)
    BY <1>4
  <2>1. stack'[k].name = stack[k].name /\ need[stack[k].name] = Needed(stack[k].name)
    BY <1>4, <1>5, <1>6
  <2>2. stack[k].loaded
    BY <1>4
  <2>3. QED
    BY <1>4, <1>8, <2>1, <2>2
<1>10. \A k \in DOMAIN stack' : stack'[k].name \in Names
  BY <1>4, <1>5
<1>11. Visited(stack', need, U)
  BY <1>9, <1>10 DEF Visited
<1>12. QED
  BY <1>11, VisitedNext

\* The version just selected has followed none of its requirements yet.
LEMMA SelectKeepsVisited ==
    ASSUME TypeOK, StackOK, GraphOK, VisitedOK, [Next]_vars, Select
    PROVE  VisitedOK'
<1> PICK U : U = Finished' \cup Missed'
  OBVIOUS
<1> PICK need : need = [n \in Names |-> Needed(n)']
  OBVIOUS
<1> PICK p : p = Pending.name
  OBVIOUS
<1> PICK n : n = Len(stack)
  OBVIOUS
<1>1. HasNext /\ ~Return
  BY DEF Select, Fresh, Return, HasNext
<1>2. Finished \cup Missed \subseteq U
  BY <1>1, MissedGrows, FinishedGrows
<1> PICK f \in Frame : f.name = p /\ f.loaded = FALSE /\ Call(<<f>>)
  <2> PICK v \in Matching, f \in Frame :
        f = [name |-> Pending.name, loaded |-> FALSE, todo |-> {}] /\ Call(<<f>>)
    BY SelectShape
  <2>1. f.name = p /\ f.loaded = FALSE
    OBVIOUS
  <2>2. QED
    BY <2>1
<1>3. n \in Nat /\ DOMAIN stack = 1 .. n
  BY DEF TypeOK
<1>4. /\ stack' \in Seq(Frame) /\ Len(stack') = n + 1 /\ stack'[n + 1] = f
      /\ \A k \in 1 .. n :
           /\ stack'[k].name = stack[k].name /\ stack'[k].loaded = stack[k].loaded
           /\ \A m \in stack[k].todo \ stack'[k].todo : k = n /\ m = p
  <2>1. <<f>> # << >> /\ Len(<<f>>) = 1 /\ <<f>>[1] = f
    OBVIOUS
  <2>2. <<f>> \in {<< >>} \cup {<<g>> : g \in Frame}
    OBVIOUS
  <2>3. QED
    BY <1>1, <1>3, <2>1, <2>2, CallShape
<1>5. DOMAIN stack' = 1 .. n + 1
  BY <1>3, <1>4
<1>6. \A k \in 1 .. n : stack[k].name \in Names /\ selected[stack[k].name] # 0
  BY <1>3, FrameTyped DEF StackOK
<1>7. \A m \in Names : selected[m] # 0 => need[m] = Needed(m)
  BY SelectionsStay
<1>8. ASSUME NEW k \in 1 .. n, stack[k].loaded,
             NEW m \in Needed(stack[k].name) \ stack'[k].todo
      PROVE  m \in U \/ (k < n + 1 /\ m = stack'[k + 1].name)
  <2>1. CASE m \in stack[k].todo
    <3>1. k = n /\ m = p
      BY <1>4, <1>8, <2>1
    <3>2. QED
      BY <1>3, <1>4, <3>1
  <2>2. CASE m \notin stack[k].todo
    <3>1. m \in Finished \cup Missed \/ (k < Len(stack) /\ m = stack[k + 1].name)
      BY <1>3, <1>8, <2>2 DEF VisitedOK
    <3>2. CASE k < n
      <4>1. k + 1 \in 1 .. n /\ k < n + 1
        BY <1>3, <3>2
      <4>2. stack'[k + 1].name = stack[k + 1].name
        BY <1>4, <4>1
      <4>3. QED
        BY <1>2, <3>1, <4>1, <4>2
    <3>3. QED
      BY <1>2, <3>1, <3>2
  <2>3. QED
    BY <2>1, <2>2
<1>9. \A k \in 1 .. n + 1 : stack'[k].loaded => k \in 1 .. n
  BY <1>3, <1>4
<1>10. \A k \in DOMAIN stack' : stack'[k].loaded =>
        \A m \in need[stack'[k].name] \ stack'[k].todo :
            m \in U \/ (k < Len(stack') /\ m = stack'[k + 1].name)
  <2> SUFFICES ASSUME NEW k \in 1 .. n + 1, stack'[k].loaded,
                      NEW m \in need[stack'[k].name] \ stack'[k].todo
               PROVE  m \in U \/ (k < n + 1 /\ m = stack'[k + 1].name)
    BY <1>4, <1>5
  <2>1. k \in 1 .. n
    BY <1>9
  <2>2. stack'[k].name = stack[k].name /\ need[stack[k].name] = Needed(stack[k].name)
    BY <1>4, <1>6, <1>7, <2>1
  <2>3. stack[k].loaded
    BY <1>4, <2>1
  <2>4. QED
    BY <1>8, <2>1, <2>2, <2>3
<1>11. \A k \in DOMAIN stack' : stack'[k].loaded => stack'[k].name \in Names
  BY <1>4, <1>5, <1>6, <1>9
<1>12. Visited(stack', need, U)
  BY <1>10, <1>11 DEF Visited
<1>13. QED
  BY <1>12, VisitedNext

\* A call that has read its dependencies has visited none; one that returns is
\* finished for the call below.
LEMMA VisitedKept ==
    ASSUME TypeOK, StackOK, GraphOK, VisitedOK, [Next]_vars, ~Cycle, ~ReadFails
    PROVE  VisitedOK'
<1> PICK U : U = Finished' \cup Missed'
  OBVIOUS
<1> PICK need : need = [n \in Names |-> Needed(n)']
  OBVIOUS
<1>1. CASE AlreadySelected \/ Missing
  BY <1>1, SkipKeepsVisited
<1>2. CASE Select
  BY <1>2, SelectKeepsVisited
<1>3. \A k \in DOMAIN stack : stack[k].name \in Names
  BY FrameTyped
<1>4. CASE Load
  <2> PICK todo : todo = Needed(Top.name)
    OBVIOUS
  <2>1. /\ stack # << >> /\ selected' = selected /\ deps' = deps /\ todo \in SUBSET Names
        /\ stack' = [stack EXCEPT ![Len(stack)].loaded = TRUE, ![Len(stack)].todo = todo]
    BY <1>4 DEF Load, Needed, Targets, catalog
  <2>2. /\ Len(stack') = Len(stack) /\ DOMAIN stack' = DOMAIN stack
        /\ \A k \in DOMAIN stack :
             /\ stack'[k].name = stack[k].name
             /\ k # Len(stack) => stack'[k] = stack[k]
             /\ k = Len(stack) => stack'[k].loaded /\ stack'[k].todo = todo
    BY <2>1, LoadShape
  <2>3. \A n \in Names : need[n] = Needed(n)
    BY <2>1 DEF Needed, Targets
  <2>4. Finished \cup Missed \subseteq U
    <3>1. ~Return
      BY <1>4 DEF Load, Return
    <3>2. QED
      BY <3>1, MissedGrows, FinishedGrows
  <2>5. \A k \in DOMAIN stack : k < Len(stack) => k + 1 \in DOMAIN stack
    BY DEF TypeOK
  <2>6. ASSUME NEW k \in DOMAIN stack, stack'[k].loaded,
               NEW m \in need[stack'[k].name] \ stack'[k].todo
        PROVE  m \in U \/ (k < Len(stack) /\ m = stack'[k + 1].name)
    <3>1. m \in Needed(stack[k].name)
      <4>1. stack'[k].name = stack[k].name /\ stack[k].name \in Names
        BY <1>3, <2>2
      <4>2. need[stack[k].name] = Needed(stack[k].name)
        BY <2>3, <4>1
      <4>3. QED
        BY <4>1, <4>2
    <3>2. k # Len(stack)
      BY <2>2, <2>6, <3>1 DEF Top
    <3>3. stack[k].loaded /\ m \notin stack[k].todo
      BY <2>2, <2>6, <3>2
    <3>4. m \in Finished \cup Missed \/ (k < Len(stack) /\ m = stack[k + 1].name)
      BY <3>1, <3>3 DEF VisitedOK
    <3>5. QED
      BY <2>2, <2>4, <2>5, <3>4
  <2>7. Visited(stack', need, U)
    BY <1>3, <2>2, <2>6 DEF Visited
  <2>8. QED
    BY <2>7, VisitedNext
<1>5. CASE Return
  <2> PICK n : n = Len(stack)
    OBVIOUS
  <2>1. selected' = selected /\ deps' = deps
    BY <1>5, ReturningTop
  <2>2. /\ n \in Nat \ {0} /\ Len(stack') = n - 1 /\ DOMAIN stack' = 1 .. n - 1
        /\ DOMAIN stack = 1 .. n
        /\ \A k \in DOMAIN stack' : k \in DOMAIN stack /\ stack'[k] = stack[k]
    BY <1>5, ReturnShape DEF Return
  <2>3. \A m \in Names : need[m] = Needed(m)
    BY <2>1 DEF Needed, Targets
  <2>4. Finished \cup Missed \cup {stack[n].name} \subseteq U
    BY <1>5, MissedGrows, FinishedGrows DEF Top
  <2>5. ASSUME NEW k \in DOMAIN stack', stack'[k].loaded,
               NEW m \in need[stack'[k].name] \ stack'[k].todo
        PROVE  m \in U \/ (k < Len(stack') /\ m = stack'[k + 1].name)
    <3>1. stack[k].loaded /\ m \in Needed(stack[k].name) \ stack[k].todo /\ k \in DOMAIN stack
      BY <1>3, <2>2, <2>3, <2>5
    <3>2. m \in Finished \cup Missed \/ (k < n /\ m = stack[k + 1].name)
      BY <3>1 DEF VisitedOK
    <3>3. k + 1 = n \/ k + 1 \in DOMAIN stack'
      BY <2>2
    <3>4. CASE k + 1 = n
      BY <2>4, <3>2, <3>4
    <3>5. CASE k + 1 \in DOMAIN stack'
      <4>1. k < Len(stack') /\ stack'[k + 1] = stack[k + 1]
        BY <2>2, <3>5
      <4>2. QED
        BY <2>4, <3>2, <4>1
    <3>6. QED
      BY <3>3, <3>4, <3>5
  <2>6. Visited(stack', need, U)
    BY <1>3, <2>2, <2>5 DEF Visited
  <2>7. QED
    BY <2>6, VisitedNext
<1>6. CASE Finish
  BY <1>6 DEF Finish, VisitedOK
<1>7. CASE Edit \/ Done \/ UNCHANGED vars
  <2>1. UNCHANGED <<stack, selected, deps, diags>>
    BY <1>7 DEF Edit, Done, vars
  <2>2. \A n : Needed(n)' = Needed(n)
    BY <2>1 DEF Needed, Targets
  <2>3. Finished' = Finished /\ Missed' = Missed
    BY <2>1 DEF Finished, InStack, Missed, Reported
  <2>4. QED
    BY <2>1, <2>2, <2>3 DEF VisitedOK
<1>8. QED
  BY <1>1, <1>2, <1>4, <1>5, <1>6, <1>7 DEF Next, Engine

\* SearchOK holds after every step.
LEMMA SearchKept ==
    ASSUME TypeOK, StackOK, GraphOK, SearchOK, [Next]_vars
    PROVE  SearchOK'
<1> SUFFICES ASSUME faults' = 0, (Reported("CYCLE") = {})'
             PROVE  ReturnedOK' /\ VisitedOK' /\ CirclesOK'
  BY DEF SearchOK
<1>1. faults = 0 /\ Reported("CYCLE") = {} /\ ~Cycle /\ ~ReadFails
  BY SearchGoesOn
<1>2. ReturnedOK /\ VisitedOK /\ CirclesOK
  BY <1>1 DEF SearchOK
<1>3. QED
  BY <1>1, <1>2, ReturnedKept, VisitedKept, CirclesKept

\* A call of the manifest leaves its name selected, or diagnosed.
LEMMA ItemsKept ==
    ASSUME TypeOK, StackOK, GraphOK, ItemsOK, [Next]_vars
    PROVE  ItemsOK'
<1>1. SUFFICES ASSUME faults' = 0, diags' = << >>, NEW k \in 1 .. item' - 1
               PROVE  selected'[manifest'[k].name] # 0
  BY <1>1 DEF ItemsOK
<1>2. DOMAIN diags' = {}
  BY <1>1
<1>3. diags = << >>
  <2>1. DOMAIN diags = {}
    BY <1>2, DiagsGrow
  <2>2. QED
    BY <2>1 DEF TypeOK
<1>4. ~Cycle /\ ~Missing /\ ~ReadFails
  <2>1. ~Cycle
    BY <1>2, DiagsGrow
  <2>2. ~Missing
    <3>1. Missed' = {}
      BY <1>2 DEF Missed, Reported
    <3>2. QED
      BY <3>1, MissedGrows
  <2>3. ~ReadFails
    BY <1>1 DEF ReadFails, TypeOK
  <2>4. QED
    BY <2>1, <2>2, <2>3
<1>5. faults = 0
  BY <1>1, <1>4 DEF Next, Engine, AlreadySelected, Select, Load, Return, Finish, Edit, Done, vars
<1>6. \A j \in 1 .. item - 1 : selected[manifest[j].name] # 0
  BY <1>3, <1>5 DEF ItemsOK
<1>7. item \in Nat /\ \A j \in 1 .. item - 1 : j \in DOMAIN manifest
  <2>1. manifest \in Seq(Items) /\ item \in 1 .. Len(manifest) + 1
    BY DEF TypeOK
  <2>2. QED
    BY <2>1
<1>8. manifest' = manifest /\ \A n \in Names : selected[n] # 0 => selected'[n] # 0
  BY SelectionsStay
<1>9. CASE k \in 1 .. item - 1
  <2>1. manifest[k].name \in Names
    BY <1>7, <1>9, ManifestTyped
  <2>2. QED
    BY <1>6, <1>8, <1>9, <2>1
<1>10. CASE k \notin 1 .. item - 1
  <2>1. item' # item
    BY <1>7, <1>10
  <2>2. AlreadySelected \/ Select
    BY <1>4, <2>1 DEF Next, Engine, Load, Return, Finish, Edit, Done, vars
  <2>3. HasNext
    BY <2>2 DEF AlreadySelected, Select, Fresh
  <2>4. stack = << >> /\ item' = item + 1
    BY <2>1, <2>2 DEF AlreadySelected, Select, Call
  <2>5. k = item
    BY <1>7, <1>10, <2>4
  <2>6. manifest[k].name = Pending.name /\ Pending.name \in Names
    BY <2>3, <2>4, <2>5, PendingShape
  <2>7. selected'[Pending.name] # 0
    <3>1. CASE AlreadySelected
      BY <3>1 DEF AlreadySelected
    <3>2. CASE Select
      <4> PICK v \in Matching : v \in Vers /\ selected' = [selected EXCEPT ![Pending.name] = v]
        BY <3>2, SelectShape
      <4>1. v # 0
        OBVIOUS
      <4>2. QED
        BY <2>6, <4>1 DEF TypeOK
    <3>3. QED
      BY <2>2, <3>1, <3>2
  <2>8. QED
    BY <1>8, <2>6, <2>7
<1>11. QED
  BY <1>9, <1>10
-----------------------------------------------------------------------------
(* The lockfile.                                                           *)

Pins(entries, nodes) ==
    /\ DOMAIN entries = DOMAIN nodes
    /\ \A k \in DOMAIN entries : \E j \in DOMAIN nodes : entries[k] = nodes[j]
    /\ \A j \in DOMAIN nodes : \E k \in DOMAIN entries : entries[k].name = nodes[j].name
    /\ \A k \in DOMAIN entries : \A j \in 1 .. k - 1 : entries[j].name < entries[k].name

\* Generate lists each node once, by its name.
LEMMA GenerateShape ==
    ASSUME NEW nodes, Apart(nodes), NEW entries, entries = Generate(nodes)
    PROVE  Pins(entries, nodes)
<1> PICK D : D = DOMAIN nodes
  OBVIOUS
<1> PICK T : T = {nodes[j] : j \in DOMAIN nodes}
  OBVIOUS
<1> PICK N : N = {nodes[j].name : j \in DOMAIN nodes}
  OBVIOUS
<1> PICK name : name = [j \in D |-> nodes[j].name]
  OBVIOUS
<1> PICK n : n = Len(nodes)
  OBVIOUS
<1>1. nodes \in Seq(Node) /\ \A j, k \in D : name[j] = name[k] => j = k
  BY DEF Apart
<1>2. D = 1 .. n /\ n \in Nat /\ IsFiniteSet(D) /\ Cardinality(D) = n
  BY <1>1, DomainIsFinite
<1>3. \A j \in D : nodes[j] \in T /\ nodes[j].name = name[j] /\ name[j] \in N /\ name[j] \in Names
  <2>1. \A j \in D : nodes[j] \in Node
    BY <1>1
  <2>2. QED
    BY <2>1 DEF Node
<1>4. (\A x \in T : \E j \in D : x = nodes[j]) /\ (\A m \in N : \E j \in D : m = name[j])
  BY <1>3
<1>5. name \in [D -> N] /\ \A m \in N : \E a \in D : name[a] = m
  <2>1. name \in [D -> N]
    BY <1>3
  <2>2. QED
    BY <1>4, <2>1
<1>6. IsFiniteSet(N) /\ Cardinality(N) = n
  <2>1. name \in [D -> N] /\ IsFiniteSet(D) /\ Cardinality(D) = n
    BY ONLY <1>2, <1>5
  <2>2. \A a, b \in D : name[a] = name[b] => a = b
    BY ONLY <1>1
  <2>3. \A m \in N : \E a \in D : name[a] = m
    BY ONLY <1>5
  <2>4. QED
    BY ONLY <2>1, <2>2, <2>3, SameSize
<1>7. N \subseteq Nat
  <2>1. N \subseteq Names
    BY ONLY <1>3, <1>4
  <2>2. QED
    BY ONLY <2>1, ConstantsOK DEF ConstantsOK
<1> PICK nth : nth = [k \in D |-> Nth(N, k)]
  OBVIOUS
<1>8. /\ \A k \in D : nth[k] \in N
      /\ \A j, k \in D : j < k => nth[j] < nth[k]
      /\ \A m \in N : \E k \in D : m = nth[k]
  <2>1. /\ \A k \in 1 .. Cardinality(N) : Nth(N, k) \in N
        /\ \A j, k \in 1 .. Cardinality(N) : j < k => Nth(N, j) < Nth(N, k)
        /\ \A m \in N : \E k \in 1 .. Cardinality(N) : m = Nth(N, k)
    BY ONLY <1>6, <1>7, NthCounts
  <2>2. D = 1 .. Cardinality(N) /\ \A k \in D : nth[k] = Nth(N, k)
    BY <1>2, <1>6
  <2>3. (\A k \in D : nth[k] \in N) /\ (\A m \in N : \E k \in D : m = nth[k])
    BY ONLY <2>1, <2>2
  <2>4. \A j, k \in D : j < k => nth[j] < nth[k]
    BY ONLY <2>1, <2>2
  <2>5. QED
    BY <2>3, <2>4
<1>9. entries = [k \in D |-> Entry(nodes, nth[k])]
  <2>1. entries = [k \in D |-> Entry(nodes, Nth(N, k))]
    BY DEF Generate
  <2>2. QED
    BY <2>1
<1>10. \A k \in D : entries[k] \in T /\ entries[k].name = nth[k]
  <2> SUFFICES ASSUME NEW k \in D PROVE entries[k] \in T /\ entries[k].name = nth[k]
    OBVIOUS
  <2> PICK m : m = nth[k]
    OBVIOUS
  <2>0. m \in N
    BY <1>8
  <2> PICK j \in D : m = name[j]
    BY <1>4, <2>0
  <2>1. nodes[j] \in T /\ nodes[j].name = m
    BY <1>3
  <2>2. Entry(nodes, m) \in T /\ Entry(nodes, m).name = m
    BY ONLY <2>1, T = {nodes[i] : i \in DOMAIN nodes} DEF Entry
  <2>3. entries[k] = Entry(nodes, m)
    BY <1>9
  <2>4. QED
    BY <2>2, <2>3
<1>11. DOMAIN entries = D
  BY <1>9
<1>12. \A k \in D : \E j \in D : entries[k] = nodes[j]
  BY <1>4, <1>10
<1>13. \A j \in D : \E k \in D : entries[k].name = nodes[j].name
  <2> SUFFICES ASSUME NEW j \in D PROVE \E k \in D : entries[k].name = nodes[j].name
    OBVIOUS
  <2> PICK k \in D : name[j] = nth[k]
    BY <1>3, <1>8
  <2>1. QED
    BY <1>3, <1>10
<1>14. \A k \in D : \A j \in 1 .. k - 1 : entries[j].name < entries[k].name
  <2> SUFFICES ASSUME NEW k \in D, NEW j \in 1 .. k - 1 PROVE entries[j].name < entries[k].name
    OBVIOUS
  <2>1. j \in D /\ j < k
    BY <1>2
  <2>2. nth[j] < nth[k]
    BY <1>8, <2>1
  <2>3. QED
    BY <1>10, <2>1, <2>2
<1>15. DOMAIN nodes = D
  OBVIOUS
<1>16. QED
  BY ONLY <1>11, <1>12, <1>13, <1>14, <1>15 DEF Pins

-----------------------------------------------------------------------------
(* The invariant.                                                          *)

\* A run that starts satisfies the invariant.
LEMMA InitEstablishes == Init => Inv
<1> SUFFICES ASSUME Init PROVE Inv
  OBVIOUS
<1> PICK s \in Starts : status = s.status /\ deps = s.deps /\ manifest \in s.manifests
  BY DEF Init
<1>1. manifest \in Seq(Items) /\ Len(manifest) \in Nat
  OBVIOUS
<1>2. TypeOK
  <2>1. item \in 1 .. Len(manifest) + 1
    BY <1>1 DEF Init
  <2>2. selected \in [Names -> Vers \cup {0}]
    BY DEF Init
  <2>3. stack \in Seq(Frame) /\ graph \in Seq(Node) /\ diags \in Seq(Diag)
    BY DEF Init
  <2>4. edits \in 0 .. MaxEdits /\ faults \in 0 .. MaxFaults
    BY DEF Init
  <2>5. result \in {"running", "succeeded", "failed"}
    BY DEF Init
  <2>6. QED
    BY <1>1, <2>1, <2>2, <2>3, <2>4, <2>5 DEF TypeOK
<1>3. DOMAIN stack = {} /\ DOMAIN graph = {} /\ DOMAIN diags = {}
  BY DEF Init
<1>4. \A n \in Names : selected[n] = 0
  BY DEF Init
<1>5. StackOK /\ GraphOK /\ HighestForFirstRequirement
  BY <1>3, <1>4 DEF StackOK, GraphOK, HighestForFirstRequirement
<1>6. EndOK
  BY DEF Init, EndOK
<1>7. PathsOK
  BY <1>3 DEF PathsOK, CyclePathIsWalk
<1>8. CausesOK
  <2>1. Reported("CYCLE") = {} /\ diags = << >>
    BY <1>3 DEF Reported, Init
  <2>2. QED
    BY <2>1 DEF CausesOK
<1>9. SearchOK
  <2>1. Finished = {}
    BY <1>4 DEF Finished
  <2>2. ReturnedOK /\ VisitedOK
    BY <1>3, <2>1 DEF ReturnedOK, VisitedOK
  <2>3. CirclesOK
    BY <2>1 DEF CirclesOK, Circle
  <2>4. QED
    BY <2>2, <2>3 DEF SearchOK
<1>10. ItemsOK
  BY DEF ItemsOK, Init
<1>11. QED
  BY <1>2, <1>5, <1>6, <1>7, <1>8, <1>9, <1>10 DEF Inv

\* Every step keeps the invariant.
LEMMA NextKeeps == Inv /\ [Next]_vars => Inv'
<1> SUFFICES ASSUME Inv, [Next]_vars PROVE Inv'
  OBVIOUS
<1>1. /\ TypeOK /\ StackOK /\ EndOK /\ GraphOK /\ PathsOK /\ CausesOK
      /\ HighestForFirstRequirement /\ SearchOK /\ ItemsOK
  BY DEF Inv
<1>2. TypeOK'
  BY <1>1, TypesKept
<1>3. StackOK' /\ EndOK' /\ GraphOK'
  BY <1>1, StackKept, EndKept, GraphKept
<1>4. PathsOK' /\ CausesOK'
  BY <1>1, <1>2, PathsKept, CausesKept
<1>5. HighestForFirstRequirement' /\ SearchOK' /\ ItemsOK'
  BY <1>1, HighestKept, SearchKept, ItemsKept
<1>6. QED
  BY <1>2, <1>3, <1>4, <1>5 DEF Inv

\* The invariant holds in every reachable state.
LEMMA Invariant == Spec => []Inv
BY InitEstablishes, NextKeeps, PTL DEF Spec

-----------------------------------------------------------------------------
(* The theorems.                                                           *)

\* The engine's variables stay of their types: in particular the sort of the
\* nodes is always defined, and no call is made of a name or text nobody knows.
THEOREM ResolverTyped == Spec => []TypeOK
<1>1. Inv => TypeOK
  BY DEF Inv
<1>2. QED
  BY <1>1, Invariant, PTL

\* Giving up a branch at the first name known hides no circle: a cycle is
\* diagnosed exactly when there is cause, but for circles through a name that was
\* reported missing first.
THEOREM CyclesAreReported == Spec => []CyclesReported
<1>1. Inv => CyclesReported
  <2> SUFFICES ASSUME Inv PROVE CyclesReported
    OBVIOUS
  <2>1. Reported("CYCLE") # {} => Cyclic
    BY DEF Inv, CausesOK
  <2>2. ASSUME Returned, faults = 0, NEW C \in SUBSET Names, Circle(C), Reported("CYCLE") = {}
        PROVE  C \cap Reported("MISSING") # {}
    <3>1. CirclesOK
      BY <2>2 DEF Inv, SearchOK
    <3>2. InStack = {}
      BY <2>2 DEF Inv, EndOK, Returned, InStack
    <3>3. C \in SUBSET Finished
      BY <2>2, <3>2 DEF Finished, Circle
    <3>4. QED
      BY <2>2, <3>1, <3>3 DEF CirclesOK, Missed
  <2>3. QED
    BY <2>1, <2>2 DEF CyclesReported
<1>2. QED
  BY <1>1, Invariant, PTL

\* The path a diagnosis of a cycle names can be walked, for every catalog.
THEOREM CyclePathsWalk == Spec => []CyclePathIsWalk
<1>1. Inv => CyclePathIsWalk
  BY DEF Inv, PathsOK
<1>2. QED
  BY <1>1, Invariant, PTL

\* A success is closed under dependencies, and its lockfile pins each selected
\* version once, in the order of the names.
THEOREM SuccessesAreClosed == Spec => []SuccessIsClosed
<1>1. Inv => SuccessIsClosed
  <2> SUFFICES ASSUME Inv, result = "succeeded" PROVE SuccessIsClosed
    BY DEF SuccessIsClosed
  <2> DEFINE entries == Generate(graph)
             Pinned == {entries[k].name : k \in DOMAIN entries}
  <2>1. Apart(graph)
    BY DEF Inv, TypeOK, GraphOK, Apart
  <2>2. Pins(entries, graph)
    BY <2>1, GenerateShape
  <2> HIDE DEF entries
  <2>3. \A k \in DOMAIN graph : graph[k] \in Node
    BY <2>1 DEF Apart
  <2>4. \A k \in DOMAIN graph :
          /\ graph[k].ver = selected[graph[k].name]
          /\ graph[k].name \in Names /\ graph[k].ver # 0
    BY <2>3 DEF Inv, GraphOK, Node
  <2>5. ASSUME NEW k \in DOMAIN entries
        PROVE  /\ entries[k].ver = selected[entries[k].name]
               /\ entries[k].name \in Names /\ selected[entries[k].name] # 0
               /\ \A j \in 1 .. k - 1 : entries[j].name < entries[k].name
    <3> PICK x : x = entries[k]
      OBVIOUS
    <3> PICK j \in DOMAIN graph : x = graph[j]
      BY <2>2 DEF Pins
    <3>1. x.ver = selected[x.name] /\ x.name \in Names /\ selected[x.name] # 0
      BY <2>4
    <3>2. \A i \in 1 .. k - 1 : entries[i].name < entries[k].name
      BY ONLY <2>2, k \in DOMAIN entries DEF Pins
    <3>3. QED
      BY <3>1, <3>2
  <2>6. ASSUME NEW n \in Names, selected[n] # 0
        PROVE  n \in Pinned
    <3> PICK j \in DOMAIN graph : graph[j].name = n
      BY <2>6 DEF Inv, GraphOK
    <3> PICK k \in DOMAIN entries : entries[k].name = graph[j].name
      BY <2>2 DEF Pins
    <3>1. QED
      OBVIOUS
  <2>7. Pinned = {n \in Names : selected[n] # 0}
    <3>1. \A n \in Pinned : n \in Names /\ selected[n] # 0
      BY <2>5
    <3>2. QED
      BY <2>6, <3>1
  <2> HIDE DEF Pinned
  <2>8. diags = << >> /\ stack = << >> /\ item > Len(manifest)
    BY DEF Inv, EndOK
  <2>9. ASSUME faults = 0
        PROVE  /\ \A k \in DOMAIN manifest : manifest[k].name \in Pinned
               /\ \A k \in DOMAIN entries :
                    Targets(entries[k].name, entries[k].ver) \subseteq Pinned
    <3>1. \A k \in DOMAIN manifest : k \in 1 .. item - 1 /\ manifest[k].name \in Names
      <4>1. TypeOK
        BY DEF Inv
      <4>2. manifest \in Seq(Items) /\ item \in 1 .. Len(manifest) + 1
        BY <4>1 DEF TypeOK
      <4>3. \A k \in DOMAIN manifest : k \in 1 .. item - 1
        BY ONLY <2>8, <4>2
      <4>4. QED
        BY <4>1, <4>3, ManifestTyped
    <3>2. \A k \in 1 .. item - 1 : selected[manifest[k].name] # 0
      BY <2>8, <2>9 DEF Inv, ItemsOK
    <3>3. \A k \in DOMAIN manifest : manifest[k].name \in Pinned
      BY <2>7, <3>1, <3>2
    <3>4. Missed = {} /\ Reported("CYCLE") = {} /\ InStack = {}
      BY <2>8 DEF Missed, Reported, InStack
    <3>5. Finished = Pinned
      BY <2>7, <3>4 DEF Finished
    <3>6. \A n \in Pinned : Needed(n) \subseteq Pinned
      <4>1. ReturnedOK
        BY <2>9, <3>4 DEF Inv, SearchOK
      <4>2. QED
        BY <3>4, <3>5, <4>1 DEF ReturnedOK
    <3>7. ASSUME NEW k \in DOMAIN entries
          PROVE  Targets(entries[k].name, entries[k].ver) \subseteq Pinned
      <4>1. entries[k].name \in Pinned
        BY DEF Pinned
      <4>2. QED
        BY <2>5, <3>6, <4>1 DEF Needed
    <3>8. QED
      BY <3>3, <3>7
  <2>10. QED
    BY <2>5, <2>7, <2>9 DEF SuccessIsClosed, entries, Pinned
<1>2. QED
  BY <1>1, Invariant, PTL

\* The result lists each selected version once, after the version that required
\* it, for graphs of every shape and depth.
THEOREM RequirersComeFirst == Spec => []RequirersFirst
<1>1. Inv => RequirersFirst
  <2> SUFFICES ASSUME Inv PROVE RequirersFirst
    OBVIOUS
  <2>1. ASSUME NEW n \in Names, selected[n] # 0
        PROVE  Cardinality({k \in DOMAIN graph : graph[k].name = n}) = 1
    <3> PICK k \in DOMAIN graph : graph[k].name = n
      BY <2>1 DEF Inv, GraphOK
    <3>1. \A j \in DOMAIN graph : graph[j].name = n => j = k
      BY DEF Inv, GraphOK
    <3>2. {j \in DOMAIN graph : graph[j].name = n} = {k}
      BY <3>1
    <3>3. QED
      BY <3>2, FS_Singleton
  <2>2. QED
    BY <2>1 DEF Inv, GraphOK, RequirersFirst
<1>2. QED
  BY <1>1, Invariant, PTL

\* Each version in the result is accepted by its first requirement and, while
\* nobody changes the catalog, the highest one that is.
THEOREM HighestIsSelected == Spec => []HighestForFirstRequirement
<1>1. Inv => HighestForFirstRequirement
  BY DEF Inv
<1>2. QED
  BY <1>1, Invariant, PTL

\* What the engine finds no candidate for, the documents do not offer, unless
\* the manifest pins a deprecated version.
LEMMA NotToBeHad ==
    ASSUME ~PinsDeprecated, NEW n \in Names, NEW text \in Texts, NoCandidate(n, text)
    PROVE  Unavailable(n, text)
<1> SUFFICES ASSUME n \in Registered, NEW v \in Accepts[text], Installable(n, v) PROVE FALSE
  BY DEF Unavailable
<1>1. v \in Vers /\ v \notin Candidates(n)
  BY DEF NoCandidate
<1>2. status[n][v] # "published" /\ ~(status[n][v] = "revived" /\ Explicit(n))
  BY <1>1 DEF Candidates
<1>3. Pinning(n, v) => Explicit(n)
  BY DEF Pinning, Explicit
<1>4. ~(status[n][v] = "deprecated" /\ Pinning(n, v))
  BY <1>1 DEF PinsDeprecated
<1>5. QED
  BY <1>2, <1>3, <1>4 DEF Installable

\* Of two items that exclude each other, one is not the first of its name, and
\* differs from it.
LEMMA ExclusionFound ==
    ASSUME TypeOK, NEW j \in DOMAIN manifest, NEW k \in DOMAIN manifest, Exclusive(j, k)
    PROVE  \E i \in DOMAIN manifest : Conflicting(i)
<1> PICK S : S = {i \in DOMAIN manifest : manifest[i].name = manifest[k].name}
  OBVIOUS
<1>1. DOMAIN manifest = 1 .. Len(manifest) /\ Len(manifest) \in Nat
  BY DEF TypeOK
<1>2. S \subseteq Nat /\ S # {}
  BY <1>1
<1>3. PICK first \in S : \A y \in S : first <= y
  BY ONLY <1>2, SmallestExists
<1>4. \E i \in S : manifest[i].text # manifest[first].text
  BY DEF Exclusive
<1> PICK i \in S : manifest[i].text # manifest[first].text
  BY <1>4
<1>5. first \in 1 .. i - 1
  BY <1>1, <1>3
<1>6. \A o \in 1 .. first - 1 : manifest[o].name # manifest[k].name
  <2> SUFFICES ASSUME NEW o \in 1 .. first - 1, manifest[o].name = manifest[k].name
               PROVE  FALSE
    OBVIOUS
  <2>1. o \in DOMAIN manifest /\ ~(first <= o)
    BY <1>1, <1>3
  <2>2. QED
    BY <1>3, <2>1
<1>7. Conflicting(i)
  BY <1>5, <1>6 DEF Conflicting
<1>8. QED
  BY <1>7

\* A resolution never fails without a cause that the documents give, but for the
\* two that are the engine's own; and it never succeeds over items of the
\* manifest that exclude each other.
THEOREM FailuresJustified == Spec => []FailureJustified
<1>1. ASSUME Inv, result = "failed", faults = 0, edits = 0, ~SaidTwoWays, ~PinsDeprecated
      PROVE  \/ Cyclic
             \/ \E j, k \in DOMAIN manifest : Exclusive(j, k)
             \/ \E k \in DOMAIN manifest : Unavailable(manifest[k].name, manifest[k].text)
             \/ \E n, m \in Names :
                  /\ selected[n] # 0 /\ m \in Targets(n, selected[n])
                  /\ Unavailable(m, deps[n][selected[n]][m])
  <2>1. Cause /\ TypeOK
    BY <1>1 DEF Inv, EndOK, CausesOK
  <2>2. CASE \E k \in DOMAIN manifest : Conflicting(k)
    <3> PICK k \in DOMAIN manifest : Conflicting(k)
      BY <2>2
    <3>1. PICK j \in 1 .. k - 1 : /\ manifest[j].name = manifest[k].name
                                  /\ manifest[j].text # manifest[k].text
      BY DEF Conflicting
    <3>2. manifest \in Seq(Items)
      BY <2>1 DEF TypeOK
    <3>3. j \in DOMAIN manifest
      BY ONLY <3>2, k \in DOMAIN manifest, j \in 1 .. k - 1
    <3>4. Exclusive(j, k)
      BY <1>1, <3>1, <3>3 DEF SaidTwoWays
    <3>5. QED
      BY <3>3, <3>4
  <2>3. CASE \E k \in DOMAIN manifest : NoCandidate(manifest[k].name, manifest[k].text)
    BY <1>1, <2>1, <2>3, ManifestTyped, NotToBeHad
  <2>4. CASE \E n, m \in Names : /\ selected[n] # 0 /\ m \in Needed(n)
                                 /\ NoCandidate(m, deps[n][selected[n]][m])
    <3> PICK n \in Names, m \in Names : /\ selected[n] # 0 /\ m \in Needed(n)
                                         /\ NoCandidate(m, deps[n][selected[n]][m])
      BY <2>4
    <3>1. selected[n] \in Vers
      BY <2>1 DEF TypeOK
    <3>2. m \in Targets(n, selected[n]) /\ deps[n][selected[n]][m] \in Texts
      BY <2>1, <3>1, NodeTyped DEF Needed
    <3>3. QED
      BY <1>1, <3>2, NotToBeHad
  <2>5. QED
    BY <2>1, <2>2, <2>3, <2>4 DEF Cause
<1>2. ASSUME Inv, result = "succeeded", NEW j \in DOMAIN manifest, NEW k \in DOMAIN manifest
      PROVE  ~Exclusive(j, k)
  BY <1>2, ExclusionFound DEF Inv, EndOK
<1>3. Inv => FailureJustified
  BY <1>1, <1>2 DEF FailureJustified
<1>4. QED
  BY <1>3, Invariant, PTL
=============================================================================
