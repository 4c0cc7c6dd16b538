-------------------------- MODULE ComparisonProofs --------------------------
(***************************************************************************)
(* Theorems about Comparison for every set of names, bodies and handlers   *)
(* and every bound, with proofs checked by TLAPS.                          *)
(***************************************************************************)
EXTENDS Comparison, RegistryProofs, Ranks

USE ConstantsOK, AbsentValuesOK, NamesOrdered

-----------------------------------------------------------------------------
(* What diff.Dependencies returns.                                         *)

Differing(from, to) == {n \in Names : from[n] # to[n]}

KindOf(from, to, n) ==
    IF from[n] = NoText THEN "added" ELSE IF to[n] = NoText THEN "removed" ELSE "changed"

EntryOf(from, to, n) ==
    [name |-> n, kind |-> KindOf(from, to, n), from |-> from[n], to |-> to[n]]

\* An entry is of one of the three kinds, as it tells.
LEMMA EntryTyped ==
    ASSUME NEW from \in MaybeDeps, NEW to \in MaybeDeps, NEW n \in Differing(from, to),
           NEW x, x = EntryOf(from, to, n)
    PROVE  /\ x \in DependencyChange /\ x.name = n /\ x.from = from[n] /\ x.to = to[n]
           /\ x.to # x.from
           /\ x.kind = "added" <=> x.from = NoText
           /\ x.kind = "removed" <=> x.to = NoText
<1>1. n \in Names /\ from[n] # to[n]
  BY DEF Differing
<1>2. from[n] \in Texts \cup {NoText} /\ to[n] \in Texts \cup {NoText}
  BY <1>1 DEF MaybeDeps
<1>3. x.name = n /\ x.from = from[n] /\ x.to = to[n] /\ x.kind = KindOf(from, to, n)
  BY DEF EntryOf
<1>4. KindOf(from, to, n) \in {"added", "removed", "changed"}
  BY DEF KindOf
<1>5. x \in DependencyChange
  BY <1>1, <1>2, <1>4 DEF EntryOf, DependencyChange
<1>6. /\ KindOf(from, to, n) = "added" <=> from[n] = NoText
      /\ KindOf(from, to, n) = "removed" <=> to[n] = NoText
  BY <1>1 DEF KindOf
<1>7. QED
  BY <1>1, <1>3, <1>5, <1>6

\* The entries are those of the names that differ.
LEMMA EntriesAre ==
    ASSUME NEW from, NEW to
    PROVE  Entries(from, to) = {EntryOf(from, to, n) : n \in Differing(from, to)}
<1>1. DOMAIN Kinds(from, to) = Differing(from, to)
  BY DEF Kinds, Differing
<1>2. \A n \in Differing(from, to) : Kinds(from, to)[n] = KindOf(from, to, n)
  BY DEF Kinds, Differing, KindOf
<1>3. QED
  BY <1>1, <1>2 DEF Entries, EntryOf

\* The order of the sort, on the entries of different names.
SortsOn(E) == {p \in E \X E : Sorts(p[1], p[2])}

\* It orders them strictly, and the entries it puts before one are its predecessors.
LEMMA SortOrders ==
    ASSUME NEW E \in SUBSET DependencyChange, \A x, y \in E : x.name = y.name => x = y
    PROVE  /\ StrictOrder(SortsOn(E), E)
           /\ \A x \in E : SetLessThan(x, SortsOn(E), E) = {y \in E : Sorts(y, x)}
<1>1. \A x \in E : x.name \in Nat /\ x.kind \in {"added", "removed", "changed"}
  BY DEF DependencyChange
<1>2. KindOrder["added"] = 0 /\ KindOrder["removed"] = 1 /\ KindOrder["changed"] = 2
  BY DEF KindOrder
<1> DEFINE Key(x) == KindOrder[x.kind]
<1>3. \A x \in E : Key(x) \in Nat
  BY <1>1, <1>2
<1>4. \A x, y \in E : Key(x) = Key(y) => x.kind = y.kind
  BY <1>1, <1>2
<1>5. \A x, y \in E : Sorts(x, y) <=> Key(x) < Key(y) \/ (Key(x) = Key(y) /\ x.name < y.name)
  BY <1>4 DEF Sorts
<1> HIDE DEF Key
<1>6. \A x, y \in E : <<x, y>> \in SortsOn(E) <=> Sorts(x, y)
  BY DEF SortsOn
<1>7. \A x \in E : ~Sorts(x, x)
  BY <1>1, <1>3, <1>5
<1>8. \A x, y, z \in E : Sorts(x, y) /\ Sorts(y, z) => Sorts(x, z)
  BY <1>1, <1>3, <1>5
<1>9. \A x, y \in E : x # y => Sorts(x, y) \/ Sorts(y, x)
  BY <1>1, <1>3, <1>5
<1>10. StrictOrder(SortsOn(E), E)
  BY <1>6, <1>7, <1>8, <1>9 DEF StrictOrder, IsTransitivelyClosedOn
<1>11. QED
  BY <1>6, <1>10 DEF SetLessThan

\* A list in order has all elements of the set, each before the ones it is below.
LEMMA InOrderIs ==
    ASSUME NEW S \in SUBSET DependencyChange, IsFiniteSet(S),
           \A x, y \in S : x.name = y.name => x = y, NEW s, s = InOrder(S)
    PROVE  /\ s \in Seq(S)
           /\ \A x \in S : \E k \in DOMAIN s : s[k] = x
           /\ \A j, k \in DOMAIN s : j < k => Sorts(s[j], s[k])
<1> PICK R : R = SortsOn(S)
  OBVIOUS
<1>0. StrictOrder(R, S) /\ \A x \in S : Cardinality({y \in S : Sorts(y, x)}) = RankIn(R, S, x)
  BY SortOrders DEF RankIn
<1> PICK n : n = Cardinality(S)
  OBVIOUS
<1>1. n \in Nat /\ DOMAIN s = 1 .. n
  BY FS_CardinalityType DEF InOrder
<1>2. \A x \in S : RankIn(R, S, x) \in 0 .. n - 1
  BY <1>0, RankTyped
<1>3. \A k \in 1 .. n : s[k] \in S /\ RankIn(R, S, s[k]) = k - 1
  <2> SUFFICES ASSUME NEW k \in 1 .. n PROVE s[k] \in S /\ RankIn(R, S, s[k]) = k - 1
    OBVIOUS
  <2>1. k - 1 \in 0 .. n - 1
    BY <1>1
  <2>2. \E x \in S : RankIn(R, S, x) = k - 1
    <3>1. k - 1 \in 0 .. Cardinality(S) - 1
      BY <2>1
    <3>2. QED
      BY ONLY <3>1, IsFiniteSet(S), <1>0, EveryRankTaken
  <2>3. \E x \in S : 1 + Cardinality({y \in S : Sorts(y, x)}) = k
    BY <1>0, <2>2
  <2>4. s[k] = CHOOSE x \in S : 1 + Cardinality({y \in S : Sorts(y, x)}) = k
    BY DEF InOrder
  <2>5. s[k] \in S /\ 1 + Cardinality({y \in S : Sorts(y, s[k])}) = k
    BY <2>3, <2>4
  <2> PICK x \in S : x = s[k]
    BY <2>5
  <2>6. RankIn(R, S, x) \in 0 .. n - 1 /\ 1 + RankIn(R, S, x) = k
    BY <1>0, <1>2, <2>5
  <2>7. QED
    BY <2>6
<1>4. \A j, k \in 1 .. n : j < k => <<s[j], s[k]>> \in R
  <2> SUFFICES ASSUME NEW j \in 1 .. n, NEW k \in 1 .. n, j < k PROVE <<s[j], s[k]>> \in R
    OBVIOUS
  <2> PICK x : x = s[j]
    OBVIOUS
  <2> PICK y : y = s[k]
    OBVIOUS
  <2>1. x \in S /\ y \in S /\ RankIn(R, S, x) = j - 1 /\ RankIn(R, S, y) = k - 1
    BY <1>3
  <2>2. x # y
    BY <1>1, <2>1
  <2>3. <<y, x>> \notin R
    <3>1. <<y, x>> \in R => k - 1 < j - 1
      BY <1>0, <2>1, RankGrows
    <3>2. QED
      BY <1>1, <3>1
  <2>4. QED
    BY <1>0, <2>1, <2>2, <2>3 DEF StrictOrder
<1>5. \A x \in S : \E k \in 1 .. n : s[k] = x
  <2> SUFFICES ASSUME NEW x \in S PROVE \E k \in 1 .. n : s[k] = x
    OBVIOUS
  <2> PICK r : r = RankIn(R, S, x)
    OBVIOUS
  <2> PICK k : k = r + 1
    OBVIOUS
  <2>1. k \in 1 .. n /\ k - 1 = r
    BY <1>1, <1>2
  <2> PICK y : y = s[k]
    OBVIOUS
  <2>2. y \in S /\ RankIn(R, S, y) = r
    BY <1>3, <2>1
  <2>3. ~(r < r)
    BY <1>1, <1>2
  <2>4. <<x, y>> \notin R /\ <<y, x>> \notin R
    BY <1>0, <2>2, <2>3, RankGrows
  <2>5. y = x
    BY <1>0, <2>2, <2>4 DEF StrictOrder
  <2>6. QED
    BY <2>1, <2>5
<1>6. s \in Seq(S)
  <2>1. \A k \in 1 .. Cardinality(S) : s[k] \in S
    BY <1>3
  <2>2. s \in [1 .. Cardinality(S) -> S]
    BY ONLY <2>1, s = InOrder(S) DEF InOrder
  <2>3. QED
    BY <1>1, <2>2
<1>7. \A j, k \in 1 .. n : j < k => Sorts(s[j], s[k])
  BY <1>4 DEF SortsOn
<1>8. QED
  BY <1>1, <1>5, <1>6, <1>7

\* diff.Dependencies returns one entry for each name that differs, sorted.
LEMMA DifferenceIs ==
    ASSUME NEW from \in MaybeDeps, NEW to \in MaybeDeps, NEW diff,
           diff = Difference(from, to)
    PROVE  /\ diff \in Seq(DependencyChange)
           /\ \A k \in DOMAIN diff : \E n \in Differing(from, to) : diff[k] = EntryOf(from, to, n)
           /\ \A n \in Differing(from, to) : \E k \in DOMAIN diff : diff[k] = EntryOf(from, to, n)
           /\ \A k, l \in DOMAIN diff : k < l => Sorts(diff[k], diff[l])
<1> PICK D : D = Differing(from, to)
  OBVIOUS
<1> PICK E : E = Entries(from, to)
  OBVIOUS
<1>1. E = {EntryOf(from, to, n) : n \in D}
  BY EntriesAre
<1>2. E \in SUBSET DependencyChange /\ \A x, y \in E : x.name = y.name => x = y
  BY <1>1, EntryTyped
<1>3. IsFiniteSet(E)
  <2>1. IsFiniteSet(D)
    BY FS_Subset DEF Differing
  <2> PICK f : f = [n \in D |-> EntryOf(from, to, n)]
    OBVIOUS
  <2>2. f \in [D -> E] /\ \A x \in E : \E n \in D : f[n] = x
    BY <1>1
  <2>3. f \in Surjection(D, E)
    BY <2>2, Fun_IsSurj
  <2>4. QED
    BY <2>1, <2>3, FS_Surjection
<1>4. diff = InOrder(E)
  BY DEF Difference
<1>5. /\ diff \in Seq(E)
      /\ \A x \in E : \E k \in DOMAIN diff : diff[k] = x
      /\ \A j, k \in DOMAIN diff : j < k => Sorts(diff[j], diff[k])
  BY ONLY <1>2, <1>3, <1>4, InOrderIs
<1>6. \A k \in DOMAIN diff : diff[k] \in E
  BY <1>5
<1>7. diff \in Seq(DependencyChange)
  BY <1>2, <1>5
<1>8. QED
  BY <1>1, <1>5, <1>6, <1>7
-----------------------------------------------------------------------------
(* The inductive invariant.                                                *)

\* An artifact has one row for a version string, as the unique index has it.
RowsUnique ==
    \A i, j \in VersionIds :
        versions[i] # NoRow /\ versions[j] # NoRow
            /\ versions[i].art = versions[j].art /\ versions[i].ver = versions[j].ver => i = j

\* Row i is the version of that name, it is past being a draft, and nobody is
\* about to declare for it.
Firm(i, name, ver) ==
    /\ versions[i] # NoRow /\ versions[i].status # "draft"
    /\ versions[i].art = name /\ versions[i].ver = ver
    /\ ~BeingReplaced(i)

\* What a comparison of rows i and j has read.
Reading(c, i, j, from, to) ==
    /\ c.stage \in {"to", "fromDeps", "toAgain", "toDeps"} => c.fromId = i
    /\ c.stage \in {"toAgain", "toDeps"} => c.fromDeps = from
    /\ c.stage = "toDeps" => c.toId = j
    /\ c.stage = "done" => c.changes = Difference(from, to)

\* Ids are read before what they declare.
IdsRead(c) ==
    /\ c.stage \in {"to", "fromDeps", "toAgain", "toDeps"} => c.fromId \in VersionIds
    /\ c.stage = "toDeps" => c.toId \in VersionIds

\* A comparison of settled versions reads them, and they are settled still.
SettledRead(c) ==
    c.stage # "none" /\ c.settled =>
        \E i, j \in VersionIds : /\ Firm(i, c.name, c.from) /\ Firm(j, c.name, c.to)
                                 /\ Reading(c, i, j, deps[i], deps[j])

TablesInv == TypeInv /\ LifeInv /\ RowsUnique

ComparisonInv == TablesInv /\ cmp \in Comparing /\ IdsRead(cmp) /\ SettledRead(cmp)
-----------------------------------------------------------------------------
(* What the writers do meanwhile.                                          *)

\* A row keeps its name and version as long as it is there.
LEMMA RowsKeepNames ==
    ASSUME TypeInv, NEW h \in Handlers, Step(h), ~CreateVersion(h),
           NEW i \in VersionIds, versions'[i] # NoRow
    PROVE  /\ versions[i] # NoRow
           /\ versions'[i].art = versions[i].art /\ versions'[i].ver = versions[i].ver
<1>1. CASE Write(h)
  <2> PICK k \in VersionIds : k = req[h].vid
    BY <1>1 DEF TypeInv, HandlersOK, HandlerOK, Write
  <2>1. CASE i # k
    BY <1>1, <2>1 DEF Write, TypeInv, TypeOK
  <2>2. CASE i = k
    <3>1. versions[k] # NoRow
      BY <1>1, <2>2 DEF Write, TypeInv, TypeOK
    <3>2. versions[k] \in Row
      BY <3>1 DEF TypeInv, TypeOK
    <3>3. versions'[k] = [versions[k] EXCEPT !.status = req[h].row.status,
                            !.published = req[h].row.published,
                            !.deprecated = req[h].row.deprecated]
      BY <1>1, <3>1 DEF Write, TypeInv, TypeOK
    <3>4. versions'[k].art = versions[k].art /\ versions'[k].ver = versions[k].ver
      BY <3>2, <3>3 DEF Row
    <3>5. QED
      BY <2>2, <3>1, <3>4
  <2>3. QED
    BY <2>1, <2>2
<1>2. CASE Remove(h)
  <2>1. versions' = versions \/ versions' = [versions EXCEPT ![req[h].vid] = NoRow]
    BY <1>2 DEF Remove
  <2>2. QED
    BY <2>1 DEF TypeInv, TypeOK
<1>3. CASE ~Write(h) /\ ~Remove(h)
  <2>1. versions' = versions
    BY <1>3 DEF Step, Begin, CreateArtifact, PublishLookup, PublishValidate,
         DeprecateLookup, Reread, DeleteLookup, ReplaceLookup, Clear, Declare,
         ReadBack, Audit, StatementFails, tables
  <2>2. QED
    BY <2>1
<1>4. QED
  BY <1>1, <1>2, <1>3

\* A creation finds no row of the name and version it writes.
LEMMA CreationIsNew ==
    ASSUME TypeInv, NEW h \in Handlers, CreateVersion(h), versions' # versions
    PROVE  /\ nextId \in VersionIds /\ versions[nextId] = NoRow
           /\ \A i \in VersionIds : i # nextId => versions'[i] = versions[i]
           /\ \A i \in VersionIds : versions[i] # NoRow =>
                ~(versions[i].art = versions'[nextId].art /\ versions[i].ver = versions'[nextId].ver)
<1>1. /\ Named(req[h].call) = {} /\ nextId \in VersionIds
      /\ versions' = [versions EXCEPT ![nextId] = NewRow(req[h].call)]
  BY DEF CreateVersion
<1>2. versions[nextId] = NoRow
  BY <1>1 DEF TypeInv, IdsInOrder, VersionIds
<1>3. versions'[nextId] = NewRow(req[h].call)
  BY <1>1 DEF TypeInv, TypeOK
<1>4. versions'[nextId].art = req[h].call.name /\ versions'[nextId].ver = req[h].call.ver
  BY <1>3 DEF NewRow
<1>5. \A i \in VersionIds : i # nextId => versions'[i] = versions[i]
  BY <1>1 DEF TypeInv, TypeOK
<1>6. QED
  BY <1>1, <1>2, <1>4, <1>5 DEF Named

\* So rows stay unique.
LEMMA RowsStayUnique ==
    ASSUME TypeInv, RowsUnique, NEW h \in Handlers, Step(h)
    PROVE  RowsUnique'
<1>1. CASE ~CreateVersion(h)
  BY <1>1, RowsKeepNames DEF RowsUnique
<1>2. CASE CreateVersion(h) /\ versions' = versions
  BY <1>2 DEF RowsUnique
<1>3. CASE CreateVersion(h) /\ versions' # versions
  <2> PICK n \in VersionIds : n = nextId
    BY <1>3, CreationIsNew
  <2>1. /\ \A i \in VersionIds : i # n => versions'[i] = versions[i]
        /\ \A i \in VersionIds : versions[i] # NoRow =>
             ~(versions[i].art = versions'[n].art /\ versions[i].ver = versions'[n].ver)
    BY <1>3, CreationIsNew
  <2>2. QED
    BY <2>1 DEF RowsUnique
<1>4. QED
  BY <1>1, <1>2, <1>3

\* A replacement is begun for a draft only.
LEMMA ReplacesDrafts ==
    ASSUME TypeInv, NEW h \in Handlers, Step(h), NEW i \in VersionIds,
           versions[i] # NoRow, versions[i].status # "draft", BeingReplaced(i)'
    PROVE  BeingReplaced(i)
<1> USE DEF TypeInv, TypeOK
<1> PICK g \in Handlers : /\ req'[g].stage \in {"clear", "declare"} /\ req'[g].vid = i
                          /\ req'[g].call.op = "replace"
  BY DEF BeingReplaced
<1>1. CASE g # h
  BY <1>1, OthersUntouched DEF BeingReplaced
<1>2. CASE g = h
  <2>1. ~\E code : Answer(h, code)
    BY <1>2 DEF Answer, Idle
  <2>2. ~\E stage \in {"reread", "audit", "readback"} : Goto(h, stage)
    BY <1>2, AfterGoto
  <2>3. ~\E k \in VersionIds, stage \in {"validate", "reread", "remove"} : Proceed(h, k, stage)
    BY <1>2, AfterProceed
  <2>4. CASE ReplaceLookup(h)
    <3>1. \E k \in Named(req[h].call) : versions[k].status = "draft" /\ Proceed(h, k, "clear")
      BY <2>1, <2>4 DEF ReplaceLookup, NotFound
    <3>2. QED
      BY <1>2, <3>1, AfterProceed DEF Named
  <2>5. CASE Clear(h)
    <3>1. req[h].stage = "clear" /\ Goto(h, "declare") /\ req[h].call.op = "replace"
      BY <2>1, <2>2, <2>5 DEF Clear, At
    <3>2. QED
      BY <1>2, <3>1, AfterGoto DEF BeingReplaced
  <2>6. CASE Declare(h)
    <3>1. req[h].stage = "declare" /\ req[h].call.op = "replace" /\ req'[h].vid = req[h].vid
      <4>1. req'[h].vid = req[h].vid
        BY <2>1, <2>6, AfterDeclare
      <4>2. QED
        BY <2>6, <4>1 DEF Declare, At
    <3>2. QED
      BY <1>2, <3>1 DEF BeingReplaced
  <2>7. CASE Begin(h)
    BY <1>2, <2>7 DEF Begin, Idle
  <2>8. CASE CreateVersion(h) \/ Reread(h)
    BY <1>2, <2>1, <2>8, AfterCreateVersion, AfterReread
  <2>9. CASE CreateArtifact(h) \/ PublishValidate(h) \/ Write(h) \/ Remove(h)
    BY <2>1, <2>2, <2>9 DEF CreateArtifact, PublishValidate, Write, Remove
  <2>10. CASE PublishLookup(h) \/ DeprecateLookup(h) \/ DeleteLookup(h)
    <3>1. \/ \E code : Answer(h, code)
          \/ \E k \in Named(req[h].call), stage \in {"validate", "reread", "remove"} :
               Proceed(h, k, stage)
      BY <2>10 DEF PublishLookup, DeprecateLookup, DeleteLookup, NotFound
    <3>2. QED
      BY <2>1, <2>3, <3>1 DEF Named
  <2>11. CASE ReadBack(h) \/ Audit(h) \/ StatementFails(h)
    BY <2>1, <2>11 DEF ReadBack, Audit, StatementFails
  <2>12. QED
    BY <2>4, <2>5, <2>6, <2>7, <2>8, <2>9, <2>10, <2>11 DEF Step
<1>3. QED
  BY <1>1, <1>2

\* What a firm row is and declares no step of a writer changes.
LEMMA FirmStays ==
    ASSUME TypeInv, LifeInv, NEW h \in Handlers, Step(h),
           NEW i \in VersionIds, NEW n, NEW v, Firm(i, n, v)
    PROVE  Firm(i, n, v)' /\ deps'[i] = deps[i]
<1>1. versions'[i] # NoRow /\ versions'[i].status # "draft"
  BY EveryStepIsTableStep, TableStepKeeps DEF Next, Firm, NothingComesBack
<1>2. versions'[i].art = versions[i].art /\ versions'[i].ver = versions[i].ver
  <2>1. CASE ~CreateVersion(h)
    BY <1>1, <2>1, RowsKeepNames
  <2>2. CASE CreateVersion(h)
    BY <2>2, CreationIsNew DEF Firm
  <2>3. QED
    BY <2>1, <2>2
<1>3. ~BeingReplaced(i)'
  BY ReplacesDrafts DEF Firm
<1>4. deps'[i] = deps[i]
  <2>1. CASE Clear(h) \/ Declare(h)
    <3>1. req[h].vid # i
      BY <2>1 DEF Clear, Declare, At, Firm, BeingReplaced
    <3>2. CASE Clear(h)
      BY <3>1, <3>2 DEF Clear, TypeInv, TypeOK
    <3>3. CASE Declare(h)
      BY <3>1, <3>3 DEF Declare, TypeInv, TypeOK
    <3>4. QED
      BY <2>1, <3>2, <3>3
  <2>2. CASE ~Clear(h) /\ ~Declare(h)
    BY <2>2 DEF Step, Begin, CreateArtifact, CreateVersion, PublishLookup,
       PublishValidate, DeprecateLookup, Reread, Write, DeleteLookup, Remove,
       ReplaceLookup, ReadBack, Audit, StatementFails, tables
  <2>3. QED
    BY <2>1, <2>2
<1>5. QED
  BY <1>1, <1>2, <1>3, <1>4 DEF Firm

\* Rows stay unique, typed and firm whatever the writers do.
LEMMA WritersKeep ==
    ASSUME TablesInv, [Next]_vars
    PROVE  /\ TablesInv'
           /\ \A i \in VersionIds : \A n, v : Firm(i, n, v) => Firm(i, n, v)' /\ deps'[i] = deps[i]
<1> USE DEF TablesInv
<1>1. TypeInv' /\ LifeInv'
  BY StepTyped, LifeInductive
<1>2. CASE \E h \in Handlers : Step(h)
  BY <1>1, <1>2, RowsStayUnique, FirmStays
<1>3. CASE ~\E h \in Handlers : Step(h)
  <2>1. /\ versions' = versions /\ deps' = deps
        /\ req' = req \/ \A h \in Handlers : req'[h] = Idle
    BY <1>3 DEF Next, Crash, Rest, vars, tables
  <2>2. RowsUnique'
    BY <2>1 DEF RowsUnique
  <2>3. ASSUME NEW i, BeingReplaced(i)' PROVE BeingReplaced(i)
    BY <2>1, <2>3 DEF BeingReplaced, Idle
  <2>4. QED
    BY <1>1, <2>1, <2>2, <2>3 DEF Firm
<1>4. QED
  BY <1>2, <1>3

\* So what was read of settled versions stays read, while the comparison waits.
LEMMA ReadStays ==
    ASSUME TablesInv, [Next]_vars, IdsRead(cmp), SettledRead(cmp), cmp' = cmp
    PROVE  IdsRead(cmp)' /\ SettledRead(cmp)'
<1>1. IdsRead(cmp)'
  BY DEF IdsRead
<1>2. SettledRead(cmp)'
  <2> SUFFICES ASSUME cmp.stage # "none", cmp.settled
               PROVE  \E i, j \in VersionIds :
                        /\ Firm(i, cmp.name, cmp.from)' /\ Firm(j, cmp.name, cmp.to)'
                        /\ Reading(cmp, i, j, deps'[i], deps'[j])
    BY DEF SettledRead, Reading
  <2> PICK i \in VersionIds, j \in VersionIds :
          /\ Firm(i, cmp.name, cmp.from) /\ Firm(j, cmp.name, cmp.to)
          /\ Reading(cmp, i, j, deps[i], deps[j])
    BY DEF SettledRead
  <2>1. /\ Firm(i, cmp.name, cmp.from)' /\ Firm(j, cmp.name, cmp.to)'
        /\ deps'[i] = deps[i] /\ deps'[j] = deps[j]
    BY WritersKeep
  <2>2. QED
    BY <2>1
<1>3. QED
  BY <1>1, <1>2

\* Nothing is read of nothing.
LEMMA NothingRead ==
    ASSUME cmp' = NoComparison
    PROVE  cmp' \in Comparing /\ IdsRead(cmp)' /\ SettledRead(cmp)'
<1>1. NoComparison \in Comparing
  <2>1. NoDeps \in MaybeDeps /\ << >> \in Seq(DependencyChange) /\ 0 \in 0 .. MaxVersions
    BY DEF NoDeps, MaybeDeps
  <2>2. QED
    BY <2>1 DEF NoComparison, Comparing
<1>2. QED
  BY <1>1 DEF NoComparison, IdsRead, SettledRead

\* The row found under a name is the firm one, if there is one.
LEMMA FoundIsFirm ==
    ASSUME RowsUnique, NEW ver, NEW i \in VersionIds, Firm(i, cmp.name, ver),
           NEW k \in Named2(ver)
    PROVE  k = i
BY DEF RowsUnique, Firm, Named2, Named

\* The tables being as they were, it is enough to look at the comparison.
LEMMA OwnStep ==
    ASSUME UNCHANGED vars, NEW c \in Comparing, cmp' = c, IdsRead(c), SettledRead(c)
    PROVE  cmp' \in Comparing /\ IdsRead(cmp)' /\ SettledRead(cmp)'
<1>1. \A i, n, v : Firm(i, n, v)' <=> Firm(i, n, v)
  BY DEF Firm, BeingReplaced, vars
<1>2. deps' = deps
  BY DEF vars
<1>3. QED
  BY <1>1, <1>2 DEF IdsRead, SettledRead, Reading

\* A comparison begins with nothing read, of versions settled or not.
LEMMA CompareKeeps ==
    ASSUME ComparisonInv, Compare
    PROVE  cmp' \in Comparing /\ IdsRead(cmp)' /\ SettledRead(cmp)'
<1> PICK n \in Names, f \in Vers, t \in Vers :
       cmp' = [cmp EXCEPT !.stage = "from", !.name = n, !.from = f, !.to = t,
                          !.settled = Settled(n, f) /\ Settled(n, t)]
  BY DEF Compare
<1> PICK s \in BOOLEAN : s = (Settled(n, f) /\ Settled(n, t))
  OBVIOUS
<1> PICK c \in Comparing : c = cmp
  BY DEF ComparisonInv
<1> PICK d : d = cmp'
  OBVIOUS
<1>0. d = [c EXCEPT !.stage = "from", !.name = n, !.from = f, !.to = t, !.settled = s]
  <2>1. cmp' = [cmp EXCEPT !.stage = "from", !.name = n, !.from = f, !.to = t,
                           !.settled = Settled(n, f) /\ Settled(n, t)]
    OBVIOUS
  <2>2. s = (Settled(n, f) /\ Settled(n, t)) /\ c = cmp /\ d = cmp'
    OBVIOUS
  <2>3. QED
    BY ONLY <2>1, <2>2
<1>1. /\ d \in Comparing /\ d.stage = "from" /\ d.settled = s
      /\ d.name = n /\ d.from = f /\ d.to = t
  <2>1. c \in Comparing /\ n \in Names /\ f \in Vers /\ t \in Vers /\ s \in BOOLEAN
    OBVIOUS
  <2>2. QED
    BY ONLY <1>0, <2>1 DEF Comparing
<1>2. IdsRead(d)
  BY <1>1 DEF IdsRead
<1>3. SettledRead(d)
  <2> SUFFICES ASSUME s
               PROVE  \E i, j \in VersionIds : /\ Firm(i, n, f) /\ Firm(j, n, t)
                                               /\ Reading(d, i, j, deps[i], deps[j])
    BY <1>1 DEF SettledRead
  <2>1. \A i, j, x, y : Reading(d, i, j, x, y)
    BY <1>1 DEF Reading
  <2>2. \E i \in VersionIds : Firm(i, n, f)
    BY DEF Settled, Firm
  <2>3. \E j \in VersionIds : Firm(j, n, t)
    BY DEF Settled, Firm
  <2>4. QED
    BY <2>1, <2>2, <2>3
<1>4. QED
  BY <1>1, <1>2, <1>3, OwnStep DEF Compare

\* A lookup finds the rows that were settled.
LEMMA FindKeeps ==
    ASSUME ComparisonInv, Find, UNCHANGED vars
    PROVE  cmp' \in Comparing /\ IdsRead(cmp)' /\ SettledRead(cmp)'
<1> PICK c \in Comparing : c = cmp
  BY DEF ComparisonInv
<1> PICK d : d = cmp'
  OBVIOUS
<1>0. RowsUnique /\ IdsRead(c) /\ SettledRead(c)
  BY DEF ComparisonInv, TablesInv
<1>1. CASE Refuse
  BY <1>1, NothingRead DEF Refuse
<1>2. CASE /\ c.stage = "from"
           /\ \E k \in Named2(c.from) : d = [c EXCEPT !.stage = "to", !.fromId = k]
  <2> PICK k \in VersionIds : k \in Named2(c.from) /\ d = [c EXCEPT !.stage = "to", !.fromId = k]
    BY <1>2 DEF Named2, Named
  <2>1. k \in 0 .. MaxVersions
    BY DEF VersionIds
  <2>2. /\ d \in Comparing /\ d.stage = "to" /\ d.fromId = k /\ d.settled = c.settled
        /\ d.name = c.name /\ d.from = c.from /\ d.to = c.to
    BY <2>1 DEF Comparing
  <2>3. IdsRead(d)
    BY <2>2 DEF IdsRead
  <2>4. SettledRead(d)
    <3> SUFFICES ASSUME c.settled
                 PROVE  \E i, j \in VersionIds : /\ Firm(i, c.name, c.from) /\ Firm(j, c.name, c.to)
                                                 /\ Reading(d, i, j, deps[i], deps[j])
      BY <2>2 DEF SettledRead
    <3> PICK i \in VersionIds, j \in VersionIds : Firm(i, c.name, c.from) /\ Firm(j, c.name, c.to)
      BY <1>0, <1>2 DEF SettledRead
    <3>1. k = i
      BY <1>0, FoundIsFirm
    <3>2. Reading(d, i, j, deps[i], deps[j])
      BY <2>2, <3>1 DEF Reading
    <3>3. QED
      BY <3>2
  <2>5. QED
    BY <2>2, <2>3, <2>4, OwnStep
<1>3. CASE c.stage = "to" /\ d = [c EXCEPT !.stage = "fromDeps"]
  <2>1. /\ d \in Comparing /\ d.stage = "fromDeps" /\ d.fromId = c.fromId
        /\ d.settled = c.settled /\ d.name = c.name /\ d.from = c.from /\ d.to = c.to
    BY <1>3 DEF Comparing
  <2>2. IdsRead(d)
    BY <1>0, <1>3, <2>1 DEF IdsRead
  <2>3. SettledRead(d)
    <3>1. \A i, j, x, y : Reading(c, i, j, x, y) => Reading(d, i, j, x, y)
      BY <1>3, <2>1 DEF Reading
    <3>2. QED
      BY <1>0, <1>3, <2>1, <3>1 DEF SettledRead
  <2>4. QED
    BY <2>1, <2>2, <2>3, OwnStep
<1>4. CASE /\ c.stage = "toAgain"
           /\ \E k \in Named2(c.to) : d = [c EXCEPT !.stage = "toDeps", !.toId = k]
  <2> PICK k \in VersionIds : k \in Named2(c.to) /\ d = [c EXCEPT !.stage = "toDeps", !.toId = k]
    BY <1>4 DEF Named2, Named
  <2>1. k \in 0 .. MaxVersions
    BY DEF VersionIds
  <2>2. /\ d \in Comparing /\ d.stage = "toDeps" /\ d.fromId = c.fromId /\ d.toId = k
        /\ d.fromDeps = c.fromDeps /\ d.settled = c.settled
        /\ d.name = c.name /\ d.from = c.from /\ d.to = c.to
    BY <2>1 DEF Comparing
  <2>3. IdsRead(d)
    BY <1>0, <1>4, <2>2 DEF IdsRead
  <2>4. SettledRead(d)
    <3> SUFFICES ASSUME c.settled
                 PROVE  \E i, j \in VersionIds : /\ Firm(i, c.name, c.from) /\ Firm(j, c.name, c.to)
                                                 /\ Reading(d, i, j, deps[i], deps[j])
      BY <2>2 DEF SettledRead
    <3> PICK i \in VersionIds, j \in VersionIds :
           /\ Firm(i, c.name, c.from) /\ Firm(j, c.name, c.to)
           /\ Reading(c, i, j, deps[i], deps[j])
      BY <1>0, <1>4 DEF SettledRead
    <3>1. k = j
      BY <1>0, FoundIsFirm
    <3>2. Reading(d, i, j, deps[i], deps[j])
      BY <1>4, <2>2, <3>1 DEF Reading
    <3>3. QED
      BY <3>2
  <2>5. QED
    BY <2>2, <2>3, <2>4, OwnStep
<1>5. QED
  BY <1>1, <1>2, <1>3, <1>4, Zenon DEF Find

\* What is loaded is what the settled rows declare.
LEMMA LoadKeeps ==
    ASSUME ComparisonInv, Load, UNCHANGED vars
    PROVE  cmp' \in Comparing /\ IdsRead(cmp)' /\ SettledRead(cmp)'
<1> PICK c \in Comparing : c = cmp
  BY DEF ComparisonInv
<1> PICK d : d = cmp'
  OBVIOUS
<1>0. IdsRead(c) /\ SettledRead(c) /\ deps \in [VersionIds -> MaybeDeps]
  BY DEF ComparisonInv, TablesInv, TypeInv, TypeOK, MaybeDeps
<1>1. CASE c.stage = "fromDeps" /\ d = [c EXCEPT !.stage = "toAgain", !.fromDeps = deps[c.fromId]]
  <2>1. c.fromId \in VersionIds
    BY <1>0, <1>1 DEF IdsRead
  <2> PICK x \in MaybeDeps : x = deps[c.fromId]
    BY <1>0, <2>1
  <2>2. /\ d \in Comparing /\ d.stage = "toAgain" /\ d.fromId = c.fromId /\ d.fromDeps = x
        /\ d.settled = c.settled /\ d.name = c.name /\ d.from = c.from /\ d.to = c.to
    BY <1>1 DEF Comparing
  <2>3. IdsRead(d)
    BY <2>1, <2>2 DEF IdsRead
  <2>4. SettledRead(d)
    <3>1. \A i, j : Reading(c, i, j, deps[i], deps[j]) => Reading(d, i, j, deps[i], deps[j])
      BY <1>1, <2>2 DEF Reading
    <3>2. QED
      BY <1>0, <1>1, <2>2, <3>1 DEF SettledRead
  <2>5. QED
    BY <2>2, <2>3, <2>4, OwnStep
<1>2. CASE /\ c.stage = "toDeps"
           /\ d = [c EXCEPT !.stage = "done", !.fromDeps = NoDeps,
                            !.changes = Difference(c.fromDeps, deps[c.toId])]
  <2>1. c.toId \in VersionIds /\ c.fromDeps \in MaybeDeps
    BY <1>0, <1>2 DEF IdsRead, Comparing
  <2> PICK diff : diff = Difference(c.fromDeps, deps[c.toId])
    OBVIOUS
  <2>2. diff \in Seq(DependencyChange) /\ NoDeps \in MaybeDeps
    BY <1>0, <2>1, DifferenceIs DEF NoDeps, MaybeDeps
  <2>3. /\ d \in Comparing /\ d.stage = "done" /\ d.changes = diff
        /\ d.settled = c.settled /\ d.name = c.name /\ d.from = c.from /\ d.to = c.to
    BY <1>2, <2>2 DEF Comparing
  <2>4. IdsRead(d)
    BY <2>3 DEF IdsRead
  <2>5. SettledRead(d)
    <3>1. \A i, j : Reading(c, i, j, deps[i], deps[j]) => Reading(d, i, j, deps[i], deps[j])
      BY <1>2, <2>3 DEF Reading
    <3>2. QED
      BY <1>0, <1>2, <2>3, <3>1 DEF SettledRead
  <2>6. QED
    BY <2>3, <2>4, <2>5, OwnStep
<1>3. QED
  BY <1>1, <1>2, Zenon DEF Load

\* A failed statement ends the comparison and leaves the tables alone.
LEMMA FailureKeeps ==
    ASSUME ComparisonInv, CompareFails PROVE ComparisonInv'
<1>1. TypeInv'
  <2>1. faults' \in 0 .. MaxFaults
    BY DEF ComparisonInv, TablesInv, TypeInv, TypeOK, CompareFails
  <2>2. QED
    BY <2>1 DEF ComparisonInv, TablesInv, TypeInv, TypeOK, HandlersOK, IdsInOrder,
       CompareFails, tables
<1>2. LifeInv' /\ RowsUnique'
  BY DEF ComparisonInv, TablesInv, LifeInv, TimestampsAgree, InHandSound, InHandTrue,
     RowsUnique, CompareFails, tables
<1>3. QED
  BY <1>1, <1>2, NothingRead DEF ComparisonInv, TablesInv, CompareFails, Refuse

\* Nothing is there to compare at first.
LEMMA ComparisonInitially == ComparisonInit => ComparisonInv
<1> SUFFICES ASSUME ComparisonInit PROVE ComparisonInv
  OBVIOUS
<1>1. TypeInv /\ LifeInv
  BY InitTyped, LifeInitially DEF ComparisonInit
<1>2. RowsUnique
  BY DEF ComparisonInit, Init, RowsUnique
<1>3. cmp \in Comparing
  <2>1. NoDeps \in MaybeDeps /\ << >> \in Seq(DependencyChange) /\ 0 \in 0 .. MaxVersions
    BY DEF NoDeps, MaybeDeps
  <2>2. QED
    BY <2>1 DEF ComparisonInit, NoComparison, Comparing
<1>4. IdsRead(cmp) /\ SettledRead(cmp)
  BY DEF ComparisonInit, NoComparison, IdsRead, SettledRead
<1>5. QED
  BY <1>1, <1>2, <1>3, <1>4 DEF ComparisonInv, TablesInv

\* Every step of the comparison and of the writers keeps what was read true.
LEMMA ComparisonInductive == ComparisonInv /\ [ComparisonNext]_comparisonVars => ComparisonInv'
<1> SUFFICES ASSUME ComparisonInv, [ComparisonNext]_comparisonVars PROVE ComparisonInv'
  OBVIOUS
<1> USE DEF ComparisonInv
<1>1. CASE CompareFails
  BY <1>1, FailureKeeps
<1>2. CASE Compare \/ ((Find \/ Load) /\ UNCHANGED vars)
  <2>1. UNCHANGED vars
    BY <1>2 DEF Compare
  <2>2. TablesInv'
    BY <2>1, WritersKeep
  <2>3. QED
    BY <1>2, <2>2, CompareKeeps, FindKeeps, LoadKeeps
<1>3. CASE Others \/ UNCHANGED comparisonVars
  <2>1. [Next]_vars
    BY <1>3 DEF Others, Next, comparisonVars
  <2>2. cmp' = cmp \/ cmp' = NoComparison
    BY <1>3 DEF Others, comparisonVars
  <2>3. QED
    BY <2>1, <2>2, WritersKeep, ReadStays, NothingRead
<1>4. QED
  BY <1>1, <1>2, <1>3 DEF ComparisonNext

\* The invariant holds in every reachable state.
LEMMA ComparisonInvariant == ComparisonSpec => []ComparisonInv
BY ComparisonInitially, ComparisonInductive, PTL DEF ComparisonSpec

\* The comparison and what it carries between its reads are of their types,
\* while the requests of Registry write.
THEOREM ComparisonTyped == ComparisonSpec => []ComparisonTypeOK
<1>1. ComparisonInv => ComparisonTypeOK
  BY DEF ComparisonInv, TablesInv, TypeInv, ComparisonTypeOK
<1>2. QED
  BY <1>1, ComparisonInvariant, PTL

\* Name n of the second declaration is that of the first with the answer applied.
Applied(from, to, diff, n) ==
    LET told == {k \in DOMAIN diff : diff[k].name = n}
    IN  to[n] = IF told = {} THEN from[n] ELSE diff[CHOOSE k \in told : TRUE].to

\* The difference applied to the first declaration gives the second.
LEMMA DifferenceApplies ==
    ASSUME NEW from \in MaybeDeps, NEW to \in MaybeDeps, NEW diff,
           diff = Difference(from, to), NEW n \in Names
    PROVE  Applied(from, to, diff, n)
<1> PICK told : told = {k \in DOMAIN diff : diff[k].name = n}
  OBVIOUS
<1>1. /\ \A k \in DOMAIN diff : \E m \in Differing(from, to) : diff[k] = EntryOf(from, to, m)
      /\ \A m \in Differing(from, to) : \E k \in DOMAIN diff : diff[k] = EntryOf(from, to, m)
  BY DifferenceIs
<1>2. CASE n \in Differing(from, to)
  <2>1. told # {}
    BY <1>1, <1>2 DEF EntryOf
  <2> PICK j : j = CHOOSE k \in told : TRUE
    OBVIOUS
  <2>2. j \in DOMAIN diff /\ diff[j].name = n
    BY <2>1
  <2>3. diff[j].to = to[n]
    BY <1>1, <2>2 DEF EntryOf
  <2>4. QED
    BY <2>1, <2>3 DEF Applied
<1>3. CASE n \notin Differing(from, to)
  <2>1. told = {}
    BY <1>1, <1>3 DEF EntryOf
  <2>2. from[n] = to[n]
    BY <1>3 DEF Differing
  <2>3. QED
    BY <2>1, <2>2 DEF Applied
<1>4. QED
  BY <1>2, <1>3

\* The comparison of two versions that were past being drafts when it began,
\* with no replacement of theirs under way, is the difference of what the two
\* declare: what its eight reads meet is never half a replacement, nor a
\* version deleted and created again under the same name.
THEOREM DiffsExact == ComparisonSpec => []DiffExact
<1>1. ComparisonInv => DiffExact
  <2> SUFFICES ASSUME ComparisonInv, cmp.stage = "done", cmp.settled
               PROVE  DiffExact
    BY DEF DiffExact
  <2> PICK i \in VersionIds, j \in VersionIds :
         /\ Firm(i, cmp.name, cmp.from) /\ Firm(j, cmp.name, cmp.to)
         /\ cmp.changes = Difference(deps[i], deps[j])
    BY DEF ComparisonInv, SettledRead, Reading
  <2>1. i \in Named2(cmp.from) /\ j \in Named2(cmp.to)
    BY DEF Firm, Named2, Named
  <2> PICK from \in MaybeDeps, to \in MaybeDeps : from = deps[i] /\ to = deps[j]
    BY DEF ComparisonInv, TablesInv, TypeInv, TypeOK, MaybeDeps
  <2> PICK diff : diff = cmp.changes
    OBVIOUS
  <2>2. diff = Difference(from, to)
    OBVIOUS
  <2>3. ASSUME NEW k \in DOMAIN diff
        PROVE  /\ diff[k].from = from[diff[k].name]
               /\ diff[k].to # diff[k].from
               /\ (diff[k].kind = "added") = (diff[k].from = NoText)
               /\ (diff[k].kind = "removed") = (diff[k].to = NoText)
    <3> PICK n \in Differing(from, to) : diff[k] = EntryOf(from, to, n)
      BY <2>2, DifferenceIs
    <3> PICK x : x = diff[k]
      OBVIOUS
    <3>1. /\ x.name = n /\ x.from = from[n] /\ x.to # x.from
          /\ x.kind = "added" <=> x.from = NoText
          /\ x.kind = "removed" <=> x.to = NoText
      BY EntryTyped
    <3>2. QED
      BY ONLY <3>1, x = diff[k]
  <2>4. \A k, l \in DOMAIN diff : k < l => Sorts(diff[k], diff[l])
    BY <2>2, DifferenceIs
  <2>5. \A n \in Names : Applied(from, to, diff, n)
    BY <2>2, DifferenceApplies
  <2>6. QED
    BY <2>1, <2>3, <2>4, <2>5 DEF DiffExact, Applied
<1>2. QED
  BY <1>1, ComparisonInvariant, PTL
=============================================================================
