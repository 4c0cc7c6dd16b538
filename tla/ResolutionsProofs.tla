-------------------------- MODULE ResolutionsProofs --------------------------
(***************************************************************************)
(* Theorems about Resolutions and History for any sets of manifests,       *)
(* graphs and handlers, any number of rows and faults and any page length, *)
(* with proofs checked by TLAPS.                                           *)
(***************************************************************************)
EXTENDS History, Ranks, SequenceTheorems

USE ConstantsOK

-----------------------------------------------------------------------------
(* The inductive invariant.                                                *)

\* The requests that will insert a row.
Arriving == {h \in Handlers : req[h].stage \in {"read", "insert"}}

\* There is room for their rows.
Room == IsFiniteSet(Arriving) /\ Len(requests) + Cardinality(Arriving) <= MaxRequests

\* The run of row i left its change record.
Recorded(i) == \E k \in DOMAIN changes : changes[k] = [id |-> i, action |-> "resolve"]

\* Everything of a finished run is stored.
Whole(i) ==
    /\ nodes[i] = requests[i].graph
    /\ requests[i].status = "succeeded" => lockfiles[i] = requests[i].graph
    /\ Recorded(i)

\* A request before it has a row of its own.
BeforeRow(r) ==
    /\ r.stage \in {"idle", "read", "insert"} => r.id = 0 /\ r.outcome = Unresolved
    /\ r.stage = "idle" => r = Idle
    /\ r.stage = "read" => r.of # 0
    /\ r.stage = "insert" => r.manifest \in Manifests

\* A rerun knows a row with the manifest it repeats, older than its own.
RepeatsOriginal(r) ==
    r.of # 0 /\ r.stage # "read" =>
        /\ r.of \in DOMAIN requests /\ requests[r.of].manifest = r.manifest
        /\ r.id # 0 => r.of < r.id

\* A request with a row: before it finishes the row, and after.
WithRow(r) ==
    /\ r.stage \notin {"idle", "read", "insert"} =>
         r.id \in DOMAIN requests /\ requests[r.id].manifest = r.manifest
    /\ r.stage \in {"engine", "finish"} => requests[r.id].status = "pending"
    /\ r.stage = "engine" => r.outcome = Unresolved
    /\ r.stage = "finish" => r.outcome \in Outcomes
    /\ r.stage \in {"nodes", "audit", "lockfile", "auditRerun"} =>
         /\ r.outcome \in Outcomes
         /\ requests[r.id].status = r.outcome.status
         /\ requests[r.id].graph = r.outcome.graph
         /\ requests[r.id].error = ErrorOf(r.outcome)

\* What it has stored besides the row.
StoredSoFar(r) ==
    /\ r.stage \in {"audit", "lockfile", "auditRerun"} => nodes[r.id] = r.outcome.graph
    /\ r.stage = "lockfile" => r.outcome.status = "succeeded"
    /\ r.stage = "auditRerun" =>
         /\ r.of # 0
         /\ r.outcome.status = "succeeded" => lockfiles[r.id] = r.outcome.graph
    /\ faults = 0 /\ r.stage \in {"lockfile", "auditRerun"} => Recorded(r.id)

RunOK(r) == BeforeRow(r) /\ RepeatsOriginal(r) /\ WithRow(r) /\ StoredSoFar(r)

RunsOK == \A h \in Handlers : RunOK(req[h])

RowsApart == \A g, h \in Handlers : g # h /\ req[g].id # 0 => req[g].id # req[h].id

\* A client told of a run was told its outcome, and what of it was stored.
AnswerOK(a) ==
    a.code = "OK" =>
        /\ a.id \in DOMAIN requests /\ a.outcome \in Outcomes
        /\ requests[a.id].status = a.outcome.status
        /\ requests[a.id].graph = a.outcome.graph /\ nodes[a.id] = a.outcome.graph
        /\ requests[a.id].error = ErrorOf(a.outcome)
        /\ a.outcome.status = "succeeded" => lockfiles[a.id] = a.outcome.graph

AnswersOK == \A h \in Handlers : AnswerOK(answers[h])

\* What is stored for a row that exists, and for one that does not: nothing.
StoreOK == StoredInOrder /\ RerunRecordsTrue

RunsInv == TypeOK /\ Room /\ RunsOK /\ RowsApart

ResolutionsInv == RunsInv /\ StoreOK /\ AnswersOK /\ FinishedIsWhole

-----------------------------------------------------------------------------
(* What a step of one handler may do.                                      *)

\* Rows are never lost, keep their manifest, and a finished one its outcome;
\* what is stored for a row stays, and so do the change records.
TablesGrow ==
    /\ \A i \in DOMAIN requests :
         /\ i \in DOMAIN requests' /\ requests'[i].manifest = requests[i].manifest
         /\ requests[i].status # "pending" => requests'[i] = requests[i]
    /\ \A i \in DOMAIN requests' : i \notin DOMAIN requests =>
         i = Len(requests) + 1 /\ requests'[i].status = "pending"
    /\ \A i \in Ids : nodes[i] # NoGraph => nodes'[i] = nodes[i]
    /\ \A i \in Ids : lockfiles[i] # NoGraph => lockfiles'[i] = lockfiles[i]
    /\ \A k \in DOMAIN changes : k \in DOMAIN changes' /\ changes'[k] = changes[k]

\* Of the rows that exist it writes for its own only.
OwnRowOnly(h) ==
    \A i \in DOMAIN requests : i # req[h].id =>
        /\ requests'[i] = requests[i]
        /\ nodes'[i] = nodes[i] /\ lockfiles'[i] = lockfiles[i]

\* It may take a new row, or leave its row whole.
OwnRow(h) ==
    /\ req'[h].id \in {0, req[h].id, Len(requests) + 1}
    /\ req'[h].id = Len(requests) + 1 => req[h].id = 0
    /\ faults' = 0 => faults = 0
    /\ \A i \in Ids :
         faults' = 0 /\ req'[h].id = 0 /\ req[h].id = i => Whole(i)'

OthersWait(h) ==
    \A g \in Handlers : g # h => req'[g] = req[g] /\ answers'[g] = answers[g]

\* Row i is repeated by a later one that is finished.
Repeated(i) ==
    \E j \in DOMAIN requests :
        j > i /\ Terminal(j) /\ requests[j].manifest = requests[i].manifest

\* A new record of a rerun is about a row that is repeated.
NewRecordsTrue ==
    \A k \in DOMAIN changes', i \in Ids :
        k \notin DOMAIN changes /\ changes'[k] = [id |-> i, action |-> "rerun"] =>
            Repeated(i)'

HandlerStep(h) ==
    /\ TypeOK' /\ StoredInOrder' /\ NewRecordsTrue
    /\ TablesGrow /\ OwnRowOnly(h) /\ OwnRow(h) /\ OthersWait(h)
    /\ RunOK(req[h])'
    /\ answers'[h] = answers[h] \/ AnswerOK(answers[h])'

-----------------------------------------------------------------------------
(* Types of the handlers' local state.                                     *)

\* A handler without a request is typed.
LEMMA IdleTyped == Idle \in Request
BY DEF Idle, Request, Stages

\* An answer that carries only an error is typed, and claims nothing.
LEMMA ErrorTyped ==
    ASSUME NEW code \in {"NONE", "INVALID", "NOT_FOUND", "INTERNAL"}
    PROVE  Error(code) \in Answer /\ AnswerOK(Error(code))
BY DEF Error, Answer, AnswerOK

\* A request that goes to another stage keeps all else it has in hand.
LEMMA GotoMoves ==
    ASSUME TypeOK, NEW h \in Handlers, NEW stage \in Stages, Goto(h, stage)
    PROVE  /\ req' \in [Handlers -> Request]
           /\ req'[h] = [req[h] EXCEPT !.stage = stage]
           /\ \A g \in Handlers : g # h => req'[g] = req[g]
<1>1. req[h] \in Request
  BY DEF TypeOK
<1>2. [req[h] EXCEPT !.stage = stage] \in Request
  BY <1>1 DEF Request
<1>3. req' = [req EXCEPT ![h] = [req[h] EXCEPT !.stage = stage]]
  BY DEF Goto
<1>4. QED
  BY <1>2, <1>3 DEF TypeOK

\* A request that is answered is over.
LEMMA ReplyMoves ==
    ASSUME TypeOK, NEW h \in Handlers, NEW a \in Answer, Reply(h, a)
    PROVE  /\ req' \in [Handlers -> Request] /\ answers' \in [Handlers -> Answer]
           /\ req'[h] = Idle /\ answers'[h] = a
           /\ OthersWait(h)
BY IdleTyped DEF TypeOK, Reply, OthersWait

\* The state of a request at rest is sound.
LEMMA IdleOK ==
    ASSUME NEW h \in Handlers, req'[h] = Idle
    PROVE  RunOK(req[h])'
BY DEF RunOK, BeforeRow, RepeatsOriginal, WithRow, StoredSoFar, Idle

\* What a request in flight knows, by name.
LEMMA RunTyped ==
    ASSUME RunsInv, NEW h \in Handlers
    PROVE  /\ req[h] \in Request /\ RunOK(req[h]) /\ answers[h] \in Answer
           /\ req[h].stage \notin {"idle", "read", "insert"} =>
                /\ req[h].id \in DOMAIN requests /\ req[h].id \in Ids
                /\ requests[req[h].id] \in Row
<1>1. req[h] \in Request /\ RunOK(req[h]) /\ answers[h] \in Answer
  BY DEF RunsInv, TypeOK, RunsOK
<1>2. /\ requests \in Seq(Row) /\ Len(requests) \in Nat /\ DOMAIN requests = 1 .. Len(requests)
      /\ Len(requests) <= MaxRequests
  BY LenProperties DEF RunsInv, TypeOK
<1>3. DOMAIN requests \subseteq Ids
  BY <1>2 DEF Ids
<1>4. QED
  BY <1>1, <1>2, <1>3, ElementOfSeq DEF RunOK, WithRow

-----------------------------------------------------------------------------
(* Such a step keeps the invariant.                                        *)

\* A handler's step leaves the runs of the others as they were.
LEMMA RunsKept ==
    ASSUME ResolutionsInv, NEW h \in Handlers, HandlerStep(h), NEW g \in Handlers, g # h
    PROVE  RunOK(req[g])'
<1>1. req'[g] = req[g] /\ RunOK(req[g]) /\ req[g] \in Request
  BY DEF ResolutionsInv, RunsInv, TypeOK, RunsOK, HandlerStep, OthersWait
<1>2. req[g].id # 0 => req[g].id # req[h].id
  BY DEF ResolutionsInv, RunsInv, RowsApart
<1>3. req[g].stage \notin {"idle", "read", "insert"} =>
        /\ req[g].id \in DOMAIN requests /\ req[g].id # 0
        /\ req[g].id \in DOMAIN requests' /\ requests'[req[g].id] = requests[req[g].id]
        /\ nodes'[req[g].id] = nodes[req[g].id]
        /\ lockfiles'[req[g].id] = lockfiles[req[g].id]
  <2>1. req[g].stage \notin {"idle", "read", "insert"} =>
          req[g].id \in DOMAIN requests /\ req[g].id \in Ids
    BY RunTyped DEF ResolutionsInv
  <2>2. QED
    BY <1>2, <2>1 DEF HandlerStep, TablesGrow, OwnRowOnly, Ids
<1>4. BeforeRow(req[g])'
  BY <1>1 DEF RunOK, BeforeRow
<1>5. RepeatsOriginal(req[g])'
  BY <1>1 DEF RunOK, RepeatsOriginal, HandlerStep, TablesGrow
<1>6. WithRow(req[g])'
  BY <1>1, <1>3 DEF RunOK, WithRow
<1>7. StoredSoFar(req[g])'
  <2>1. faults' = 0 /\ Recorded(req[g].id) => faults = 0 /\ Recorded(req[g].id)'
    BY <1>1 DEF HandlerStep, OwnRow, TablesGrow, Recorded
  <2>2. faults' = 0 => faults = 0
    BY DEF HandlerStep, OwnRow
  <2>3. QED
    BY <1>1, <1>3, <2>1, <2>2 DEF RunOK, StoredSoFar
<1>8. QED
  BY <1>4, <1>5, <1>6, <1>7 DEF RunOK

\* No step gives two handlers one row.
LEMMA RowsStayApart ==
    ASSUME ResolutionsInv, NEW h \in Handlers, HandlerStep(h)
    PROVE  RowsApart'
<1>1. ASSUME NEW g \in Handlers, g # h, req[g].id # 0 PROVE req[g].id # req'[h].id
  <2>1. req[g].id \in DOMAIN requests
    <3>1. req[g] \in Request /\ BeforeRow(req[g])
      BY DEF ResolutionsInv, RunsInv, TypeOK, RunsOK, RunOK
    <3>2. req[g].stage \notin {"idle", "read", "insert"}
      BY <1>1, <3>1 DEF BeforeRow
    <3>3. QED
      BY <3>2, RunTyped DEF ResolutionsInv
  <2>2. req[g].id # Len(requests) + 1
    BY <2>1, LenProperties DEF ResolutionsInv, RunsInv, TypeOK
  <2>3. req[g].id # req[h].id
    BY <1>1 DEF ResolutionsInv, RunsInv, RowsApart
  <2>4. QED
    BY <1>1, <2>2, <2>3 DEF HandlerStep, OwnRow
<1>2. \A g \in Handlers : g # h => req'[g] = req[g]
  BY DEF HandlerStep, OthersWait
<1>3. QED
  BY <1>1, <1>2 DEF ResolutionsInv, RunsInv, RowsApart

\* What clients were told stays true.
LEMMA AnswerKept ==
    ASSUME ResolutionsInv, TablesGrow, StoredInOrder', NEW h \in Handlers,
           answers'[h] = answers[h]
    PROVE  AnswerOK(answers[h])'
<1> SUFFICES ASSUME answers[h].code = "OK" PROVE AnswerOK(answers[h])'
  BY DEF AnswerOK
<1> DEFINE i == answers[h].id
<1>1. /\ i \in DOMAIN requests /\ answers[h].outcome \in Outcomes
      /\ requests[i].status = answers[h].outcome.status
      /\ requests[i].graph = answers[h].outcome.graph
      /\ requests[i].error = ErrorOf(answers[h].outcome)
      /\ nodes[i] = answers[h].outcome.graph
      /\ answers[h].outcome.status = "succeeded" => lockfiles[i] = answers[h].outcome.graph
  BY DEF ResolutionsInv, AnswersOK, AnswerOK
<1>2. /\ answers[h].outcome.status # "pending"
      /\ answers[h].outcome.status = "succeeded" => answers[h].outcome.graph # NoGraph
  BY <1>1 DEF Outcomes
<1>3. i \in Ids /\ i \in DOMAIN requests' /\ requests'[i] = requests[i]
  BY <1>1, <1>2, LenProperties DEF ResolutionsInv, RunsInv, TypeOK, TablesGrow, Ids
<1>4. nodes'[i] = nodes[i]
  BY <1>1, <1>3 DEF TablesGrow, StoredInOrder
<1>5. answers[h].outcome.status = "succeeded" => lockfiles'[i] = lockfiles[i]
  BY <1>1, <1>2, <1>3 DEF TablesGrow
<1>6. QED
  BY <1>1, <1>3, <1>4, <1>5 DEF AnswerOK

\* A record of a rerun stays true.
LEMMA RecordsKept ==
    ASSUME ResolutionsInv, TablesGrow, NewRecordsTrue, TypeOK'
    PROVE  RerunRecordsTrue'
<1> SUFFICES ASSUME NEW k \in DOMAIN changes', NEW i \in Ids,
                    changes'[k] = [id |-> i, action |-> "rerun"]
             PROVE  Repeated(i)'
  <2>1. \A k \in DOMAIN changes' : changes'[k] \in Change
    BY LenProperties, ElementOfSeq DEF TypeOK
  <2>2. \A k \in DOMAIN changes' : changes'[k].action = "rerun" =>
          \E i \in Ids : changes'[k] = [id |-> i, action |-> "rerun"]
    BY <2>1 DEF Change
  <2>3. QED
    BY <2>2 DEF RerunRecordsTrue, Repeated
<1>1. CASE k \notin DOMAIN changes
  BY <1>1 DEF NewRecordsTrue
<1>2. CASE k \in DOMAIN changes
  <2>1. changes[k] = [id |-> i, action |-> "rerun"]
    BY <1>2 DEF TablesGrow
  <2>2. PICK j \in DOMAIN requests :
          j > i /\ Terminal(j) /\ requests[j].manifest = requests[i].manifest
    BY <1>2, <2>1 DEF ResolutionsInv, StoreOK, RerunRecordsTrue
  <2>3. i \in DOMAIN requests
    BY <2>2, LenProperties DEF ResolutionsInv, RunsInv, TypeOK, Ids
  <2>4. QED
    BY <2>2, <2>3 DEF TablesGrow, Repeated, Terminal
<1>3. QED
  BY <1>1, <1>2

\* A row is finished only by the handler it belongs to, which leaves it whole.
LEMMA WholeKept ==
    ASSUME ResolutionsInv, NEW h \in Handlers, HandlerStep(h)
    PROVE  FinishedIsWhole'
<1> SUFFICES ASSUME NEW i \in DOMAIN requests', faults' = 0, Terminal(i)', ~Working(i)'
             PROVE  Whole(i)'
  BY DEF FinishedIsWhole, Whole, Recorded
<1>1. faults = 0 /\ i \in DOMAIN requests
  BY DEF HandlerStep, OwnRow, TablesGrow, Terminal
<1>2. \A g \in Handlers : g # h => req[g].id # i
  BY DEF HandlerStep, OthersWait, Working
<1>i. i # 0 /\ i # Len(requests) + 1 /\ i \in Ids
  BY <1>1, LenProperties DEF ResolutionsInv, RunsInv, TypeOK, Ids
<1>3. CASE req[h].id = i
  <2>1. req'[h].id = 0
    BY <1>3, <1>i DEF HandlerStep, OwnRow, Working
  <2>2. QED
    BY <1>3, <1>i, <2>1 DEF HandlerStep, OwnRow
<1>4. CASE req[h].id # i
  <2>1. ~Working(i)
    BY <1>2, <1>4 DEF Working
  <2>2. requests'[i] = requests[i] /\ nodes'[i] = nodes[i] /\ lockfiles'[i] = lockfiles[i]
    BY <1>1, <1>4 DEF HandlerStep, OwnRowOnly
  <2>3. Terminal(i)
    BY <1>1, <2>2 DEF Terminal
  <2>4. /\ nodes[i] = requests[i].graph
        /\ requests[i].status = "succeeded" => lockfiles[i] = requests[i].graph
        /\ \E k \in DOMAIN changes : changes[k].id = i /\ changes[k].action = "resolve"
    BY <1>1, <2>1, <2>3 DEF ResolutionsInv, FinishedIsWhole
  <2>5. Recorded(i)
    <3>1. PICK k \in DOMAIN changes : changes[k].id = i /\ changes[k].action = "resolve"
      BY <2>4
    <3>2. changes[k] \in Change
      BY LenProperties, ElementOfSeq DEF ResolutionsInv, RunsInv, TypeOK
    <3>3. changes[k] = [id |-> i, action |-> "resolve"]
      BY <3>1, <3>2 DEF Change
    <3>4. QED
      BY <3>3 DEF Recorded
  <2>6. Recorded(i)'
    BY <2>5 DEF HandlerStep, TablesGrow, Recorded
  <2>7. QED
    BY <2>2, <2>4, <2>6 DEF Whole
<1>5. QED
  BY <1>3, <1>4

\* A step that only adds, and only to its own run, keeps the invariant.
LEMMA HandlerKeeps ==
    ASSUME ResolutionsInv, NEW h \in Handlers, HandlerStep(h), Room'
    PROVE  ResolutionsInv'
<1>1. RunsOK'
  BY RunsKept DEF RunsOK, HandlerStep
<1>2. RowsApart'
  BY RowsStayApart
<1>3. AnswersOK'
  <2> SUFFICES ASSUME NEW g \in Handlers PROVE AnswerOK(answers[g])'
    BY DEF AnswersOK
  <2>1. answers'[g] = answers[g] \/ AnswerOK(answers[g])'
    BY DEF HandlerStep, OthersWait
  <2>2. QED
    BY <2>1, AnswerKept DEF HandlerStep
<1>4. RerunRecordsTrue'
  BY RecordsKept DEF HandlerStep
<1>5. FinishedIsWhole'
  BY WholeKept
<1>6. QED
  BY <1>1, <1>2, <1>3, <1>4, <1>5 DEF ResolutionsInv, RunsInv, StoreOK, HandlerStep

-----------------------------------------------------------------------------
(* Room for the rows to come.                                              *)

\* Room is kept when no row is added and no request begins.
LEMMA RoomStays ==
    ASSUME ResolutionsInv, Len(requests') = Len(requests), Arriving' \subseteq Arriving
    PROVE  Room'
<1>1. IsFiniteSet(Arriving) /\ Len(requests) + Cardinality(Arriving) <= MaxRequests
  BY DEF ResolutionsInv, RunsInv, Room
<1>2. IsFiniteSet(Arriving') /\ Cardinality(Arriving') <= Cardinality(Arriving)
  BY <1>1, FS_Subset
<1>3. Cardinality(Arriving) \in Nat /\ Cardinality(Arriving') \in Nat /\ Len(requests) \in Nat
  BY <1>1, <1>2, FS_CardinalityType, LenProperties DEF ResolutionsInv, RunsInv, TypeOK
<1>4. QED
  BY <1>1, <1>2, <1>3 DEF Room

\* A request begins only when there is room for its row.
LEMMA RoomForOne ==
    ASSUME ResolutionsInv, NEW h \in Handlers, Promised < MaxRequests, requests' = requests,
           Arriving' \subseteq Arriving \cup {h}
    PROVE  Room'
<1>1. IsFiniteSet(Arriving) /\ Len(requests) + Cardinality(Arriving) < MaxRequests
  BY DEF ResolutionsInv, RunsInv, Room, Promised, Arriving
<1>c. Cardinality(Arriving) \in Nat
  BY <1>1, FS_CardinalityType
<1>2. /\ IsFiniteSet(Arriving \cup {h})
      /\ Cardinality(Arriving \cup {h}) <= Cardinality(Arriving) + 1
  <2>1. /\ IsFiniteSet(Arriving \cup {h})
        /\ Cardinality(Arriving \cup {h}) =
             IF h \in Arriving THEN Cardinality(Arriving) ELSE Cardinality(Arriving) + 1
    BY <1>1, FS_AddElement
  <2>2. QED
    BY <1>c, <2>1
<1>3. IsFiniteSet(Arriving') /\ Cardinality(Arriving') <= Cardinality(Arriving \cup {h})
  BY <1>2, FS_Subset
<1>4. /\ Cardinality(Arriving) \in Nat /\ Cardinality(Arriving') \in Nat
      /\ Cardinality(Arriving \cup {h}) \in Nat /\ Len(requests) \in Nat
  BY <1>1, <1>2, <1>3, FS_CardinalityType, LenProperties DEF ResolutionsInv, RunsInv, TypeOK
<1>5. QED
  BY <1>1, <1>2, <1>3, <1>4 DEF Room

\* The row of a request takes the room that was kept for it.
LEMMA RoomIsTaken ==
    ASSUME ResolutionsInv, NEW h \in Arriving, Len(requests') = Len(requests) + 1,
           Arriving' \subseteq Arriving \ {h}
    PROVE  Room' /\ Len(requests) < MaxRequests
<1>1. IsFiniteSet(Arriving) /\ Len(requests) + Cardinality(Arriving) <= MaxRequests
  BY DEF ResolutionsInv, RunsInv, Room
<1>2. /\ IsFiniteSet(Arriving \ {h})
      /\ Cardinality(Arriving \ {h}) = Cardinality(Arriving) - 1
  BY <1>1, FS_RemoveElement
<1>3. IsFiniteSet(Arriving') /\ Cardinality(Arriving') <= Cardinality(Arriving \ {h})
  BY <1>2, FS_Subset
<1>4. /\ Cardinality(Arriving) \in Nat /\ Cardinality(Arriving') \in Nat
      /\ Cardinality(Arriving \ {h}) \in Nat /\ Len(requests) \in Nat
  BY <1>1, <1>2, <1>3, FS_CardinalityType, LenProperties DEF ResolutionsInv, RunsInv, TypeOK
<1>5. QED
  BY <1>1, <1>2, <1>3, <1>4 DEF Room

-----------------------------------------------------------------------------
(* The steps, one by one.                                                  *)

\* A step that writes nothing.
LEMMA TablesStay ==
    ASSUME ResolutionsInv, UNCHANGED tables, NEW h \in Handlers
    PROVE  TablesGrow /\ OwnRowOnly(h) /\ NewRecordsTrue /\ StoredInOrder'
BY DEF tables, TablesGrow, OwnRowOnly, NewRecordsTrue, ResolutionsInv, StoreOK,
       StoredInOrder, Terminal

\* A request that ends, with an error or before it has a row.
LEMMA EndsEarly ==
    ASSUME ResolutionsInv, NEW h \in Handlers, NEW a \in Answer, Reply(h, a), AnswerOK(a),
           a.code # "OK", UNCHANGED tables, faults' \in 0 .. MaxFaults,
           \/ faults' = faults /\ req[h].stage \in {"idle", "read", "insert"}
           \/ faults' = faults + 1
    PROVE  HandlerStep(h) /\ Room'
<1>1. TypeOK /\ RunOK(req[h]) /\ faults \in Nat
  BY DEF ResolutionsInv, RunsInv, RunsOK, TypeOK
<1>2. /\ req' \in [Handlers -> Request] /\ answers' \in [Handlers -> Answer]
      /\ req'[h] = Idle /\ answers'[h] = a /\ OthersWait(h)
  BY <1>1, ReplyMoves
<1>3. TypeOK'
  BY <1>1, <1>2 DEF TypeOK, tables
<1>4. OwnRow(h)
  BY <1>1, <1>2, LenProperties DEF OwnRow, RunOK, BeforeRow, Idle, TypeOK, Ids
<1>5. AnswerOK(answers[h])'
  BY <1>2 DEF AnswerOK
<1>6. Arriving' \subseteq Arriving
  BY <1>2 DEF Arriving, Idle, OthersWait
<1>7. QED
  BY <1>2, <1>3, <1>4, <1>5, <1>6, TablesStay, IdleOK, RoomStays DEF HandlerStep, tables

\* Submit only starts a request of its own.
LEMMA SubmitStep ==
    ASSUME ResolutionsInv, NEW h \in Handlers, Submit(h) PROVE HandlerStep(h) /\ Room'
<1>1. CASE Reply(h, Error("INVALID"))
  BY <1>1, EndsEarly, ErrorTyped DEF Submit, Error, ResolutionsInv, RunsInv, TypeOK
<1>2. ASSUME NEW m \in Manifests, Promised < MaxRequests, UNCHANGED answers,
             req' = [req EXCEPT ![h] = [Idle EXCEPT !.stage = "insert", !.manifest = m]]
      PROVE  HandlerStep(h) /\ Room'
  <2> DEFINE r == [Idle EXCEPT !.stage = "insert", !.manifest = m]
  <2>1. r \in Request /\ r.stage = "insert" /\ r.of = 0 /\ r.id = 0 /\ r.manifest = m
        /\ r.outcome = Unresolved
    <3>1. r \in Request
      BY IdleTyped DEF Request, Stages
    <3>2. QED
      BY <3>1 DEF Idle
  <2> HIDE DEF r
  <2>2. /\ req' \in [Handlers -> Request] /\ req'[h] = r /\ OthersWait(h)
        /\ TypeOK /\ UNCHANGED tables /\ faults' = faults
    BY <1>2, <2>1 DEF r, ResolutionsInv, RunsInv, TypeOK, OthersWait, Submit
  <2>3. TypeOK'
    BY <1>2, <2>2 DEF TypeOK, tables
  <2>4. OwnRow(h)
    <3>1. req[h].id = 0
      BY DEF ResolutionsInv, RunsInv, RunsOK, RunOK, BeforeRow, Submit
    <3>2. QED
      BY <2>1, <2>2, <3>1 DEF OwnRow, Ids
  <2>5. RunOK(req[h])'
    BY <1>2, <2>1, <2>2 DEF RunOK, BeforeRow, RepeatsOriginal, WithRow, StoredSoFar
  <2>6. Arriving' \subseteq Arriving \cup {h}
    BY <2>2 DEF Arriving, OthersWait
  <2>7. QED
    BY <1>2, <2>2, <2>3, <2>4, <2>5, <2>6, TablesStay, RoomForOne DEF HandlerStep, tables
<1>3. QED
  BY <1>1, <1>2 DEF Submit

\* SubmitRerun only starts a request of its own.
LEMMA SubmitRerunStep ==
    ASSUME ResolutionsInv, NEW h \in Handlers, SubmitRerun(h)
    PROVE  HandlerStep(h) /\ Room'
<1>1. PICK i \in Ids : req' = [req EXCEPT ![h] = [Idle EXCEPT !.stage = "read", !.of = i]]
  BY DEF SubmitRerun
<1> DEFINE r == [Idle EXCEPT !.stage = "read", !.of = i]
<1>2. r \in Request /\ r.stage = "read" /\ r.of = i /\ i # 0 /\ r.id = 0
      /\ r.outcome = Unresolved
  <2>1. r \in Request
    <3>1. i \in 0 .. MaxRequests
      BY DEF Ids
    <3>2. QED
      BY <3>1, IdleTyped DEF Request, Stages
  <2>2. QED
    BY <2>1 DEF Idle, Ids
<1> HIDE DEF r
<1>3. /\ req' \in [Handlers -> Request] /\ req'[h] = r /\ OthersWait(h)
      /\ TypeOK /\ UNCHANGED tables /\ faults' = faults /\ answers' = answers
  BY <1>1, <1>2 DEF r, ResolutionsInv, RunsInv, TypeOK, OthersWait, SubmitRerun
<1>4. TypeOK'
  BY <1>3 DEF TypeOK, tables
<1>5. OwnRow(h)
  BY <1>2, <1>3 DEF OwnRow, ResolutionsInv, RunsInv, RunsOK, RunOK, BeforeRow, SubmitRerun, Ids
<1>6. RunOK(req[h])'
  BY <1>2, <1>3 DEF RunOK, BeforeRow, RepeatsOriginal, WithRow, StoredSoFar
<1>7. Arriving' \subseteq Arriving \cup {h}
  BY <1>3 DEF Arriving, OthersWait
<1>8. QED
  BY <1>3, <1>4, <1>5, <1>6, <1>7, TablesStay, RoomForOne DEF HandlerStep, SubmitRerun, tables

\* ReadOriginal only reads, or answers.
LEMMA ReadOriginalStep ==
    ASSUME ResolutionsInv, NEW h \in Handlers, ReadOriginal(h)
    PROVE  HandlerStep(h) /\ Room'
<1>1. CASE Reply(h, Error("NOT_FOUND"))
  BY <1>1, EndsEarly, ErrorTyped DEF ReadOriginal, Error, ResolutionsInv, RunsInv, TypeOK
<1>2. CASE /\ req[h].of \in DOMAIN requests /\ answers' = answers
           /\ req' = [req EXCEPT ![h].stage = "insert",
                                 ![h].manifest = requests[req[h].of].manifest]
  <2> DEFINE m == requests[req[h].of].manifest
             r == [req[h] EXCEPT !.stage = "insert", !.manifest = m]
  <2>1. /\ req[h] \in Request /\ RunOK(req[h]) /\ req[h].stage = "read" /\ TypeOK
        /\ UNCHANGED tables /\ faults' = faults
    BY RunTyped DEF ResolutionsInv, RunsInv, ReadOriginal
  <2>2. requests[req[h].of] \in Row /\ m \in Manifests
    <3>1. requests[req[h].of] \in Row
      BY <1>2, <2>1, LenProperties, ElementOfSeq DEF TypeOK
    <3>2. QED
      BY <3>1 DEF Row
  <2> HIDE DEF m
  <2>3. /\ r \in Request /\ r.stage = "insert" /\ r.of = req[h].of /\ r.id = 0
        /\ r.manifest = m /\ r.outcome = Unresolved
    BY <2>1, <2>2 DEF Request, Stages, RunOK, BeforeRow
  <2>4. req' = [req EXCEPT ![h] = r]
    BY <1>2, <2>1 DEF TypeOK, m
  <2> HIDE DEF r
  <2>5. req' \in [Handlers -> Request] /\ req'[h] = r /\ OthersWait(h)
    BY <1>2, <2>1, <2>3, <2>4 DEF TypeOK, OthersWait
  <2>6. TypeOK'
    BY <1>2, <2>1, <2>5 DEF TypeOK, tables
  <2>7. OwnRow(h)
    BY <2>1, <2>3, <2>5 DEF OwnRow, RunOK, BeforeRow, Ids
  <2>8. RunOK(req[h])'
    BY <1>2, <2>1, <2>2, <2>3, <2>5
    DEF RunOK, BeforeRow, RepeatsOriginal, WithRow, StoredSoFar, tables, m
  <2>9. Arriving' \subseteq Arriving
    BY <2>1, <2>5 DEF Arriving, OthersWait
  <2>10. QED
    BY <1>2, <2>1, <2>5, <2>6, <2>7, <2>8, <2>9, TablesStay, RoomStays DEF HandlerStep, tables
<1>3. QED
  BY <1>1, <1>2 DEF ReadOriginal

\* Insert adds one row, of its own.
LEMMA InsertStep ==
    ASSUME ResolutionsInv, NEW h \in Handlers, Insert(h)
    PROVE  HandlerStep(h) /\ Room'
<1> PICK n : n = Len(requests) + 1
  OBVIOUS
<1> PICK r : r = [req[h] EXCEPT !.stage = "engine", !.id = n]
  OBVIOUS
<1>1. /\ req[h] \in Request /\ RunOK(req[h]) /\ req[h].stage = "insert" /\ TypeOK
      /\ requests \in Seq(Row) /\ Len(requests) \in Nat
      /\ DOMAIN requests = 1 .. Len(requests)
  BY RunTyped, LenProperties DEF ResolutionsInv, RunsInv, TypeOK, Insert
<1>2. NewRow(h) \in Row /\ NewRow(h).status = "pending" /\ NewRow(h).manifest = req[h].manifest
  <2>1. req[h].manifest \in Manifests
    BY <1>1 DEF RunOK, BeforeRow
  <2>2. QED
    BY <2>1 DEF NewRow, Row, MaybeGraph
<1>3. /\ requests' \in Seq(Row) /\ Len(requests') = n /\ requests'[n] = NewRow(h)
      /\ \A i \in DOMAIN requests : requests'[i] = requests[i]
  BY <1>1, <1>2, AppendProperties DEF Insert
<1>d. DOMAIN requests' = 1 .. n
  BY <1>3, LenProperties
<1>4. /\ req' = [req EXCEPT ![h] = r]
      /\ r.stage = "engine" /\ r.id = n /\ r.of = req[h].of /\ r.manifest = req[h].manifest
      /\ r.outcome = Unresolved
  BY <1>1 DEF Insert, TypeOK, Request, RunOK, BeforeRow
<1>5. req'[h] = r /\ OthersWait(h) /\ (n \in 0 .. MaxRequests => r \in Request)
  BY <1>1, <1>4 DEF TypeOK, OthersWait, Insert, Request, Stages
<1>6. Room' /\ Len(requests) < MaxRequests
  <2>1. h \in Arriving /\ Arriving' \subseteq Arriving \ {h}
    BY <1>1, <1>4, <1>5 DEF Arriving, OthersWait
  <2>2. QED
    BY <1>3, <2>1, RoomIsTaken
<1>7. TypeOK'
  <2>1. n \in 0 .. MaxRequests
    BY <1>1, <1>6
  <2>2. req' \in [Handlers -> Request]
    BY <1>1, <1>4, <1>5, <2>1 DEF TypeOK
  <2>3. Len(requests') <= MaxRequests
    BY <1>1, <1>3, <1>6
  <2>4. QED
    BY <1>1, <1>3, <2>2, <2>3 DEF TypeOK, Insert
<1>8. TablesGrow /\ OwnRowOnly(h)
  BY <1>1, <1>2, <1>3, <1>d DEF TablesGrow, OwnRowOnly, Insert
<1>9. NewRecordsTrue
  BY DEF NewRecordsTrue, Insert
<1>10. StoredInOrder'
  BY <1>1, <1>3, <1>d DEF ResolutionsInv, StoreOK, StoredInOrder, Terminal, Insert
<1>11. OwnRow(h)
  <2>1. req[h].id = 0 /\ req'[h].id = n /\ faults' = faults
    BY <1>1, <1>4, <1>5 DEF RunOK, BeforeRow, Insert
  <2>2. QED
    BY <1>1, <2>1 DEF OwnRow, Ids
<1>12. RunOK(req[h])'
  <2>1. BeforeRow(r)' /\ StoredSoFar(r)'
    BY <1>4 DEF BeforeRow, StoredSoFar
  <2>2. RepeatsOriginal(r)'
    BY <1>1, <1>3, <1>4, <1>d DEF RunOK, RepeatsOriginal
  <2>3. WithRow(r)'
    BY <1>1, <1>2, <1>3, <1>4, <1>d DEF WithRow
  <2>4. QED
    BY <1>5, <2>1, <2>2, <2>3 DEF RunOK, BeforeRow, RepeatsOriginal, WithRow, StoredSoFar
<1>13. QED
  BY <1>5, <1>6, <1>7, <1>8, <1>9, <1>10, <1>11, <1>12 DEF HandlerStep, Insert

-----------------------------------------------------------------------------
(* From here on the request has a row.                                     *)

\* A write for the own row, or none.
OwnWrite(h) ==
    /\ requests' \in Seq(Row) /\ Len(requests') = Len(requests)
    /\ nodes' \in [Ids -> MaybeGraph] /\ lockfiles' \in [Ids -> MaybeGraph]
    /\ changes' \in Seq(Change) /\ faults' \in 0 .. MaxFaults
    /\ faults' = 0 => faults = 0
    /\ StoredInOrder' /\ NewRecordsTrue /\ TablesGrow /\ OwnRowOnly(h)

HasRow(h) == req[h].stage \notin {"idle", "read", "insert"}

\* A step that leaves the tables alone writes nothing of another run.
LEMMA WritesNothing ==
    ASSUME ResolutionsInv, NEW h \in Handlers, UNCHANGED tables,
           faults' \in 0 .. MaxFaults, faults' = 0 => faults = 0
    PROVE  OwnWrite(h)
BY TablesStay DEF OwnWrite, tables, ResolutionsInv, RunsInv, TypeOK

\* A handler that goes on with its row, having written only to its own run.
LEMMA GoesOn ==
    ASSUME ResolutionsInv, NEW h \in Handlers, HasRow(h), OwnWrite(h), answers' = answers,
           NEW r \in Request, req' = [req EXCEPT ![h] = r], RunOK(req[h])',
           r.id = req[h].id, r.stage \notin {"idle", "read", "insert"}
    PROVE  HandlerStep(h) /\ Room'
<1>1. TypeOK /\ req[h] \in Request /\ req[h].id \in Ids /\ Len(requests) \in Nat
      /\ req[h].id \in DOMAIN requests
  BY RunTyped, LenProperties DEF ResolutionsInv, RunsInv, TypeOK, HasRow
<1>2. req' \in [Handlers -> Request] /\ req'[h] = r /\ OthersWait(h)
  BY <1>1 DEF TypeOK, OthersWait
<1>3. TypeOK'
  BY <1>1, <1>2 DEF TypeOK, OwnWrite
<1>4. OwnRow(h)
  BY <1>1, <1>2, LenProperties DEF OwnRow, OwnWrite, Ids, TypeOK
<1>5. Arriving' \subseteq Arriving
  BY <1>2 DEF Arriving, OthersWait
<1>6. QED
  BY <1>2, <1>3, <1>4, <1>5, RoomStays DEF HandlerStep, OwnWrite

\* A run is over, and whole unless something failed.
LEMMA EndsWell ==
    ASSUME ResolutionsInv, NEW h \in Handlers, OwnWrite(h),
           requests' = requests, nodes' = nodes, ReplyRerun(h),
           req[h].stage \in {"audit", "lockfile", "auditRerun"},
           NEW i, i = req[h].id, NEW o, o = req[h].outcome,
           o.status = "succeeded" => lockfiles'[i] = o.graph,
           faults' = 0 => Recorded(i)'
    PROVE  HandlerStep(h) /\ Room'
<1>1. /\ TypeOK /\ RunOK(req[h]) /\ req[h] \in Request /\ i \in Ids /\ i \in DOMAIN requests
      /\ o \in Outcomes /\ requests[i].status = o.status /\ requests[i].graph = o.graph
      /\ requests[i].error = ErrorOf(o) /\ nodes[i] = o.graph
  BY RunTyped DEF ResolutionsInv, RunsInv, RunOK, WithRow, StoredSoFar
<1> DEFINE a == [code |-> "OK", id |-> i, outcome |-> o]
<1>2. a \in Answer
  BY <1>1 DEF Answer, Ids
<1>3. Reply(h, a)
  BY DEF ReplyRerun
<1>a. a.code = "OK" /\ a.id = i /\ a.outcome = o
  OBVIOUS
<1> HIDE DEF a
<1>4. /\ req' \in [Handlers -> Request] /\ answers' \in [Handlers -> Answer]
      /\ req'[h] = Idle /\ answers'[h] = a /\ OthersWait(h)
  BY <1>1, <1>2, <1>3, ReplyMoves
<1>5. TypeOK'
  BY <1>1, <1>4 DEF TypeOK, OwnWrite
<1>6. AnswerOK(answers[h])'
  BY <1>1, <1>4, <1>a DEF AnswerOK
<1>7. Whole(i)' \/ faults' # 0
  BY <1>1 DEF Whole
<1>8. OwnRow(h)
  BY <1>1, <1>4, <1>7, LenProperties DEF OwnRow, Idle, OwnWrite, TypeOK
<1>9. Arriving' \subseteq Arriving
  BY <1>4 DEF Arriving, Idle, OthersWait
<1>10. QED
  BY <1>4, <1>5, <1>6, <1>8, <1>9, IdleOK, RoomStays DEF HandlerStep, OwnWrite

\* The last step of a plain resolve; a rerun has its record to leave.
LEMMA CompleteStep ==
    ASSUME ResolutionsInv, NEW h \in Handlers, OwnWrite(h),
           requests' = requests, nodes' = nodes, Complete(h),
           req[h].stage \in {"audit", "lockfile"},
           NEW i, i = req[h].id, NEW o, o = req[h].outcome,
           o.status = "succeeded" => lockfiles'[i] = o.graph,
           faults' = 0 => Recorded(i)'
    PROVE  HandlerStep(h) /\ Room'
<1>1. CASE req[h].of = 0
  BY <1>1, EndsWell DEF Complete, ReplyRerun
<1>2. CASE req[h].of # 0
  <2> PICK r : r = [req[h] EXCEPT !.stage = "auditRerun"]
    OBVIOUS
  <2>1. /\ TypeOK /\ RunOK(req[h]) /\ req[h] \in Request
        /\ i \in DOMAIN requests
    BY RunTyped DEF ResolutionsInv, RunsInv
  <2>2. /\ r \in Request /\ r.stage = "auditRerun" /\ r.of = req[h].of /\ r.id = i
        /\ r.manifest = req[h].manifest /\ r.outcome = o
    BY <2>1 DEF Request, Stages
  <2>3. req' = [req EXCEPT ![h] = r] /\ answers' = answers
    BY <1>2 DEF Complete, Goto
  <2>4. req'[h] = r
    BY <2>1, <2>3 DEF TypeOK
  <2>5. RunOK(req[h])'
    <3>1. BeforeRow(r)' /\ RepeatsOriginal(r)' /\ WithRow(r)'
      BY <2>1, <2>2 DEF RunOK, BeforeRow, RepeatsOriginal, WithRow
    <3>2. StoredSoFar(r)'
      BY <1>2, <2>1, <2>2 DEF RunOK, StoredSoFar
    <3>3. QED
      BY <2>4, <3>1, <3>2 DEF RunOK, BeforeRow, RepeatsOriginal, WithRow, StoredSoFar
  <2>6. QED
    BY <2>2, <2>3, <2>5, GoesOn DEF HasRow
<1>3. QED
  BY <1>1, <1>2

\* Resolve writes to the run of its handler alone.
LEMMA ResolveStep ==
    ASSUME ResolutionsInv, NEW h \in Handlers, Resolve(h)
    PROVE  HandlerStep(h) /\ Room'
<1>1. PICK o \in Outcomes : req' = [req EXCEPT ![h].stage = "finish", ![h].outcome = o]
  BY DEF Resolve
<1>2. PICK r : r = [req[h] EXCEPT !.stage = "finish", !.outcome = o]
  OBVIOUS
<1>3. /\ TypeOK /\ RunOK(req[h]) /\ req[h] \in Request /\ req[h].stage = "engine"
      /\ UNCHANGED tables /\ faults' = faults /\ answers' = answers
  BY RunTyped DEF ResolutionsInv, RunsInv, Resolve
<1>4. /\ r \in Request /\ r.stage = "finish" /\ r.of = req[h].of /\ r.id = req[h].id
      /\ r.manifest = req[h].manifest /\ r.outcome = o /\ req' = [req EXCEPT ![h] = r]
  BY <1>1, <1>2, <1>3 DEF Request, Stages, TypeOK
<1>5. req'[h] = r
  BY <1>3, <1>4 DEF TypeOK
<1>6. RunOK(req[h])'
  BY <1>3, <1>4, <1>5
  DEF RunOK, BeforeRow, RepeatsOriginal, WithRow, StoredSoFar, tables
<1>7. OwnWrite(h)
  BY <1>3, WritesNothing DEF TypeOK
<1>8. QED
  BY <1>3, <1>4, <1>6, <1>7, GoesOn DEF HasRow

\* The row is finished while nothing else is stored for it.
LEMMA FinishStep ==
    ASSUME ResolutionsInv, NEW h \in Handlers, Finish(h)
    PROVE  HandlerStep(h) /\ Room'
<1>1. PICK o : o = req[h].outcome
  OBVIOUS
<1>2. PICK i : i = req[h].id
  OBVIOUS
<1>3. PICK stage \in {"nodes", "audit"} :
        /\ Goto(h, stage) /\ (stage = "nodes" <=> o.graph # NoGraph)
  BY <1>1 DEF Finish
<1>4. PICK r : r = [req[h] EXCEPT !.stage = stage]
  OBVIOUS
<1>5. /\ TypeOK /\ RunOK(req[h]) /\ req[h] \in Request /\ req[h].stage = "finish"
      /\ i \in DOMAIN requests /\ i \in Ids /\ requests[i] \in Row
      /\ o \in Outcomes /\ requests[i].status = "pending"
      /\ requests \in Seq(Row) /\ Len(requests) \in Nat
      /\ DOMAIN requests = 1 .. Len(requests)
  BY <1>1, <1>2, RunTyped, LenProperties
  DEF ResolutionsInv, RunsInv, Finish, RunOK, WithRow, TypeOK
<1>6. PICK row : row = [requests[i] EXCEPT !.status = o.status, !.graph = o.graph,
                          !.error = ErrorOf(o)]
  OBVIOUS
<1>7. /\ row \in Row /\ row.status = o.status /\ row.graph = o.graph
      /\ row.error = ErrorOf(o)
      /\ row.manifest = requests[i].manifest /\ requests' = [requests EXCEPT ![i] = row]
  <2>1. /\ o.status \in {"succeeded", "failed"} /\ o.graph \in MaybeGraph
        /\ o.status = "failed" => o.diags \in Diags
    BY <1>5 DEF Outcomes, MaybeGraph
  <2>2. requests' = [requests EXCEPT ![i] = row]
    BY <1>1, <1>2, <1>5, <1>6 DEF Finish
  <2>3. ErrorOf(o) \in {""} \cup {Head(d) : d \in Diags}
    BY <2>1 DEF ErrorOf
  <2>4. QED
    BY <1>5, <1>6, <2>1, <2>2, <2>3 DEF Row
<1>8. /\ requests' \in Seq(Row) /\ Len(requests') = Len(requests) /\ requests'[i] = row
      /\ DOMAIN requests' = DOMAIN requests
      /\ \A j \in DOMAIN requests : j # i => requests'[j] = requests[j]
  BY <1>5, <1>7, ExceptSeq
<1>9. nodes[i] = NoGraph /\ lockfiles[i] = NoGraph
  <2>1. nodes[i] = NoGraph
    BY <1>5 DEF ResolutionsInv, StoreOK, StoredInOrder, Terminal
  <2>2. lockfiles[i] = NoGraph
    BY <1>5 DEF ResolutionsInv, StoreOK, StoredInOrder
  <2>3. QED
    BY <2>1, <2>2
<1>f. UNCHANGED <<nodes, lockfiles, changes, answers, faults>>
  BY DEF Finish
<1>10. TablesGrow /\ OwnRowOnly(h)
  BY <1>f, <1>2, <1>5, <1>7, <1>8 DEF TablesGrow, OwnRowOnly
<1>11. StoredInOrder'
  <2> SUFFICES ASSUME NEW j \in Ids, j # i
               PROVE  /\ nodes[j] # NoGraph =>
                           Terminal(j)' /\ nodes[j] = requests'[j].graph
                      /\ lockfiles[j] # NoGraph =>
                           requests'[j].status = "succeeded" /\ lockfiles[j] = nodes[j]
    BY <1>f, <1>9 DEF StoredInOrder
  <2>1. /\ nodes[j] # NoGraph => Terminal(j) /\ nodes[j] = requests[j].graph
        /\ lockfiles[j] # NoGraph =>
             requests[j].status = "succeeded" /\ lockfiles[j] = nodes[j]
    BY DEF ResolutionsInv, StoreOK, StoredInOrder
  <2>2. QED
    BY <1>8, <2>1 DEF Terminal
<1>12. OwnWrite(h)
  BY <1>f, <1>5, <1>8, <1>10, <1>11 DEF OwnWrite, NewRecordsTrue, TypeOK
<1>13. /\ r \in Request /\ r.stage = stage /\ r.of = req[h].of /\ r.id = i
       /\ r.manifest = req[h].manifest /\ r.outcome = o /\ req' = [req EXCEPT ![h] = r]
       /\ req'[h] = r
  BY <1>1, <1>2, <1>3, <1>4, <1>5 DEF Request, Stages, Goto, TypeOK
<1>14. RunOK(req[h])'
  <2>1. RepeatsOriginal(req[h])'
    <3>1. r.of # 0 =>
            /\ r.of \in DOMAIN requests /\ requests[r.of].manifest = r.manifest /\ r.of < r.id
      BY <1>2, <1>5, <1>13 DEF RunOK, RepeatsOriginal, Ids
    <3>2. QED
      BY <1>10, <1>13, <3>1 DEF RepeatsOriginal, TablesGrow
  <2>2. BeforeRow(req[h])' /\ WithRow(req[h])'
    BY <1>2, <1>5, <1>7, <1>8, <1>13 DEF RunOK, BeforeRow, WithRow
  <2>3. StoredSoFar(req[h])'
    BY <1>f, <1>3, <1>9, <1>13 DEF StoredSoFar
  <2>4. QED
    BY <2>1, <2>2, <2>3 DEF RunOK
<1>15. QED
  BY <1>f, <1>2, <1>5, <1>12, <1>13, <1>14, GoesOn DEF HasRow

\* SaveNodes writes to the run of its handler alone.
LEMMA SaveNodesStep ==
    ASSUME ResolutionsInv, NEW h \in Handlers, SaveNodes(h)
    PROVE  HandlerStep(h) /\ Room'
<1>1. PICK i : i = req[h].id
  OBVIOUS
<1>2. PICK r : r = [req[h] EXCEPT !.stage = "audit"]
  OBVIOUS
<1>3. PICK g : g = req[h].outcome.graph
  OBVIOUS
<1>4. /\ TypeOK /\ RunOK(req[h]) /\ req[h] \in Request /\ req[h].stage = "nodes"
      /\ i \in DOMAIN requests /\ i \in Ids /\ requests[i] \in Row
      /\ requests[i].status # "pending" /\ requests[i].graph = g
      /\ UNCHANGED <<requests, lockfiles, changes, answers, faults>>
      /\ nodes' = [nodes EXCEPT ![i] = g]
  <2>1. /\ TypeOK /\ RunOK(req[h]) /\ req[h] \in Request /\ req[h].stage = "nodes"
        /\ i \in DOMAIN requests /\ i \in Ids /\ requests[i] \in Row
    BY <1>1, RunTyped DEF ResolutionsInv, RunsInv, SaveNodes
  <2>2. requests[i].status # "pending" /\ requests[i].graph = g
    BY <1>1, <1>3, <2>1 DEF RunOK, WithRow, Outcomes
  <2>3. QED
    BY <1>1, <1>3, <2>1, <2>2 DEF SaveNodes
<1>5. nodes' \in [Ids -> MaybeGraph] /\ nodes'[i] = g
      /\ \A j \in Ids : j # i => nodes'[j] = nodes[j]
  BY <1>4 DEF TypeOK, Row
<1>6. nodes[i] # NoGraph => nodes[i] = g
  BY <1>4 DEF ResolutionsInv, StoreOK, StoredInOrder
<1>7. TablesGrow /\ OwnRowOnly(h)
  BY <1>1, <1>4, <1>5, <1>6, LenProperties DEF TablesGrow, OwnRowOnly, TypeOK, Ids
<1>8. StoredInOrder'
  <2> SUFFICES ASSUME NEW j \in Ids
               PROVE  /\ nodes'[j] # NoGraph => Terminal(j) /\ nodes'[j] = requests[j].graph
                      /\ lockfiles[j] # NoGraph =>
                           requests[j].status = "succeeded" /\ lockfiles[j] = nodes'[j]
    BY <1>4 DEF StoredInOrder, Terminal
  <2>1. /\ nodes[j] # NoGraph => Terminal(j) /\ nodes[j] = requests[j].graph
        /\ lockfiles[j] # NoGraph =>
             requests[j].status = "succeeded" /\ lockfiles[j] = nodes[j]
    BY DEF ResolutionsInv, StoreOK, StoredInOrder
  <2>2. QED
    BY <1>4, <1>5, <1>6, <2>1 DEF Terminal
<1>9. OwnWrite(h)
  BY <1>4, <1>5, <1>7, <1>8 DEF OwnWrite, NewRecordsTrue, TypeOK
<1>10. /\ r \in Request /\ r.stage = "audit" /\ r.of = req[h].of /\ r.id = i
       /\ r.manifest = req[h].manifest /\ r.outcome = req[h].outcome
       /\ req' = [req EXCEPT ![h] = r] /\ req'[h] = r
  BY <1>1, <1>2, <1>4 DEF Request, Stages, Goto, TypeOK, SaveNodes
<1>11. RunOK(req[h])'
  <2>1. BeforeRow(req[h])' /\ RepeatsOriginal(req[h])' /\ WithRow(req[h])'
    BY <1>1, <1>4, <1>10 DEF RunOK, BeforeRow, RepeatsOriginal, WithRow
  <2>2. StoredSoFar(req[h])'
    BY <1>3, <1>5, <1>10 DEF StoredSoFar
  <2>3. QED
    BY <2>1, <2>2 DEF RunOK
<1>12. QED
  BY <1>1, <1>4, <1>9, <1>10, <1>11, GoesOn DEF HasRow

\* What a change record that is appended does.
LEMMA AppendsRecord ==
    ASSUME ResolutionsInv, NEW h \in Handlers, NEW c \in Change,
           changes' = Append(changes, c), UNCHANGED <<requests, nodes, lockfiles, faults>>,
           \A j \in Ids : c = [id |-> j, action |-> "rerun"] => Repeated(j)
    PROVE  /\ OwnWrite(h)
           /\ \A j : c = [id |-> j, action |-> "resolve"] => Recorded(j)'
           /\ \A j : Recorded(j) => Recorded(j)'
<1>1. /\ TypeOK /\ changes \in Seq(Change) /\ Len(changes) \in Nat
      /\ DOMAIN changes = 1 .. Len(changes)
  BY LenProperties DEF ResolutionsInv, RunsInv, TypeOK
<1>2. /\ changes' \in Seq(Change) /\ Len(changes') = Len(changes) + 1
      /\ changes'[Len(changes) + 1] = c
      /\ \A k \in DOMAIN changes : changes'[k] = changes[k]
  BY <1>1, AppendProperties
<1>3. DOMAIN changes' = 1 .. Len(changes) + 1
  BY <1>2, LenProperties
<1>4. TablesGrow /\ OwnRowOnly(h)
  BY <1>1, <1>2, <1>3 DEF TablesGrow, OwnRowOnly
<1>5. NewRecordsTrue
  <2> SUFFICES ASSUME NEW k \in DOMAIN changes', NEW j \in Ids, k \notin DOMAIN changes,
                      changes'[k] = [id |-> j, action |-> "rerun"]
               PROVE  Repeated(j)'
    BY DEF NewRecordsTrue
  <2>1. k = Len(changes) + 1
    BY <1>1, <1>3
  <2>2. Repeated(j)
    BY <1>2, <2>1
  <2>3. QED
    BY <2>2 DEF Repeated, Terminal
<1>6. StoredInOrder'
  BY DEF ResolutionsInv, StoreOK, StoredInOrder, Terminal
<1>7. QED
  <2>1. OwnWrite(h)
    BY <1>1, <1>2, <1>4, <1>5, <1>6 DEF OwnWrite, TypeOK
  <2>2. \A j : c = [id |-> j, action |-> "resolve"] => Recorded(j)'
    BY <1>1, <1>2, <1>3 DEF Recorded
  <2>3. \A j : Recorded(j) => Recorded(j)'
    BY <1>4 DEF Recorded, TablesGrow
  <2>4. QED
    BY <2>1, <2>2, <2>3
\* After the record of the run, or without it.
LEMMA AfterAuditStep ==
    ASSUME ResolutionsInv, NEW h \in Handlers, req[h].stage = "audit", AfterAudit(h),
           OwnWrite(h), UNCHANGED <<requests, nodes, lockfiles>>,
           NEW i, i = req[h].id, faults' = 0 => Recorded(i)'
    PROVE  HandlerStep(h) /\ Room'
<1>1. PICK o : o = req[h].outcome
  OBVIOUS
<1>2. CASE o.status # "succeeded"
  <2>1. Complete(h)
    BY <1>1, <1>2 DEF AfterAudit
  <2>2. QED
    BY <1>1, <1>2, <2>1, CompleteStep
<1>3. CASE o.status = "succeeded"
  <2>1. PICK r : r = [req[h] EXCEPT !.stage = "lockfile"]
    OBVIOUS
  <2>2. /\ TypeOK /\ RunOK(req[h]) /\ req[h] \in Request /\ i \in DOMAIN requests
    BY RunTyped DEF ResolutionsInv, RunsInv
  <2>3. /\ r \in Request /\ r.stage = "lockfile" /\ r.of = req[h].of /\ r.id = i
        /\ r.manifest = req[h].manifest /\ r.outcome = o
        /\ req' = [req EXCEPT ![h] = r] /\ req'[h] = r /\ answers' = answers
    BY <1>1, <1>3, <2>1, <2>2 DEF Request, Stages, Goto, TypeOK, AfterAudit
  <2>4. RunOK(req[h])'
    <3>1. BeforeRow(req[h])' /\ RepeatsOriginal(req[h])' /\ WithRow(req[h])'
      BY <1>1, <2>2, <2>3 DEF RunOK, BeforeRow, RepeatsOriginal, WithRow
    <3>2. StoredSoFar(req[h])'
      BY <1>1, <1>3, <2>2, <2>3 DEF RunOK, StoredSoFar
    <3>3. QED
      BY <3>1, <3>2 DEF RunOK
  <2>5. QED
    BY <2>3, <2>4, GoesOn DEF HasRow
<1>4. QED
  BY <1>2, <1>3

\* Audit appends to the trail alone.
LEMMA AuditStep ==
    ASSUME ResolutionsInv, NEW h \in Handlers, Audit(h)
    PROVE  HandlerStep(h) /\ Room'
<1>1. PICK i : i = req[h].id
  OBVIOUS
<1>2. PICK c : c = [id |-> i, action |-> "resolve"]
  OBVIOUS
<1>3. /\ req[h].stage = "audit" /\ changes' = Append(changes, c) /\ AfterAudit(h)
      /\ UNCHANGED <<requests, nodes, lockfiles, faults>>
  BY <1>1, <1>2 DEF Audit
<1>4. c \in Change
  BY <1>1, <1>2, <1>3, RunTyped DEF ResolutionsInv, Change
<1>5. OwnWrite(h) /\ Recorded(i)'
  BY <1>2, <1>3, <1>4, AppendsRecord
<1>6. QED
  BY <1>1, <1>3, <1>5, AfterAuditStep

\* SaveLockfile writes to the run of its handler alone.
LEMMA SaveLockfileStep ==
    ASSUME ResolutionsInv, NEW h \in Handlers, SaveLockfile(h)
    PROVE  HandlerStep(h) /\ Room'
<1>1. PICK i : i = req[h].id
  OBVIOUS
<1>2. PICK o : o = req[h].outcome
  OBVIOUS
<1>3. /\ TypeOK /\ RunOK(req[h]) /\ req[h] \in Request /\ req[h].stage = "lockfile"
      /\ i \in DOMAIN requests /\ i \in Ids /\ requests[i] \in Row
      /\ requests[i].status = "succeeded" /\ requests[i].graph = o.graph
      /\ nodes[i] = o.graph /\ o.graph # NoGraph
      /\ UNCHANGED <<requests, nodes, changes, faults>> /\ Complete(h)
      /\ lockfiles' = [lockfiles EXCEPT ![i] = o.graph]
  <2>1. /\ TypeOK /\ RunOK(req[h]) /\ req[h] \in Request /\ req[h].stage = "lockfile"
        /\ i \in DOMAIN requests /\ i \in Ids /\ requests[i] \in Row
    BY <1>1, RunTyped DEF ResolutionsInv, RunsInv, SaveLockfile
  <2>2. /\ requests[i].status = "succeeded" /\ requests[i].graph = o.graph
        /\ nodes[i] = o.graph /\ o.graph # NoGraph
    BY <1>1, <1>2, <2>1 DEF RunOK, WithRow, StoredSoFar, Outcomes
  <2>3. QED
    BY <1>1, <1>2, <2>1, <2>2 DEF SaveLockfile
<1>5. lockfiles' \in [Ids -> MaybeGraph] /\ lockfiles'[i] = o.graph
      /\ \A j \in Ids : j # i => lockfiles'[j] = lockfiles[j]
  BY <1>3 DEF TypeOK, Row
<1>6. lockfiles[i] # NoGraph => lockfiles[i] = o.graph
  BY <1>3 DEF ResolutionsInv, StoreOK, StoredInOrder
<1>7. TablesGrow /\ OwnRowOnly(h)
  BY <1>1, <1>3, <1>5, <1>6, LenProperties DEF TablesGrow, OwnRowOnly, TypeOK, Ids
<1>8. StoredInOrder'
  <2> SUFFICES ASSUME NEW j \in Ids
               PROVE  /\ nodes[j] # NoGraph => Terminal(j) /\ nodes[j] = requests[j].graph
                      /\ lockfiles'[j] # NoGraph =>
                           requests[j].status = "succeeded" /\ lockfiles'[j] = nodes[j]
    BY <1>3 DEF StoredInOrder, Terminal
  <2>1. /\ nodes[j] # NoGraph => Terminal(j) /\ nodes[j] = requests[j].graph
        /\ lockfiles[j] # NoGraph =>
             requests[j].status = "succeeded" /\ lockfiles[j] = nodes[j]
    BY DEF ResolutionsInv, StoreOK, StoredInOrder
  <2>2. QED
    BY <1>3, <1>5, <2>1 DEF Terminal
<1>9. OwnWrite(h)
  BY <1>3, <1>5, <1>7, <1>8 DEF OwnWrite, NewRecordsTrue, TypeOK
<1>10. faults' = 0 => Recorded(i)'
  BY <1>1, <1>3 DEF RunOK, StoredSoFar, Recorded
<1>11. QED
  BY <1>1, <1>2, <1>3, <1>5, <1>9, <1>10, CompleteStep

\* AuditRerun appends the record of its own rerun.
LEMMA AuditRerunStep ==
    ASSUME ResolutionsInv, NEW h \in Handlers, AuditRerun(h)
    PROVE  HandlerStep(h) /\ Room'
<1>1. PICK i : i = req[h].id
  OBVIOUS
<1>2. PICK o : o = req[h].outcome
  OBVIOUS
<1>3. PICK c : c = [id |-> req[h].of, action |-> "rerun"]
  OBVIOUS
<1>4. /\ TypeOK /\ RunOK(req[h]) /\ req[h] \in Request /\ req[h].stage = "auditRerun"
      /\ i \in DOMAIN requests /\ i \in Ids /\ ReplyRerun(h)
      /\ changes' = Append(changes, c)
      /\ UNCHANGED <<requests, nodes, lockfiles, faults>>
  BY <1>1, <1>3, RunTyped DEF ResolutionsInv, RunsInv, AuditRerun
<1>5. c \in Change /\ Repeated(req[h].of)
  <2>1. /\ req[h].of \in DOMAIN requests /\ req[h].of < i
        /\ requests[req[h].of].manifest = requests[i].manifest
    BY <1>1, <1>4 DEF RunOK, RepeatsOriginal, WithRow, StoredSoFar, Ids
  <2>2. Terminal(i)
    BY <1>1, <1>4 DEF RunOK, WithRow, Terminal, Outcomes
  <2>3. req[h].of \in Ids
    BY <2>1, <1>4, LenProperties DEF TypeOK, Ids
  <2>4. QED
    BY <1>3, <1>4, <2>1, <2>2, <2>3 DEF Change, Repeated, Ids
<1>6. OwnWrite(h) /\ (Recorded(i) => Recorded(i)')
  BY <1>3, <1>4, <1>5, AppendsRecord
<1>7. faults' = 0 => Recorded(i)'
  BY <1>1, <1>4, <1>6 DEF RunOK, StoredSoFar
<1>8. o.status = "succeeded" => lockfiles'[i] = o.graph
  BY <1>1, <1>2, <1>4 DEF RunOK, StoredSoFar
<1>9. QED
  BY <1>1, <1>2, <1>4, <1>6, <1>7, <1>8, EndsWell

\* A statement that fails writes nothing, and ends the request or is passed over.
LEMMA StatementFailsStep ==
    ASSUME ResolutionsInv, NEW h \in Handlers, StatementFails(h)
    PROVE  HandlerStep(h) /\ Room'
<1>1. /\ UNCHANGED tables /\ UNCHANGED <<requests, nodes, lockfiles, changes>>
      /\ faults' = faults + 1 /\ faults' \in 0 .. MaxFaults
      /\ ~(faults' = 0) /\ faults \in Nat
  BY DEF StatementFails, tables, ResolutionsInv, RunsInv, TypeOK
<1>2. OwnWrite(h)
  BY <1>1, WritesNothing
<1>3. ASSUME NEW code \in {"NOT_FOUND", "INTERNAL"}, Reply(h, Error(code))
      PROVE  HandlerStep(h) /\ Room'
  BY <1>1, <1>3, EndsEarly, ErrorTyped DEF Error
<1>4. ASSUME req[h].stage = "audit", AfterAudit(h) PROVE HandlerStep(h) /\ Room'
  BY <1>1, <1>2, <1>4, AfterAuditStep
<1>5. ASSUME req[h].stage = "auditRerun", ReplyRerun(h) PROVE HandlerStep(h) /\ Room'
  <2>1. PICK i : i = req[h].id
    OBVIOUS
  <2>2. PICK o : o = req[h].outcome
    OBVIOUS
  <2>3. o.status = "succeeded" => lockfiles'[i] = o.graph
    BY <1>1, <1>5, <2>1, <2>2 DEF ResolutionsInv, RunsInv, RunsOK, RunOK, StoredSoFar
  <2>4. QED
    BY <1>1, <1>2, <1>5, <2>1, <2>2, <2>3, EndsWell
<1>6. QED
  BY <1>3, <1>4, <1>5 DEF StatementFails

\* After a crash nothing is in flight; all that was stored is as it was.
LEMMA CrashKeeps ==
    ASSUME ResolutionsInv, Crash PROVE ResolutionsInv'
<1>1. /\ UNCHANGED <<requests, nodes, lockfiles, changes, answers>>
      /\ req' = [h \in Handlers |-> Idle] /\ \A h \in Handlers : req'[h] = Idle
      /\ faults' \in 0 .. MaxFaults /\ ~(faults' = 0)
      /\ TypeOK /\ Len(requests) \in Nat
  BY LenProperties DEF Crash, tables, ResolutionsInv, RunsInv, TypeOK
<1>2. TypeOK'
  BY <1>1, IdleTyped DEF TypeOK
<1>3. Room'
  <2>1. Arriving' = {}
    BY <1>1 DEF Arriving, Idle
  <2>2. IsFiniteSet(Arriving') /\ Cardinality(Arriving') = 0
    BY <2>1, FS_EmptySet
  <2>3. QED
    BY <1>1, <2>2 DEF Room, TypeOK
<1>4. RunsOK' /\ RowsApart'
  BY <1>1, IdleOK DEF RunsOK, RowsApart, Idle
<1>5. StoreOK'
  BY <1>1 DEF ResolutionsInv, StoreOK, StoredInOrder, RerunRecordsTrue, Terminal
<1>6. AnswersOK'
  BY <1>1 DEF ResolutionsInv, AnswersOK, AnswerOK
<1>7. FinishedIsWhole'
  BY <1>1 DEF FinishedIsWhole
<1>8. QED
  BY <1>2, <1>3, <1>4, <1>5, <1>6, <1>7 DEF ResolutionsInv, RunsInv

-----------------------------------------------------------------------------
\* An empty history satisfies the invariant.
LEMMA InitEstablishes == Init => ResolutionsInv
<1> SUFFICES ASSUME Init PROVE ResolutionsInv
  OBVIOUS
<1>1. << >> \in Seq(Row) /\ << >> \in Seq(Change) /\ Len(<< >>) = 0 /\ DOMAIN << >> = {}
  OBVIOUS
<1>2. TypeOK
  BY <1>1, IdleTyped, ErrorTyped DEF Init, TypeOK, MaybeGraph
<1>3. Room
  <2>1. Arriving = {}
    BY DEF Arriving, Init, Idle
  <2>2. QED
    BY <1>1, <2>1, FS_EmptySet DEF Room, Init
<1>4. RunsOK /\ RowsApart
  BY DEF Init, RunsOK, RowsApart, RunOK, BeforeRow, RepeatsOriginal, WithRow, StoredSoFar, Idle
<1>5. StoreOK /\ FinishedIsWhole
  BY <1>1 DEF Init, StoreOK, StoredInOrder, RerunRecordsTrue, FinishedIsWhole
<1>6. AnswersOK
  BY DEF Init, AnswersOK, AnswerOK, Error
<1>7. QED
  BY <1>2, <1>3, <1>4, <1>5, <1>6 DEF ResolutionsInv, RunsInv

\* Every step of a handler only adds, and only to its own run.
LEMMA NextIsStep ==
    ASSUME ResolutionsInv, NEW h \in Handlers, Submit(h) \/ SubmitRerun(h) \/ Step(h)
    PROVE  HandlerStep(h) /\ Room'
<1>1. CASE Submit(h) \/ SubmitRerun(h) \/ ReadOriginal(h) \/ Insert(h)
  BY <1>1, SubmitStep, SubmitRerunStep, ReadOriginalStep, InsertStep
<1>2. CASE Resolve(h) \/ Finish(h) \/ SaveNodes(h)
  BY <1>2, ResolveStep, FinishStep, SaveNodesStep
<1>3. CASE Audit(h) \/ SaveLockfile(h) \/ AuditRerun(h) \/ StatementFails(h)
  BY <1>3, AuditStep, SaveLockfileStep, AuditRerunStep, StatementFailsStep
<1>4. QED
  BY <1>1, <1>2, <1>3 DEF Step

\* Every step keeps the invariant.
LEMMA NextKeeps == ResolutionsInv /\ [Next]_vars => ResolutionsInv'
<1> SUFFICES ASSUME ResolutionsInv, [Next]_vars PROVE ResolutionsInv'
  OBVIOUS
<1>1. ASSUME NEW h \in Handlers, Submit(h) \/ SubmitRerun(h) \/ Step(h)
      PROVE  ResolutionsInv'
  BY <1>1, NextIsStep, HandlerKeeps
<1>2. CASE Crash
  BY <1>2, CrashKeeps
<1>3. CASE UNCHANGED vars
  <2> USE <1>3 DEF vars
  <2>1. TypeOK' /\ Room' /\ RowsApart'
    BY DEF ResolutionsInv, RunsInv, TypeOK, Room, Arriving, RowsApart
  <2>2. RunsOK'
    BY DEF ResolutionsInv, RunsInv, RunsOK, RunOK, BeforeRow, RepeatsOriginal, WithRow,
           StoredSoFar, Recorded
  <2>3. StoreOK' /\ AnswersOK' /\ FinishedIsWhole'
    BY DEF ResolutionsInv, StoreOK, StoredInOrder, RerunRecordsTrue, Terminal, AnswersOK,
           AnswerOK, FinishedIsWhole, Working
  <2>4. QED
    BY <2>1, <2>2, <2>3 DEF ResolutionsInv, RunsInv
<1>4. QED
  BY <1>1, <1>2, <1>3 DEF Next

\* Whatever the step, the tables only grow.
LEMMA NextGrows == ResolutionsInv /\ [Next]_vars => TablesGrow
<1> SUFFICES ASSUME ResolutionsInv, [Next]_vars PROVE TablesGrow
  OBVIOUS
<1>1. ASSUME NEW h \in Handlers, Submit(h) \/ SubmitRerun(h) \/ Step(h) PROVE TablesGrow
  BY <1>1, NextIsStep DEF HandlerStep
<1>2. CASE Crash \/ UNCHANGED vars
  <2>1. UNCHANGED <<requests, nodes, lockfiles, changes>>
    BY <1>2 DEF Crash, tables, vars
  <2>2. QED
    BY <2>1 DEF TablesGrow
<1>3. QED
  BY <1>1, <1>2 DEF Next

\* The invariant holds in every reachable state.
LEMMA Invariant == Spec => []ResolutionsInv
BY InitEstablishes, NextKeeps, PTL DEF Spec

\* Requests, rows, records and answers keep their types, and there is always
\* room for the rows that are to come.
THEOREM ResolutionsTyped == Spec => []TypeOK
<1>1. ResolutionsInv => TypeOK
  BY DEF ResolutionsInv, RunsInv
<1>2. QED
  BY <1>1, Invariant, PTL

\* However many runs overlap, each has a row of its own, which is finished
\* exactly when the run is past the UPDATE.
THEOREM RowsAreApart == Spec => []OneRunPerRow
<1>1. ResolutionsInv => OneRunPerRow
  <2> SUFFICES ASSUME ResolutionsInv, NEW h \in Handlers, req[h].id # 0
               PROVE  /\ requests[req[h].id].manifest = req[h].manifest
                      /\ req[h].stage \in {"engine", "finish"} <=> ~Terminal(req[h].id)
    BY DEF ResolutionsInv, RunsInv, RowsApart, OneRunPerRow
  <2>1. req[h] \in Request /\ RunOK(req[h])
    BY RunTyped DEF ResolutionsInv
  <2>2. req[h].stage \notin {"idle", "read", "insert"} /\ req[h].stage \in Stages
    BY <2>1 DEF RunOK, BeforeRow, Request
  <2>3. QED
    BY <2>1, <2>2 DEF RunOK, WithRow, Outcomes, Terminal, Stages
<1>2. QED
  BY <1>1, Invariant, PTL

\* Nodes, lockfile and row of a run agree at every moment, whatever interleaves,
\* fails or crashes between the statements that write them.
THEOREM StoreAgrees == Spec => []StoredInOrder
<1>1. ResolutionsInv => StoredInOrder
  BY DEF ResolutionsInv, StoreOK
<1>2. QED
  BY <1>1, Invariant, PTL

\* What a client was told of a run, the later diagnostics apart, is stored for
\* good: its status, its graph and nodes, the first diagnostic and the lockfile.
THEOREM AnswersStayTrue == Spec => []AnswersKept
<1>1. ASSUME NEW o \in Outcomes
      PROVE  ErrorOf(o) = IF o.diags = << >> THEN "" ELSE Head(o.diags)
  <2>1. o.status = "failed" => o.diags \in Diags /\ o.diags # << >>
    BY DEF Outcomes
  <2>2. o.status # "failed" => o.diags = << >>
    BY DEF Outcomes
  <2>3. QED
    BY <2>1, <2>2 DEF ErrorOf
<1>2. ResolutionsInv => AnswersKept
  BY <1>1 DEF ResolutionsInv, AnswersOK, AnswerOK, AnswersKept
<1>3. QED
  BY <1>2, Invariant, PTL

\* A record of a rerun is about a row that a later, finished run repeats.
THEOREM RerunsRecordedTruly == Spec => []RerunRecordsTrue
<1>1. ResolutionsInv => RerunRecordsTrue
  BY DEF ResolutionsInv, StoreOK
<1>2. QED
  BY <1>1, Invariant, PTL

\* While nothing fails, what a run that is over leaves is whole.
THEOREM NothingHalfDone == Spec => []FinishedIsWhole
<1>1. ResolutionsInv => FinishedIsWhole
  BY DEF ResolutionsInv
<1>2. QED
  BY <1>1, Invariant, PTL

\* A finished row, its nodes and its lockfile never change again.
THEOREM FinishedForGood == Spec => TerminalForGood
<1> DEFINE Stay ==
      \A i \in Ids :
         /\ Terminal(i) => i \in DOMAIN requests' /\ requests'[i] = requests[i]
         /\ nodes[i] # NoGraph => nodes'[i] = nodes[i]
         /\ lockfiles[i] # NoGraph => lockfiles'[i] = lockfiles[i]
<1>1. ResolutionsInv /\ [Next]_vars => [Stay]_vars
  <2> SUFFICES ASSUME ResolutionsInv, Next PROVE Stay
    OBVIOUS
  <2>1. TablesGrow
    BY NextGrows
  <2>2. QED
    BY <2>1 DEF TablesGrow, Terminal
<1>2. QED
  BY <1>1, Invariant, PTL DEF Spec, TerminalForGood
-----------------------------------------------------------------------------
(* History: the inductive invariant.                                       *)

USE LimitsOK

\* What the reader of a detail remembers is of a row that exists; what was
\* pinned is the graph of a row that had succeeded with its nodes; a row that was
\* finished when it was read is read as it still is.
DetailOK ==
    /\ detail \in Detail
    /\ detail.stage # "none" =>
         /\ detail.id \in DOMAIN requests
         /\ detail.pinned # NoGraph =>
              /\ requests[detail.id].status = "succeeded"
              /\ nodes[detail.id] = detail.pinned
    /\ detail.stage \in {"nodes", "done"} =>
         ((detail.row.status # "pending" \/ detail.pinned # NoGraph) =>
             detail.row = requests[detail.id])
    /\ detail.stage = "done" =>
         /\ detail.nodes # NoGraph =>
              /\ requests[detail.id].status # "pending"
              /\ detail.nodes = requests[detail.id].graph
         /\ detail.pinned # NoGraph => detail.nodes = detail.pinned

\* The rows of a listing that are listed before row i are those above it.
Above(L, i) == {j \in L : j > i}

Rank(L, i) == Cardinality(Above(L, i))

\* Listings no row leaves.
Stable(l) == l.table = "requests" => l.status # "pending"

\* Each row that was due is still listed and has been shown, or is yet to come:
\* on this page or a later one while the scan goes on, on none at its end.
ScanOK ==
    /\ scan \in Scan
    /\ scan.stage # "none" => scan.of \in Listings /\ scan.limit # 0
    /\ (scan.stage # "none" /\ Stable(scan.of)) =>
         \A i \in scan.due \ scan.seen :
            /\ scan.stage = "paging" /\ i \in Listed(scan.of)
            /\ scan.offset <= Rank(Listed(scan.of), i)

HistoryInv == ResolutionsInv /\ DetailOK /\ ScanOK

-----------------------------------------------------------------------------
(* Ranks in a listing.                                                     *)

\* The rank of a row in a list is a natural number.
LEMMA RankIsNatural ==
    ASSUME NEW L \in SUBSET Nat, IsFiniteSet(L), NEW j \in L
    PROVE  IsFiniteSet(Above(L, j)) /\ Rank(L, j) \in Nat
<1>1. Above(L, j) \in SUBSET L
  BY DEF Above
<1>2. QED
  BY <1>1, FS_Subset, FS_CardinalityType DEF Rank

\* The row with the higher id has the smaller rank.
LEMMA HigherIsBefore ==
    ASSUME NEW L \in SUBSET Nat, IsFiniteSet(L), NEW j \in L, NEW k \in L, j > k
    PROVE  Rank(L, j) < Rank(L, k)
<1>1. Above(L, j) \subseteq Above(L, k) /\ j \in Above(L, k) /\ j \notin Above(L, j)
  <2>1. j \in Nat /\ k \in Nat /\ \A x \in L : x \in Nat
    OBVIOUS
  <2>2. \A x \in L : x > j => x > k
    BY <2>1
  <2>3. ~(j > j)
    BY <2>1
  <2>4. QED
    BY <2>2, <2>3 DEF Above
<1>2. IsFiniteSet(Above(L, k)) /\ Rank(L, j) \in Nat /\ Rank(L, k) \in Nat
  BY RankIsNatural
<1>3. Rank(L, j) <= Rank(L, k) /\ Rank(L, j) # Rank(L, k)
  BY <1>1, <1>2, FS_Subset DEF Rank
<1>4. QED
  BY <1>2, <1>3

\* The rows before row i have every rank from 0 up.
LEMMA RanksComplete ==
    ASSUME NEW L \in SUBSET Nat, IsFiniteSet(L), NEW i \in L
    PROVE  \A t \in 0 .. Rank(L, i) - 1 : \E j \in L : Rank(L, j) = t
<1> PICK A : A = Above(L, i)
  OBVIOUS
<1> PICK n : n = Rank(L, i)
  OBVIOUS
<1>1. n \in Nat /\ IsFiniteSet(A) /\ n = Cardinality(A)
  BY RankIsNatural DEF Rank
<1>2. \A j \in A : j \in L /\ j > i
  BY DEF Above
<1>3. \A j \in A : Rank(L, j) \in 0 .. n - 1
  <2> SUFFICES ASSUME NEW j \in A PROVE Rank(L, j) \in 0 .. n - 1
    OBVIOUS
  <2>1. j \in L /\ j > i /\ Rank(L, j) \in Nat
    BY <1>2, RankIsNatural
  <2>2. Rank(L, j) < n
    BY <2>1, HigherIsBefore
  <2>3. QED
    BY <1>1, <2>1, <2>2
<1> PICK r : r = [j \in A |-> Rank(L, j)]
  OBVIOUS
<1>4. r \in [A -> 0 .. n - 1]
  BY <1>3
<1>5. \A j, k \in A : r[j] = r[k] => j = k
  <2> SUFFICES ASSUME NEW j \in A, NEW k \in A, Rank(L, j) = Rank(L, k) PROVE j = k
    OBVIOUS
  <2>1. j \in Nat /\ k \in Nat /\ Rank(L, j) \in Nat
    BY <1>2, RankIsNatural
  <2>2. ~(j > k) /\ ~(k > j)
    BY <1>2, <2>1, HigherIsBefore
  <2>3. QED
    BY <2>1, <2>2
<1>6. r \in Injection(A, 0 .. n - 1)
  BY <1>4, <1>5, Fun_IsInj
<1>7. IsFiniteSet(0 .. n - 1) /\ Cardinality(0 .. n - 1) = n
  <2>1. 0 \in Int /\ n - 1 \in Int /\ (IF 0 > n - 1 THEN 0 ELSE n - 1 - 0 + 1) = n
    BY <1>1
  <2>2. QED
    BY <1>1, <2>1, FS_Interval
<1>8. r \in Surjection(A, 0 .. n - 1)
  BY <1>1, <1>6, <1>7, FS_Injection
<1> PICK T : T = 0 .. n - 1
  OBVIOUS
<1>9. \A t \in T : \E j \in A : r[j] = t
  <2>1. r \in Surjection(A, T)
    BY <1>8
  <2>2. QED
    BY ONLY <2>1, EveryValueTaken
<1>10. QED
  BY <1>2, <1>9

\* So those with ranks a to a + b - 1 are at least b, when a row has the rank
\* a + b or more.
LEMMA RanksFill ==
    ASSUME NEW L \in SUBSET Nat, IsFiniteSet(L), NEW i \in L, NEW a \in Nat, NEW b \in Nat,
           a + b <= Rank(L, i), NEW P,
           P = {j \in L : a <= Rank(L, j) /\ Rank(L, j) < a + b}
    PROVE  b <= Cardinality(P)
<1> PICK T : T = a .. a + b - 1
  OBVIOUS
<1> PICK g : g = [t \in T |-> CHOOSE j \in L : Rank(L, j) = t]
  OBVIOUS
<1>1. Rank(L, i) \in Nat
  BY RankIsNatural
<1>2. \A t \in T : t \in 0 .. Rank(L, i) - 1 /\ a <= t /\ t < a + b
  BY <1>1
<1>3. \A t \in T : g[t] \in L /\ Rank(L, g[t]) = t
  BY <1>2, RanksComplete
<1>4. g \in [T -> P] /\ \A s, t \in T : g[s] = g[t] => s = t
  BY <1>2, <1>3
<1>5. g \in Injection(T, P)
  BY <1>4, Fun_IsInj
<1>6. IsFiniteSet(P)
  <2>1. P \in SUBSET L
    OBVIOUS
  <2>2. QED
    BY <2>1, FS_Subset
<1>7. Cardinality(T) <= Cardinality(P)
  BY <1>5, <1>6, FS_Injection
<1>8. Cardinality(T) = b
  <2>1. a \in Int /\ a + b - 1 \in Int /\ (IF a > a + b - 1 THEN 0 ELSE a + b - 1 - a + 1) = b
    OBVIOUS
  <2>2. QED
    BY <2>1, FS_Interval
<1>9. QED
  BY <1>7, <1>8

\* Any set of indices of a sequence is a finite set of numbers.
LEMMA DomainFinite ==
    ASSUME NEW S, NEW s \in Seq(S), NEW D \in SUBSET DOMAIN s
    PROVE  D \in SUBSET Nat /\ IsFiniteSet(D)
<1>1. DOMAIN s = 1 .. Len(s) /\ Len(s) \in Nat
  BY LenProperties
<1>2. IsFiniteSet(1 .. Len(s))
  BY <1>1, FS_Interval
<1>3. QED
  BY <1>1, <1>2, FS_Subset

\* A list of the history is finite.
LEMMA ListedFinite ==
    ASSUME ResolutionsInv, NEW l
    PROVE  Listed(l) \in SUBSET Nat /\ IsFiniteSet(Listed(l))
<1>1. requests \in Seq(Row) /\ changes \in Seq(Change)
  BY DEF ResolutionsInv, RunsInv, TypeOK
<1>2. Listed(l) \in SUBSET DOMAIN requests \/ Listed(l) \in SUBSET DOMAIN changes
  BY DEF Listed
<1>3. QED
  BY <1>1, <1>2, DomainFinite

\* A row that is listed stays so, and others come before it only.
LEMMA ListingGrows ==
    ASSUME ResolutionsInv, ResolutionsInv', TablesGrow, NEW l \in Listings, Stable(l),
           NEW i \in Listed(l), NEW now, now = Listed(l), NEW next, next = Listed(l)'
    PROVE  /\ i \in next
           /\ Rank(now, i) \in Nat /\ Rank(next, i) \in Nat /\ Rank(now, i) <= Rank(next, i)
<1>1. now \subseteq next
  <2>1. CASE l.table = "requests"
    BY <2>1 DEF TablesGrow, Stable, Listed, Listings
  <2>2. CASE l.table # "requests"
    BY <2>2 DEF TablesGrow, Listed
  <2>3. QED
    BY <2>1, <2>2
<1>2. now \in SUBSET Nat /\ IsFiniteSet(now)
  BY ListedFinite
<1>3. next \in SUBSET Nat /\ IsFiniteSet(next)
  <2>1. requests' \in Seq(Row) /\ changes' \in Seq(Change)
    BY DEF ResolutionsInv, RunsInv, TypeOK
  <2>2. next \in SUBSET DOMAIN requests' \/ next \in SUBSET DOMAIN changes'
    BY DEF Listed
  <2>3. QED
    BY <2>1, <2>2, DomainFinite
<1>4. Rank(now, i) \in Nat /\ Rank(next, i) \in Nat /\ IsFiniteSet(Above(next, i))
  BY <1>1, <1>2, <1>3, RankIsNatural
<1>5. Above(now, i) \in SUBSET Above(next, i)
  BY <1>1 DEF Above
<1>6. QED
  BY <1>1, <1>4, <1>5, FS_Subset DEF Rank

-----------------------------------------------------------------------------
(* The readers.                                                            *)

\* Rows of the history are ids.
LEMMA RowsAreIds == TypeOK => DOMAIN requests \subseteq Ids
<1> SUFFICES ASSUME TypeOK PROVE DOMAIN requests \subseteq Ids
  OBVIOUS
<1>1. requests \in Seq(Row) /\ Len(requests) <= MaxRequests /\ MaxRequests \in Nat
  BY DEF TypeOK
<1>2. DOMAIN requests = 1 .. Len(requests) /\ Len(requests) \in Nat
  BY <1>1, LenProperties
<1>3. QED
  BY <1>1, <1>2 DEF Ids

\* The tables change under a reader of a detail.
LEMMA DetailStays ==
    ASSUME ResolutionsInv, ResolutionsInv', TablesGrow, DetailOK, detail' = detail
    PROVE  DetailOK'
<1>1. CASE detail.stage = "none"
  BY <1>1 DEF DetailOK
<1>2. CASE detail.stage # "none"
  <2>1. PICK i : i = detail.id
    OBVIOUS
  <2>2. /\ i \in DOMAIN requests /\ i \in DOMAIN requests' /\ i \in Ids
        /\ requests[i].status # "pending" => requests'[i] = requests[i]
    <3>1. i \in DOMAIN requests
      BY <1>2, <2>1 DEF DetailOK
    <3>2. DOMAIN requests \subseteq Ids
      BY RowsAreIds DEF ResolutionsInv, RunsInv
    <3>3. QED
      BY <3>1, <3>2 DEF TablesGrow
  <2>3. detail.pinned # NoGraph =>
          /\ requests[i].status = "succeeded" /\ requests'[i] = requests[i]
          /\ nodes[i] = detail.pinned /\ nodes'[i] = nodes[i]
    BY <1>2, <2>1, <2>2 DEF DetailOK, TablesGrow
  <2>4. detail.stage \in {"nodes", "done"}
          /\ (detail.row.status # "pending" \/ detail.pinned # NoGraph) =>
             detail.row = requests'[i]
    <3> SUFFICES ASSUME detail.stage \in {"nodes", "done"},
                        detail.row.status # "pending" \/ detail.pinned # NoGraph
                 PROVE  detail.row = requests'[i]
      OBVIOUS
    <3>1. detail.row = requests[i]
      BY <1>2, <2>1 DEF DetailOK
    <3>2. QED
      BY <2>2, <2>3, <3>1
  <2>5. detail.stage = "done" /\ detail.nodes # NoGraph =>
          requests'[i].status # "pending" /\ detail.nodes = requests'[i].graph
    BY <1>2, <2>1, <2>2 DEF DetailOK
  <2>6. detail.stage = "done" /\ detail.pinned # NoGraph => detail.nodes = detail.pinned
    BY <1>2 DEF DetailOK
  <2>7. detail \in Detail
    BY DEF DetailOK
  <2>8. DetailOK'
    BY <2>1, <2>2, <2>3, <2>4, <2>5, <2>6, <2>7 DEF DetailOK
  <2>9. QED
    BY <2>8
<1>3. QED
  BY <1>1, <1>2

\* A step of the runs, seen by the client.
LEMMA RunsGoOn ==
    ASSUME HistoryInv, [Next]_vars, UNCHANGED <<detail, scan>>
    PROVE  HistoryInv'
<1>1. ResolutionsInv /\ ResolutionsInv' /\ TablesGrow
  BY NextKeeps, NextGrows DEF HistoryInv
<1>2. DetailOK'
  BY <1>1, DetailStays DEF HistoryInv
<1>3. ScanOK'
  <2> SUFFICES ASSUME scan.stage # "none", Stable(scan.of), NEW i \in scan.due \ scan.seen
               PROVE  /\ scan.stage = "paging" /\ i \in Listed(scan.of)'
                      /\ scan.offset <= Rank(Listed(scan.of)', i)
    BY DEF HistoryInv, ScanOK, Stable
  <2>1. /\ scan.of \in Listings /\ scan.offset \in Nat
        /\ scan.stage = "paging" /\ i \in Listed(scan.of)
        /\ scan.offset <= Rank(Listed(scan.of), i)
    BY DEF HistoryInv, ScanOK, Scan
  <2> PICK l : l = scan.of
    OBVIOUS
  <2> PICK now : now = Listed(l)
    OBVIOUS
  <2>2. \E next : next = Listed(l)'
    OBVIOUS
  <2> PICK next : next = Listed(l)'
    BY <2>2
  <2>3. /\ i \in next /\ Rank(now, i) \in Nat /\ Rank(next, i) \in Nat
        /\ Rank(now, i) <= Rank(next, i)
    BY <1>1, <2>1, ListingGrows
  <2>4. next = Listed(scan.of)'
    BY DEF Listed
  <2>5. QED
    BY <2>1, <2>3, <2>4
<1>4. QED
  BY <1>1, <1>2, <1>3 DEF HistoryInv

\* A statement of the reader of a detail, or of a lockfile.
LEMMA DetailRead ==
    ASSUME HistoryInv, ReadLockfile \/ GetResolution, UNCHANGED vars
    PROVE  HistoryInv'
<1>1. ResolutionsInv'
  BY NextKeeps DEF HistoryInv
<1>2. scan' = scan
  BY DEF ReadLockfile, GetResolution
<1>3. ScanOK'
  BY <1>2 DEF HistoryInv, ScanOK, Stable, Listed, vars
<1>4. TypeOK /\ StoredInOrder /\ DOMAIN requests \subseteq Ids /\ DetailOK
  BY RowsAreIds DEF HistoryInv, ResolutionsInv, RunsInv, StoreOK
<1>5. requests' = requests /\ nodes' = nodes
  BY DEF vars
<1>6. DetailOK'
  <2>1. CASE ReadLockfile
    <3>1. PICK i \in DOMAIN requests :
            detail' = [NoDetail EXCEPT !.stage = "row", !.id = i, !.pinned = lockfiles[i]]
      BY <2>1 DEF ReadLockfile
    <3>2. i \in Ids /\ lockfiles[i] \in MaybeGraph /\ i \in 0 .. MaxRequests
      BY <1>4 DEF TypeOK, Ids
    <3>3. detail' = [stage |-> "row", id |-> i, pinned |-> lockfiles[i],
                     row |-> NoManifest, nodes |-> NoGraph]
      BY <3>1 DEF NoDetail
    <3>4. detail' \in Detail
      BY <3>2, <3>3 DEF Detail, MaybeGraph
    <3>5. lockfiles[i] # NoGraph =>
            requests[i].status = "succeeded" /\ nodes[i] = lockfiles[i]
      BY <1>4, <3>2 DEF StoredInOrder
    <3>6. QED
      BY <1>5, <3>3, <3>4, <3>5 DEF DetailOK
  <2>2. CASE detail.stage = "row" /\ GetResolution
    <3>1. detail' = [detail EXCEPT !.stage = "nodes", !.row = requests[detail.id]]
      BY <2>2 DEF GetResolution
    <3>2. detail.id \in DOMAIN requests /\ requests[detail.id] \in Row
      BY <1>4, <2>2 DEF DetailOK, TypeOK
    <3>3. /\ detail' \in Detail /\ detail'.stage = "nodes" /\ detail'.id = detail.id
          /\ detail'.pinned = detail.pinned /\ detail'.row = requests[detail.id]
      BY <1>4, <3>1, <3>2 DEF DetailOK, Detail
    <3>4. QED
      BY <1>4, <1>5, <2>2, <3>2, <3>3 DEF DetailOK
  <2>3. CASE detail.stage = "nodes" /\ GetResolution
    <3>1. detail' = [detail EXCEPT !.stage = "done", !.nodes = nodes[detail.id]]
      BY <2>3 DEF GetResolution
    <3>2. detail.id \in DOMAIN requests /\ detail.id \in Ids /\ nodes[detail.id] \in MaybeGraph
      BY <1>4, <2>3 DEF DetailOK, TypeOK
    <3>3. /\ detail' \in Detail /\ detail'.stage = "done" /\ detail'.id = detail.id
          /\ detail'.pinned = detail.pinned /\ detail'.row = detail.row
          /\ detail'.nodes = nodes[detail.id]
      BY <1>4, <3>1, <3>2 DEF DetailOK, Detail
    <3>4. nodes[detail.id] # NoGraph =>
            /\ requests[detail.id].status # "pending"
            /\ nodes[detail.id] = requests[detail.id].graph
      BY <1>4, <3>2 DEF StoredInOrder, Terminal
    <3>5. QED
      BY <1>4, <1>5, <2>3, <3>2, <3>3, <3>4 DEF DetailOK
  <2>4. QED
    BY <2>1, <2>2, <2>3 DEF GetResolution
<1>7. QED
  BY <1>1, <1>3, <1>6 DEF HistoryInv

\* A page has room for at least one row, whatever limit was given.
LEMMA LimitIsPositive ==
    ASSUME NEW given \in Limits
    PROVE  Limit(given) \in Nat \ {0}
BY DEF Limit

\* The scan begins with everything to come.
LEMMA BeginScanKeeps ==
    ASSUME HistoryInv, BeginScan, UNCHANGED vars
    PROVE  HistoryInv'
<1>1. ResolutionsInv'
  BY NextKeeps DEF HistoryInv
<1>2. detail' = detail /\ UNCHANGED <<requests, nodes, changes>>
  BY DEF BeginScan, vars
<1>3. DetailOK'
  BY <1>2 DEF HistoryInv, DetailOK
<1>4. PICK l \in Listings, n \in Limits :
        scan' = [NoScan EXCEPT !.stage = "paging", !.of = l, !.limit = Limit(n),
                               !.due = Listed(l)]
  BY DEF BeginScan
<1>5. scan' = [stage |-> "paging", of |-> l, limit |-> Limit(n), offset |-> 0,
               due |-> Listed(l), seen |-> {}]
  BY <1>4 DEF NoScan
<1>6. Listed(l)' = Listed(l)
  BY <1>2 DEF Listed
<1>7. \A i \in Listed(l) : Rank(Listed(l), i) \in Nat
  BY ListedFinite, RankIsNatural DEF HistoryInv
<1>8. ScanOK'
  <2>1. scan'.of = l /\ scan'.offset = 0 /\ scan'.stage = "paging" /\ scan'.due = Listed(l)
        /\ scan'.limit \in Nat \ {0}
    BY <1>5, LimitIsPositive
  <2>2. \A i \in Listed(l) : 0 <= Rank(Listed(l), i)
    BY <1>7
  <2>3. Listed(scan.of)' = Listed(l)
    BY <1>2, <2>1 DEF Listed
  <2>4. Listed(l) \in SUBSET Nat
    BY ListedFinite DEF HistoryInv
  <2>5. scan' \in Scan
    BY <1>5, <2>4, LimitIsPositive DEF Scan
  <2>6. QED
    BY <2>1, <2>2, <2>3, <2>5 DEF ScanOK
<1>9. QED
  BY <1>1, <1>3, <1>8 DEF HistoryInv

\* A page shows the rows of the ranks it stands for; one that is not full is the
\* last.
LEMMA NextPageKeeps ==
    ASSUME HistoryInv, NextPage, UNCHANGED vars
    PROVE  HistoryInv'
<1>1. ResolutionsInv'
  BY NextKeeps DEF HistoryInv
<1>2. detail' = detail /\ UNCHANGED <<requests, nodes, changes>>
  BY DEF NextPage, vars
<1>3. DetailOK'
  BY <1>2 DEF HistoryInv, DetailOK
<1> PICK L : L = Listed(scan.of)
  OBVIOUS
<1> PICK page : page = Page(scan.of, scan.limit, scan.offset)
  OBVIOUS
<1>4. page = {i \in L : scan.offset <= Rank(L, i) /\ Rank(L, i) < scan.offset + scan.limit}
  BY DEF Page, Rank, Above
<1>5. /\ scan.stage = "paging"
      /\ scan' = [scan EXCEPT !.seen = @ \cup page, !.offset = @ + scan.limit,
                    !.stage = IF Cardinality(page) < scan.limit THEN "done" ELSE @]
  BY DEF NextPage
<1>6. scan.of \in Listings /\ scan.limit \in Nat \ {0} /\ scan.offset \in Nat
  BY <1>5 DEF HistoryInv, ScanOK, Scan
<1>7. /\ scan'.of = scan.of /\ scan'.limit = scan.limit /\ scan'.due = scan.due
      /\ scan'.offset = scan.offset + scan.limit
      /\ scan'.seen = scan.seen \cup page
      /\ scan'.stage = IF Cardinality(page) < scan.limit THEN "done" ELSE "paging"
  BY <1>5 DEF HistoryInv, ScanOK, Scan
<1>8. L \in SUBSET Nat /\ IsFiniteSet(L)
  BY ListedFinite DEF HistoryInv
<1>9. Listed(scan.of)' = L
  BY <1>2, <1>7 DEF Listed
<1>10. ASSUME NEW i \in scan.due \ scan'.seen, Stable(scan.of)
       PROVE  /\ scan'.stage = "paging" /\ i \in L
              /\ scan'.offset <= Rank(L, i)
  <2>1. i \in L /\ scan.offset <= Rank(L, i) /\ i \notin page
    BY <1>5, <1>7, <1>10 DEF HistoryInv, ScanOK
  <2>2. Rank(L, i) \in Nat
    BY <1>8, <2>1, RankIsNatural
  <2>3. scan.offset + scan.limit <= Rank(L, i)
    BY <1>4, <1>6, <2>1, <2>2
  <2>4. scan.limit <= Cardinality(page)
    BY <1>4, <1>6, <1>8, <2>1, <2>3, RanksFill
  <2>5. Cardinality(page) \in Nat
    <3>1. page \in SUBSET L
      BY <1>4
    <3>2. QED
      BY <1>8, <3>1, FS_Subset, FS_CardinalityType
  <2>6. QED
    BY <1>6, <1>7, <2>1, <2>3, <2>4, <2>5
<1>11. scan' \in Scan
  <2>1. page \in SUBSET Nat
    BY <1>4, <1>8
  <2>2. scan \in Scan
    BY DEF HistoryInv, ScanOK
  <2> PICK stage : stage = IF Cardinality(page) < scan.limit THEN "done" ELSE "paging"
    OBVIOUS
  <2> PICK seen : seen = scan.seen \cup page
    OBVIOUS
  <2>3. seen \in SUBSET Nat /\ scan.offset + scan.limit \in Nat
        /\ stage \in {"none", "paging", "done"}
    BY <1>6, <2>1, <2>2 DEF Scan
  <2>4. scan' = [scan EXCEPT !.seen = seen, !.offset = scan.offset + scan.limit,
                   !.stage = stage]
    BY <1>5, <2>2 DEF Scan
  <2>5. QED
    BY ONLY <2>2, <2>3, <2>4 DEF Scan
<1>12. ScanOK'
  BY <1>6, <1>7, <1>9, <1>10, <1>11 DEF ScanOK, Stable
<1>13. QED
  BY <1>1, <1>3, <1>12 DEF HistoryInv

-----------------------------------------------------------------------------
\* A reader that has not started has nothing to be wrong about.
LEMMA HistoryBegins == HistoryInit => HistoryInv
<1> SUFFICES ASSUME HistoryInit PROVE HistoryInv
  OBVIOUS
<1>1. ResolutionsInv
  BY InitEstablishes DEF HistoryInit
<1>2. DetailOK /\ ScanOK
  BY DEF HistoryInit, DetailOK, ScanOK, NoDetail, NoScan, Detail, MaybeGraph,
         Scan
<1>3. QED
  BY <1>1, <1>2 DEF HistoryInv

\* Steps of readers and of runs keep what the readers hold true.
LEMMA HistoryGoesOn == HistoryInv /\ [HistoryNext]_historyVars => HistoryInv'
<1> SUFFICES ASSUME HistoryInv, [HistoryNext]_historyVars PROVE HistoryInv'
  OBVIOUS
<1>1. CASE Next /\ UNCHANGED <<detail, scan>>
  BY <1>1, RunsGoOn
<1>2. CASE Readers /\ UNCHANGED vars
  BY <1>2, DetailRead, BeginScanKeeps, NextPageKeeps DEF Readers
<1>3. CASE Rest \/ UNCHANGED historyVars
  BY <1>3, RunsGoOn DEF Rest, historyVars
<1>4. QED
  BY <1>1, <1>2, <1>3 DEF HistoryNext

\* It is true of every reachable state.
LEMMA HistoryInvariant == HistorySpec => []HistoryInv
BY HistoryBegins, HistoryGoesOn, PTL DEF HistorySpec

\* Who reads a lockfile and then the detail of the resolution, in two requests of
\* three statements, is never told two things that contradict each other.
THEOREM DetailNeverContradicts == HistorySpec => []DetailConsistent
<1>1. HistoryInv => DetailConsistent
  BY DEF HistoryInv, DetailOK, DetailConsistent
<1>2. QED
  BY <1>1, HistoryInvariant, PTL

\* Going through a listing page by page passes over no row that was there when
\* it began, however many rows and records are added meanwhile.
THEOREM PagingPassesOverNothing == HistorySpec => []ScanComplete
<1>1. HistoryInv => ScanComplete
  BY DEF HistoryInv, ScanOK, Stable, ScanComplete
<1>2. QED
  BY <1>1, HistoryInvariant, PTL
=============================================================================
