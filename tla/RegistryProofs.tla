---------------------------- MODULE RegistryProofs ----------------------------
(***************************************************************************)
(* Theorems about Registry for every set of names, bodies and handlers and *)
(* every bound, with proofs checked by TLAPS.                              *)
(***************************************************************************)
EXTENDS Registry, TLAPS

USE ConstantsOK, AbsentValuesOK

-----------------------------------------------------------------------------
(* Types of the handlers' local state.                                     *)

\* A handler without a request is typed.
LEMMA IdleTyped == Idle \in Request
BY DEF Idle, Request, Stages, Codes

\* What a call's fields are.
LEMMA CallTyped ==
    ASSUME NEW c \in Calls
    PROVE  /\ c.name \in Names
           /\ c.ver \in Vers \cup {NoVer}
           /\ c.op # "createArtifact" => c.ver \in Vers
           /\ c.body \in Seq(Items)
           /\ c.op \in VersionOps \cup {"createArtifact", "replace"}
<1>0. << >> \in Seq(Items) /\ Bodies \subseteq Seq(Items)
  OBVIOUS
<1>1. CASE c \in [op : {"createArtifact"}, name : Names, ver : {NoVer}, body : {<< >>}]
  BY <1>0, <1>1
<1>2. CASE c \in [op : VersionOps, name : Names, ver : Vers, body : {<< >>}]
  BY <1>0, <1>2 DEF VersionOps
<1>3. CASE c \in [op : {"replace"}, name : Names, ver : Vers, body : Bodies]
  BY <1>0, <1>3
<1>4. QED
  BY <1>1, <1>2, <1>3 DEF Calls

-----------------------------------------------------------------------------
(* What a handler at each stage has in hand, n being the id counter.       *)

HandlerOK(r, n) ==
    /\ r.stage # "idle" => r.call \in Calls
    /\ r.stage = "insert" => r.call.op \in {"createArtifact", "createVersion"}
    /\ r.stage = "validate" => r.call.op = "publish"
    /\ r.stage = "remove" => r.call.op = "delete"
    /\ r.stage \in {"clear", "declare", "readback"} => r.call.op = "replace"
    /\ r.stage \in {"reread", "write"} => r.call.op \in {"publish", "deprecate"}
    /\ r.stage = "audit" => r.call.op \in VersionOps \cup {"createArtifact"}
    /\ \/ r.stage \in {"idle", "insert", "lookup"}
       \/ r.stage = "audit" /\ r.call.op = "createArtifact"
       \/ r.vid \in VersionIds /\ r.vid < n /\ r.row \in Row

HandlersOK == \A h \in Handlers : HandlerOK(req[h], nextId)

\* Ids are handed out in order.
IdsInOrder == \A i \in VersionIds : versions[i] # NoRow => i < nextId

TypeInv == TypeOK /\ HandlersOK /\ IdsInOrder

\* A step that touches one handler's state and does not lower the counter.
LEMMA OneHandler ==
    ASSUME TypeOK, HandlersOK, NEW h \in Handlers, NEW r \in Request,
           nextId' \in Nat, nextId <= nextId', HandlerOK(r, nextId'),
           req' = [req EXCEPT ![h] = r]
    PROVE  req' \in [Handlers -> Request] /\ HandlersOK'
<1>1. req' \in [Handlers -> Request]
  BY DEF TypeOK
<1>2. ASSUME NEW g \in Handlers PROVE HandlerOK(req'[g], nextId')
  <2>1. CASE g = h
    BY <2>1 DEF TypeOK
  <2>2. CASE g # h
    <3>1. req'[g] = req[g] /\ HandlerOK(req[g], nextId)
      BY <2>2 DEF TypeOK, HandlersOK
    <3>2. QED
      BY <3>1 DEF HandlerOK, VersionIds, TypeOK
  <2>3. QED
    BY <2>1, <2>2
<1>3. QED
  BY <1>1, <1>2 DEF HandlersOK

\* Answering keeps the handlers typed.
LEMMA AnswerKeeps ==
    ASSUME TypeOK, HandlersOK, NEW h \in Handlers, NEW code \in Codes,
           Answer(h, code), nextId' = nextId
    PROVE  req' \in [Handlers -> Request] /\ HandlersOK'
<1> DEFINE r == [Idle EXCEPT !.code = code]
<1>1. r \in Request
  BY IdleTyped DEF Request
<1>2. HandlerOK(r, nextId')
  BY DEF HandlerOK, Idle
<1>3. nextId' \in Nat /\ nextId <= nextId'
  BY DEF TypeOK
<1>4. req' = [req EXCEPT ![h] = r]
  BY DEF Answer
<1> HIDE DEF r
<1>5. QED
  BY <1>1, <1>2, <1>3, <1>4, OneHandler

\* Going to a stage that suits the request keeps the handlers typed.
LEMMA GotoKeeps ==
    ASSUME TypeOK, HandlersOK, NEW h \in Handlers, NEW stage \in Stages,
           Goto(h, stage), nextId' = nextId,
           HandlerOK([req[h] EXCEPT !.stage = stage], nextId)
    PROVE  req' \in [Handlers -> Request] /\ HandlersOK'
<1> DEFINE r == [req[h] EXCEPT !.stage = stage]
<1>1. req[h] \in Request
  BY DEF TypeOK
<1>2. r \in Request
  BY <1>1 DEF Request
<1>3. nextId' \in Nat /\ nextId <= nextId' /\ HandlerOK(r, nextId')
  BY DEF TypeOK
<1>4. req' = [req EXCEPT ![h] = r]
  BY DEF Goto
<1> HIDE DEF r
<1>5. QED
  BY <1>2, <1>3, <1>4, OneHandler

\* So does finding the version a request names.
LEMMA ProceedKeeps ==
    ASSUME TypeInv, NEW h \in Handlers, nextId' = nextId,
           NEW i \in Named(req[h].call), NEW stage \in Stages, Proceed(h, i, stage),
           req[h].stage = "lookup",
           \/ stage = "validate" /\ req[h].call.op = "publish"
           \/ stage = "reread" /\ req[h].call.op = "deprecate"
           \/ stage = "remove" /\ req[h].call.op = "delete"
           \/ stage = "clear" /\ req[h].call.op = "replace"
    PROVE  req' \in [Handlers -> Request] /\ HandlersOK'
<1> DEFINE r == [req[h] EXCEPT !.stage = stage, !.vid = i, !.row = versions[i]]
<1>1. req[h] \in Request /\ req' = [req EXCEPT ![h] = r]
  BY DEF TypeInv, TypeOK, Proceed
<1>2. i \in VersionIds /\ i < nextId /\ versions[i] \in Row
  BY DEF TypeInv, TypeOK, IdsInOrder, Named
<1>3. r \in Request
  <2>1. i \in 0 .. MaxVersions /\ versions[i] \in Row \cup {NoRow}
    BY <1>2 DEF VersionIds
  <2>2. QED
    BY <1>1, <2>1 DEF Request
<1>4. req[h].call \in Calls
  BY DEF TypeInv, HandlersOK, HandlerOK
<1>5. HandlerOK(r, nextId')
  BY <1>1, <1>2, <1>4 DEF HandlerOK, Request
<1>6. nextId' \in Nat /\ nextId <= nextId'
  BY DEF TypeInv, TypeOK
<1> HIDE DEF r
<1>7. QED
  BY <1>1, <1>3, <1>5, <1>6, OneHandler DEF TypeInv

\* What a status change writes into a row.
LEMMA StampTyped ==
    ASSUME NEW row \in Row, NEW op \in {"publish", "deprecate"}
    PROVE  /\ Stamp(row, op) \in Row
           /\ Stamp(row, op).art = row.art /\ Stamp(row, op).ver = row.ver
           /\ Stamp(row, op).status =
                IF op = "publish" THEN "published" ELSE "deprecated"
           /\ Stamp(row, op).published = (op = "publish" \/ row.published)
           /\ Stamp(row, op).deprecated = (op = "deprecate" \/ row.deprecated)
BY DEF Stamp, Row, Statuses
-----------------------------------------------------------------------------
\* An empty registry is typed.
LEMMA InitTyped == Init => TypeInv
<1> SUFFICES ASSUME Init PROVE TypeInv
  OBVIOUS
<1>1. TypeOK
  BY IdleTyped DEF Init, TypeOK, NoDeps, VersionIds
<1>2. HandlersOK
  BY DEF Init, HandlersOK, HandlerOK, Idle
<1>3. IdsInOrder
  BY DEF Init, IdsInOrder
<1>4. QED
  BY <1>1, <1>2, <1>3 DEF TypeInv

\* Every step keeps the types; the steps that change no table need only the
\* lemmas on the handlers' state.
LEMMA StepTyped == TypeInv /\ [Next]_vars => TypeInv'
<1> SUFFICES ASSUME TypeInv, [Next]_vars PROVE TypeInv'
  OBVIOUS
<1> USE DEF TypeInv
<1>a. \A h \in Handlers : req[h] \in Request /\ HandlerOK(req[h], nextId)
  BY DEF TypeOK, HandlersOK
<1>b. ASSUME UNCHANGED <<tables, faults>>, req' \in [Handlers -> Request] /\ HandlersOK'
      PROVE  TypeInv'
  BY <1>b DEF TypeOK, IdsInOrder, tables
<1>1. ASSUME NEW h \in Handlers, Begin(h) PROVE TypeInv'
  <2>1. PICK c \in Calls :
          req' = [req EXCEPT ![h] =
              [Idle EXCEPT !.call = c,
                           !.stage = IF c.op \in {"createArtifact", "createVersion"}
                                     THEN "insert" ELSE "lookup"]]
    BY <1>1 DEF Begin
  <2> DEFINE r == [Idle EXCEPT !.call = c,
                           !.stage = IF c.op \in {"createArtifact", "createVersion"}
                                     THEN "insert" ELSE "lookup"]
  <2>2. r \in Request
    BY IdleTyped DEF Request, Stages, Idle
  <2>3. HandlerOK(r, nextId') /\ nextId' \in Nat /\ nextId <= nextId'
    BY <1>1 DEF HandlerOK, Idle, Begin, tables, TypeOK
  <2>4. req' = [req EXCEPT ![h] = r]
    BY <2>1
  <2> HIDE DEF r
  <2>5. QED
    BY <1>1, <1>b, <2>2, <2>3, <2>4, OneHandler DEF Begin
<1>2. ASSUME NEW h \in Handlers, CreateArtifact(h) PROVE TypeInv'
  <2> USE <1>2 DEF CreateArtifact, At
  <2>1. req[h] \in Request /\ HandlerOK(req[h], nextId) /\ req[h].call.name \in Names
    BY <1>a, CallTyped DEF HandlerOK
  <2>2. artifacts' \in SUBSET Names
    BY <2>1 DEF TypeOK
  <2>3. HandlerOK([req[h] EXCEPT !.stage = "audit"], nextId)
    BY <2>1 DEF HandlerOK, Request
  <2>4. req' \in [Handlers -> Request] /\ HandlersOK'
    BY <2>3, AnswerKeeps, GotoKeeps DEF Codes, Stages
  <2>5. QED
    BY <2>2, <2>4 DEF TypeOK, IdsInOrder
<1>3. ASSUME NEW h \in Handlers, CreateVersion(h) PROVE TypeInv'
  <2> USE <1>3 DEF CreateVersion, At
  <2>1. req[h] \in Request /\ HandlerOK(req[h], nextId) /\ req[h].call \in Calls
    BY <1>a DEF HandlerOK
  <2>2. CASE UNCHANGED <<versions, nextId>> /\ \E code \in Codes : Answer(h, code)
    BY <2>2, AnswerKeeps DEF TypeOK, IdsInOrder
  <2>3. CASE /\ nextId \in VersionIds
             /\ versions' = [versions EXCEPT ![nextId] = NewRow(req[h].call)]
             /\ nextId' = nextId + 1
             /\ req' = [req EXCEPT ![h] = [@ EXCEPT !.stage = "audit", !.vid = nextId,
                                              !.row = NewRow(req[h].call)]]
    <3> DEFINE r == [req[h] EXCEPT !.stage = "audit", !.vid = nextId,
                                   !.row = NewRow(req[h].call)]
    <3>1. NewRow(req[h].call) \in Row
      BY <2>1, CallTyped DEF NewRow, Row, Statuses
    <3>2. r \in Request
      <4>1. nextId \in 0 .. MaxVersions
        BY <2>3 DEF VersionIds
      <4>2. QED
        BY <2>1, <3>1, <4>1 DEF Request, Stages
    <3>3. HandlerOK(r, nextId')
      BY <2>1, <2>3, <3>1 DEF HandlerOK, Request, VersionOps, VersionIds
    <3>4. nextId' \in Nat /\ nextId <= nextId' /\ nextId' \in 1 .. MaxVersions + 1
      BY <2>3 DEF TypeOK, VersionIds
    <3>5. req' = [req EXCEPT ![h] = r]
      BY <2>3
    <3> HIDE DEF r
    <3>6. req' \in [Handlers -> Request] /\ HandlersOK'
      BY <3>2, <3>3, <3>4, <3>5, OneHandler
    <3>7. versions' \in [VersionIds -> Row \cup {NoRow}]
      BY <2>3, <3>1 DEF TypeOK
    <3>8. IdsInOrder'
      BY <2>3 DEF IdsInOrder, TypeOK, VersionIds
    <3>9. QED
      BY <3>4, <3>6, <3>7, <3>8 DEF TypeOK
  <2>4. QED
    BY <2>2, <2>3 DEF Codes
<1>4. ASSUME NEW h \in Handlers,
             PublishLookup(h) \/ DeprecateLookup(h) \/ DeleteLookup(h) \/ ReplaceLookup(h)
      PROVE  TypeInv'
  <2>1. nextId' = nextId /\ UNCHANGED <<tables, faults>>
    BY <1>4 DEF PublishLookup, DeprecateLookup, DeleteLookup, ReplaceLookup, tables
  <2>2. req' \in [Handlers -> Request] /\ HandlersOK'
    <3>1. CASE PublishLookup(h)
      BY <2>1, <3>1, AnswerKeeps, ProceedKeeps
      DEF PublishLookup, NotFound, At, Codes, Stages
    <3>2. CASE DeprecateLookup(h)
      BY <2>1, <3>2, AnswerKeeps, ProceedKeeps
      DEF DeprecateLookup, NotFound, At, Codes, Stages
    <3>3. CASE DeleteLookup(h)
      BY <2>1, <3>3, AnswerKeeps, ProceedKeeps
      DEF DeleteLookup, NotFound, At, Codes, Stages
    <3>4. CASE ReplaceLookup(h)
      BY <2>1, <3>4, AnswerKeeps, ProceedKeeps
      DEF ReplaceLookup, NotFound, At, Codes, Stages
    <3>5. QED
      BY <1>4, <3>1, <3>2, <3>3, <3>4
  <2>3. QED
    BY <1>b, <2>1, <2>2
<1>5. ASSUME NEW h \in Handlers, PublishValidate(h) PROVE TypeInv'
  <2> USE <1>5 DEF PublishValidate, At
  <2>1. HandlerOK([req[h] EXCEPT !.stage = "reread"], nextId)
    BY <1>a DEF HandlerOK, Request
  <2>2. nextId' = nextId
    BY DEF tables
  <2>3. (\E code \in Codes : Answer(h, code)) \/ Goto(h, "reread")
    OBVIOUS
  <2>4. req' \in [Handlers -> Request] /\ HandlersOK'
    BY <2>1, <2>2, <2>3, AnswerKeeps, GotoKeeps DEF Stages
  <2>5. QED
    BY <1>b, <2>4
<1>6. ASSUME NEW h \in Handlers, Reread(h) PROVE TypeInv'
  <2> USE <1>6 DEF Reread
  <2>1. nextId' = nextId /\ nextId' \in Nat /\ nextId <= nextId'
    BY DEF tables, TypeOK
  <2>2. CASE Answer(h, "INTERNAL")
    BY <1>b, <2>1, <2>2, AnswerKeeps DEF Codes
  <2>3. CASE versions[req[h].vid] # NoRow /\ ~Answer(h, "INTERNAL")
    <3> DEFINE r == [req[h] EXCEPT !.stage = "write",
                       !.row = Stamp(versions[req[h].vid], req[h].call.op)]
    <3>1. /\ req[h] \in Request /\ HandlerOK(req[h], nextId)
          /\ req[h].vid \in VersionIds /\ req[h].vid < nextId
          /\ req[h].call \in Calls
          /\ req[h].call.op \in {"publish", "deprecate"}
      BY <1>a DEF HandlerOK
    <3>2. Stamp(versions[req[h].vid], req[h].call.op) \in Row
      BY <2>3, <3>1, StampTyped DEF TypeOK
    <3>3. r \in Request
      BY <3>1, <3>2 DEF Request, Stages
    <3>4. HandlerOK(r, nextId')
      BY <2>1, <3>1, <3>2 DEF HandlerOK, Request
    <3>5. req' = [req EXCEPT ![h] = r]
      BY <2>3
    <3> HIDE DEF r
    <3>6. QED
      BY <1>b, <2>1, <3>3, <3>4, <3>5, OneHandler
  <2>4. QED
    BY <2>2, <2>3
<1>7. ASSUME NEW h \in Handlers, Write(h) PROVE TypeInv'
  <2> USE <1>7 DEF Write
  <2>1. /\ HandlerOK([req[h] EXCEPT !.stage = "audit"], nextId)
        /\ req[h].vid \in VersionIds /\ req[h].row \in Row
    BY <1>a DEF HandlerOK, Request, VersionOps
  <2>2. req' \in [Handlers -> Request] /\ HandlersOK'
    BY <2>1, GotoKeeps DEF Stages
  <2>3. versions' \in [VersionIds -> Row \cup {NoRow}]
    BY <2>1 DEF TypeOK, Row
  <2>4. IdsInOrder'
    BY <2>1 DEF IdsInOrder, TypeOK
  <2>5. QED
    BY <2>2, <2>3, <2>4 DEF TypeOK
<1>8. ASSUME NEW h \in Handlers, Remove(h) PROVE TypeInv'
  <2> USE <1>8 DEF Remove, At
  <2>1. HandlerOK([req[h] EXCEPT !.stage = "audit"], nextId)
    BY <1>a DEF HandlerOK, Request, VersionOps
  <2>2. req' \in [Handlers -> Request] /\ HandlersOK'
    BY <2>1, AnswerKeeps, GotoKeeps DEF Stages, Codes
  <2>3. versions' \in [VersionIds -> Row \cup {NoRow}] /\ IdsInOrder'
    BY DEF TypeOK, IdsInOrder
  <2>4. QED
    BY <2>2, <2>3 DEF TypeOK
<1>9. ASSUME NEW h \in Handlers, Clear(h) PROVE TypeInv'
  <2> USE <1>9 DEF Clear, At
  <2>1. /\ HandlerOK([req[h] EXCEPT !.stage = "declare"], nextId)
        /\ HandlerOK([req[h] EXCEPT !.stage = "readback"], nextId)
    BY <1>a DEF HandlerOK, Request
  <2>2. \/ \E code \in Codes : Answer(h, code)
        \/ Goto(h, "readback") \/ Goto(h, "declare")
    OBVIOUS
  <2>3. req' \in [Handlers -> Request] /\ HandlersOK'
    BY <2>1, <2>2, AnswerKeeps, GotoKeeps DEF Stages
  <2>4. deps' \in [VersionIds -> [Names -> Texts \cup {NoText}]]
    BY DEF TypeOK, NoDeps
  <2>5. QED
    BY <2>3, <2>4 DEF TypeOK, IdsInOrder
<1>10. ASSUME NEW h \in Handlers, Declare(h) PROVE TypeInv'
  <2> DEFINE c == req[h].call
             k == req[h].next
             r == [req[h] EXCEPT !.next = k + 1,
                     !.stage = IF k = Len(c.body) THEN "readback" ELSE "declare"]
  <2>1. /\ req[h] \in Request /\ HandlerOK(req[h], nextId)
        /\ c \in Calls /\ req[h].vid \in VersionIds /\ c.op = "replace"
        /\ req[h].stage = "declare"
    BY <1>a, <1>10 DEF HandlerOK, Declare, At
  <2>2. c.body \in Seq(Items)
    BY <2>1, CallTyped
  <2>3. k \in DOMAIN c.body => c.body[k] \in Items
    BY <2>2
  <2>4. /\ k \in DOMAIN c.body
        /\ \/ Answer(h, "INTERNAL") /\ UNCHANGED deps
           \/ /\ deps' = [deps EXCEPT ![req[h].vid][c.body[k].name] = c.body[k].text]
              /\ req' = [req EXCEPT ![h] = r]
        /\ UNCHANGED <<artifacts, versions, nextId, changes, faults>>
    BY <1>10 DEF Declare
  <2>5. nextId' \in Nat /\ nextId <= nextId' /\ nextId' = nextId
    BY <2>4 DEF TypeOK
  <2>6. CASE Answer(h, "INTERNAL") /\ UNCHANGED deps
    BY <2>4, <2>6, AnswerKeeps DEF Codes, TypeOK, IdsInOrder
  <2>7. CASE /\ deps' = [deps EXCEPT ![req[h].vid][c.body[k].name] = c.body[k].text]
             /\ req' = [req EXCEPT ![h] = r]
    <3>1. c.body[k].name \in Names /\ c.body[k].text \in Texts
      BY <2>3, <2>4 DEF Items
    <3>2. deps' \in [VersionIds -> [Names -> Texts \cup {NoText}]]
      BY <2>1, <2>7, <3>1 DEF TypeOK
    <3>3. r \in Request
      <4>1. k + 1 \in Nat
        BY <2>1 DEF Request
      <4>2. (IF k = Len(c.body) THEN "readback" ELSE "declare") \in Stages
        BY DEF Stages
      <4> HIDE DEF k, c
      <4>3. QED
        BY <2>1, <4>1, <4>2 DEF Request
    <3>4. HandlerOK(r, nextId')
      BY <2>1, <2>5 DEF HandlerOK, Request
    <3> HIDE DEF r
    <3>5. req' \in [Handlers -> Request] /\ HandlersOK'
      BY <2>5, <2>7, <3>3, <3>4, OneHandler
    <3>6. QED
      BY <2>4, <3>2, <3>5 DEF TypeOK, IdsInOrder
  <2>8. QED
    BY <2>4, <2>6, <2>7
<1>11. ASSUME NEW h \in Handlers, ReadBack(h) PROVE TypeInv'
  BY <1>11, <1>b, AnswerKeeps DEF ReadBack, Codes, tables
<1>12. ASSUME NEW h \in Handlers, Audit(h) PROVE TypeInv'
  <2> USE <1>12 DEF Audit
  <2>1. req[h] \in Request /\ HandlerOK(req[h], nextId) /\ req[h].call \in Calls
    BY <1>a DEF HandlerOK
  <2>2. RecordOf(req[h]) \in Change
    <3>1. CASE req[h].call.op = "createArtifact"
      BY <2>1, <3>1, CallTyped DEF RecordOf, Change, Actions
    <3>2. CASE req[h].call.op # "createArtifact"
      <4>1. /\ req[h].call.op \in VersionOps /\ req[h].row \in Row
            /\ req[h].vid \in 0 .. MaxVersions
        BY <2>1, <3>2 DEF HandlerOK, VersionIds
      <4>2. req[h].row.art \in Names /\ req[h].row.ver \in Vers
        BY <4>1 DEF Row
      <4>3. QED
        BY <3>2, <4>1, <4>2 DEF RecordOf, Change, Actions, VersionOps
    <3>3. QED
      BY <3>1, <3>2
  <2>3. changes' \in Seq(Change)
    BY <2>2 DEF TypeOK
  <2>4. req' \in [Handlers -> Request] /\ HandlersOK'
    BY AnswerKeeps DEF Codes
  <2>5. QED
    BY <2>3, <2>4 DEF TypeOK, IdsInOrder
<1>13. ASSUME NEW h \in Handlers, StatementFails(h) PROVE TypeInv'
  <2> USE <1>13 DEF StatementFails
  <2>1. req' \in [Handlers -> Request] /\ HandlersOK'
    BY AnswerKeeps DEF Codes, tables
  <2>2. QED
    BY <2>1 DEF TypeOK, IdsInOrder, tables
<1>14. CASE Crash
  <2>1. req' \in [Handlers -> Request] /\ HandlersOK'
    BY <1>14, IdleTyped DEF Crash, HandlersOK, HandlerOK, Idle
  <2>2. QED
    BY <1>14, <2>1 DEF Crash, TypeOK, IdsInOrder, tables
<1>15. CASE UNCHANGED vars
  BY <1>15 DEF vars, TypeOK, HandlersOK, HandlerOK, IdsInOrder
<1>16. QED
  BY <1>1, <1>2, <1>3, <1>4, <1>5, <1>6, <1>7, <1>8, <1>9, <1>10, <1>11, <1>12,
     <1>13, <1>14, <1>15 DEF Next, Step, Rest

\* Whatever the requests, faults and crashes, tables and handlers keep their
\* types, and each handler has in hand what its stage needs.
THEOREM TypeInvariant == Spec => []TypeInv
BY InitTyped, StepTyped, PTL DEF Spec

\* The type invariant the runs check.
THEOREM TypeCorrect == Spec => []TypeOK
BY TypeInvariant, PTL DEF TypeInv
-----------------------------------------------------------------------------
(* What a step does to the versions table.  TimestampsAgree is not         *)
(* inductive: the copies in the handlers' hands must be known too.         *)

LifeInv == TimestampsAgree /\ InHandSound

\* A row is inserted as a draft, a draft is removed, or a row is published or,
\* unless it is a draft, deprecated.
TableStep ==
    \/ UNCHANGED <<versions, nextId>>
    \/ /\ nextId \in VersionIds /\ nextId' = nextId + 1 /\ versions[nextId] = NoRow
       /\ \E row \in Row :
            /\ row.status = "draft" /\ ~row.published /\ ~row.deprecated
            /\ versions' = [versions EXCEPT ![nextId] = row]
    \/ /\ nextId' = nextId
       /\ \E i \in VersionIds :
            /\ versions[i] # NoRow /\ versions[i].status = "draft"
            /\ versions' = [versions EXCEPT ![i] = NoRow]
    \/ /\ nextId' = nextId
       /\ \E i \in VersionIds, row \in Row :
            /\ versions[i] # NoRow /\ row.published
            /\ \/ row.status = "published"
               \/ /\ row.status = "deprecated" /\ row.deprecated
                  /\ versions[i].status # "draft"
            /\ versions' = [versions EXCEPT ![i] = row]

\* Creation only fills the row of a new id.
LEMMA CreateVersionTable ==
    ASSUME TypeInv, NEW h \in Handlers, CreateVersion(h) PROVE TableStep
<1>1. req[h].call \in Calls /\ req[h].call.op = "createVersion"
  BY DEF TypeInv, HandlersOK, HandlerOK, CreateVersion, At
<1>2. CASE UNCHANGED <<versions, nextId>>
  BY <1>2 DEF TableStep
<1>3. CASE /\ nextId \in VersionIds
           /\ versions' = [versions EXCEPT ![nextId] = NewRow(req[h].call)]
           /\ nextId' = nextId + 1
  <2>1. NewRow(req[h].call) \in Row
    BY <1>1, CallTyped DEF NewRow, Row, Statuses
  <2>2. versions[nextId] = NoRow
    BY <1>3 DEF TypeInv, IdsInOrder, VersionIds
  <2>3. /\ NewRow(req[h].call).status = "draft"
        /\ ~NewRow(req[h].call).published /\ ~NewRow(req[h].call).deprecated
    BY DEF NewRow
  <2>4. QED
    BY <1>3, <2>1, <2>2, <2>3 DEF TableStep
<1>4. QED
  BY <1>2, <1>3 DEF CreateVersion

\* Deletion only takes a row away.
LEMMA RemoveTable ==
    ASSUME TypeInv, NEW h \in Handlers, Remove(h) PROVE TableStep
<1>1. req[h].vid \in VersionIds
  BY DEF TypeInv, HandlersOK, HandlerOK, Remove, At
<1>2. QED
  BY <1>1 DEF Remove, TableStep

\* A status change only stamps the row it finds.
LEMMA WriteTable ==
    ASSUME TypeInv, LifeInv, NEW h \in Handlers, Write(h) PROVE TableStep
<1> DEFINE i == req[h].vid
           new == req[h].row
           row == [versions[i] EXCEPT !.status = new.status,
                     !.published = new.published, !.deprecated = new.deprecated]
<1>1. /\ i \in VersionIds /\ new \in Row
      /\ req[h].call.op \in {"publish", "deprecate"} /\ req[h].stage = "write"
  BY DEF TypeInv, HandlersOK, HandlerOK, Write
<1>2. /\ new.status = IF req[h].call.op = "publish" THEN "published" ELSE "deprecated"
      /\ new.published
      /\ req[h].call.op = "deprecate" =>
           new.deprecated /\ versions[i] # NoRow /\ versions[i].status # "draft"
  BY <1>1 DEF LifeInv, InHandSound, InHandTrue
<1>3. nextId' = nextId
  BY DEF Write
<1>4. CASE versions[i] = NoRow
  <2>1. versions' = versions
    BY <1>1, <1>4 DEF Write, TypeInv, TypeOK
  <2>2. QED
    BY <1>3, <2>1 DEF TableStep
<1>5. CASE versions[i] # NoRow
  <2>1. versions[i] \in Row
    BY <1>1, <1>5 DEF TypeInv, TypeOK
  <2>2. row \in Row /\ row.status = new.status /\ row.published = new.published
          /\ row.deprecated = new.deprecated
    BY <1>1, <2>1 DEF Row
  <2>3. versions' = [versions EXCEPT ![i] = row]
    BY <1>1, <1>5 DEF Write, TypeInv, TypeOK
  <2> HIDE DEF row, new
  <2>4. QED
    BY <1>1, <1>2, <1>3, <1>5, <2>2, <2>3 DEF TableStep
<1>6. QED
  BY <1>4, <1>5

\* No step changes the version table in any other way.
LEMMA EveryStepIsTableStep ==
    ASSUME TypeInv, LifeInv, [Next]_vars PROVE TableStep
<1>1. ASSUME NEW h \in Handlers, Step(h) PROVE TableStep
  <2>1. CASE CreateVersion(h)
    BY <2>1, CreateVersionTable
  <2>2. CASE Write(h)
    BY <2>2, WriteTable
  <2>3. CASE Remove(h)
    BY <2>3, RemoveTable
  <2>4. CASE ~(CreateVersion(h) \/ Write(h) \/ Remove(h))
    BY <1>1, <2>4 DEF Step, Begin, CreateArtifact, PublishLookup, PublishValidate,
         DeprecateLookup, Reread, DeleteLookup, ReplaceLookup, Clear, Declare,
         ReadBack, Audit, StatementFails, tables, TableStep
  <2>5. QED
    BY <2>1, <2>2, <2>3, <2>4
<1>2. CASE Crash
  BY <1>2 DEF Crash, tables, TableStep
<1>3. CASE UNCHANGED vars
  BY <1>3 DEF vars, TableStep
<1>4. QED
  BY <1>1, <1>2, <1>3 DEF Next, Rest
-----------------------------------------------------------------------------
(* What follows from the shape of a step.                                  *)

\* Changes of the table keep statuses and timestamps in agreement.
LEMMA TimestampsKept ==
    ASSUME TypeInv, TimestampsAgree, TableStep PROVE TimestampsAgree'
<1> USE DEF TypeInv, TypeOK
<1>1. CASE UNCHANGED <<versions, nextId>>
  BY <1>1 DEF TimestampsAgree
<1>2. ASSUME NEW i \in VersionIds, NEW row \in Row, row.published = (row.status # "draft"),
             row.status = "draft" => ~row.deprecated,
             row.status = "deprecated" => row.deprecated,
             versions' = [versions EXCEPT ![i] = row]
      PROVE  TimestampsAgree'
  BY <1>2 DEF TimestampsAgree, Row
<1>3. ASSUME NEW i \in VersionIds, versions' = [versions EXCEPT ![i] = NoRow]
      PROVE  TimestampsAgree'
  BY <1>3 DEF TimestampsAgree
<1>4. QED
  BY <1>1, <1>2, <1>3 DEF TableStep, Row

\* The rows that are gone stay gone, and no row becomes a draft again.
NothingComesBack ==
    /\ \A i \in VersionIds : versions[i] # NoRow /\ versions[i].status # "draft" =>
         versions'[i] # NoRow /\ versions'[i].status # "draft"
    /\ \A i \in VersionIds : versions[i] = NoRow /\ i < nextId => versions'[i] = NoRow
    /\ nextId' \in Nat /\ nextId <= nextId'

\* Changes of the table take nothing back that has happened.
LEMMA TableStepKeeps ==
    ASSUME TypeInv, TableStep PROVE NothingComesBack
<1> USE DEF TypeInv, TypeOK, NothingComesBack
<1>1. CASE UNCHANGED <<versions, nextId>>
  BY <1>1
<1>2. ASSUME nextId \in VersionIds, nextId' = nextId + 1, versions[nextId] = NoRow,
             NEW row \in Row, versions' = [versions EXCEPT ![nextId] = row]
      PROVE  NothingComesBack
  BY <1>2 DEF VersionIds
<1>3. ASSUME nextId' = nextId, NEW i \in VersionIds, versions[i] # NoRow,
             versions[i].status = "draft", versions' = [versions EXCEPT ![i] = NoRow]
      PROVE  NothingComesBack
  BY <1>3
<1>4. ASSUME nextId' = nextId, NEW i \in VersionIds, NEW row \in Row, versions[i] # NoRow,
             row.status # "draft", versions' = [versions EXCEPT ![i] = row]
      PROVE  NothingComesBack
  BY <1>4
<1>5. QED
  BY <1>1, <1>2, <1>3, <1>4 DEF TableStep

\* What a handler has in hand stays true while others move.
LEMMA InHandStable ==
    ASSUME TypeInv, NothingComesBack, artifacts \subseteq artifacts',
           NEW h \in Handlers, InHandTrue(req[h]), req'[h] = req[h]
    PROVE  InHandTrue(req[h])'
<1>1. HandlerOK(req[h], nextId)
  BY DEF TypeInv, HandlersOK
<1>2. req[h].stage \in {"reread", "write", "audit"} /\ req[h].call.op = "deprecate" =>
        versions'[req[h].vid] # NoRow /\ versions'[req[h].vid].status # "draft"
  BY <1>1 DEF HandlerOK, InHandTrue, NothingComesBack
<1>3. req[h].stage = "audit" /\ req[h].call.op = "delete" => versions'[req[h].vid] = NoRow
  BY <1>1 DEF HandlerOK, InHandTrue, NothingComesBack
<1>4. req[h].stage = "declare" =>
        \A k \in DOMAIN req[h].call.body :
            /\ req[h].call.body[k].text \in ValidTexts
            /\ req[h].call.body[k].name \in artifacts'
  BY DEF InHandTrue
<1>5. QED
  BY <1>2, <1>3, <1>4 DEF InHandTrue

\* A step of one handler leaves the others as they are.
LEMMA OthersUntouched ==
    ASSUME TypeInv, NEW h \in Handlers, Step(h), NEW g \in Handlers, g # h
    PROVE  req'[g] = req[g]
BY DEF TypeInv, TypeOK, Step, Begin, CreateArtifact, CreateVersion, PublishLookup,
     PublishValidate, DeprecateLookup, Reread, Write, DeleteLookup, Remove,
     ReplaceLookup, Clear, Declare, ReadBack, Audit, StatementFails, NotFound,
     Answer, Goto, Proceed

\* No artifact is ever removed.
LEMMA RegistrationGrows == ASSUME [Next]_vars PROVE artifacts \subseteq artifacts'
<1>1. ASSUME NEW h \in Handlers, Step(h), ~CreateArtifact(h) PROVE artifacts' = artifacts
  <2>1. UNCHANGED tables => artifacts' = artifacts
    BY DEF tables
  <2>2. CASE \/ CreateVersion(h) \/ Write(h) \/ Remove(h) \/ Clear(h) \/ Declare(h)
             \/ Audit(h) \/ StatementFails(h)
    <3>1. CASE CreateVersion(h) \/ Clear(h) \/ Declare(h)
      BY <3>1, Zenon DEF CreateVersion, Clear, Declare
    <3>2. CASE Write(h) \/ Remove(h) \/ Audit(h)
      BY <3>2, Zenon DEF Write, Remove, Audit
    <3>3. CASE StatementFails(h)
      BY <2>1, <3>3, Zenon DEF StatementFails
    <3>4. QED
      BY <2>2, <3>1, <3>2, <3>3
  <2>3. CASE \/ Begin(h) \/ PublishLookup(h) \/ PublishValidate(h) \/ DeprecateLookup(h)
             \/ Reread(h) \/ DeleteLookup(h) \/ ReplaceLookup(h) \/ ReadBack(h)
    <3>1. UNCHANGED tables
      BY <2>3 DEF Begin, PublishLookup, PublishValidate, DeprecateLookup, Reread,
         DeleteLookup, ReplaceLookup, ReadBack, tables
    <3>2. QED
      BY <2>1, <3>1
  <2>4. QED
    BY <1>1, <2>2, <2>3 DEF Step
<1>2. ASSUME NEW h \in Handlers, CreateArtifact(h) PROVE artifacts \subseteq artifacts'
  BY <1>2 DEF CreateArtifact, tables
<1>3. CASE Crash \/ Rest \/ UNCHANGED vars
  BY <1>3 DEF Crash, Rest, vars, tables
<1>4. QED
  BY <1>1, <1>2, <1>3 DEF Next

\* The stages that need nothing more.
LEMMA NothingInHand ==
    ASSUME NEW r, r.stage \notin {"reread", "write", "audit", "declare"}
    PROVE  InHandTrue(r)
BY DEF InHandTrue

\* A handler that answers holds no row.
LEMMA AnswerInHand ==
    ASSUME TypeInv, NEW h \in Handlers, NEW code, Answer(h, code)
    PROVE  InHandTrue(req[h])'
BY DEF TypeInv, TypeOK, Answer, Idle, InHandTrue

\* What a handler holds after going to another stage.
LEMMA AfterGoto ==
    ASSUME TypeInv, NEW h \in Handlers, NEW stage, Goto(h, stage)
    PROVE  /\ req'[h].stage = stage /\ req'[h].call = req[h].call
           /\ req'[h].vid = req[h].vid /\ req'[h].row = req[h].row
BY DEF TypeInv, TypeOK, Goto, Request

\* What a handler holds after finding the version its request names.
LEMMA AfterProceed ==
    ASSUME TypeInv, NEW h \in Handlers, NEW i, NEW stage, Proceed(h, i, stage)
    PROVE  req'[h].stage = stage /\ req'[h].call = req[h].call /\ req'[h].vid = i
BY DEF TypeInv, TypeOK, Proceed, Request

\* What a handler holds after the statements that do more than go on.
LEMMA AfterReread ==
    ASSUME TypeInv, NEW h \in Handlers, Reread(h)
    PROVE  \/ Answer(h, "INTERNAL")
           \/ /\ req'[h].stage = "write" /\ req'[h].call = req[h].call
              /\ req'[h].vid = req[h].vid /\ req'[h].next = req[h].next
              /\ req'[h].row = Stamp(versions[req[h].vid], req[h].call.op)
              /\ versions[req[h].vid] # NoRow
<1> PICK r \in Request : r = req[h]
  BY DEF TypeInv, TypeOK
<1> PICK row : row = Stamp(versions[req[h].vid], req[h].call.op)
  OBVIOUS
<1>1. CASE ~Answer(h, "INTERNAL")
  <2>1. /\ req' = [req EXCEPT ![h] = [@ EXCEPT !.stage = "write", !.row = row]]
        /\ versions[req[h].vid] # NoRow
    BY <1>1, Zenon DEF Reread
  <2>2. req'[h] = [r EXCEPT !.stage = "write", !.row = row]
    BY <2>1 DEF TypeInv, TypeOK
  <2>3. /\ req'[h].stage = "write" /\ req'[h].call = r.call
        /\ req'[h].vid = r.vid /\ req'[h].next = r.next /\ req'[h].row = row
    BY ONLY <2>2, r \in Request DEF Request
  <2>4. QED
    BY ONLY <2>1, <2>3, r = req[h], row = Stamp(versions[req[h].vid], req[h].call.op)
<1>2. QED
  BY <1>1

\* Recording a version leaves its id with the handler.
LEMMA AfterCreateVersion ==
    ASSUME TypeInv, NEW h \in Handlers, CreateVersion(h)
    PROVE  \/ \E code : Answer(h, code)
           \/ /\ req'[h].stage = "audit" /\ req'[h].call = req[h].call
              /\ req'[h].vid = nextId
<1> PICK r \in Request : r = req[h]
  BY DEF TypeInv, TypeOK
<1> PICK row : row = NewRow(req[h].call)
  OBVIOUS
<1>1. CASE ~\E code : Answer(h, code)
  <2>1. req' = [req EXCEPT ![h] = [@ EXCEPT !.stage = "audit", !.vid = nextId, !.row = row]]
    BY <1>1, Zenon DEF CreateVersion
  <2>2. req'[h] = [r EXCEPT !.stage = "audit", !.vid = nextId, !.row = row]
    BY <2>1 DEF TypeInv, TypeOK
  <2>3. QED
    BY <2>2 DEF Request
<1>2. QED
  BY <1>1

\* Recording a dependency moves the handler to the next one, or on.
LEMMA AfterDeclare ==
    ASSUME TypeInv, NEW h \in Handlers, Declare(h)
    PROVE  \/ Answer(h, "INTERNAL")
           \/ /\ req'[h].stage = IF req[h].next = Len(req[h].call.body) THEN "readback"
                                ELSE "declare"
              /\ req'[h].call = req[h].call /\ req'[h].vid = req[h].vid
              /\ req'[h].next = req[h].next + 1
<1> PICK r \in Request : r = req[h]
  BY DEF TypeInv, TypeOK
<1> PICK stage : stage = IF r.next = Len(r.call.body) THEN "readback" ELSE "declare"
  OBVIOUS
<1>1. CASE ~Answer(h, "INTERNAL")
  <2>1. req' = [req EXCEPT ![h] = [@ EXCEPT !.next = req[h].next + 1,
                  !.stage = IF req[h].next = Len(req[h].call.body) THEN "readback"
                            ELSE "declare"]]
    BY <1>1, Zenon DEF Declare
  <2>2. req'[h] = [r EXCEPT !.next = r.next + 1, !.stage = stage]
    BY <2>1 DEF TypeInv, TypeOK
  <2>3. QED
    BY <2>2 DEF Request
<1>2. QED
  BY <1>1

\* What a handler read stays true of the table as far as it relies on it.
LEMMA InHandKept ==
    ASSUME TypeInv, TypeInv', LifeInv, NEW h \in Handlers, Step(h), NothingComesBack,
           artifacts \subseteq artifacts'
    PROVE  InHandTrue(req[h])'
<1>1. /\ req[h] \in Request /\ HandlerOK(req[h], nextId) /\ InHandTrue(req[h])
      /\ req \in [Handlers -> Request]
  BY DEF TypeInv, TypeOK, HandlersOK, LifeInv, InHandSound
<1>2. CASE \E code : Answer(h, code)
  BY <1>2, AnswerInHand
<1>3. CASE Begin(h)
  BY <1>1, <1>3 DEF Begin, Idle, InHandTrue
<1>4. CASE CreateArtifact(h) \/ CreateVersion(h)
  <2>1. req[h].call.op \in {"createArtifact", "createVersion"}
    BY <1>4 DEF CreateArtifact, CreateVersion, At
  <2>2. CASE req'[h].stage = "audit" /\ req'[h].call = req[h].call
    BY <2>1, <2>2 DEF InHandTrue
  <2>3. CASE CreateArtifact(h)
    BY <1>2, <2>2, <2>3, AfterGoto DEF CreateArtifact
  <2>4. CASE CreateVersion(h)
    BY <1>2, <2>2, <2>4, AfterCreateVersion
  <2>5. QED
    BY <1>2, <1>4, <2>3, <2>4
<1>5. CASE PublishLookup(h) \/ DeleteLookup(h) \/ ReplaceLookup(h)
  <2>1. \/ \E code : Answer(h, code)
        \/ \E i, stage : stage \in {"validate", "remove", "clear"} /\ Proceed(h, i, stage)
    BY <1>5 DEF PublishLookup, DeleteLookup, ReplaceLookup, NotFound
  <2>2. QED
    BY <1>2, <2>1, AfterProceed DEF InHandTrue
<1>6. CASE DeprecateLookup(h)
  <2>1. \/ \E code : Answer(h, code)
        \/ \E i \in Named(req[h].call) :
             versions[i].status = "published" /\ Proceed(h, i, "reread")
    BY <1>6 DEF DeprecateLookup, NotFound
  <2>2. versions' = versions
    BY <1>6 DEF DeprecateLookup, tables
  <2>3. ASSUME NEW i \in Named(req[h].call), versions[i].status = "published",
               Proceed(h, i, "reread")
        PROVE  InHandTrue(req[h])'
    <3>1. req'[h].stage = "reread" /\ req'[h].vid = i
      BY <2>3, AfterProceed
    <3>2. versions'[i] # NoRow /\ versions'[i].status # "draft"
      BY <2>2, <2>3 DEF Named
    <3>3. QED
      BY <3>1, <3>2 DEF InHandTrue
  <2>4. QED
    BY <1>2, <2>1, <2>3
<1>7. CASE PublishValidate(h)
  BY <1>1, <1>2, <1>7 DEF PublishValidate, At, Goto, Request, InHandTrue
<1>8. CASE Reread(h)
  <2>1. CASE Answer(h, "INTERNAL")
    BY <1>2, <2>1
  <2>2. CASE ~Answer(h, "INTERNAL")
    <3> DEFINE old == versions[req[h].vid]
               op == req[h].call.op
               new == Stamp(old, op)
    <3>1. /\ req[h].vid \in VersionIds /\ op \in {"publish", "deprecate"}
          /\ req[h].stage = "reread" /\ old # NoRow /\ versions' = versions
      BY <1>1, <1>8, <2>2 DEF Reread, HandlerOK, tables
    <3>2. old \in Row /\ old.published = (old.status # "draft")
      BY <3>1 DEF TypeInv, TypeOK, LifeInv, TimestampsAgree, Row
    <3>3. op = "deprecate" => old.status # "draft"
      BY <1>1, <3>1 DEF InHandTrue
    <3>4. /\ new.status = IF op = "publish" THEN "published" ELSE "deprecated"
          /\ new.published /\ (op = "deprecate" => new.deprecated)
      <4>1. /\ new.status = IF op = "publish" THEN "published" ELSE "deprecated"
            /\ new.published = (op = "publish" \/ old.published)
            /\ new.deprecated = (op = "deprecate" \/ old.deprecated)
        BY <3>1, <3>2, StampTyped
      <4> HIDE DEF old, op, new
      <4>2. new.published
        BY <3>1, <3>2, <3>3, <4>1
      <4>3. op = "deprecate" => new.deprecated
        BY <4>1
      <4>4. QED
        BY <4>1, <4>2, <4>3
    <3>5. /\ req'[h].stage = "write" /\ req'[h].row = new /\ req'[h].vid = req[h].vid
          /\ req'[h].call = req[h].call
      <4>1. req' = [req EXCEPT ![h] = [req[h] EXCEPT !.stage = "write", !.row = new]]
        BY <1>8, <2>2 DEF Reread
      <4> HIDE DEF new
      <4>2. QED
        BY <1>1, <4>1 DEF Request
    <3> HIDE DEF new
    <3>6. QED
      BY <3>1, <3>3, <3>4, <3>5 DEF InHandTrue
  <2>3. QED
    BY <2>1, <2>2
<1>9. CASE Write(h)
  <2>1. req'[h].stage = "audit" /\ req'[h].vid = req[h].vid /\ req'[h].call = req[h].call
    BY <1>1, <1>9 DEF Write, Goto, Request
  <2>2. /\ req[h].vid \in VersionIds /\ req[h].call.op \in {"publish", "deprecate"}
        /\ req[h].stage = "write"
    BY <1>1, <1>9 DEF Write, HandlerOK
  <2>3. req[h].call.op = "deprecate" =>
          versions'[req[h].vid] # NoRow /\ versions'[req[h].vid].status # "draft"
    BY <1>1, <2>2 DEF InHandTrue, NothingComesBack
  <2>4. QED
    BY <2>1, <2>2, <2>3 DEF InHandTrue
<1>10. CASE Remove(h)
  <2>1. req[h].call.op = "delete" /\ req[h].vid \in VersionIds
    BY <1>1, <1>10 DEF Remove, At, HandlerOK
  <2>2. CASE versions' = [versions EXCEPT ![req[h].vid] = NoRow] /\ Goto(h, "audit")
    <3>1. versions'[req[h].vid] = NoRow
      BY <2>1, <2>2 DEF TypeInv, TypeOK
    <3>2. QED
      BY <2>1, <2>2, <3>1, AfterGoto DEF InHandTrue
  <2>3. QED
    BY <1>2, <1>10, <2>2 DEF Remove
<1>11. CASE Clear(h)
  <2>1. CASE Goto(h, IF req[h].call.body = << >> THEN "readback" ELSE "declare")
    <3>1. req'[h].stage \in {"readback", "declare"} /\ req'[h].call = req[h].call
      BY <1>1, <2>1 DEF Goto, Request
    <3>2. \A k \in DOMAIN req[h].call.body : /\ req[h].call.body[k].text \in ValidTexts
                                             /\ req[h].call.body[k].name \in artifacts'
          \/ \E code : Answer(h, code)
      BY <1>11 DEF Clear
    <3>3. QED
      BY <1>2, <3>1, <3>2 DEF InHandTrue
  <2>2. QED
    BY <1>2, <1>11, <2>1 DEF Clear
<1>12. CASE Declare(h)
  <2>1. \/ \E code : Answer(h, code)
        \/ req'[h].stage \in {"readback", "declare"} /\ req'[h].call = req[h].call
    <3> DEFINE k == req[h].next + 1
               stage == IF req[h].next = Len(req[h].call.body) THEN "readback"
                        ELSE "declare"
    <3>1. \/ \E code : Answer(h, code)
          \/ req' = [req EXCEPT ![h] = [req[h] EXCEPT !.next = k, !.stage = stage]]
      BY <1>12 DEF Declare
    <3>2. stage \in {"readback", "declare"}
      OBVIOUS
    <3> HIDE DEF k, stage
    <3>3. QED
      BY <1>1, <3>1, <3>2 DEF Request
  <2>2. req[h].stage = "declare"
    BY <1>12 DEF Declare, At
  <2>3. QED
    BY <1>1, <1>2, <2>1, <2>2 DEF InHandTrue
<1>13. QED
  BY <1>2, <1>3, <1>4, <1>5, <1>6, <1>7, <1>8, <1>9, <1>10, <1>11, <1>12
  DEF Step, ReadBack, Audit, StatementFails

\* Every step keeps the lives of versions consistent.
LEMMA LifeInductive == TypeInv /\ TypeInv' /\ LifeInv /\ [Next]_vars => LifeInv'
<1> SUFFICES ASSUME TypeInv, TypeInv', LifeInv, [Next]_vars PROVE LifeInv'
  OBVIOUS
<1>1. TableStep /\ NothingComesBack /\ artifacts \subseteq artifacts'
  BY EveryStepIsTableStep, TableStepKeeps, RegistrationGrows
<1>2. TimestampsAgree'
  BY <1>1, TimestampsKept DEF LifeInv
<1>3. ASSUME NEW g \in Handlers PROVE InHandTrue(req[g])'
  <2>1. ASSUME NEW h \in Handlers, Step(h) PROVE InHandTrue(req[g])'
    <3>1. CASE g = h
      BY <1>1, <2>1, <3>1, InHandKept
    <3>2. CASE g # h
      BY <1>1, <2>1, <3>2, OthersUntouched, InHandStable DEF LifeInv, InHandSound
    <3>3. QED
      BY <3>1, <3>2
  <2>2. CASE Crash
    BY <2>2 DEF Crash, Idle, InHandTrue
  <2>3. CASE UNCHANGED vars
    BY <1>1, <2>3, InHandStable DEF vars, LifeInv, InHandSound
  <2>4. QED
    BY <2>1, <2>2, <2>3 DEF Next, Rest
<1>4. QED
  BY <1>2, <1>3 DEF LifeInv, InHandSound

\* No version, no inconsistent life.
LEMMA LifeInitially == Init => LifeInv
BY DEF Init, Idle, LifeInv, TimestampsAgree, InHandSound, InHandTrue

\* Timestamps agree with statuses, and what handlers hold of a version was true of
\* it, in every reachable state: publish and deprecate write whole rows back from
\* such copies.
THEOREM LifeInvariant == Spec => []LifeInv
<1>1. LifeInv /\ TypeInv /\ TypeInv' /\ [Next]_vars => LifeInv'
  BY LifeInductive
<1>2. QED
  BY <1>1, LifeInitially, TypeInvariant, PTL DEF Spec

\* The timestamps agree with the status in every state, for every number of
\* overlapping requests, failed statements and crashes.
THEOREM TimestampsCorrect == Spec => []TimestampsAgree
BY LifeInvariant, PTL DEF LifeInv

\* What handlers have in hand stays true until they act on it.
THEOREM InHandCorrect == Spec => []InHandSound
BY LifeInvariant, PTL DEF LifeInv

\* No race deletes a version that was published or makes it a draft again.
THEOREM PublishedForGood == Spec => LeavesDraftForever
<1> DEFINE A == \A i \in VersionIds :
             versions[i] # NoRow /\ versions[i].status # "draft" =>
               versions'[i] # NoRow /\ versions'[i].status # "draft"
<1>1. TypeInv /\ LifeInv /\ [Next]_vars => A
  BY EveryStepIsTableStep, TableStepKeeps DEF NothingComesBack
<1>2. TypeInv /\ LifeInv /\ [Next]_vars => [A]_vars
  BY <1>1
<1>3. QED
  BY <1>2, TypeInvariant, LifeInvariant, PTL DEF Spec, LeavesDraftForever
-----------------------------------------------------------------------------
(* The registry implements the relaxed life of a version.                  *)

lives == [i \in VersionIds |-> LifeOf(i)]

\* A step that moves one id from one stage of life to another.
LEMMA OneMove ==
    ASSUME NEW i \in VersionIds, NEW to,
           LifeOf(i)' = to,
           \A j \in VersionIds \ {i} : LifeOf(j)' = LifeOf(j)
    PROVE  lives' = [lives EXCEPT ![i] = to]
BY DEF lives

\* A change of the table is a step of the documented life, or the one it leaves out.
LEMMA RelaxedStep ==
    ASSUME TypeInv, TableStep
    PROVE  \/ Lives!Next \/ \E i \in VersionIds : Lives!Revive(i)
           \/ lives' = lives
<1> USE DEF TypeInv, TypeOK
<1> USE DEF Lives!Next, Lives!Move, Lives!Create, Lives!Publish, Lives!Deprecate,
            Lives!Delete, Lives!Revive
<1>1. CASE UNCHANGED <<versions, nextId>>
  BY <1>1 DEF lives, LifeOf
<1>2. ASSUME NEW n \in VersionIds, n = nextId, nextId' = n + 1, versions[n] = NoRow,
             NEW row \in Row, row.status = "draft",
             versions' = [versions EXCEPT ![n] = row]
      PROVE  Lives!Next
  <2>1. LifeOf(n) = "unborn" /\ LifeOf(n)' = "draft"
    BY <1>2 DEF LifeOf, VersionIds
  <2>2. \A j \in VersionIds \ {n} : LifeOf(j)' = LifeOf(j)
    BY <1>2 DEF LifeOf, VersionIds, IdsInOrder
  <2>3. lives' = [lives EXCEPT ![n] = "draft"]
    BY <1>2, <2>1, <2>2, OneMove
  <2>4. QED
    BY <1>2, <2>1, <2>3 DEF lives
<1>3. ASSUME nextId' = nextId, NEW i \in VersionIds, versions[i] # NoRow,
             versions[i].status = "draft", versions' = [versions EXCEPT ![i] = NoRow]
      PROVE  Lives!Next
  <2>1. LifeOf(i) = "draft" /\ LifeOf(i)' = "gone"
    BY <1>3 DEF LifeOf, IdsInOrder
  <2>2. \A j \in VersionIds \ {i} : LifeOf(j)' = LifeOf(j)
    BY <1>3 DEF LifeOf
  <2>3. lives' = [lives EXCEPT ![i] = "gone"]
    BY <2>1, <2>2, OneMove
  <2>4. QED
    BY <2>1, <2>3 DEF lives
<1>4. ASSUME nextId' = nextId, NEW i \in VersionIds, NEW row \in Row, versions[i] # NoRow,
             \/ row.status = "published"
             \/ row.status = "deprecated" /\ versions[i].status # "draft",
             versions' = [versions EXCEPT ![i] = row]
      PROVE  \/ Lives!Next \/ \E j \in VersionIds : Lives!Revive(j)
             \/ lives' = lives
  <2>1. LifeOf(i) = versions[i].status /\ LifeOf(i)' = row.status
    BY <1>4 DEF LifeOf
  <2>2. \A j \in VersionIds \ {i} : LifeOf(j)' = LifeOf(j)
    BY <1>4 DEF LifeOf
  <2>3. lives' = [lives EXCEPT ![i] = row.status]
    BY <2>1, <2>2, OneMove
  <2>4. versions[i].status \in Statuses /\ lives[i] = versions[i].status
    BY <1>4, <2>1 DEF Row, lives
  <2>5. CASE versions[i].status = row.status
    BY <2>3, <2>4, <2>5 DEF lives
  <2>6. CASE versions[i].status # row.status
    BY <1>4, <2>3, <2>4, <2>6 DEF lives, Statuses
  <2>7. QED
    BY <2>5, <2>6
<1>5. QED
  BY <1>1, <1>2, <1>3, <1>4 DEF TableStep

\* However requests overlap, fail or are cut short, a version's life departs
\* from the documented one in a single way: it can be published again after
\* having been deprecated.
THEOREM RelaxedLifecycle == Spec => RefinesRelaxed
<1>1. Init => Lives!Init
  BY DEF Init, Lives!Init, LifeOf, VersionIds
<1>2. TypeInv /\ LifeInv /\ [Next]_vars =>
        [Lives!Next \/ \E i \in VersionIds : Lives!Revive(i)]_lives
  BY EveryStepIsTableStep, RelaxedStep
<1>3. QED
  BY <1>1, <1>2, TypeInvariant, LifeInvariant, PTL
  DEF Spec, RefinesRelaxed, Lives!RelaxedSpec, lives
-----------------------------------------------------------------------------
(* The declared dependencies.                                              *)

\* Every step keeps declarations within what exists and parses.
LEMMA DeclarationsKept ==
    TypeInv /\ LifeInv /\ DeclarationsSound /\ [Next]_vars => DeclarationsSound'
<1> SUFFICES ASSUME TypeInv, LifeInv, DeclarationsSound, [Next]_vars
             PROVE  DeclarationsSound'
  OBVIOUS
<1> USE DEF TypeInv, TypeOK
<1>1. artifacts \subseteq artifacts'
  BY RegistrationGrows
<1>2. ASSUME deps' = deps, \A i \in VersionIds : versions[i] # NoRow => versions'[i] # NoRow
      PROVE  DeclarationsSound'
  BY <1>1, <1>2 DEF DeclarationsSound
<1>3. ASSUME NEW h \in Handlers, Step(h) PROVE DeclarationsSound'
  <2>1. HandlerOK(req[h], nextId) /\ InHandTrue(req[h])
    BY DEF HandlersOK, LifeInv, InHandSound
  <2>2. CASE Remove(h)
    <3>1. req[h].vid \in VersionIds
      BY <2>1, <2>2 DEF HandlerOK, Remove, At
    <3>2. deps' = deps
      BY <2>2 DEF Remove
    <3>3. \/ versions' = versions
          \/ deps[req[h].vid] = NoDeps /\ versions' = [versions EXCEPT ![req[h].vid] = NoRow]
      BY <2>2 DEF Remove
    <3>4. QED
      BY <1>1, <3>1, <3>2, <3>3 DEF DeclarationsSound, NoDeps
  <2>3. CASE Clear(h)
    <3>1. req[h].vid \in VersionIds
      BY <2>1, <2>3 DEF HandlerOK, Clear, At
    <3>2. QED
      BY <1>1, <2>3, <3>1 DEF Clear, DeclarationsSound, NoDeps
  <2>4. CASE Declare(h)
    <3> DEFINE i == req[h].vid
               item == req[h].call.body[req[h].next]
    <3>1. i \in VersionIds /\ req[h].stage = "declare"
      BY <2>1, <2>4 DEF HandlerOK, Declare, At
    <3>2. item.text \in ValidTexts /\ item.name \in artifacts
      BY <2>1, <2>4, <3>1 DEF InHandTrue, Declare
    <3>3. versions' = versions /\ artifacts' = artifacts
      BY <2>4 DEF Declare
    <3>4. \/ deps' = deps
          \/ versions[i] # NoRow /\ deps' = [deps EXCEPT ![i][item.name] = item.text]
      BY <2>4 DEF Declare
    <3>5. ASSUME NEW v, v = i, NEW n \in Names, NEW t \in ValidTexts, n \in artifacts,
                 versions[v] # NoRow, deps' = [deps EXCEPT ![v][n] = t]
          PROVE  DeclarationsSound'
      <4>1. \A j \in VersionIds, m \in Names :
              deps'[j][m] = IF j = v /\ m = n THEN t ELSE deps[j][m]
        BY <3>5
      <4>2. QED
        BY <3>3, <3>5, <4>1 DEF DeclarationsSound
    <3>6. item.name \in Names
      BY <3>2
    <3> HIDE DEF item, i
    <3>7. QED
      BY <1>2, <3>2, <3>3, <3>4, <3>5, <3>6
  <2>5. CASE CreateVersion(h)
    <3>1. /\ \A i \in VersionIds : versions[i] # NoRow => versions'[i] # NoRow
          /\ deps' = deps
      <4>1. CASE versions' = versions
        BY <2>5, <4>1 DEF CreateVersion
      <4>2. CASE versions' = [versions EXCEPT ![nextId] = NewRow(req[h].call)]
        <5>1. req[h].call \in Calls /\ req[h].call.op = "createVersion"
          BY <2>1, <2>5 DEF CreateVersion, At, HandlerOK
        <5>2. NewRow(req[h].call) \in Row
          BY <5>1, CallTyped DEF NewRow, Row, Statuses
        <5>3. QED
          BY <2>5, <4>2, <5>2 DEF CreateVersion
      <4>3. QED
        BY <2>5, <4>1, <4>2 DEF CreateVersion
    <3>2. QED
      BY <1>2, <3>1
  <2>6. CASE Write(h)
    <3>1. req[h].vid \in VersionIds /\ req[h].row \in Row
      BY <2>1, <2>6 DEF HandlerOK, Write
    <3>2. \A i \in VersionIds : versions[i] # NoRow => versions'[i] # NoRow
      BY <2>6, <3>1 DEF Write, Row
    <3>3. QED
      BY <1>2, <2>6, <3>2 DEF Write
  <2>7. CASE ~(Remove(h) \/ Clear(h) \/ Declare(h) \/ CreateVersion(h) \/ Write(h))
    <3>1. deps' = deps /\ versions' = versions
      BY <1>3, <2>7 DEF Step, Begin, CreateArtifact, PublishLookup, PublishValidate,
           DeprecateLookup, Reread, DeleteLookup, ReplaceLookup, ReadBack, Audit,
           StatementFails, tables
    <3>2. QED
      BY <1>2, <3>1
  <2>8. QED
    BY <2>2, <2>3, <2>4, <2>5, <2>6, <2>7
<1>4. CASE Crash
  BY <1>2, <1>4 DEF Crash, tables
<1>5. CASE UNCHANGED vars
  BY <1>2, <1>5 DEF vars
<1>6. QED
  BY <1>3, <1>4, <1>5 DEF Next, Rest

\* What is stored in dependencies was checked, is registered and belongs to a
\* version that exists, so no publication is ever refused for it.
THEOREM DeclarationsCorrect == Spec => []DeclarationsSound
<1>1. Init => DeclarationsSound
  BY DEF Init, DeclarationsSound, NoDeps
<1>2. QED
  BY <1>1, DeclarationsKept, TypeInvariant, LifeInvariant, PTL DEF Spec
-----------------------------------------------------------------------------
(* What the change records say.                                            *)

\* A record of a deletion or a deprecation speaks of the table as it is.
RecordTrue(c) ==
    c.entity = "version" =>
        /\ c.id \in VersionIds /\ c.id < nextId
        /\ c.action = "delete" => versions[c.id] = NoRow
        /\ c.action = "deprecate" =>
             versions[c.id] # NoRow /\ versions[c.id].status # "draft"

RecordsTrue == \A k \in DOMAIN changes : RecordTrue(changes[k])

\* A true record stays true.
LEMMA RecordStable ==
    ASSUME TypeInv, NothingComesBack, NEW c, RecordTrue(c) PROVE RecordTrue(c)'
BY DEF TypeInv, TypeOK, NothingComesBack, RecordTrue, VersionIds

\* What an audit appends is true.
LEMMA NewRecordTrue ==
    ASSUME TypeInv, LifeInv, NEW h \in Handlers, Audit(h)
    PROVE  RecordTrue(RecordOf(req[h]))
<1>1. HandlerOK(req[h], nextId) /\ InHandTrue(req[h]) /\ req[h].stage = "audit"
  BY DEF TypeInv, HandlersOK, LifeInv, InHandSound, Audit
<1>2. CASE req[h].call.op = "createArtifact"
  BY <1>2 DEF RecordOf, RecordTrue
<1>3. CASE req[h].call.op # "createArtifact"
  BY <1>1, <1>3 DEF RecordOf, RecordTrue, HandlerOK, InHandTrue
<1>4. QED
  BY <1>2, <1>3

\* Only the audit statement writes a record.
LEMMA OnlyAuditRecords ==
    ASSUME [Next]_vars
    PROVE  changes' = changes \/ \E h \in Handlers : Audit(h)
<1>1. ASSUME NEW h \in Handlers, Step(h), ~Audit(h) PROVE changes' = changes
  <2>1. UNCHANGED tables => changes' = changes
    BY DEF tables
  <2>2. CASE CreateVersion(h) \/ Clear(h) \/ Declare(h)
    BY <2>2, Zenon DEF CreateVersion, Clear, Declare
  <2>3. CASE CreateArtifact(h) \/ Write(h) \/ Remove(h)
    BY <2>3, Zenon DEF CreateArtifact, Write, Remove
  <2>4. CASE StatementFails(h)
    BY <2>1, <2>4, Zenon DEF StatementFails
  <2>5. CASE \/ Begin(h) \/ PublishLookup(h) \/ PublishValidate(h) \/ DeprecateLookup(h)
             \/ Reread(h) \/ DeleteLookup(h) \/ ReplaceLookup(h) \/ ReadBack(h)
    <3>1. UNCHANGED tables
      BY <2>5 DEF Begin, PublishLookup, PublishValidate, DeprecateLookup, Reread,
         DeleteLookup, ReplaceLookup, ReadBack, tables
    <3>2. QED
      BY <2>1, <3>1
  <2>6. QED
    BY <1>1, <2>2, <2>3, <2>4, <2>5 DEF Step
<1>2. CASE Crash \/ Rest \/ UNCHANGED vars
  BY <1>2 DEF Crash, Rest, vars, tables
<1>3. QED
  BY <1>1, <1>2 DEF Next

\* Every step keeps the trail true.
LEMMA RecordsKept == TypeInv /\ LifeInv /\ RecordsTrue /\ [Next]_vars => RecordsTrue'
<1> SUFFICES ASSUME TypeInv, LifeInv, RecordsTrue, [Next]_vars PROVE RecordsTrue'
  OBVIOUS
<1>1. NothingComesBack
  BY EveryStepIsTableStep, TableStepKeeps
<1>2. CASE changes' = changes
  BY <1>1, <1>2, RecordStable DEF RecordsTrue
<1>3. ASSUME NEW h \in Handlers, Audit(h) PROVE RecordsTrue'
  <2> DEFINE c == RecordOf(req[h])
  <2>1. RecordTrue(c) /\ changes' = Append(changes, c)
    BY <1>3, NewRecordTrue DEF Audit
  <2>2. changes \in Seq(Change)
    BY DEF TypeInv, TypeOK
  <2>3. UNCHANGED <<versions, nextId>>
    BY <1>3 DEF Audit
  <2> HIDE DEF c
  <2>4. ASSUME NEW k \in DOMAIN changes' PROVE RecordTrue(changes'[k])
    BY <2>1, <2>2 DEF RecordsTrue
  <2>5. QED
    BY <2>3, <2>4 DEF RecordsTrue, RecordTrue
<1>4. QED
  BY <1>2, <1>3, OnlyAuditRecords

\* Every record of the trail is true in every reachable state.
LEMMA RecordsInvariant == Spec => []RecordsTrue
<1>1. Init => RecordsTrue
  BY DEF Init, RecordsTrue
<1>2. QED
  BY <1>1, RecordsKept, TypeInvariant, LifeInvariant, PTL DEF Spec

\* A recorded deletion is final: no handler that found the row before, and no
\* later creation, brings the id back.
THEOREM DeletionsFinal == Spec => []DeletionFinal
<1>1. RecordsTrue => DeletionFinal
  BY DEF RecordsTrue, RecordTrue, DeletionFinal, Recorded
<1>2. QED
  BY <1>1, RecordsInvariant, PTL

\* A recorded deprecation is of a version that was published and still exists.
THEOREM DeprecationRecordsTrue == Spec => []DeprecationRecordTrue
<1>1. TypeInv /\ LifeInv /\ RecordsTrue => DeprecationRecordTrue
  BY DEF TypeInv, TypeOK, RecordsTrue, RecordTrue, DeprecationRecordTrue, Recorded,
         LifeInv, TimestampsAgree, Row
<1>2. QED
  BY <1>1, RecordsInvariant, TypeInvariant, LifeInvariant, PTL
-----------------------------------------------------------------------------
(* One request at a time.                                                  *)

\* No two requests are served at once.
OneAtATime == \A g, h \in Handlers : g = h

\* Then what a handler read is what it still finds: its version exists, and has
\* the status its operation looked for.
Undisturbed(r) ==
    /\ r.stage \in {"validate", "reread", "write", "remove", "clear", "declare"} =>
         versions[r.vid] # NoRow
    /\ r.stage \in {"validate", "remove", "clear", "declare"} =>
         versions[r.vid].status = "draft"
    /\ r.stage \in {"reread", "write"} =>
         versions[r.vid].status = IF r.call.op = "publish" THEN "draft" ELSE "published"

AloneInv == \A h \in Handlers : Undisturbed(req[h])

\* The stages that need nothing more.
LEMMA NothingToDisturb ==
    ASSUME NEW r, r.stage \notin {"validate", "reread", "write", "remove", "clear", "declare"}
    PROVE  Undisturbed(r)
BY DEF Undisturbed

\* A handler that answers relies on nothing.
LEMMA AnswerUndisturbed ==
    ASSUME TypeInv, NEW h \in Handlers, NEW code, Answer(h, code)
    PROVE  Undisturbed(req[h])'
BY DEF TypeInv, TypeOK, Answer, Idle, Undisturbed

\* A handler finds what it read, up to its own write.
LEMMA UndisturbedKept ==
    ASSUME TypeInv, AloneInv, NEW h \in Handlers, Step(h)
    PROVE  Undisturbed(req[h])'
<1>1. /\ req[h] \in Request /\ HandlerOK(req[h], nextId) /\ Undisturbed(req[h])
      /\ req \in [Handlers -> Request]
  BY DEF TypeInv, TypeOK, HandlersOK, AloneInv
<1>2. CASE \E code : Answer(h, code)
  BY <1>2, AnswerUndisturbed
<1>3. CASE req'[h].stage \in {"idle", "insert", "lookup", "readback", "audit"}
  BY <1>3 DEF Undisturbed
<1>4. CASE PublishLookup(h) \/ DeleteLookup(h) \/ ReplaceLookup(h)
  <2>1. \/ \E code : Answer(h, code)
        \/ \E i \in Named(req[h].call), stage \in {"validate", "remove", "clear"} :
             Proceed(h, i, stage) /\ versions[i].status = "draft"
    BY <1>4 DEF PublishLookup, DeleteLookup, ReplaceLookup, NotFound
  <2>2. versions' = versions
    BY <1>4 DEF PublishLookup, DeleteLookup, ReplaceLookup, tables
  <2>3. QED
    BY <1>2, <2>1, <2>2, AfterProceed DEF Undisturbed, Named
<1>5. CASE DeprecateLookup(h)
  <2>1. \/ \E code : Answer(h, code)
        \/ \E i \in Named(req[h].call) :
             versions[i].status = "published" /\ Proceed(h, i, "reread")
    BY <1>5 DEF DeprecateLookup, NotFound
  <2>2. versions' = versions /\ req[h].call.op = "deprecate"
    BY <1>5 DEF DeprecateLookup, tables, At
  <2>3. QED
    BY <1>2, <2>1, <2>2, AfterProceed DEF Undisturbed, Named
<1>6. CASE PublishValidate(h)
  <2>1. CASE Goto(h, "reread")
    <3>1. /\ req'[h].stage = "reread" /\ req'[h].vid = req[h].vid
          /\ req'[h].call.op = "publish" /\ req[h].stage = "validate" /\ versions' = versions
      BY <1>6, <2>1, AfterGoto DEF PublishValidate, At, tables
    <3>2. QED
      BY <1>1, <3>1 DEF Undisturbed
  <2>2. QED
    BY <1>2, <1>6, <2>1 DEF PublishValidate
<1>7. CASE Reread(h)
  <2>1. CASE Answer(h, "INTERNAL")
    BY <1>2, <2>1
  <2>2. CASE ~Answer(h, "INTERNAL")
    <3>1. /\ req[h].stage = "reread" /\ versions' = versions
          /\ req'[h].stage = "write" /\ req'[h].vid = req[h].vid /\ req'[h].call = req[h].call
      <4>1. req[h].stage = "reread" /\ versions' = versions
        BY <1>7 DEF Reread, tables
      <4>2. QED
        BY <1>7, <2>2, <4>1, AfterReread
    <3>2. QED
      BY <1>1, <3>1 DEF Undisturbed
  <2>3. QED
    BY <2>1, <2>2
<1>8. CASE Clear(h)
  <2>1. CASE \E stage \in {"readback", "declare"} : Goto(h, stage)
    <3>1. /\ req[h].stage = "clear" /\ versions' = versions
          /\ req'[h].stage \in {"readback", "declare"} /\ req'[h].vid = req[h].vid
      BY <1>8, <2>1, AfterGoto DEF Clear, At
    <3>2. QED
      BY <1>1, <3>1 DEF Undisturbed
  <2>2. QED
    BY <1>2, <1>8, <2>1 DEF Clear
<1>9. CASE Declare(h)
  <2>1. CASE Answer(h, "INTERNAL")
    BY <1>2, <2>1
  <2>2. CASE ~Answer(h, "INTERNAL")
    <3>1. /\ req[h].stage = "declare" /\ versions' = versions
          /\ req'[h].stage \in {"readback", "declare"} /\ req'[h].vid = req[h].vid
      <4>1. req[h].stage = "declare" /\ versions' = versions
        BY <1>9 DEF Declare, At
      <4>2. QED
        BY <1>9, <2>2, <4>1, AfterDeclare
    <3>2. QED
      BY <1>1, <3>1 DEF Undisturbed
  <2>3. QED
    BY <2>1, <2>2
<1>10. CASE Begin(h)
  BY <1>1, <1>10, <1>3 DEF Begin, Idle
<1>11. CASE CreateArtifact(h) \/ CreateVersion(h)
  <2>1. CASE Goto(h, "audit")
    BY <1>3, <2>1, AfterGoto
  <2>2. CASE CreateArtifact(h)
    BY <1>2, <2>1, <2>2 DEF CreateArtifact
  <2>3. CASE CreateVersion(h)
    BY <1>2, <1>3, <2>3, AfterCreateVersion
  <2>4. QED
    BY <1>11, <2>2, <2>3
<1>12. CASE Write(h) \/ Remove(h)
  <2>1. CASE Goto(h, "audit")
    BY <1>3, <2>1, AfterGoto
  <2>2. QED
    BY <1>2, <1>12, <2>1 DEF Write, Remove
<1>13. QED
  BY <1>2, <1>4, <1>5, <1>6, <1>7, <1>8, <1>9, <1>10, <1>11, <1>12
  DEF Step, ReadBack, Audit, StatementFails

\* Every step of a lone handler finds what it read before.
LEMMA AloneInductive ==
    ASSUME OneAtATime
    PROVE  TypeInv /\ AloneInv /\ [Next]_vars => AloneInv'
<1> SUFFICES ASSUME TypeInv, AloneInv, [Next]_vars PROVE AloneInv'
  OBVIOUS
<1>1. ASSUME NEW h \in Handlers, Step(h) PROVE AloneInv'
  BY <1>1, OneAtATime, UndisturbedKept DEF AloneInv, OneAtATime
<1>2. CASE Crash
  BY <1>2 DEF Crash, Idle, AloneInv, Undisturbed
<1>3. CASE UNCHANGED vars
  BY <1>3 DEF vars, AloneInv, Undisturbed
<1>4. QED
  BY <1>1, <1>2, <1>3 DEF Next, Rest

\* A lone handler finds what it read before in every reachable state.
LEMMA AloneInvariant ==
    ASSUME OneAtATime
    PROVE  Spec => []AloneInv
<1>1. TypeInv /\ AloneInv /\ [Next]_vars => AloneInv'
  BY AloneInductive
<1>2. Init => AloneInv
  BY DEF Init, Idle, AloneInv, Undisturbed
<1>3. QED
  BY <1>1, <1>2, TypeInvariant, PTL DEF Spec

\* With one request at a time each step is one of the documented life.
LEMMA AloneStep ==
    ASSUME TypeInv, LifeInv, AloneInv, [Next]_vars
    PROVE  Lives!Next \/ lives' = lives
<1> USE DEF TypeInv, TypeOK
<1>1. TableStep
  BY EveryStepIsTableStep
<1>2. CASE \E h \in Handlers : Write(h)
  <2> PICK h \in Handlers : Write(h)
    BY <1>2
  <2> PICK i : i = req[h].vid
    OBVIOUS
  <2>1. /\ i \in VersionIds /\ i < nextId /\ req[h].row \in Row
        /\ req[h].call.op \in {"publish", "deprecate"} /\ req[h].stage = "write"
    BY DEF HandlersOK, HandlerOK, Write
  <2>2. /\ versions[i] # NoRow
        /\ versions[i].status = IF req[h].call.op = "publish" THEN "draft" ELSE "published"
        /\ req[h].row.status = IF req[h].call.op = "publish" THEN "published"
                                                            ELSE "deprecated"
    BY <2>1 DEF AloneInv, Undisturbed, LifeInv, InHandSound, InHandTrue
  <2>3. /\ nextId' = nextId /\ versions'[i] # NoRow /\ versions'[i].status = req[h].row.status
        /\ \A j \in VersionIds \ {i} : versions'[j] = versions[j]
    <3>1. versions[i] \in Row
      BY <2>1, <2>2
    <3> PICK row : row = [versions[i] EXCEPT !.status = req[h].row.status,
                            !.published = req[h].row.published,
                            !.deprecated = req[h].row.deprecated]
      OBVIOUS
    <3>2. row \in Row /\ row.status = req[h].row.status
      BY <2>1, <3>1 DEF Row
    <3>3. nextId' = nextId /\ versions' = [versions EXCEPT ![i] = row]
      BY <2>1, <2>2 DEF Write
    <3>4. QED
      BY <2>1, <3>2, <3>3
  <2>4. LifeOf(i) = versions[i].status /\ LifeOf(i)' = req[h].row.status
    BY <2>2, <2>3 DEF LifeOf
  <2>5. \A j \in VersionIds \ {i} : LifeOf(j)' = LifeOf(j)
    BY <2>3 DEF LifeOf
  <2>6. lives' = [lives EXCEPT ![i] = req[h].row.status] /\ lives[i] = versions[i].status
    BY <2>1, <2>4, <2>5, OneMove DEF lives
  <2>7. Lives!Publish(i) \/ Lives!Deprecate(i)
    BY <2>1, <2>2, <2>6 DEF Lives!Publish, Lives!Deprecate, Lives!Move, lives
  <2>8. QED
    BY <2>1, <2>7 DEF Lives!Next
<1>3. CASE ~\E h \in Handlers : Write(h)
  <2>1. \/ versions' = versions /\ nextId' = nextId
        \/ \E h \in Handlers : CreateVersion(h) \/ Remove(h)
    <3>1. ASSUME NEW h \in Handlers, Step(h), ~Write(h), ~CreateVersion(h), ~Remove(h)
          PROVE  versions' = versions /\ nextId' = nextId
      BY <3>1 DEF Step, Begin, CreateArtifact, PublishLookup, PublishValidate,
         DeprecateLookup, Reread, DeleteLookup, ReplaceLookup, Clear, Declare, ReadBack,
         Audit, StatementFails, tables
    <3>2. CASE Crash \/ Rest \/ UNCHANGED vars
      BY <3>2 DEF Crash, Rest, vars, tables
    <3>3. QED
      BY <1>3, <3>1, <3>2 DEF Next
  <2>2. CASE versions' = versions /\ nextId' = nextId
    BY <2>2 DEF lives, LifeOf
  <2>3. ASSUME NEW h \in Handlers, CreateVersion(h) \/ Remove(h)
        PROVE  Lives!Next \/ lives' = lives
    <3>1. \A i \in VersionIds : versions'[i] # NoRow /\ versions'[i] # versions[i] =>
            versions[i] = NoRow
      <4>1. CASE CreateVersion(h)
        <5>1. nextId \in VersionIds => versions[nextId] = NoRow
          BY DEF IdsInOrder, VersionIds
        <5>2. QED
          BY <4>1, <5>1 DEF CreateVersion
      <4>2. CASE Remove(h)
        BY <4>2 DEF Remove, HandlersOK, HandlerOK, At
      <4>3. QED
        BY <2>3, <4>1, <4>2
    <3>2. \/ Lives!Next \/ \E i \in VersionIds : Lives!Revive(i)
          \/ lives' = lives
      BY <1>1, RelaxedStep
    <3>3. ASSUME NEW i \in VersionIds, Lives!Revive(i) PROVE FALSE
      <4>1. lives[i] = "deprecated" /\ lives'[i] = "published"
        BY <3>3 DEF Lives!Revive, Lives!Move, lives
      <4>2. LifeOf(i) = "deprecated" /\ LifeOf(i)' = "published"
        BY <4>1 DEF lives
      <4>3. /\ versions[i] # NoRow /\ versions[i].status = "deprecated"
            /\ versions'[i] # NoRow /\ versions'[i].status = "published"
        BY <4>2 DEF LifeOf
      <4>4. QED
        BY <3>1, <4>3
    <3>4. QED
      BY <3>2, <3>3
  <2>4. QED
    BY <2>1, <2>2, <2>3
<1>4. QED
  BY <1>2, <1>3

\* The documented life of a version, draft, published, deprecated and deletion
\* of drafts only, is what the handlers implement when they are not interrupted
\* by one another; failed statements and crashes do no harm to it.
THEOREM DocumentedLifecycle ==
    ASSUME OneAtATime
    PROVE  Spec => RefinesLifecycle
<1>1. Init => Lives!Init
  BY DEF Init, Lives!Init, LifeOf, VersionIds
<1>2. TypeInv /\ LifeInv /\ AloneInv /\ [Next]_vars => [Lives!Next]_lives
  BY AloneStep
<1>3. QED
  BY <1>1, <1>2, TypeInvariant, LifeInvariant, AloneInvariant, PTL
  DEF Spec, RefinesLifecycle, Lives!Spec, lives

\* ReplaceDependencies leaves alone what is past being a draft, when no
\* publication comes between its check and its statements.
THEOREM FrozenWhenAlone ==
    ASSUME OneAtATime
    PROVE  Spec => PublishedDepsFrozen
<1> DEFINE Frozen == \A i \in VersionIds :
             versions[i] # NoRow /\ versions[i].status # "draft" => deps'[i] = deps[i]
<1>1. ASSUME TypeInv, AloneInv, [Next]_vars PROVE Frozen
  <2>1. ASSUME NEW h \in Handlers, Clear(h) \/ Declare(h) PROVE Frozen
    <3>1. /\ versions[req[h].vid].status = "draft" /\ versions[req[h].vid] # NoRow
          /\ \A i \in VersionIds : i # req[h].vid => deps'[i] = deps[i]
      BY <1>1, <2>1 DEF AloneInv, Undisturbed, Clear, Declare, At, TypeInv, TypeOK
    <3>2. QED
      BY <3>1
  <2>2. CASE deps' = deps
    BY <2>2
  <2>3. QED
    BY <1>1, <2>1, <2>2 DEF Next, Step, Crash, Rest, vars, Begin, CreateArtifact,
         CreateVersion, PublishLookup, PublishValidate, DeprecateLookup, Reread, Write,
         DeleteLookup, Remove, ReplaceLookup, ReadBack, Audit, StatementFails, tables
<1>2. TypeInv /\ AloneInv /\ [Next]_vars => [Frozen]_vars
  BY <1>1
<1>3. QED
  BY <1>2, TypeInvariant, AloneInvariant, PTL DEF Spec, PublishedDepsFrozen
-----------------------------------------------------------------------------
(* Whole replacements.                                                     *)

\* Version i declares what the first n items of the body say, no target of
\* which is named twice, and nothing else.
Partly(i, body, n) ==
    /\ \A j, k \in 1 .. n : body[j].name = body[k].name => j = k
    /\ \A k \in 1 .. n : deps[i][body[k].name] = body[k].text
    /\ \A m \in Names : deps[i][m] # NoText => \E k \in 1 .. n : body[k].name = m

\* A handler that declares has declared the items before the next one, and one
\* about to read them back has declared them all.
BodyOK(r) ==
    /\ r.stage \in {"lookup", "clear"} => r.next = 1
    /\ r.stage = "declare" => r.next \in DOMAIN r.call.body
                                /\ Partly(r.vid, r.call.body, r.next - 1)
    /\ r.stage = "readback" => DeclaresAll(deps[r.vid], r.call.body)

\* That, for every handler.
BodyInv == \A h \in Handlers : BodyOK(req[h])

\* A replacement carries a body.
LEMMA ReplaceBody ==
    ASSUME NEW c \in Calls, c.op = "replace"
    PROVE  c.body \in Bodies /\ c.body \in Seq(Items)
BY DEF Calls, VersionOps

\* Clearing starts a replacement with nothing declared, or refuses it untouched.
LEMMA ClearKeepsBody ==
    ASSUME TypeInv, BodyInv, NEW h \in Handlers, Clear(h)
    PROVE  BodyOK(req[h])'
<1> USE DEF TypeInv, TypeOK
<1>1. /\ req[h].stage = "clear" /\ req[h].call.op = "replace" /\ req[h].next = 1
      /\ HandlerOK(req[h], nextId)
  BY DEF Clear, At, BodyInv, BodyOK, HandlersOK
<1>2. req[h].vid \in VersionIds /\ req[h].call \in Calls
  BY <1>1 DEF HandlerOK
<1> PICK body \in Bodies : body = req[h].call.body
  BY <1>1, <1>2, ReplaceBody
<1>3. CASE \E code \in Codes : Answer(h, code)
  BY <1>3 DEF Answer, Idle, BodyOK
<1>4. CASE /\ deps' = [deps EXCEPT ![req[h].vid] = NoDeps]
           /\ Goto(h, IF body = << >> THEN "readback" ELSE "declare")
  <2> PICK i \in VersionIds : i = req[h].vid
    BY <1>2
  <2>1. /\ req'[h].stage = IF body = << >> THEN "readback" ELSE "declare"
        /\ req'[h].call.body = body /\ req'[h].vid = i /\ req'[h].next = 1
    BY <1>1, <1>4 DEF Goto, Request
  <2>2. deps'[i] = NoDeps
    BY <1>4
  <2>3. body \in Seq(Items)
    OBVIOUS
  <2>4. body # << >> => 1 \in DOMAIN body
    BY <2>3
  <2>5. Partly(i, body, 0)' /\ (body = << >> => DeclaresAll(deps'[i], body))
    BY <2>2 DEF Partly, NoDeps, DeclaresAll
  <2>6. Partly(i, body, 1 - 1)'
    BY <2>5
  <2>7. QED
    BY ONLY <2>1, <2>4, <2>5, <2>6 DEF BodyOK, Partly
<1>5. QED
  BY <1>3, <1>4 DEF Clear

\* Declaring adds the next item, or ends the replacement with an error.
LEMMA DeclareKeepsBody ==
    ASSUME TypeInv, BodyInv, NEW h \in Handlers, Declare(h)
    PROVE  BodyOK(req[h])'
<1>1. /\ req[h].stage = "declare" /\ req[h].call.op = "replace"
      /\ HandlerOK(req[h], nextId)
  <2>1. HandlerOK(req[h], nextId)
    BY DEF TypeInv, HandlersOK
  <2>2. At(h, "declare", "replace")
    BY ONLY Declare(h), Zenon DEF Declare
  <2>3. QED
    BY ONLY <2>1, <2>2 DEF At
<1> USE DEF TypeInv, TypeOK
<1>2. req[h].vid \in VersionIds /\ req[h].call \in Calls
  BY <1>1 DEF HandlerOK
<1> PICK body \in Bodies : body = req[h].call.body
  BY <1>1, <1>2, ReplaceBody
<1> PICK i \in VersionIds, k \in Nat : i = req[h].vid /\ k = req[h].next
  BY <1>2 DEF Request
<1>3. /\ body \in Seq(Items) /\ Len(body) \in Nat /\ DOMAIN body = 1 .. Len(body)
      /\ k \in 1 .. Len(body)
  <2>1. k \in DOMAIN body
    BY DEF Declare
  <2>2. body \in Seq(Items)
    OBVIOUS
  <2>3. QED
    BY ONLY <2>1, <2>2
<1> PICK item \in Items : item = body[k]
  BY <1>3
<1>4. item.name \in Names /\ item.text \in Texts /\ item.text # NoText
  BY DEF Items
<1>5. Partly(i, body, k - 1)
  BY <1>1 DEF BodyInv, BodyOK
<1>6. CASE Answer(h, "INTERNAL")
  BY <1>6 DEF Answer, Idle, BodyOK
<1>7. CASE /\ deps[i][item.name] = NoText
           /\ deps' = [deps EXCEPT ![i][item.name] = item.text]
           /\ req' = [req EXCEPT ![h] = [@ EXCEPT !.next = k + 1,
                        !.stage = IF k = Len(body) THEN "readback" ELSE "declare"]]
  <2>1. /\ req'[h].stage = IF k = Len(body) THEN "readback" ELSE "declare"
        /\ req'[h].call.body = body /\ req'[h].vid = i /\ req'[h].next = k + 1
    BY <1>7 DEF Request
  <2>2. \A m \in Names : deps'[i][m] = IF m = item.name THEN item.text ELSE deps[i][m]
    BY <1>4, <1>7
  <2>3. Partly(i, body, k)'
    <3>1. \A j \in 1 .. k - 1 : body[j].name # item.name /\ body[j].name \in Names
      <4> SUFFICES ASSUME NEW j \in 1 .. k - 1
                   PROVE  body[j].name # item.name /\ body[j].name \in Names
        OBVIOUS
      <4>1. j \in DOMAIN body /\ body[j] \in Items
        BY <1>3
      <4>2. deps[i][body[j].name] = body[j].text /\ body[j].text # NoText
        BY <1>5, <4>1 DEF Partly, Items
      <4>3. body[j].name \in Names
        BY <4>1 DEF Items
      <4>4. QED
        BY ONLY <1>7, <4>2, <4>3
    <3>2. \A j \in 1 .. k : j \in 1 .. k - 1 \/ j = k
      BY <1>3
    <3>3. \A j, l \in 1 .. k : body[j].name = body[l].name => j = l
      <4>1. \A j, l \in 1 .. k - 1 : body[j].name = body[l].name => j = l
        BY <1>5 DEF Partly
      <4>2. \A j \in 1 .. k - 1 : body[j].name # body[k].name
        BY <3>1
      <4>3. QED
        BY ONLY <3>2, <4>1, <4>2
    <3>4. \A j \in 1 .. k : deps'[i][body[j].name] = body[j].text
      <4>1. \A j \in 1 .. k - 1 : deps'[i][body[j].name] = body[j].text
        <5> SUFFICES ASSUME NEW j \in 1 .. k - 1
                     PROVE  deps'[i][body[j].name] = body[j].text
          OBVIOUS
        <5>1. body[j].name # item.name /\ body[j].name \in Names
          BY <3>1
        <5>2. deps[i][body[j].name] = body[j].text
          BY <1>5 DEF Partly
        <5>3. QED
          BY ONLY <2>2, <5>1, <5>2
      <4>2. deps'[i][body[k].name] = body[k].text
        BY <1>4, <2>2
      <4>3. QED
        BY ONLY <3>2, <4>1, <4>2
    <3>5. \A m \in Names : deps'[i][m] # NoText => \E j \in 1 .. k : body[j].name = m
      <4> SUFFICES ASSUME NEW m \in Names, deps'[i][m] # NoText
                   PROVE  \E j \in 1 .. k : body[j].name = m
        OBVIOUS
      <4>1. CASE m = item.name
        <5>1. k \in 1 .. k
          BY ONLY <1>3
        <5>2. body[k].name = m
          BY <4>1
        <5>3. QED
          BY ONLY <5>1, <5>2
      <4>2. CASE m # item.name
        <5>1. \E j \in 1 .. k - 1 : body[j].name = m
          BY <1>5, <2>2, <4>2 DEF Partly
        <5>2. 1 .. k - 1 \subseteq 1 .. k
          BY <1>3
        <5>3. QED
          BY <5>1, <5>2
      <4>3. QED
        BY <4>1, <4>2
    <3>6. QED
      BY <3>3, <3>4, <3>5 DEF Partly
  <2>4. k # Len(body) => k + 1 \in DOMAIN body
    BY <1>3
  <2>5. k = Len(body) => DeclaresAll(deps'[i], body)
    <3>1. k = Len(body) => DOMAIN body = 1 .. k
      BY ONLY <1>3
    <3>2. QED
      BY ONLY <2>3, <3>1 DEF Partly, DeclaresAll
  <2>6. Partly(i, body, (k + 1) - 1)'
    <3>1. (k + 1) - 1 = k
      OBVIOUS
    <3>2. QED
      BY ONLY <2>3, <3>1 DEF Partly
  <2>7. QED
    BY ONLY <2>1, <2>4, <2>5, <2>6 DEF BodyOK, Partly
<1>8. QED
  <2>1. body = req[h].call.body /\ i = req[h].vid /\ k = req[h].next /\ item = body[k]
    OBVIOUS
  <2>2. \/ Answer(h, "INTERNAL")
        \/ /\ deps[i][item.name] = NoText
           /\ deps' = [deps EXCEPT ![i][item.name] = item.text]
           /\ req' = [req EXCEPT ![h] = [@ EXCEPT !.next = k + 1,
                        !.stage = IF k = Len(body) THEN "readback" ELSE "declare"]]
    BY ONLY <2>1, Declare(h), Zenon DEF Declare
  <2>3. QED
    BY ONLY <1>6, <1>7, <2>2

\* The steps that are no part of a replacement's writing.
LEMMA OtherKeepsBody ==
    ASSUME TypeInv, BodyInv, NEW h \in Handlers, Step(h), ~Clear(h), ~Declare(h)
    PROVE  BodyOK(req[h])'
<1> USE DEF TypeInv, TypeOK
<1>1. CASE \E code : Answer(h, code)
  BY <1>1 DEF Answer, Idle, BodyOK
<1>2. CASE Begin(h)
  BY <1>2 DEF Begin, Idle, BodyOK
<1>3. CASE req'[h].stage \in {"reread", "write", "audit", "validate", "remove"}
  BY <1>3 DEF BodyOK
<1>4. CASE \E stage \in {"reread", "audit"} : Goto(h, stage)
  BY <1>3, <1>4, AfterGoto
<1>5. CASE \E i, stage : stage \in {"validate", "reread", "remove"} /\ Proceed(h, i, stage)
  BY <1>3, <1>5, AfterProceed
<1>6. CASE Reread(h) \/ CreateVersion(h)
  BY <1>1, <1>3, <1>6, AfterReread, AfterCreateVersion
<1>7. CASE ReplaceLookup(h)
  <2>1. CASE \E i : Proceed(h, i, "clear")
    <3>1. req'[h].stage = "clear" /\ req'[h].next = req[h].next
      BY <2>1 DEF Proceed, Request
    <3>2. req[h].stage = "lookup"
      BY <1>7 DEF ReplaceLookup, At
    <3>3. QED
      BY <3>1, <3>2 DEF BodyInv, BodyOK
  <2>2. QED
    BY <1>1, <1>7, <2>1 DEF ReplaceLookup, NotFound
<1>8. QED
  BY <1>1, <1>2, <1>4, <1>5, <1>6, <1>7
  DEF Step, CreateArtifact, PublishLookup, PublishValidate, DeprecateLookup,
      Write, DeleteLookup, Remove, ReadBack, Audit, NotFound, StatementFails

\* Every step of a lone handler keeps what it knows of its replacement.
LEMMA BodyInductive ==
    ASSUME OneAtATime
    PROVE  TypeInv /\ BodyInv /\ [Next]_vars => BodyInv'
<1> SUFFICES ASSUME TypeInv, BodyInv, [Next]_vars PROVE BodyInv'
  OBVIOUS
<1>1. ASSUME NEW h \in Handlers, Step(h) PROVE BodyInv'
  <2>1. BodyOK(req[h])'
    BY <1>1, ClearKeepsBody, DeclareKeepsBody, OtherKeepsBody
  <2>2. \A g \in Handlers : g = h
    BY DEF OneAtATime
  <2>3. QED
    BY ONLY <2>1, <2>2 DEF BodyInv
<1>2. CASE Crash
  BY <1>2 DEF Crash, BodyInv, BodyOK, Idle
<1>3. CASE UNCHANGED vars
  <2>1. deps' = deps /\ req' = req
    BY <1>3 DEF vars
  <2>2. QED
    BY ONLY BodyInv, <2>1 DEF BodyInv, BodyOK, Partly, DeclaresAll
<1>4. QED
  BY <1>1, <1>2, <1>3 DEF Next, Rest

\* Only a replacement with an acceptable body changes what a version declares,
\* however requests overlap.
LEMMA OnlyAcceptable ==
    ASSUME TypeInv, LifeInv, [Next]_vars, NEW i \in VersionIds, deps'[i] # deps[i]
    PROVE  \E h \in Handlers : /\ Replacing(h) /\ req[h].vid = i
                               /\ Acceptable(req[h].call.body)
<1> USE DEF TypeInv, TypeOK
<1>1. PICK h \in Handlers : Clear(h) \/ Declare(h)
  BY DEF Next, Step, Crash, Rest, vars, Begin, CreateArtifact, CreateVersion,
     PublishLookup, PublishValidate, DeprecateLookup, Reread, Write, DeleteLookup,
     Remove, ReplaceLookup, ReadBack, Audit, StatementFails, tables
<1>2. Replacing(h) /\ req[h].vid = i
  BY <1>1 DEF Clear, Declare, At, Replacing
<1>3. Acceptable(req[h].call.body)
  <2>1. CASE Clear(h)
    BY <2>1 DEF Clear, Acceptable
  <2>2. CASE Declare(h)
    BY <2>2 DEF Declare, At, LifeInv, InHandSound, InHandTrue, Acceptable
  <2>3. QED
    BY <1>1, <2>1, <2>2
<1>4. QED
  BY <1>2, <1>3

\* A replacement is answered OK by its last read only.
LEMMA OKAfterReadBack ==
    ASSUME TypeInv, [Next]_vars, NEW h \in Handlers, Replacing(h),
           req'[h].stage = "idle", req'[h].code = "OK"
    PROVE  req[h].stage = "readback" /\ deps' = deps
<1>1. req'[h] # req[h] /\ req[h].stage \in {"clear", "declare", "readback"}
  BY DEF Replacing
<1>2. ~Crash
  BY DEF Crash, Idle
<1>3. ASSUME NEW g \in Handlers, Step(g) PROVE g = h
  BY <1>1, <1>3, OthersUntouched
<1>4. Step(h)
  <2>1. ~Rest /\ ~UNCHANGED vars
    BY ONLY <1>1 DEF Rest, vars
  <2>2. \E g \in Handlers : Step(g)
    BY ONLY <1>2, <2>1, [Next]_vars DEF Next
  <2>3. QED
    BY ONLY <1>3, <2>2
<1>5. /\ req \in [Handlers -> Request] /\ h \in Handlers
      /\ req'[h].stage = "idle" /\ req'[h].code = "OK"
  BY DEF TypeInv, TypeOK
<1>6. ASSUME NEW code, Answer(h, code) PROVE code = "OK"
  BY ONLY <1>5, <1>6 DEF Answer, Idle, Request
<1>7. ASSUME NEW stage, Goto(h, stage) PROVE stage = "idle"
  BY ONLY <1>5, <1>7 DEF Goto, Request
<1>8. ~Clear(h)
  BY <1>6, <1>7 DEF Clear, Refuses
<1>9. ~Declare(h)
  <2> SUFFICES ASSUME Declare(h) PROVE FALSE
    OBVIOUS
  <2>1. Answer(h, "INTERNAL") \/ req'[h].stage \in {"readback", "declare"}
    BY AfterDeclare
  <2>2. QED
    BY ONLY <1>5, <1>6, <2>1
<1>10. ~StatementFails(h)
  BY <1>1, <1>6 DEF StatementFails
<1>11. ReadBack(h)
  <2>0. ~Begin(h)
    <3>1. req[h].stage # "idle"
      BY <1>1
    <3>2. QED
      BY ONLY <3>1, Zenon DEF Begin
  <2>1. ~CreateArtifact(h) /\ ~CreateVersion(h) /\ ~Audit(h)
    BY ONLY <1>1 DEF CreateArtifact, CreateVersion, Audit, At
  <2>2. ~PublishLookup(h) /\ ~PublishValidate(h) /\ ~DeprecateLookup(h) /\ ~DeleteLookup(h)
    BY ONLY <1>1 DEF PublishLookup, PublishValidate, DeprecateLookup, DeleteLookup, At
  <2>3. ~Reread(h) /\ ~Write(h) /\ ~Remove(h) /\ ~ReplaceLookup(h)
    BY ONLY <1>1 DEF Reread, Write, Remove, ReplaceLookup, At
  <2>4. QED
    BY ONLY <1>4, <1>8, <1>9, <1>10, <2>0, <2>1, <2>2, <2>3 DEF Step
<1>12. QED
  BY ONLY <1>11 DEF ReadBack, At, tables

\* A replacement that no other overlaps is a full one: a version's declarations
\* change only in the hands of a replacement whose every item is acceptable, and
\* one answered OK left all of its body and nothing else, although statements
\* fail and the process crashes.
THEOREM ReplacementsWhole ==
    ASSUME OneAtATime
    PROVE  Spec => ReplacedWhole
<1> DEFINE Step1 ==
      /\ \A i \in VersionIds : deps'[i] # deps[i] =>
            \E h \in Handlers : /\ Replacing(h) /\ req[h].vid = i
                                /\ Acceptable(req[h].call.body)
      /\ \A h \in Handlers :
            Replacing(h) /\ req'[h].stage = "idle" /\ req'[h].code = "OK" =>
                DeclaresAll(deps'[req[h].vid], req[h].call.body)
<1>1. Init => BodyInv
  BY DEF Init, Idle, BodyInv, BodyOK
<1>2. TypeInv /\ BodyInv /\ [Next]_vars => BodyInv'
  BY BodyInductive
<1>3. TypeInv /\ LifeInv /\ BodyInv /\ [Next]_vars => [Step1]_vars
  <2> SUFFICES ASSUME TypeInv, LifeInv, BodyInv, [Next]_vars PROVE Step1
    OBVIOUS
  <2>1. ASSUME NEW h \in Handlers, Replacing(h), req'[h].stage = "idle", req'[h].code = "OK"
        PROVE  DeclaresAll(deps'[req[h].vid], req[h].call.body)
    <3>1. req[h].stage = "readback" /\ deps' = deps
      BY <2>1, OKAfterReadBack
    <3>2. QED
      BY <3>1 DEF BodyInv, BodyOK
  <2>2. QED
    BY <2>1, OnlyAcceptable
<1>4. QED
  BY <1>1, <1>2, <1>3, TypeInvariant, LifeInvariant, PTL DEF Spec, ReplacedWhole
-----------------------------------------------------------------------------
(* The audit trail.  Its inductive invariant is TrailInv below.            *)

Identities == Names \X (Vers \cup {NoVer})

\* Who says what artifact and version an id stands for: its row, a record, and
\* a handler that has a copy of the row.
RowSays(i, x) == versions[i] # NoRow /\ x = <<versions[i].art, versions[i].ver>>

RecordSays(c, i, x) == c.entity = "version" /\ c.id = i /\ x = <<c.art, c.ver>>

Holds(r) == r.stage \notin {"idle", "insert", "lookup"} /\ r.call.op # "createArtifact"

HandSays(r, i, x) == Holds(r) /\ r.vid = i /\ x = <<r.row.art, r.row.ver>>

Says(i, x) ==
    \/ RowSays(i, x)
    \/ \E k \in DOMAIN changes : RecordSays(changes[k], i, x)
    \/ \E h \in Handlers : HandSays(req[h], i, x)

\* They all say the same, also of an id whose row is gone.
OneIdentity ==
    \A i \in VersionIds, x, y \in Identities : Says(i, x) /\ Says(i, y) => x = y

\* The handler of r is about to record that action on id i.
OpOf(action) == IF action = "create" THEN "createVersion" ELSE action

Due(r, i, action) == r.stage = "audit" /\ r.vid = i /\ r.call.op = OpOf(action)

\* A creation and a deletion of an id are recorded once, or are still to be
\* recorded by one handler.
RecordedOnce ==
    /\ \A j, k \in DOMAIN changes :
         changes[j].entity = "version" /\ changes[k].entity = "version"
             /\ changes[j].id = changes[k].id /\ changes[j].action = changes[k].action
             /\ changes[j].action \in {"create", "delete"} => j = k
    /\ \A h \in Handlers, i \in VersionIds, action \in {"create", "delete"} :
         Due(req[h], i, action) =>
             /\ ~Recorded(i, action)
             /\ \A g \in Handlers : Due(req[g], i, action) => g = h

\* What is recorded or is about to be.
Told(i, action) == Recorded(i, action) \/ \E h \in Handlers : Due(req[h], i, action)

\* Every write is told, and so is the deprecation in the copy of a row that a
\* publisher is about to write back.
WritesTold ==
    faults = 0 =>
        /\ \A i \in 1 .. nextId - 1 :
             /\ Told(i, "create")
             /\ versions[i] = NoRow => Told(i, "delete")
             /\ versions[i] # NoRow /\ versions[i].published => Told(i, "publish")
             /\ versions[i] # NoRow /\ versions[i].deprecated => Told(i, "deprecate")
        /\ \A h \in Handlers :
             req[h].stage = "write" /\ req[h].call.op = "publish" /\ req[h].row.deprecated =>
                 Told(req[h].vid, "deprecate")

TrailInv == OneIdentity /\ RecordedOnce /\ WritesTold

-----------------------------------------------------------------------------
(* What a step of a handler does to the handler and to the records.        *)

\* The identity of the row a handler creates.
Created(h, i, x) ==
    /\ CreateVersion(h) /\ nextId' = nextId + 1 /\ i = nextId
    /\ x = <<req[h].call.name, req[h].call.ver>>

\* A handler that has answered is idle.
LEMMA AnswerLetsGo ==
    ASSUME TypeInv, NEW h \in Handlers, NEW code, Answer(h, code)
    PROVE  req'[h].stage = "idle"
BY DEF TypeInv, TypeOK, Answer, Idle

\* A copy of a row comes from the row.
LEMMA HandSaysAfter ==
    ASSUME TypeInv, NEW h \in Handlers, Step(h), NEW i, NEW x, HandSays(req'[h], i, x)
    PROVE  HandSays(req[h], i, x) \/ RowSays(i, x) \/ Created(h, i, x)
<1>1. /\ req[h] \in Request /\ HandlerOK(req[h], nextId) /\ req \in [Handlers -> Request]
  BY DEF TypeInv, TypeOK, HandlersOK
<1>2. CASE \E code : Answer(h, code)
  BY <1>2, AnswerLetsGo DEF HandSays, Holds
<1>3. CASE Begin(h)
  BY <1>1, <1>3 DEF Begin, Idle, HandSays, Holds
<1>4. CASE CreateArtifact(h)
  BY <1>2, <1>4, AfterGoto DEF CreateArtifact, At, HandSays, Holds
<1>5. CASE CreateVersion(h) /\ ~\E code : Answer(h, code)
  <2>1. /\ nextId' = nextId + 1
        /\ req' = [req EXCEPT ![h] = [@ EXCEPT !.stage = "audit", !.vid = nextId,
                                          !.row = NewRow(req[h].call)]]
    BY <1>5 DEF CreateVersion
  <2>2. req'[h].vid = nextId /\ req'[h].row = NewRow(req[h].call)
    BY <1>1, <2>1 DEF Request
  <2>3. QED
    BY <1>5, <2>1, <2>2 DEF HandSays, NewRow, Created
<1>6. CASE PublishLookup(h) \/ DeprecateLookup(h) \/ DeleteLookup(h) \/ ReplaceLookup(h)
  <2>1. \/ \E code : Answer(h, code)
        \/ \E stage : \E j \in Named(req[h].call) : Proceed(h, j, stage)
    BY <1>6 DEF PublishLookup, DeprecateLookup, DeleteLookup, ReplaceLookup, NotFound
  <2>2. ASSUME NEW j \in Named(req[h].call), NEW stage, Proceed(h, j, stage)
        PROVE  RowSays(i, x)
    <3>1. req'[h].vid = j /\ req'[h].row = versions[j]
      BY <1>1, <2>2 DEF Proceed, Request
    <3>2. QED
      BY <3>1 DEF HandSays, RowSays, Named
  <2>3. QED
    BY <1>2, <2>1, <2>2
<1>7. CASE Reread(h) /\ ~\E code : Answer(h, code)
  <2>1. PICK old : old = versions[req[h].vid]
    OBVIOUS
  <2>2. PICK new : new = Stamp(old, req[h].call.op)
    OBVIOUS
  <2>3. /\ req[h].stage = "reread" /\ old # NoRow
        /\ req' = [req EXCEPT ![h] = [req[h] EXCEPT !.stage = "write", !.row = new]]
    BY <1>7, <2>1, <2>2 DEF Reread
  <2>4. old \in Row /\ req[h].call.op \in {"publish", "deprecate"}
    BY <1>1, <2>1, <2>3 DEF HandlerOK, TypeInv, TypeOK
  <2>5. new.art = old.art /\ new.ver = old.ver
    BY <2>2, <2>4, StampTyped
  <2>6. req'[h].vid = req[h].vid /\ req'[h].row = new
    BY <1>1, <2>3 DEF Request
  <2>7. QED
    BY <2>1, <2>3, <2>5, <2>6 DEF HandSays, RowSays
<1>8. CASE \E stage : Goto(h, stage) /\ Holds(req[h])
  BY <1>8, AfterGoto DEF HandSays
<1>9. CASE PublishValidate(h)
  BY <1>2, <1>8, <1>9 DEF PublishValidate, At, Holds
<1>10. CASE Write(h) \/ Remove(h)
  <2>1. Holds(req[h])
    BY <1>1, <1>10 DEF Write, Remove, At, Holds, HandlerOK
  <2>2. QED
    BY <1>2, <1>8, <1>10, <2>1 DEF Write, Remove
<1>11. CASE Clear(h)
  BY <1>2, <1>8, <1>11 DEF Clear, At, Holds
<1>12. CASE Declare(h) /\ ~\E code : Answer(h, code)
  <2> PICK next : next = req[h].next + 1
    OBVIOUS
  <2> PICK stage : stage = IF req[h].next = Len(req[h].call.body) THEN "readback"
                           ELSE "declare"
    OBVIOUS
  <2>1. /\ Holds(req[h])
        /\ req' = [req EXCEPT ![h] = [req[h] EXCEPT !.next = next, !.stage = stage]]
    BY <1>12 DEF Declare, At, Holds
  <2>2. req'[h].vid = req[h].vid /\ req'[h].row = req[h].row
    BY <1>1, <2>1 DEF Request
  <2>3. QED
    BY <2>1, <2>2 DEF HandSays
<1>13. QED
  BY <1>2, <1>3, <1>4, <1>5, <1>6, <1>7, <1>9, <1>10, <1>11, <1>12
  DEF Step, CreateVersion, Reread, Declare, ReadBack, Audit, StatementFails

\* A step comes to the change record of a version in one of three ways.
LEMMA DueAfter ==
    ASSUME TypeInv, NEW h \in Handlers, Step(h), NEW i, NEW action \in Actions,
           Due(req'[h], i, action)
    PROVE  \/ /\ CreateVersion(h) /\ action = "create" /\ i = nextId /\ nextId' = nextId + 1
           \/ /\ Write(h) /\ action \in {"publish", "deprecate"}
              /\ i = req[h].vid /\ action = req[h].call.op
           \/ /\ Remove(h) /\ action = "delete" /\ i = req[h].vid
              /\ versions[i] # NoRow /\ versions'[i] = NoRow
<1>1. /\ req[h] \in Request /\ HandlerOK(req[h], nextId) /\ req \in [Handlers -> Request]
  BY DEF TypeInv, TypeOK, HandlersOK
<1>2. req'[h].stage = "audit" /\ req'[h].vid = i /\ req'[h].call.op = OpOf(action)
  BY DEF Due
<1>3. ~\E code : Answer(h, code)
  BY <1>2, AnswerLetsGo
<1>4. \A stage : Goto(h, stage) => stage = "audit" /\ req'[h].vid = req[h].vid
                                    /\ req'[h].call = req[h].call
  BY <1>2, AfterGoto
<1>5. CASE CreateArtifact(h)
  BY <1>2, <1>3, <1>4, <1>5 DEF CreateArtifact, At, OpOf, Actions
<1>6. CASE CreateVersion(h)
  <2>1. /\ nextId' = nextId + 1
        /\ req' = [req EXCEPT ![h] = [@ EXCEPT !.stage = "audit", !.vid = nextId,
                                          !.row = NewRow(req[h].call)]]
    BY <1>3, <1>6 DEF CreateVersion
  <2>2. req'[h].vid = nextId /\ req'[h].call = req[h].call
    BY <1>1, <2>1 DEF Request
  <2>3. QED
    BY <1>2, <1>6, <2>1, <2>2 DEF CreateVersion, At, OpOf, Actions
<1>7. CASE Write(h)
  <2>1. req[h].call.op \in {"publish", "deprecate"}
    BY <1>1, <1>7 DEF Write, HandlerOK
  <2>2. req'[h].vid = req[h].vid /\ req'[h].call = req[h].call
    BY <1>4, <1>7 DEF Write
  <2>3. QED
    BY <1>2, <1>7, <2>1, <2>2 DEF OpOf, Actions
<1>8. CASE Remove(h)
  <2>1. /\ req[h].call.op = "delete" /\ req[h].vid \in VersionIds
        /\ req'[h].vid = req[h].vid /\ req'[h].call = req[h].call
        /\ versions[req[h].vid] # NoRow /\ versions' = [versions EXCEPT ![req[h].vid] = NoRow]
    BY <1>1, <1>3, <1>4, <1>8 DEF Remove, At, HandlerOK
  <2>2. QED
    BY <1>2, <1>8, <2>1 DEF OpOf, Actions, TypeInv, TypeOK
<1>9. CASE Begin(h)
  BY <1>1, <1>2, <1>9 DEF Begin, Idle
<1>10. CASE PublishLookup(h) \/ DeprecateLookup(h) \/ DeleteLookup(h) \/ ReplaceLookup(h)
  <2>1. \E j, stage : stage \in {"validate", "reread", "remove", "clear"} /\ Proceed(h, j, stage)
    BY <1>3, <1>10 DEF PublishLookup, DeprecateLookup, DeleteLookup, ReplaceLookup, NotFound
  <2>2. QED
    BY <1>2, <2>1, AfterProceed
<1>11. CASE PublishValidate(h) \/ Clear(h)
  <2>1. \E stage : stage \in {"reread", "readback", "declare"} /\ Goto(h, stage)
    BY <1>3, <1>11 DEF PublishValidate, Clear
  <2>2. QED
    BY <1>4, <2>1
<1>12. CASE Reread(h)
  BY <1>2, <1>3, <1>12, AfterReread
<1>13. CASE Declare(h)
  BY <1>2, <1>3, <1>13, AfterDeclare
<1>14. QED
  BY <1>3, <1>5, <1>6, <1>7, <1>8, <1>9, <1>10, <1>11, <1>12, <1>13
  DEF Step, ReadBack, Audit, StatementFails

-----------------------------------------------------------------------------
(* One identity.                                                           *)

\* What a row says after a step it said before, or the step created the version.
LEMMA RowSaysAfter ==
    ASSUME TypeInv, NEW h \in Handlers, Step(h), NEW i \in VersionIds, NEW x, RowSays(i, x)'
    PROVE  RowSays(i, x) \/ Created(h, i, x)
<1>1. HandlerOK(req[h], nextId) /\ versions \in [VersionIds -> Row \cup {NoRow}]
  BY DEF TypeInv, TypeOK, HandlersOK
<1>2. CASE versions' = versions
  BY <1>2 DEF RowSays
<1>3. CASE CreateVersion(h) /\ versions' # versions
  <2>1. nextId' = nextId + 1 /\ versions' = [versions EXCEPT ![nextId] = NewRow(req[h].call)]
    BY <1>3 DEF CreateVersion
  <2>2. CASE i = nextId
    <3>1. versions'[i] = NewRow(req[h].call)
      BY <1>1, <2>1, <2>2
    <3>2. QED
      BY <1>3, <2>1, <2>2, <3>1 DEF RowSays, NewRow, Created
  <2>3. CASE i # nextId
    BY <1>1, <2>1, <2>3 DEF RowSays
  <2>4. QED
    BY <2>2, <2>3
<1>4. CASE Write(h)
  <2>1. req[h].vid \in VersionIds /\ req[h].row \in Row
    BY <1>1, <1>4 DEF Write, HandlerOK
  <2>2. /\ versions'[i] = NoRow <=> versions[i] = NoRow
        /\ versions[i] # NoRow =>
             versions'[i].art = versions[i].art /\ versions'[i].ver = versions[i].ver
    BY <1>1, <1>4, <2>1 DEF Write, Row
  <2>3. QED
    BY <2>2 DEF RowSays
<1>5. CASE Remove(h)
  BY <1>1, <1>5 DEF Remove, RowSays
<1>6. QED
  BY <1>2, <1>3, <1>4, <1>5 DEF Step, Begin, CreateArtifact,
     PublishLookup, PublishValidate, DeprecateLookup, Reread,
     DeleteLookup, ReplaceLookup, Clear, Declare, ReadBack, Audit, StatementFails, tables

\* Nobody speaks of an id that was not handed out.
LEMMA NewIdUnspoken ==
    ASSUME TypeInv, RecordsTrue, nextId \in VersionIds, NEW x
    PROVE  ~Says(nextId, x)
<1>1. nextId \in Nat
  BY DEF TypeInv, TypeOK
<1>2. ~RowSays(nextId, x)
  BY <1>1 DEF TypeInv, IdsInOrder, RowSays
<1>3. \A k \in DOMAIN changes : ~RecordSays(changes[k], nextId, x)
  BY <1>1 DEF RecordsTrue, RecordTrue, RecordSays
<1>4. \A h \in Handlers : ~HandSays(req[h], nextId, x)
  BY <1>1 DEF TypeInv, HandlersOK, HandlerOK, HandSays, Holds
<1>5. QED
  BY <1>2, <1>3, <1>4 DEF Says

\* The audit appends one record and leaves the earlier ones where they are.
LEMMA RecordedAfter ==
    ASSUME TypeInv, NEW h \in Handlers, Audit(h)
    PROVE  /\ changes' = Append(changes, RecordOf(req[h])) /\ changes \in Seq(Change)
           /\ Len(changes) \in Nat
           /\ DOMAIN changes' = 1 .. Len(changes) + 1 /\ DOMAIN changes = 1 .. Len(changes)
           /\ changes'[Len(changes) + 1] = RecordOf(req[h])
           /\ \A k \in DOMAIN changes : changes'[k] = changes[k]
BY DEF Audit, TypeInv, TypeOK

\* No step records an id under a second artifact or version.
LEMMA IdentityKept ==
    ASSUME TypeInv, LifeInv, RecordsTrue, OneIdentity, [Next]_vars PROVE OneIdentity'
<1>1. ASSUME NEW h \in Handlers, Step(h) PROVE OneIdentity'
  <2>1. ASSUME NEW i \in VersionIds, NEW x, Says(i, x)'
        PROVE  Says(i, x) \/ Created(h, i, x)
    <3>1. CASE RowSays(i, x)'
      BY <1>1, <3>1, RowSaysAfter DEF Says
    <3>2. ASSUME NEW k \in DOMAIN changes', RecordSays(changes'[k], i, x)
          PROVE  Says(i, x)
      <4>1. CASE changes' = changes
        BY <3>2, <4>1 DEF Says
      <4>2. CASE \E g \in Handlers : Audit(g)
        <5> PICK g \in Handlers : Audit(g)
          BY <4>2
        <5>1. CASE k \in DOMAIN changes
          BY <3>2, <5>1, RecordedAfter DEF Says
        <5>2. CASE k \notin DOMAIN changes
          <6>1. k = Len(changes) + 1
            BY <3>2, <5>2, RecordedAfter
          <6>2. RecordSays(RecordOf(req[g]), i, x)
            BY <3>2, <6>1, RecordedAfter
          <6>3. HandSays(req[g], i, x)
            BY <6>2 DEF RecordSays, RecordOf, HandSays, Holds, Audit
          <6>4. QED
            BY <6>3 DEF Says
        <5>3. QED
          BY <5>1, <5>2
      <4>3. QED
        BY <4>1, <4>2, OnlyAuditRecords
    <3>3. ASSUME NEW g \in Handlers, HandSays(req'[g], i, x)
          PROVE  Says(i, x) \/ Created(h, i, x)
      <4>1. CASE g = h
        BY <1>1, <3>3, <4>1, HandSaysAfter DEF Says
      <4>2. CASE g # h
        BY <1>1, <3>3, <4>2, OthersUntouched DEF Says
      <4>3. QED
        BY <4>1, <4>2
    <3>4. QED
      BY <2>1, <3>1, <3>2, <3>3 DEF Says
  <2>2. ASSUME NEW i \in VersionIds, NEW x, NEW y, Created(h, i, x)
        PROVE  ~Says(i, y)
    BY <2>2, NewIdUnspoken DEF Created
  <2>3. ASSUME NEW i \in VersionIds, NEW x \in Identities, NEW y \in Identities,
               Says(i, x)', Says(i, y)'
        PROVE  x = y
    <3>1. CASE Says(i, x) /\ Says(i, y)
      BY <3>1 DEF OneIdentity
    <3>2. CASE Created(h, i, x) /\ Created(h, i, y)
      BY <3>2 DEF Created
    <3>3. QED
      BY <2>1, <2>2, <2>3, <3>1, <3>2
  <2>4. QED
    BY <2>3 DEF OneIdentity, Identities
<1>2. CASE Crash
  <2>1. \A i \in VersionIds, x \in Identities : Says(i, x)' => Says(i, x)
    BY <1>2 DEF Crash, tables, Says, RowSays, HandSays, Holds, Idle
  <2>2. QED
    BY <2>1 DEF OneIdentity, Identities
<1>3. CASE UNCHANGED vars
  BY <1>3 DEF vars, OneIdentity, Says, RowSays
<1>4. QED
  BY <1>1, <1>2, <1>3 DEF Next, Rest

-----------------------------------------------------------------------------
(* A creation and a deletion are recorded once.                            *)

\* No handler is about to record a deletion of a row that exists, or anything of
\* an id that was not handed out, and no record speaks of it.
LEMMA NothingDueOfRow ==
    ASSUME TypeInv, LifeInv, RecordsTrue, NEW i \in VersionIds, versions[i] # NoRow
    PROVE  ~Told(i, "delete")
<1>1. \A h \in Handlers : ~Due(req[h], i, "delete")
  BY DEF LifeInv, InHandSound, InHandTrue, Due, OpOf
<1>2. ~Recorded(i, "delete")
  BY DEF RecordsTrue, RecordTrue, Recorded
<1>3. QED
  BY <1>1, <1>2 DEF Told

\* Nothing is recorded yet about an id the database has not given out.
LEMMA NothingDueOfNew ==
    ASSUME TypeInv, RecordsTrue, nextId \in VersionIds, NEW action \in Actions
    PROVE  ~Told(nextId, action)
<1>1. \A h \in Handlers : ~Due(req[h], nextId, action)
  <2> SUFFICES ASSUME NEW h \in Handlers, Due(req[h], nextId, action) PROVE FALSE
    OBVIOUS
  <2>1. HandlerOK(req[h], nextId) /\ nextId \in Nat
    BY DEF TypeInv, TypeOK, HandlersOK
  <2>2. req[h].stage = "audit" /\ req[h].vid = nextId /\ req[h].call.op # "createArtifact"
    BY DEF Due, OpOf, Actions
  <2>3. QED
    BY <2>1, <2>2 DEF HandlerOK
<1>2. ~Recorded(nextId, action)
  BY DEF TypeInv, TypeOK, RecordsTrue, RecordTrue, Recorded
<1>3. QED
  BY <1>1, <1>2 DEF Told

\* Where a record comes from.
LEMMA RecordWasDue ==
    ASSUME TypeInv, NEW h \in Handlers, Audit(h), NEW i, NEW action,
           RecordOf(req[h]).entity = "version",
           RecordOf(req[h]).id = i, RecordOf(req[h]).action = action,
           action \in {"create", "delete"}
    PROVE  Due(req[h], i, action)
<1>1. req[h].stage = "audit" /\ HandlerOK(req[h], nextId)
  BY DEF Audit, TypeInv, HandlersOK
<1>2. req[h].call.op # "createArtifact" /\ req[h].call.op \in VersionOps
  BY <1>1 DEF RecordOf, HandlerOK
<1>3. QED
  BY <1>1, <1>2 DEF RecordOf, Due, OpOf, VersionOps

\* No step records what is recorded already.
LEMMA OnceKept ==
    ASSUME TypeInv, LifeInv, RecordsTrue, RecordedOnce, [Next]_vars PROVE RecordedOnce'
<1> DEFINE Same(c, d) ==
      /\ c.entity = "version" /\ d.entity = "version" /\ c.id = d.id
      /\ c.action = d.action /\ c.action \in {"create", "delete"}
<1>1. \A j, k \in DOMAIN changes' : Same(changes'[j], changes'[k]) => j = k
  <2>1. CASE changes' = changes
    BY <2>1 DEF RecordedOnce
  <2>2. CASE \E h \in Handlers : Audit(h)
    <3> PICK h \in Handlers : Audit(h)
      BY <2>2
    <3>1. PICK c : c = RecordOf(req[h])
      OBVIOUS
    <3>2. ASSUME NEW k \in DOMAIN changes PROVE ~Same(c, changes[k])
      <4> SUFFICES ASSUME Same(c, changes[k]) PROVE FALSE
        OBVIOUS
      <4>1. Due(req[h], c.id, c.action)
        BY <3>1, RecordWasDue
      <4>2. Recorded(c.id, c.action)
        BY DEF Recorded
      <4>3. c.id \in VersionIds
        BY DEF RecordsTrue, RecordTrue
      <4>4. QED
        BY <4>1, <4>2, <4>3 DEF RecordedOnce
    <3> HIDE DEF Same
    <3>3. /\ DOMAIN changes' = 1 .. Len(changes) + 1 /\ DOMAIN changes = 1 .. Len(changes)
          /\ Len(changes) \in Nat /\ changes'[Len(changes) + 1] = c
          /\ \A k \in DOMAIN changes : changes'[k] = changes[k]
      BY <3>1, RecordedAfter
    <3>4. \A j, k \in DOMAIN changes : Same(changes[j], changes[k]) => j = k
      BY DEF RecordedOnce, Same
    <3>5. \A x, y : Same(x, y) => Same(y, x)
      BY DEF Same
    <3>6. SUFFICES ASSUME NEW j \in DOMAIN changes', NEW k \in DOMAIN changes',
                          Same(changes'[j], changes'[k])
                   PROVE  j = k
      OBVIOUS
    <3>7. CASE j \in DOMAIN changes /\ k \in DOMAIN changes
      BY <3>3, <3>4, <3>6, <3>7
    <3>8. CASE j \notin DOMAIN changes /\ k \in DOMAIN changes
      BY <3>2, <3>3, <3>6, <3>8
    <3>9. CASE j \in DOMAIN changes /\ k \notin DOMAIN changes
      BY <3>2, <3>3, <3>5, <3>6, <3>9
    <3>10. QED
      BY <3>3, <3>7, <3>8, <3>9
  <2>3. QED
    BY <2>1, <2>2, OnlyAuditRecords
<1>2. ASSUME NEW h \in Handlers, NEW i \in VersionIds, NEW action \in {"create", "delete"},
             Due(req'[h], i, action)
      PROVE  /\ ~Recorded(i, action)'
             /\ \A g \in Handlers : Due(req'[g], i, action) => g = h
  <2>1. \A g, k \in Handlers : Step(g) /\ k # g => req'[k] = req[k]
    BY OthersUntouched
  <2>2. CASE \E f \in Handlers : Step(f)
    <3> PICK f \in Handlers : Step(f)
      BY <2>2
    <3>1. action \in Actions
      BY DEF Actions
    <3>2. Due(req'[f], i, action) => ~Told(i, action)
      <4> SUFFICES ASSUME Due(req'[f], i, action) PROVE ~Told(i, action)
        OBVIOUS
      <4>1. \/ CreateVersion(f) /\ i = nextId
            \/ action = "delete" /\ versions[i] # NoRow
        BY <3>1, DueAfter
      <4>2. CASE CreateVersion(f) /\ i = nextId
        BY <3>1, <4>2, NothingDueOfNew
      <4>3. CASE action = "delete" /\ versions[i] # NoRow
        BY <4>3, NothingDueOfRow
      <4>4. QED
        BY <4>1, <4>2, <4>3
    <3>3. Recorded(i, action)' =>
            Recorded(i, action) \/ (Due(req[f], i, action) /\ req'[f].stage = "idle")
      <4> SUFFICES ASSUME Recorded(i, action)', ~Recorded(i, action)
                   PROVE  Due(req[f], i, action) /\ req'[f].stage = "idle"
        OBVIOUS
      <4>1. PICK k \in DOMAIN changes' :
              /\ changes'[k].entity = "version"
              /\ changes'[k].id = i /\ changes'[k].action = action
        BY DEF Recorded
      <4>2. changes' # changes
        BY <4>1 DEF Recorded
      <4>3. Audit(f)
        BY <4>2 DEF Step, Begin, CreateArtifact,
           CreateVersion, PublishLookup, PublishValidate, DeprecateLookup, Reread, Write,
           DeleteLookup, Remove, ReplaceLookup, Clear, Declare, ReadBack, StatementFails,
           tables
      <4>4. k = Len(changes) + 1
        BY <4>1, <4>3, RecordedAfter DEF Recorded
      <4>5. QED
        BY <4>1, <4>3, <4>4, RecordedAfter, RecordWasDue, AnswerLetsGo DEF Audit
    <3>4. QED
      <4>1. \A g \in Handlers : Due(req'[g], i, action) /\ g # f => Due(req[g], i, action)
        BY <2>1
      <4>2. \A g \in Handlers : Due(req[g], i, action) =>
              ~Recorded(i, action) /\ \A k \in Handlers : Due(req[k], i, action) => k = g
        BY DEF RecordedOnce
      <4>3. Due(req'[f], i, action) => req'[f].stage # "idle"
        BY DEF Due
      <4>4. CASE h = f
        BY <1>2, <3>2, <3>3, <4>1, <4>3, <4>4 DEF Told
      <4>5. CASE h # f
        <5>1. Due(req[h], i, action) /\ ~Recorded(i, action) /\ ~Due(req[f], i, action)
          BY <1>2, <4>1, <4>2, <4>5
        <5>2. ~Due(req'[f], i, action)
          BY <3>2, <5>1 DEF Told
        <5>3. QED
          BY <3>3, <4>1, <4>2, <5>1, <5>2
      <4>6. QED
        BY <4>4, <4>5
  <2>3. CASE Crash
    BY <1>2, <2>3 DEF Crash, Due, Idle
  <2>4. CASE UNCHANGED vars
    <3>1. req' = req /\ changes' = changes
      BY <2>4 DEF vars
    <3>2. QED
      BY <1>2, <3>1 DEF RecordedOnce, Recorded
  <2>5. QED
    BY <2>2, <2>3, <2>4 DEF Next, Rest
<1>3. QED
  BY <1>1, <1>2 DEF RecordedOnce, VersionIds

-----------------------------------------------------------------------------
(* Nothing goes unrecorded while nothing fails.                            *)

\* What is recorded, or is about to be, stays so while no fault happens.
LEMMA ToldStays ==
    ASSUME TypeInv, NEW h \in Handlers, Step(h), faults' = 0,
           NEW i, NEW action \in Actions, Told(i, action)
    PROVE  Told(i, action)'
<1>1. Recorded(i, action) => Recorded(i, action)'
  <2>1. CASE changes' = changes
    BY <2>1 DEF Recorded
  <2>2. CASE Audit(h)
    BY <2>2, RecordedAfter DEF Recorded
  <2>3. QED
    BY <2>1, <2>2 DEF Step, Begin, CreateArtifact,
       CreateVersion, PublishLookup, PublishValidate, DeprecateLookup, Reread, Write,
       DeleteLookup, Remove, ReplaceLookup, Clear, Declare, ReadBack, StatementFails, tables
<1>2. ASSUME NEW g \in Handlers, Due(req[g], i, action), g # h PROVE Told(i, action)'
  BY <1>2, OthersUntouched DEF Told
<1>3. ASSUME Due(req[h], i, action) PROVE Recorded(i, action)'
  <2>1. /\ req[h].stage = "audit" /\ req[h].vid = i /\ req[h].call.op = OpOf(action)
        /\ faults \in Nat
    BY <1>3 DEF Due, TypeInv, TypeOK
  <2>2. Audit(h)
    BY <2>1 DEF Step, Begin, CreateArtifact, At,
       CreateVersion, PublishLookup, PublishValidate, DeprecateLookup, Reread, Write,
       DeleteLookup, Remove, ReplaceLookup, Clear, Declare, ReadBack, StatementFails
  <2>3. PICK c : c = RecordOf(req[h])
    OBVIOUS
  <2>4. c.entity = "version" /\ c.id = i /\ c.action = action
    BY <2>1, <2>3 DEF RecordOf, OpOf, Actions
  <2>5. Len(changes) + 1 \in DOMAIN changes' /\ changes'[Len(changes) + 1] = c
    BY <2>2, <2>3, RecordedAfter
  <2>6. QED
    BY <2>4, <2>5 DEF Recorded
<1>4. QED
  BY <1>1, <1>2, <1>3 DEF Told

\* A copy about to be written by a publisher is of a row it read just now.
LEMMA CopyAfter ==
    ASSUME TypeInv, NEW h \in Handlers, Step(h), req'[h].stage = "write",
           req'[h].call.op = "publish", req'[h].row.deprecated
    PROVE  /\ req'[h].vid = req[h].vid /\ req[h].vid \in VersionIds
           /\ req[h].vid < nextId
           /\ versions[req[h].vid] # NoRow /\ versions[req[h].vid].deprecated
<1>1. /\ req[h] \in Request /\ HandlerOK(req[h], nextId) /\ req \in [Handlers -> Request]
  BY DEF TypeInv, TypeOK, HandlersOK
<1>2. ~\E code : Answer(h, code)
  BY AnswerLetsGo
<1>3. \A stage : Goto(h, stage) => stage = "write"
  BY AfterGoto
<1>4. \A i, stage : Proceed(h, i, stage) => stage = "write"
  BY AfterProceed
<1>5. ~Declare(h)
  <2> SUFFICES ASSUME Declare(h) PROVE FALSE
    OBVIOUS
  <2> PICK next : next = req[h].next + 1
    OBVIOUS
  <2> PICK stage : stage = IF req[h].next = Len(req[h].call.body) THEN "readback"
                           ELSE "declare"
    OBVIOUS
  <2>1. req' = [req EXCEPT ![h] = [req[h] EXCEPT !.next = next, !.stage = stage]]
    BY <1>2 DEF Declare
  <2>2. req'[h].stage = stage
    BY <1>1, <2>1 DEF Request
  <2>3. QED
    BY <2>2
<1>6. ~CreateVersion(h) /\ ~Begin(h)
  <2>1. ~CreateVersion(h)
    <3> SUFFICES ASSUME CreateVersion(h) PROVE FALSE
      OBVIOUS
    <3> PICK row : row = NewRow(req[h].call)
      OBVIOUS
    <3>1. req' = [req EXCEPT ![h] = [req[h] EXCEPT !.stage = "audit", !.vid = nextId,
                                                   !.row = row]]
      BY <1>2 DEF CreateVersion
    <3>2. QED
      BY <1>1, <3>1 DEF Request
  <2>2. ~Begin(h)
    BY <1>1 DEF Begin, Idle
  <2>3. QED
    BY <2>1, <2>2
<1>7. Reread(h)
  BY <1>2, <1>3, <1>4, <1>5, <1>6 DEF Step, CreateArtifact, PublishLookup, NotFound,
     PublishValidate, DeprecateLookup, Write, DeleteLookup, Remove, ReplaceLookup, Clear,
     ReadBack, Audit, StatementFails
<1> PICK old : old = versions[req[h].vid]
  OBVIOUS
<1> PICK new : new = Stamp(old, req[h].call.op)
  OBVIOUS
<1>8. /\ req[h].stage = "reread" /\ old # NoRow
      /\ req' = [req EXCEPT ![h] = [req[h] EXCEPT !.stage = "write", !.row = new]]
  BY <1>2, <1>7 DEF Reread
<1>9. req'[h].vid = req[h].vid /\ req'[h].row = new /\ req'[h].call = req[h].call
  BY <1>1, <1>8 DEF Request
<1>10. req[h].vid \in VersionIds /\ req[h].vid < nextId /\ old \in Row
  BY <1>1, <1>8 DEF HandlerOK, TypeInv, TypeOK
<1>11. old.deprecated
  <2>1. req[h].call.op = "publish" /\ new.deprecated
    BY <1>9
  <2>2. new = [old EXCEPT !.status = "published", !.published = TRUE]
    BY <2>1 DEF Stamp
  <2>3. new.deprecated = old.deprecated
    BY <1>10, <2>2 DEF Row
  <2>4. QED
    BY <2>1, <2>3
<1>12. QED
  BY <1>8, <1>9, <1>10, <1>11

\* What a row shows that it did not show before is about to be recorded.
LEMMA RowTold ==
    ASSUME TypeInv, LifeInv, WritesTold, NEW h \in Handlers, Step(h), faults = 0,
           NEW i \in VersionIds, i < nextId'
    PROVE  /\ Told(i, "create") \/ Due(req'[h], i, "create")
           /\ versions'[i] = NoRow => Told(i, "delete") \/ Due(req'[h], i, "delete")
           /\ versions'[i] # NoRow /\ versions'[i].published =>
                Told(i, "publish") \/ Due(req'[h], i, "publish")
           /\ versions'[i] # NoRow /\ versions'[i].deprecated =>
                Told(i, "deprecate") \/ Due(req'[h], i, "deprecate")
<1>1. /\ req[h] \in Request /\ HandlerOK(req[h], nextId) /\ InHandTrue(req[h])
      /\ versions \in [VersionIds -> Row \cup {NoRow}] /\ nextId \in Nat
      /\ req \in [Handlers -> Request]
  BY DEF TypeInv, TypeOK, HandlersOK, LifeInv, InHandSound
<1>2. \A j \in VersionIds : j < nextId =>
        /\ Told(j, "create")
        /\ versions[j] = NoRow => Told(j, "delete")
        /\ versions[j] # NoRow /\ versions[j].published => Told(j, "publish")
        /\ versions[j] # NoRow /\ versions[j].deprecated => Told(j, "deprecate")
  BY <1>1 DEF WritesTold, VersionIds
<1>3. CASE UNCHANGED <<versions, nextId>>
  BY <1>2, <1>3
<1>4. CASE CreateVersion(h) /\ ~UNCHANGED <<versions, nextId>>
  <2>1. /\ nextId \in VersionIds /\ nextId' = nextId + 1
        /\ versions' = [versions EXCEPT ![nextId] = NewRow(req[h].call)]
        /\ req' = [req EXCEPT ![h] = [@ EXCEPT !.stage = "audit", !.vid = nextId,
                                          !.row = NewRow(req[h].call)]]
    BY <1>4 DEF CreateVersion
  <2>2. CASE i = nextId
    <3>1. req[h].call.op = "createVersion"
      BY <1>4 DEF CreateVersion, At
    <3>2. Due(req'[h], i, "create")
      BY <1>1, <2>1, <2>2, <3>1 DEF Due, OpOf, Request
    <3>3. versions'[i] = NewRow(req[h].call) /\ NewRow(req[h].call) # NoRow
      <4>1. NewRow(req[h].call) \in Row
        BY <1>1, <1>4, CallTyped DEF CreateVersion, At, HandlerOK, NewRow, Row, Statuses
      <4>2. QED
        BY <1>1, <2>1, <2>2, <4>1
    <3>4. QED
      BY <3>2, <3>3 DEF NewRow
  <2>3. CASE i # nextId
    <3>1. i < nextId /\ versions'[i] = versions[i]
      BY <1>1, <2>1, <2>3 DEF VersionIds
    <3>2. QED
      BY <1>2, <3>1
  <2>4. QED
    BY <2>2, <2>3
<1>5. CASE Write(h)
  <2>1. /\ req[h].vid \in VersionIds /\ req[h].row \in Row /\ req[h].vid < nextId
        /\ req[h].call.op \in {"publish", "deprecate"} /\ req[h].stage = "write"
        /\ nextId' = nextId
    BY <1>1, <1>5 DEF Write, HandlerOK
  <2>2. Due(req'[h], req[h].vid, req[h].call.op)
    <3>1. Goto(h, "audit")
      BY <1>5 DEF Write
    <3>2. QED
      BY <2>1, <3>1, AfterGoto DEF Due, OpOf
  <2>3. CASE i # req[h].vid
    <3>1. versions'[i] = versions[i]
      BY <1>1, <1>5, <2>3 DEF Write
    <3>2. QED
      BY <1>2, <2>1, <3>1
  <2>4. CASE i = req[h].vid
    <3>1. CASE versions[i] = NoRow
      <4>1. versions'[i] = NoRow
        BY <1>1, <1>5, <2>4, <3>1 DEF Write
      <4>2. QED
        BY <1>2, <2>1, <3>1, <4>1
    <3>2. CASE versions[i] # NoRow
      <4>1. /\ versions[i] \in Row /\ versions'[i] # NoRow
            /\ versions'[i].published = req[h].row.published
            /\ versions'[i].deprecated = req[h].row.deprecated
        BY <1>1, <1>5, <2>1, <2>4, <3>2 DEF Write, Row
      <4>2. CASE req[h].call.op = "publish"
        <5>1. req[h].row.deprecated => Told(i, "deprecate")
          BY <2>1, <2>4, <4>2 DEF WritesTold
        <5>2. QED
          BY <1>2, <2>1, <2>2, <2>4, <4>1, <4>2, <5>1
      <4>3. CASE req[h].call.op = "deprecate"
        <5>1. versions[i].published
          BY <1>1, <2>1, <2>4, <3>2, <4>1, <4>3
          DEF InHandTrue, LifeInv, TimestampsAgree, Row
        <5>2. QED
          BY <1>2, <2>1, <2>2, <2>4, <3>2, <4>1, <4>3, <5>1
      <4>4. QED
        BY <2>1, <4>2, <4>3
    <3>3. QED
      BY <3>1, <3>2
  <2>5. QED
    BY <2>3, <2>4
<1>6. CASE Remove(h) /\ ~UNCHANGED <<versions, nextId>>
  <2>1. /\ req[h].vid \in VersionIds /\ nextId' = nextId /\ req[h].call.op = "delete"
        /\ versions' = [versions EXCEPT ![req[h].vid] = NoRow] /\ Goto(h, "audit")
    BY <1>1, <1>6 DEF Remove, At, HandlerOK
  <2>2. Due(req'[h], req[h].vid, "delete")
    BY <2>1, AfterGoto DEF Due, OpOf
  <2>3. QED
    BY <1>1, <1>2, <2>1, <2>2
<1>7. QED
  BY <1>3, <1>4, <1>5, <1>6 DEF Step, Begin, CreateArtifact,
     PublishLookup, PublishValidate, DeprecateLookup, Reread,
     DeleteLookup, ReplaceLookup, Clear, Declare, ReadBack, Audit, StatementFails, tables

\* No step leaves a change that nobody is about to record.
LEMMA ToldKept ==
    ASSUME TypeInv, TypeInv', LifeInv, WritesTold, [Next]_vars PROVE WritesTold'
<1> SUFFICES ASSUME faults' = 0 PROVE WritesTold'
  BY DEF WritesTold
<1>1. ASSUME NEW h \in Handlers, Step(h) PROVE WritesTold'
  <2>1. faults = 0
    <3>1. faults \in Nat
      BY DEF TypeInv, TypeOK
    <3>2. CASE StatementFails(h)
      BY <3>1, <3>2 DEF StatementFails
    <3>3. CASE ~StatementFails(h)
      BY <1>1, <3>3 DEF Step, Begin, CreateArtifact, tables,
         CreateVersion, PublishLookup, PublishValidate, DeprecateLookup, Reread, Write,
         DeleteLookup, Remove, ReplaceLookup, Clear, Declare, ReadBack, Audit
    <3>4. QED
      BY <3>2, <3>3
  <2>2. \A i \in VersionIds, action \in Actions :
          Told(i, action) \/ Due(req'[h], i, action) => Told(i, action)'
    BY <1>1, ToldStays DEF Told
  <2>3. {"create", "delete", "publish", "deprecate"} = Actions
    BY DEF Actions
  <2>4. ASSUME NEW i \in 1 .. nextId' - 1
        PROVE  /\ Told(i, "create")'
               /\ versions'[i] = NoRow => Told(i, "delete")'
               /\ versions'[i] # NoRow /\ versions'[i].published => Told(i, "publish")'
               /\ versions'[i] # NoRow /\ versions'[i].deprecated => Told(i, "deprecate")'
    <3>1. i \in VersionIds /\ i < nextId'
      <4> PICK n : n = nextId'
        OBVIOUS
      <4>1. n \in 1 .. MaxVersions + 1
        BY DEF TypeInv, TypeOK
      <4>2. i \in 1 .. n - 1
        OBVIOUS
      <4>3. i \in VersionIds /\ i < n
        BY ONLY <4>1, <4>2, ConstantsOK DEF VersionIds
      <4>4. QED
        BY <4>3
    <3>2. QED
      BY <1>1, <2>1, <2>2, <2>3, <3>1, RowTold
  <2>5. ASSUME NEW g \in Handlers, req'[g].stage = "write", req'[g].call.op = "publish",
               req'[g].row.deprecated, NEW i, i = req'[g].vid
        PROVE  Told(i, "deprecate")'
    <3>1. CASE g = h
      <4>1. i \in VersionIds /\ i < nextId /\ versions[i] # NoRow /\ versions[i].deprecated
        BY <1>1, <2>5, <3>1, CopyAfter
      <4>2. Told(i, "deprecate")
        BY <2>1, <4>1 DEF WritesTold, VersionIds, TypeInv, TypeOK
      <4>3. QED
        BY <2>2, <2>3, <4>1, <4>2
    <3>2. CASE g # h
      <4>1. req'[g] = req[g]
        BY <1>1, <3>2, OthersUntouched
      <4>2. Told(i, "deprecate")
        BY <2>1, <2>5, <4>1 DEF WritesTold
      <4>3. i \in VersionIds
        BY <2>5, <4>1 DEF TypeInv, HandlersOK, HandlerOK
      <4>4. QED
        BY <2>2, <2>3, <4>2, <4>3
    <3>3. QED
      BY <3>1, <3>2
  <2>6. \A g \in Handlers :
          req'[g].stage = "write" /\ req'[g].call.op = "publish" /\ req'[g].row.deprecated =>
            Told(req[g].vid, "deprecate")'
    BY <2>5
  <2>7. QED
    BY <2>4, <2>5 DEF WritesTold
<1>2. CASE Crash
  BY <1>2 DEF Crash, TypeInv, TypeOK
<1>3. CASE UNCHANGED vars
  BY <1>3 DEF vars, WritesTold, Told, Recorded
<1>4. QED
  BY <1>1, <1>2, <1>3 DEF Next, Rest

-----------------------------------------------------------------------------
\* An empty trail is a sound one.
LEMMA TrailBegins == Init => TrailInv
BY DEF Init, TrailInv, OneIdentity, Says, RowSays, HandSays, Holds, Idle, RecordedOnce, Due,
   WritesTold

\* The trail is sound in every reachable state.
LEMMA TrailInvariant == Spec => []TrailInv
<1>1. TypeInv /\ TypeInv' /\ LifeInv /\ RecordsTrue /\ TrailInv /\ [Next]_vars => TrailInv'
  BY IdentityKept, OnceKept, ToldKept DEF TrailInv
<1>2. QED
  BY <1>1, TrailBegins, TypeInvariant, LifeInvariant, RecordsInvariant, PTL DEF Spec

\* While nothing fails, every write to a version is recorded or about to be,
\* however the requests overlap that read it before and write it after.
THEOREM EveryWriteAudited == Spec => []NoWriteUnaudited
<1>1. WritesTold => NoWriteUnaudited
  BY DEF WritesTold, NoWriteUnaudited, Told, Due, About, OpOf
<1>2. QED
  BY <1>1, TrailInvariant, PTL DEF TrailInv

\* All records of an id name one version, and its creation and its deletion are
\* recorded once at most, also by handlers that still hold a copy of a row
\* somebody else has deleted.
THEOREM TrailNamesOneVersion == Spec => []AuditNamesOneVersion
<1>1. TypeInv /\ RecordsTrue /\ TrailInv => AuditNamesOneVersion
  <2> SUFFICES ASSUME TypeInv, RecordsTrue, TrailInv,
                      NEW j \in DOMAIN changes, NEW k \in DOMAIN changes,
                      changes[j].entity = "version", changes[k].entity = "version",
                      changes[j].id = changes[k].id
               PROVE  /\ changes[j].art = changes[k].art /\ changes[j].ver = changes[k].ver
                      /\ changes[j].action \in {"create", "delete"}
                           /\ changes[j].action = changes[k].action => j = k
    BY DEF AuditNamesOneVersion
  <2>1. PICK x : x = <<changes[j].art, changes[j].ver>>
    OBVIOUS
  <2>2. PICK y : y = <<changes[k].art, changes[k].ver>>
    OBVIOUS
  <2>3. changes[j] \in Change /\ changes[k] \in Change
    BY DEF TypeInv, TypeOK
  <2>4. x \in Identities /\ y \in Identities
    BY <2>1, <2>2, <2>3 DEF Change, Identities
  <2>5. Says(changes[j].id, x) /\ Says(changes[j].id, y)
    BY <2>1, <2>2 DEF Says, RecordSays
  <2>6. changes[j].id \in VersionIds
    BY DEF RecordsTrue, RecordTrue
  <2>7. x = y
    BY <2>4, <2>5, <2>6 DEF TrailInv, OneIdentity
  <2>8. QED
    BY <2>1, <2>2, <2>7 DEF TrailInv, RecordedOnce
<1>2. QED
  BY <1>1, TrailInvariant, TypeInvariant, RecordsInvariant, PTL
=============================================================================
