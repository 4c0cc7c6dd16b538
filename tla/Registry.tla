------------------------------- MODULE Registry -------------------------------
(***************************************************************************)
(* The write side of the artifact registry: the HTTP handlers that create  *)
(* artifacts and versions, publish, deprecate and delete versions and      *)
(* replace a version's dependencies, over the SQLite tables they share.    *)
(*                                                                         *)
(* Every request runs in a goroutine of its own.  The service takes no     *)
(* lock and opens no transaction: each call of the store is one            *)
(* autocommitted SQL statement on the single connection, so a step of the  *)
(* model is one statement together with the Go code up to the next one.    *)
(* A read of the artifacts table is joined to the statement that follows   *)
(* it: artifact rows never change and are never removed, so nothing can    *)
(* happen between the two that tells them apart.                           *)
(***************************************************************************)
EXTENDS Integers, Sequences, FiniteSets

CONSTANTS
    Names,          \* artifact names a request can mention
    ValidNames,     \* those model.ValidArtifactName accepts
    Vers,           \* version strings a request can mention
    ValidVers,      \* those semver.Parse accepts
    Texts,          \* constraint strings a request can mention
    ValidTexts,     \* those constraint.Parse accepts
    Bodies,         \* bodies of PUT .../dependencies: sequences of items
    Handlers,       \* requests that can be in flight at once
    NoVer, NoText, NoRow, NoCall,   \* absent values
    MaxVersions,    \* bound: rows ever inserted into versions
    MaxChanges,     \* bound: change records ever written
    MaxFaults       \* bound: failed statements and crashes

Items == [name : Names, text : Texts]

ASSUME ConstantsOK ==
    /\ ValidNames \subseteq Names /\ ValidVers \subseteq Vers
    /\ ValidTexts \subseteq Texts /\ Bodies \subseteq Seq(Items)
    /\ NoText \notin Texts /\ NoVer \notin Vers
    /\ MaxVersions \in Nat /\ MaxChanges \in Nat /\ MaxFaults \in Nat

VARIABLES
    artifacts,      \* table artifacts: the registered names
    versions,       \* table versions: id -> row, NoRow if there is none
    nextId,         \* the AUTOINCREMENT counter of versions
    deps,           \* table dependencies: version id -> name -> constraint
    changes,        \* table change_records, in order of id
    req,            \* the request each handler is serving, and how far it is
    faults          \* failed statements and crashes so far

vars == <<artifacts, versions, nextId, deps, changes, req, faults>>
tables == <<artifacts, versions, nextId, deps, changes>>

VersionIds == 1 .. MaxVersions
Statuses == {"draft", "published", "deprecated"}

\* published and deprecated say whether the timestamp of that name is set.
Row == [art : Names, ver : Vers, status : Statuses,
        published : BOOLEAN, deprecated : BOOLEAN]

Actions == {"create", "publish", "deprecate", "delete"}

\* A change record with the identity its JSON snapshot carries; id is 0 for an
\* artifact, which its name identifies.
Change == [entity : {"artifact", "version"}, action : Actions,
           id : 0 .. MaxVersions, art : Names, ver : Vers \cup {NoVer}]

VersionOps == {"createVersion", "publish", "deprecate", "delete"}

Calls ==
    [op : {"createArtifact"}, name : Names, ver : {NoVer}, body : {<< >>}]
        \cup [op : VersionOps, name : Names, ver : Vers, body : {<< >>}]
        \cup [op : {"replace"}, name : Names, ver : Vers, body : Bodies]

Stages == {"idle", "insert", "lookup", "validate", "reread", "write", "remove",
           "clear", "declare", "readback", "audit"}

Codes == {"NONE", "OK", "INVALID_ARGUMENT", "NAME_CONFLICT", "NOT_FOUND",
          "INVALID_VERSION", "VERSION_EXISTS", "ALREADY_PUBLISHED",
          "CANNOT_DEPRECATE_DRAFT", "ALREADY_DEPRECATED",
          "CANNOT_DELETE_PUBLISHED", "INVALID_CONSTRAINT",
          "DEPENDENCY_TARGET_MISSING", "INTERNAL"}

\* vid: the version id the lookup found; row: the handler's copy of its row;
\* next: the item of the body to declare next; code: the last answer given.
Request == [stage : Stages, call : Calls \cup {NoCall}, vid : 0 .. MaxVersions,
            row : Row \cup {NoRow}, next : Nat, code : Codes]

Idle == [stage |-> "idle", call |-> NoCall, vid |-> 0, row |-> NoRow,
         next |-> 1, code |-> "NONE"]

ASSUME AbsentValuesOK == NoRow \notin Row /\ NoCall \notin Calls

NoDeps == [n \in Names |-> NoText]

Init ==
    /\ artifacts = {}
    /\ versions = [i \in VersionIds |-> NoRow]
    /\ nextId = 1
    /\ deps = [i \in VersionIds |-> NoDeps]
    /\ changes = << >>
    /\ req = [h \in Handlers |-> Idle]
    /\ faults = 0
-----------------------------------------------------------------------------
Busy == {h \in Handlers : req[h].stage # "idle"}

At(h, stage, op) == req[h].stage = stage /\ req[h].call.op = op

Goto(h, stage) == req' = [req EXCEPT ![h].stage = stage]

\* The handler returns: its local state is gone, the client has the code.
Answer(h, code) == req' = [req EXCEPT ![h] = [Idle EXCEPT !.code = code]]

\* A request arrives.  The guards only bound the run: every request writes at
\* most one change record, and createVersion at most one row.
Begin(h) ==
    /\ req[h].stage = "idle"
    /\ Len(changes) + Cardinality(Busy) < MaxChanges
    /\ \E c \in Calls :
         /\ c.op = "createVersion" =>
              nextId + Cardinality({g \in Busy : req[g].call.op = "createVersion"})
                  <= MaxVersions
         /\ req' = [req EXCEPT ![h] =
              [Idle EXCEPT !.call = c,
                           !.stage = IF c.op \in {"createArtifact", "createVersion"}
                                     THEN "insert" ELSE "lookup"]]
    /\ UNCHANGED <<tables, faults>>

CreateArtifact(h) ==
    LET name == req[h].call.name IN
    /\ At(h, "insert", "createArtifact")
    /\ \/ /\ name \notin ValidNames
          /\ Answer(h, "INVALID_ARGUMENT") /\ UNCHANGED artifacts
       \/ /\ name \in ValidNames /\ name \in artifacts
          /\ Answer(h, "NAME_CONFLICT") /\ UNCHANGED artifacts
       \/ /\ name \in ValidNames /\ name \notin artifacts
          /\ artifacts' = artifacts \cup {name}
          /\ Goto(h, "audit")
    /\ UNCHANGED <<versions, nextId, deps, changes, faults>>

\* The rows a call's artifact name and version string denote (at most one).
Named(c) == {i \in VersionIds : /\ versions[i] # NoRow
                                /\ versions[i].art = c.name
                                /\ versions[i].ver = c.ver}

NewRow(c) == [art |-> c.name, ver |-> c.ver, status |-> "draft",
              published |-> FALSE, deprecated |-> FALSE]

\* Mutant: ids without AUTOINCREMENT, where the id of a deleted last row is
\* handed out again.
CreateVersionReusingIds(h) ==
    LET c == req[h].call
        used == {i \in VersionIds : versions[i] # NoRow}
        id == CHOOSE i \in VersionIds : i \notin used /\ \A j \in 1 .. i - 1 : j \in used
    IN
    /\ At(h, "insert", "createVersion")
    /\ \/ /\ c.name \notin artifacts \/ Named(c) # {}
          /\ Answer(h, "VERSION_EXISTS")
          /\ UNCHANGED <<versions, nextId>>
       \/ /\ c.name \in artifacts /\ Named(c) = {} /\ nextId \in VersionIds
          /\ versions' = [versions EXCEPT ![id] = NewRow(c)]
          /\ nextId' = nextId + 1
          /\ req' = [req EXCEPT ![h] = [@ EXCEPT !.stage = "audit", !.vid = id,
                                              !.row = NewRow(c)]]
    /\ UNCHANGED <<artifacts, deps, changes, faults>>

CreateVersion(h) ==
    LET c == req[h].call IN
    /\ At(h, "insert", "createVersion")
    /\ \/ /\ \/ c.name \notin artifacts /\ Answer(h, "NOT_FOUND")
             \/ c.name \in artifacts /\ c.ver \notin ValidVers
                  /\ Answer(h, "INVALID_VERSION")
             \/ c.name \in artifacts /\ c.ver \in ValidVers /\ Named(c) # {}
                  /\ Answer(h, "VERSION_EXISTS")
          /\ UNCHANGED <<versions, nextId>>
       \/ /\ c.name \in artifacts /\ c.ver \in ValidVers /\ Named(c) = {}
          /\ nextId \in VersionIds
          /\ versions' = [versions EXCEPT ![nextId] = NewRow(c)]
          /\ nextId' = nextId + 1
          /\ req' = [req EXCEPT ![h] = [@ EXCEPT !.stage = "audit", !.vid = nextId,
                                              !.row = NewRow(c)]]
    /\ UNCHANGED <<artifacts, deps, changes, faults>>

NotFound(h) == Named(req[h].call) = {} /\ Answer(h, "NOT_FOUND")

\* Go on with a copy of row i.
Proceed(h, i, stage) ==
    req' = [req EXCEPT ![h] = [@ EXCEPT !.stage = stage, !.vid = i,
                                        !.row = versions[i]]]

\* Mutant: only the status published is refused.
PublishLookupOfDeprecated(h) ==
    /\ At(h, "lookup", "publish")
    /\ \/ NotFound(h)
       \/ \E i \in Named(req[h].call) :
            \/ versions[i].status # "published" /\ Proceed(h, i, "validate")
            \/ versions[i].status = "published" /\ Answer(h, "ALREADY_PUBLISHED")
    /\ UNCHANGED <<tables, faults>>

PublishLookup(h) ==
    /\ At(h, "lookup", "publish")
    /\ \/ NotFound(h)
       \/ \E i \in Named(req[h].call) :
            \/ versions[i].status = "draft" /\ Proceed(h, i, "validate")
            \/ versions[i].status # "draft" /\ Answer(h, "ALREADY_PUBLISHED")
    /\ UNCHANGED <<tables, faults>>

\* Mutant: a draft is not refused.
DeprecateLookupOfDraft(h) ==
    /\ At(h, "lookup", "deprecate")
    /\ \/ NotFound(h)
       \/ \E i \in Named(req[h].call) :
            \/ versions[i].status # "deprecated" /\ Proceed(h, i, "reread")
            \/ versions[i].status = "deprecated" /\ Answer(h, "ALREADY_DEPRECATED")
    /\ UNCHANGED <<tables, faults>>

DeprecateLookup(h) ==
    /\ At(h, "lookup", "deprecate")
    /\ \/ NotFound(h)
       \/ \E i \in Named(req[h].call) :
            \/ versions[i].status = "published" /\ Proceed(h, i, "reread")
            \/ versions[i].status = "draft" /\ Answer(h, "CANNOT_DEPRECATE_DRAFT")
            \/ versions[i].status = "deprecated" /\ Answer(h, "ALREADY_DEPRECATED")
    /\ UNCHANGED <<tables, faults>>

DeleteLookup(h) ==
    /\ At(h, "lookup", "delete")
    /\ \/ NotFound(h)
       \/ \E i \in Named(req[h].call) :
            \/ versions[i].status = "draft" /\ Proceed(h, i, "remove")
            \/ versions[i].status # "draft" /\ Answer(h, "CANNOT_DELETE_PUBLISHED")
    /\ UNCHANGED <<tables, faults>>

\* Mutant: a version that is not a draft is not refused.
ReplaceLookupOfAny(h) ==
    /\ At(h, "lookup", "replace")
    /\ \/ NotFound(h)
       \/ \E i \in Named(req[h].call) : Proceed(h, i, "clear")
    /\ UNCHANGED <<tables, faults>>

ReplaceLookup(h) ==
    /\ At(h, "lookup", "replace")
    /\ \/ NotFound(h)
       \/ \E i \in Named(req[h].call) :
            \/ versions[i].status = "draft" /\ Proceed(h, i, "clear")
            \/ versions[i].status # "draft" /\ Answer(h, "ALREADY_PUBLISHED")
    /\ UNCHANGED <<tables, faults>>

\* The first constraint or target found wanting decides the answer; the stored
\* dependencies are read in order of target name, which no answer depends on.
Refuses(text, name, code) ==
    \/ text \notin ValidTexts /\ code = "INVALID_CONSTRAINT"
    \/ text \in ValidTexts /\ name \notin artifacts
         /\ code = "DEPENDENCY_TARGET_MISSING"

PublishValidate(h) ==
    LET declared == deps[req[h].vid]
        Declared == {n \in Names : declared[n] # NoText}
    IN
    /\ At(h, "validate", "publish")
    /\ \/ \E n \in Declared, code \in Codes :
            Refuses(declared[n], n, code) /\ Answer(h, code)
       \/ /\ \A n \in Declared : declared[n] \in ValidTexts /\ n \in artifacts
          /\ Goto(h, "reread")
    /\ UNCHANGED <<tables, faults>>

\* Mutant: the flags publish and deprecate of UpdateVersionStatus exchanged.
StampSwapped(row, op) ==
    IF op = "publish"
    THEN [row EXCEPT !.status = "published", !.deprecated = TRUE]
    ELSE [row EXCEPT !.status = "deprecated", !.published = TRUE]

Stamp(row, op) ==
    IF op = "publish"
    THEN [row EXCEPT !.status = "published", !.published = TRUE]
    ELSE [row EXCEPT !.status = "deprecated", !.deprecated = TRUE]

\* UpdateVersionStatus, first statement: read the row again and stamp the copy.
Reread(h) ==
    LET row == versions[req[h].vid] IN
    /\ req[h].stage = "reread"
    /\ \/ row = NoRow /\ Answer(h, "INTERNAL")
       \/ /\ row # NoRow
          /\ req' = [req EXCEPT ![h] = [@ EXCEPT !.stage = "write",
                                              !.row = Stamp(row, req[h].call.op)]]
    /\ UNCHANGED <<tables, faults>>

\* Mutant: an upsert, which inserts the row again when it is gone.
WriteUpsert(h) ==
    /\ req[h].stage = "write"
    /\ versions' = [versions EXCEPT ![req[h].vid] = req[h].row]
    /\ Goto(h, "audit")
    /\ UNCHANGED <<artifacts, nextId, deps, changes, faults>>

\* UpdateVersionStatus, second statement: UPDATE ... WHERE id = ?, whatever the
\* row has become; that no row matched is not noticed.
Write(h) ==
    LET new == req[h].row IN
    /\ req[h].stage = "write"
    /\ versions' = [versions EXCEPT ![req[h].vid] =
         IF @ = NoRow THEN NoRow
         ELSE [@ EXCEPT !.status = new.status, !.published = new.published,
                        !.deprecated = new.deprecated]]
    /\ Goto(h, "audit")
    /\ UNCHANGED <<artifacts, nextId, deps, changes, faults>>

\* Mutant: DELETE ... WHERE id = ?, without the condition on the status.
RemoveAnyStatus(h) ==
    LET i == req[h].vid IN
    /\ At(h, "remove", "delete")
    /\ \/ /\ versions[i] = NoRow \/ deps[i] # NoDeps
          /\ Answer(h, "INTERNAL") /\ UNCHANGED versions
       \/ /\ versions[i] # NoRow /\ deps[i] = NoDeps
          /\ versions' = [versions EXCEPT ![i] = NoRow]
          /\ Goto(h, "audit")
    /\ UNCHANGED <<artifacts, nextId, deps, changes, faults>>

\* Mutant: the deletion leaves no change record.
RemoveUnrecorded(h) ==
    LET i == req[h].vid IN
    /\ At(h, "remove", "delete")
    /\ versions[i] # NoRow /\ versions[i].status = "draft" /\ deps[i] = NoDeps
    /\ versions' = [versions EXCEPT ![i] = NoRow]
    /\ Answer(h, "OK")
    /\ UNCHANGED <<artifacts, nextId, deps, changes, faults>>

\* DELETE ... WHERE id = ? AND status = 'draft', refused by the foreign key of
\* dependencies while the version declares any.
Remove(h) ==
    LET i == req[h].vid
        matches == versions[i] # NoRow /\ versions[i].status = "draft"
    IN
    /\ At(h, "remove", "delete")
    /\ \/ ~matches /\ Answer(h, "CANNOT_DELETE_PUBLISHED") /\ UNCHANGED versions
       \/ matches /\ deps[i] # NoDeps /\ Answer(h, "INTERNAL") /\ UNCHANGED versions
       \/ /\ matches /\ deps[i] = NoDeps
          /\ versions' = [versions EXCEPT ![i] = NoRow]
          /\ Goto(h, "audit")
    /\ UNCHANGED <<artifacts, nextId, deps, changes, faults>>

\* Mutant: only the first item is checked before the declarations are dropped.
ClearChecksFirst(h) ==
    LET body == req[h].call.body
        Good(k) == body[k].text \in ValidTexts /\ body[k].name \in artifacts
    IN
    /\ At(h, "clear", "replace")
    /\ \/ /\ body # << >> /\ ~Good(1)
          /\ Answer(h, "INVALID_CONSTRAINT")
          /\ UNCHANGED deps
       \/ /\ body # << >> => Good(1)
          /\ deps' = [deps EXCEPT ![req[h].vid] = NoDeps]
          /\ Goto(h, IF body = << >> THEN "readback" ELSE "declare")
    /\ UNCHANGED <<artifacts, versions, nextId, changes, faults>>

\* ReplaceDependencies: check every item of the body, then drop what the
\* version declares.
Clear(h) ==
    LET body == req[h].call.body
        Good(k) == body[k].text \in ValidTexts /\ body[k].name \in artifacts
    IN
    /\ At(h, "clear", "replace")
    /\ \/ /\ \E k \in DOMAIN body, code \in Codes :
               /\ \A j \in 1 .. k - 1 : Good(j)
               /\ Refuses(body[k].text, body[k].name, code)
               /\ Answer(h, code)
          /\ UNCHANGED deps
       \/ /\ \A k \in DOMAIN body : Good(k)
          /\ deps' = [deps EXCEPT ![req[h].vid] = NoDeps]
          /\ Goto(h, IF body = << >> THEN "readback" ELSE "declare")
    /\ UNCHANGED <<artifacts, versions, nextId, changes, faults>>

\* Mutant: foreign_keys is OFF on the connection.
DeclareWithoutForeignKey(h) ==
    LET i == req[h].vid
        k == req[h].next
        item == req[h].call.body[k]
    IN
    /\ At(h, "declare", "replace")
    /\ deps[i][item.name] = NoText
    /\ deps' = [deps EXCEPT ![i][item.name] = item.text]
    /\ req' = [req EXCEPT ![h] = [@ EXCEPT !.next = k + 1,
         !.stage = IF k = Len(req[h].call.body) THEN "readback" ELSE "declare"]]
    /\ UNCHANGED <<artifacts, versions, nextId, changes, faults>>

\* Mutant: the loop over the items ends one item early.
DeclareStopsEarly(h) ==
    LET i == req[h].vid
        k == req[h].next
        item == req[h].call.body[k]
    IN
    /\ At(h, "declare", "replace")
    /\ deps[i][item.name] = NoText /\ versions[i] # NoRow
    /\ deps' = [deps EXCEPT ![i][item.name] = item.text]
    /\ req' = [req EXCEPT ![h] = [@ EXCEPT !.next = k + 1,
         !.stage = IF k + 1 >= Len(req[h].call.body) THEN "readback" ELSE "declare"]]
    /\ UNCHANGED <<artifacts, versions, nextId, changes, faults>>

\* Insert one item: the foreign key wants the version, the unique index wants
\* no other declaration of the target.
Declare(h) ==
    LET i == req[h].vid
        body == req[h].call.body
        k == req[h].next
        item == body[k]
    IN
    /\ At(h, "declare", "replace")
    /\ k \in DOMAIN body
    /\ \/ /\ versions[i] = NoRow \/ deps[i][item.name] # NoText
          /\ Answer(h, "INTERNAL") /\ UNCHANGED deps
       \/ /\ versions[i] # NoRow /\ deps[i][item.name] = NoText
          /\ deps' = [deps EXCEPT ![i][item.name] = item.text]
          /\ req' = [req EXCEPT ![h] = [@ EXCEPT !.next = k + 1,
               !.stage = IF k = Len(body) THEN "readback" ELSE "declare"]]
    /\ UNCHANGED <<artifacts, versions, nextId, changes, faults>>

ReadBack(h) ==
    /\ At(h, "readback", "replace")
    /\ Answer(h, "OK")
    /\ UNCHANGED <<tables, faults>>

\* Mutant: the operation's name is written where the action belongs.
RecordOfOperation(r) ==
    IF r.call.op = "createArtifact"
    THEN [entity |-> "artifact", action |-> "create", id |-> 0,
          art |-> r.call.name, ver |-> NoVer]
    ELSE [entity |-> "version", action |-> r.call.op, id |-> r.vid,
          art |-> r.row.art, ver |-> r.row.ver]

\* The record a handler appends once its write is done.
RecordOf(r) ==
    IF r.call.op = "createArtifact"
    THEN [entity |-> "artifact", action |-> "create", id |-> 0,
          art |-> r.call.name, ver |-> NoVer]
    ELSE [entity |-> "version",
          action |-> IF r.call.op = "createVersion" THEN "create" ELSE r.call.op,
          id |-> r.vid, art |-> r.row.art, ver |-> r.row.ver]

Audit(h) ==
    /\ req[h].stage = "audit"
    /\ changes' = Append(changes, RecordOf(req[h]))
    /\ Answer(h, "OK")
    /\ UNCHANGED <<artifacts, versions, nextId, deps, faults>>

\* A statement fails and changes nothing: the handler answers 500, except that
\* the error of the audit insert is dropped.
StatementFails(h) ==
    /\ req[h].stage # "idle" /\ faults < MaxFaults
    /\ req[h].call.op = "createArtifact" => req[h].call.name \in ValidNames
    /\ faults' = faults + 1
    /\ Answer(h, IF req[h].stage = "audit" THEN "OK" ELSE "INTERNAL")
    /\ UNCHANGED tables

\* The process dies and is started again on the same database.
Crash ==
    /\ Busy # {} /\ faults < MaxFaults
    /\ faults' = faults + 1
    /\ req' = [h \in Handlers |-> Idle]
    /\ UNCHANGED tables

\* No request in flight and none arriving: where a bounded run may end.
Rest == Busy = {} /\ UNCHANGED vars

Step(h) ==
    \/ Begin(h)
    \/ CreateArtifact(h) \/ CreateVersion(h)
    \/ PublishLookup(h) \/ PublishValidate(h)
    \/ DeprecateLookup(h)
    \/ Reread(h) \/ Write(h)
    \/ DeleteLookup(h) \/ Remove(h)
    \/ ReplaceLookup(h) \/ Clear(h) \/ Declare(h) \/ ReadBack(h)
    \/ Audit(h)
    \/ StatementFails(h)

Next == (\E h \in Handlers : Step(h)) \/ Crash \/ Rest

Spec == Init /\ [][Next]_vars
-----------------------------------------------------------------------------
\* The tables and the handlers' local state keep their types.
TypeOK ==
    /\ artifacts \in SUBSET Names
    /\ versions \in [VersionIds -> Row \cup {NoRow}]
    /\ nextId \in 1 .. MaxVersions + 1
    /\ deps \in [VersionIds -> [Names -> Texts \cup {NoText}]]
    /\ changes \in Seq(Change)
    /\ req \in [Handlers -> Request]
    /\ faults \in 0 .. MaxFaults

\* The timestamps tell the same story as the status, whatever stale copy a
\* handler writes back: a draft has none, a published row has published_at, a
\* deprecated row has both (UpdateVersionStatus writes all three columns).
TimestampsAgree ==
    \A i \in VersionIds : versions[i] # NoRow =>
        LET row == versions[i] IN
        /\ (row.status = "draft") = ~row.published
        /\ row.status = "draft" => ~row.deprecated
        /\ row.status = "deprecated" => row.deprecated

\* The foreign keys hold and only checked constraints are stored, although
\* requests insert dependencies while others delete or publish the version:
\* validateDependencies can therefore never refuse a publication.
DeclarationsSound ==
    \A i \in VersionIds, n \in Names : deps[i][n] # NoText =>
        /\ versions[i] # NoRow
        /\ n \in artifacts
        /\ deps[i][n] \in ValidTexts

\* What a handler concluded from its reads still holds when it acts on it:
\* a version it is deprecating is not a draft, the copy it is about to write
\* back is stamped as its operation wants, the items it is declaring have
\* registered targets, and a version it deleted is gone.
InHandTrue(r) ==
    /\ r.stage \in {"reread", "write", "audit"} /\ r.call.op = "deprecate" =>
         versions[r.vid] # NoRow /\ versions[r.vid].status # "draft"
    /\ r.stage = "write" =>
         /\ r.row.status = IF r.call.op = "publish" THEN "published" ELSE "deprecated"
         /\ r.row.published
         /\ r.call.op = "deprecate" => r.row.deprecated
    /\ r.stage = "declare" =>
         \A k \in DOMAIN r.call.body : /\ r.call.body[k].text \in ValidTexts
                                       /\ r.call.body[k].name \in artifacts
    /\ r.stage = "audit" /\ r.call.op = "delete" => versions[r.vid] = NoRow

\* That, for every handler, although all of them read long before they act.
InHandSound == \A h \in Handlers : InHandTrue(req[h])

Recorded(i, action) ==
    \E k \in DOMAIN changes : /\ changes[k].entity = "version"
                              /\ changes[k].id = i /\ changes[k].action = action

About(h, i, ops) ==
    req[h].stage = "audit" /\ req[h].vid = i /\ req[h].call.op \in ops

\* While no statement fails and the process lives, every write to a version is
\* recorded or its handler is about to record it, however requests overlap.
NoWriteUnaudited ==
    faults = 0 => \A i \in 1 .. nextId - 1 :
        /\ Recorded(i, "create") \/ \E h \in Handlers : About(h, i, {"createVersion"})
        /\ versions[i] = NoRow =>
             Recorded(i, "delete") \/ \E h \in Handlers : About(h, i, {"delete"})
        /\ versions[i] # NoRow /\ versions[i].published =>
             Recorded(i, "publish") \/ \E h \in Handlers : About(h, i, {"publish"})
        /\ versions[i] # NoRow /\ versions[i].deprecated =>
             Recorded(i, "deprecate") \/ \E h \in Handlers : About(h, i, {"deprecate"})

\* The audit trail of an id is about one version: an id is never handed out
\* again after a deletion, so no record is read as another version's history.
AuditNamesOneVersion ==
    \A j, k \in DOMAIN changes :
        changes[j].entity = "version" /\ changes[k].entity = "version"
            /\ changes[j].id = changes[k].id =>
        /\ changes[j].art = changes[k].art /\ changes[j].ver = changes[k].ver
        /\ changes[j].action \in {"create", "delete"}
             /\ changes[j].action = changes[k].action => j = k

\* A recorded deletion is a fact for good: the row never comes back, though
\* handlers that looked it up before still write to it.
DeletionFinal == \A i \in VersionIds : Recorded(i, "delete") => versions[i] = NoRow

\* A version recorded as deprecated was published before, still exists and
\* never became a draft again.
DeprecationRecordTrue ==
    \A i \in VersionIds : Recorded(i, "deprecate") =>
        versions[i] # NoRow /\ versions[i].published

\* A version that was ever published is never deleted and is never a draft
\* again, even when the deletion was accepted while it was still a draft.
LeavesDraftForever ==
    [][\A i \in VersionIds : versions[i] # NoRow /\ versions[i].status # "draft" =>
         versions'[i] # NoRow /\ versions'[i].status # "draft"]_vars

\* The stage of life the tables show for an id.
LifeOf(i) == IF versions[i] # NoRow THEN versions[i].status
             ELSE IF i < nextId THEN "gone" ELSE "unborn"

Lives == INSTANCE Lifecycle WITH Ids <- VersionIds,
                                 life <- [i \in VersionIds |-> LifeOf(i)]

\* The documented life of a version: what one request at a time gives.
RefinesLifecycle == Lives!Spec

\* What overlapping requests leave of it: nothing can go wrong in a version's
\* life but that a deprecated version is published again.
RefinesRelaxed == Lives!RelaxedSpec

\* ReplaceDependencies refuses a version that is not a draft ("cannot modify
\* non-draft version"): what a published version declares never changes.
PublishedDepsFrozen ==
    [][\A i \in VersionIds : versions[i] # NoRow /\ versions[i].status # "draft" =>
         deps'[i] = deps[i]]_vars

\* What ReplaceDependencies wants of a body before it writes anything of it.
Acceptable(body) ==
    \A k \in DOMAIN body : body[k].text \in ValidTexts /\ body[k].name \in artifacts

\* These declarations are what the body says, all of it and nothing else.
DeclaresAll(declared, body) ==
    /\ \A k \in DOMAIN body : declared[body[k].name] = body[k].text
    /\ \A n \in Names : declared[n] # NoText => \E k \in DOMAIN body : body[k].name = n

Replacing(h) == req[h].stage \in {"clear", "declare", "readback"}

\* Full replacement (the comment of ReplaceDependencies): what a version declares is
\* changed only by a replacement of it every item of whose body is acceptable,
\* so that nothing is stored of a body refused for any item, and nothing lost to
\* it; and a client told of success has all of the body it sent, and only that,
\* stored at that moment, whatever failed or crashed before.
ReplacedWhole ==
    [][/\ \A i \in VersionIds : deps'[i] # deps[i] =>
            \E h \in Handlers : /\ Replacing(h) /\ req[h].vid = i
                                /\ Acceptable(req[h].call.body)
       /\ \A h \in Handlers :
            Replacing(h) /\ req'[h].stage = "idle" /\ req'[h].code = "OK" =>
                DeclaresAll(deps'[req[h].vid], req[h].call.body)]_vars
=============================================================================
