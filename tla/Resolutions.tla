----------------------------- MODULE Resolutions -----------------------------
(***************************************************************************)
(* The resolution history: POST /resolve and POST /resolutions/{id}/rerun  *)
(* (internal/service) over the tables resolution_requests,                 *)
(* resolution_nodes, lockfiles and change_records.                         *)
(*                                                                         *)
(* A run inserts a pending row, lets the engine resolve, and then finishes *)
(* the row, saves the nodes, the change record and the lockfile in         *)
(* statements of their own.  The process can die between any two, and      *)
(* nothing looks at unfinished rows when it starts again.  The engine is   *)
(* reduced to its outcome (module Resolver has its inside).                *)
(***************************************************************************)
EXTENDS Integers, Sequences, FiniteSets

CONSTANTS
    Manifests,      \* manifests that pass the checks of Resolve
    Refused,        \* manifests that do not
    Graphs, NoGraph,    \* results with nodes; the result without
    Diags,          \* lists of diagnostics that a failed run can have
    Handlers,       \* requests that can be in flight at once
    NoManifest,     \* absent value
    MaxRequests,    \* bound: rows of resolution_requests
    MaxFaults       \* bound: failed statements and crashes

ASSUME ConstantsOK ==
    /\ NoGraph \notin Graphs /\ Manifests \cap Refused = {}
    /\ NoManifest \notin Manifests
    /\ \A d \in Diags : d \in Seq(STRING) /\ d # << >>
    /\ MaxRequests \in Nat /\ MaxFaults \in Nat

VARIABLES
    requests,       \* table resolution_requests, in order of id
    nodes,          \* table resolution_nodes: id -> the graph they make up
    lockfiles,      \* table lockfiles: id -> the graph pinned
    changes,        \* the change records about resolutions
    req,            \* the request each handler is serving
    answers,        \* what each handler's last client was told
    faults          \* failed statements and crashes so far

tables == <<requests, nodes, lockfiles, changes>>
vars == <<requests, nodes, lockfiles, changes, req, answers, faults>>

Ids == 1 .. MaxRequests
MaybeGraph == Graphs \cup {NoGraph}

\* error is the first diagnostic, if any.
Row == [manifest : Manifests, status : {"pending", "succeeded", "failed"},
        graph : MaybeGraph, error : {""} \cup {Head(d) : d \in Diags}]

Outcomes ==
    [status : {"succeeded"}, graph : Graphs, diags : {<< >>}]
        \cup [status : {"failed"}, graph : MaybeGraph, diags : Diags]
Unresolved == [status |-> "pending", graph |-> NoGraph, diags |-> << >>]

Stages == {"idle", "read", "insert", "engine", "finish", "nodes", "audit",
           "lockfile", "auditRerun"}

\* of: the id a rerun was asked for, 0 for a plain resolve; id: the row of this
\* run.
Request == [stage : Stages, of : 0 .. MaxRequests, id : 0 .. MaxRequests,
            manifest : Manifests \cup {NoManifest}, outcome : Outcomes \cup {Unresolved}]

Idle == [stage |-> "idle", of |-> 0, id |-> 0, manifest |-> NoManifest,
         outcome |-> Unresolved]

Answer == [code : {"NONE", "OK", "INVALID", "NOT_FOUND", "INTERNAL"},
           id : 0 .. MaxRequests, outcome : Outcomes \cup {Unresolved}]

Error(code) == [code |-> code, id |-> 0, outcome |-> Unresolved]

Change == [id : Ids, action : {"resolve", "rerun"}]

TypeOK ==
    /\ requests \in Seq(Row) /\ Len(requests) <= MaxRequests
    /\ nodes \in [Ids -> MaybeGraph] /\ lockfiles \in [Ids -> MaybeGraph]
    /\ changes \in Seq(Change)
    /\ req \in [Handlers -> Request] /\ answers \in [Handlers -> Answer]
    /\ faults \in 0 .. MaxFaults

Init ==
    /\ requests = << >> /\ changes = << >>
    /\ nodes = [i \in Ids |-> NoGraph] /\ lockfiles = [i \in Ids |-> NoGraph]
    /\ req = [h \in Handlers |-> Idle]
    /\ answers = [h \in Handlers |-> Error("NONE")]
    /\ faults = 0
-----------------------------------------------------------------------------
Goto(h, stage) == req' = [req EXCEPT ![h].stage = stage]

Reply(h, answer) ==
    /\ answers' = [answers EXCEPT ![h] = answer]
    /\ req' = [req EXCEPT ![h] = Idle]

\* The run is over: a rerun leaves a record of its own before it replies.
Complete(h) ==
    IF req[h].of # 0 THEN Goto(h, "auditRerun") /\ UNCHANGED answers
    ELSE Reply(h, [code |-> "OK", id |-> req[h].id, outcome |-> req[h].outcome])

\* Rows that exist or will, if all runs go on; the bound of the run.
Promised ==
    Len(requests) + Cardinality({h \in Handlers : req[h].stage \in {"read", "insert"}})

\* POST /resolve; a manifest that is refused leaves no trace.
Submit(h) ==
    /\ req[h].stage = "idle"
    /\ \/ \E m \in Manifests :
            /\ Promised < MaxRequests
            /\ req' = [req EXCEPT ![h] = [Idle EXCEPT !.stage = "insert", !.manifest = m]]
            /\ UNCHANGED answers
       \/ /\ Refused # {}
          /\ Reply(h, Error("INVALID"))
    /\ UNCHANGED <<tables, faults>>

\* POST /resolutions/{id}/rerun.
SubmitRerun(h) ==
    /\ req[h].stage = "idle" /\ Promised < MaxRequests
    /\ \E i \in Ids :
         req' = [req EXCEPT ![h] = [Idle EXCEPT !.stage = "read", !.of = i]]
    /\ UNCHANGED <<tables, answers, faults>>

\* GetResolutionRequest: the manifest of the original, whatever its status.
ReadOriginal(h) ==
    LET i == req[h].of IN
    /\ req[h].stage = "read"
    /\ \/ /\ i \notin DOMAIN requests
          /\ Reply(h, Error("NOT_FOUND"))
       \/ /\ i \in DOMAIN requests
          /\ req' = [req EXCEPT ![h].stage = "insert",
                                ![h].manifest = requests[i].manifest]
          /\ UNCHANGED answers
    /\ UNCHANGED <<tables, faults>>

\* Mutant: the row starts as running.
NewRowRunning(h) == [manifest |-> req[h].manifest, status |-> "running",
                     graph |-> NoGraph, error |-> ""]

NewRow(h) == [manifest |-> req[h].manifest, status |-> "pending", graph |-> NoGraph,
              error |-> ""]

\* Mutant: the id is looked up by the manifest.
InsertFindsManifest(h) ==
    LET same == {i \in DOMAIN requests' : requests'[i].manifest = req[h].manifest} IN
    /\ req[h].stage = "insert"
    /\ requests' = Append(requests, NewRow(h))
    /\ req' = [req EXCEPT ![h].stage = "engine",
                          ![h].id = CHOOSE i \in same : \A j \in same : i <= j]
    /\ UNCHANGED <<nodes, lockfiles, changes, answers, faults>>

\* Mutant: a rerun uses the row of the original again.
InsertInPlace(h) ==
    /\ req[h].stage = "insert"
    /\ IF req[h].of # 0
       THEN /\ requests' = [requests EXCEPT ![req[h].of] = NewRow(h)]
            /\ req' = [req EXCEPT ![h].stage = "engine", ![h].id = req[h].of]
       ELSE /\ requests' = Append(requests, NewRow(h))
            /\ req' = [req EXCEPT ![h].stage = "engine", ![h].id = Len(requests) + 1]
    /\ UNCHANGED <<nodes, lockfiles, changes, answers, faults>>

\* CreateResolutionRequest.
Insert(h) ==
    /\ req[h].stage = "insert"
    /\ requests' = Append(requests, NewRow(h))
    /\ req' = [req EXCEPT ![h].stage = "engine", ![h].id = Len(requests) + 1]
    /\ UNCHANGED <<nodes, lockfiles, changes, answers, faults>>

\* engine.Resolve.
Resolve(h) ==
    /\ req[h].stage = "engine"
    /\ \E o \in Outcomes :
         req' = [req EXCEPT ![h].stage = "finish", ![h].outcome = o]
    /\ UNCHANGED <<tables, answers, faults>>

\* What the row keeps of the diagnostics: the first, if any.
ErrorOf(o) == IF o.status = "failed" THEN Head(o.diags) ELSE ""

\* Mutant: no nodes are saved.
FinishWithoutNodes(h) ==
    LET o == req[h].outcome IN
    /\ req[h].stage = "finish"
    /\ requests' = [requests EXCEPT
         ![req[h].id].status = o.status, ![req[h].id].graph = o.graph,
         ![req[h].id].error = ErrorOf(o)]
    /\ Goto(h, "audit")
    /\ UNCHANGED <<nodes, lockfiles, changes, answers, faults>>

\* Mutant: only a success is finished.
FinishSuccess(h) ==
    LET o == req[h].outcome IN
    /\ req[h].stage = "finish"
    /\ requests' = IF o.status = "failed" THEN requests
                   ELSE [requests EXCEPT ![req[h].id].status = o.status,
                                         ![req[h].id].graph = o.graph]
    /\ Goto(h, IF o.graph # NoGraph THEN "nodes" ELSE "audit")
    /\ UNCHANGED <<nodes, lockfiles, changes, answers, faults>>

\* FinishResolutionRequest.
Finish(h) ==
    LET o == req[h].outcome IN
    /\ req[h].stage = "finish"
    /\ requests' = [requests EXCEPT
         ![req[h].id].status = o.status, ![req[h].id].graph = o.graph,
         ![req[h].id].error = ErrorOf(o)]
    /\ Goto(h, IF o.graph # NoGraph THEN "nodes" ELSE "audit")
    /\ UNCHANGED <<nodes, lockfiles, changes, answers, faults>>

\* SaveResolutionNodes, in a transaction.
SaveNodes(h) ==
    /\ req[h].stage = "nodes"
    /\ nodes' = [nodes EXCEPT ![req[h].id] = req[h].outcome.graph]
    /\ Goto(h, "audit")
    /\ UNCHANGED <<requests, lockfiles, changes, answers, faults>>

\* Mutant: a failed run with nodes has a lockfile too.
AfterAuditOfNodes(h) ==
    IF req[h].outcome.graph # NoGraph THEN Goto(h, "lockfile") /\ UNCHANGED answers
    ELSE Complete(h)

\* After the change record of the run.
AfterAudit(h) ==
    IF req[h].outcome.status = "succeeded" THEN Goto(h, "lockfile") /\ UNCHANGED answers
    ELSE Complete(h)

\* Mutant: a rerun has no record but its own.
AuditPlain(h) ==
    /\ req[h].stage = "audit"
    /\ changes' = IF req[h].of # 0 THEN changes
                  ELSE Append(changes, [id |-> req[h].id, action |-> "resolve"])
    /\ AfterAudit(h)
    /\ UNCHANGED <<requests, nodes, lockfiles, faults>>

Audit(h) ==
    /\ req[h].stage = "audit"
    /\ changes' = Append(changes, [id |-> req[h].id, action |-> "resolve"])
    /\ AfterAudit(h)
    /\ UNCHANGED <<requests, nodes, lockfiles, faults>>

\* persistLockfile.
SaveLockfile(h) ==
    /\ req[h].stage = "lockfile"
    /\ lockfiles' = [lockfiles EXCEPT ![req[h].id] = req[h].outcome.graph]
    /\ Complete(h)
    /\ UNCHANGED <<requests, nodes, changes, faults>>

ReplyRerun(h) ==
    Reply(h, [code |-> "OK", id |-> req[h].id, outcome |-> req[h].outcome])

\* Mutant: the record of the rerun is about the new row.
AuditRerunOfNew(h) ==
    /\ req[h].stage = "auditRerun"
    /\ changes' = Append(changes, [id |-> req[h].id, action |-> "rerun"])
    /\ ReplyRerun(h)
    /\ UNCHANGED <<requests, nodes, lockfiles, faults>>

AuditRerun(h) ==
    /\ req[h].stage = "auditRerun"
    /\ changes' = Append(changes, [id |-> req[h].of, action |-> "rerun"])
    /\ ReplyRerun(h)
    /\ UNCHANGED <<requests, nodes, lockfiles, faults>>

\* Mutant: an error of SaveResolutionNodes is dropped.
StatementFailsUnseen(h) ==
    /\ faults < MaxFaults /\ faults' = faults + 1
    /\ \/ req[h].stage = "read" /\ Reply(h, Error("NOT_FOUND"))
       \/ /\ req[h].stage \in {"insert", "finish", "lockfile"}
          /\ Reply(h, Error("INTERNAL"))
       \/ req[h].stage = "nodes" /\ Goto(h, "audit") /\ UNCHANGED answers
       \/ req[h].stage = "audit" /\ AfterAudit(h)
       \/ req[h].stage = "auditRerun" /\ ReplyRerun(h)
    /\ UNCHANGED tables

\* A statement fails and changes nothing.  The errors of the change records are
\* dropped; any error of the first read counts as "not found".
StatementFails(h) ==
    /\ faults < MaxFaults /\ faults' = faults + 1
    /\ \/ req[h].stage = "read" /\ Reply(h, Error("NOT_FOUND"))
       \/ /\ req[h].stage \in {"insert", "finish", "nodes", "lockfile"}
          /\ Reply(h, Error("INTERNAL"))
       \/ req[h].stage = "audit" /\ AfterAudit(h)
       \/ req[h].stage = "auditRerun" /\ ReplyRerun(h)
    /\ UNCHANGED tables

\* The process dies and starts again; clients keep what they were told.
Crash ==
    /\ faults < MaxFaults /\ faults' = faults + 1
    /\ req' = [h \in Handlers |-> Idle]
    /\ UNCHANGED <<tables, answers>>

Step(h) ==
    \/ ReadOriginal(h) \/ Insert(h) \/ Resolve(h) \/ Finish(h) \/ SaveNodes(h)
    \/ Audit(h) \/ SaveLockfile(h) \/ AuditRerun(h) \/ StatementFails(h)

Next == (\E h \in Handlers : Submit(h) \/ SubmitRerun(h) \/ Step(h)) \/ Crash

\* A goroutine that serves a request is scheduled until it replies; clients owe
\* nothing, and faults are never due.
Spec == Init /\ [][Next]_vars /\ \A h \in Handlers : WF_vars(Step(h))
-----------------------------------------------------------------------------
Terminal(i) == i \in DOMAIN requests /\ requests[i].status # "pending"

Working(i) == \E h \in Handlers : req[h].id = i

\* No two runs ever write for the same row, and whoever writes is ahead of what
\* is stored: the ids LastInsertId hands out are not confused by overlapping
\* inserts.
OneRunPerRow ==
    /\ \A g, h \in Handlers : g # h /\ req[g].id # 0 => req[g].id # req[h].id
    /\ \A h \in Handlers : req[h].id # 0 =>
         /\ requests[req[h].id].manifest = req[h].manifest
         /\ req[h].stage \in {"engine", "finish"} <=> ~Terminal(req[h].id)

\* What is stored for a run agrees and comes in order, at every moment and
\* after any crash: nodes belong to a finished row, a lockfile to a succeeded
\* one whose nodes are saved, and both pin the row's graph.
StoredInOrder ==
    \A i \in Ids :
        /\ nodes[i] # NoGraph => Terminal(i) /\ nodes[i] = requests[i].graph
        /\ lockfiles[i] # NoGraph =>
             requests[i].status = "succeeded" /\ lockfiles[i] = nodes[i]

\* What a client was told of a run stays true, except for the diagnostics after the
\* first, which are stored nowhere: the row has the status, the graph and the
\* first diagnostic, the nodes are saved, and a success has its lockfile.
AnswersKept ==
    \A h \in Handlers : answers[h].code = "OK" =>
        LET a == answers[h] IN
        /\ requests[a.id].status = a.outcome.status
        /\ requests[a.id].graph = a.outcome.graph /\ nodes[a.id] = a.outcome.graph
        /\ requests[a.id].error =
             IF a.outcome.diags = << >> THEN "" ELSE Head(a.outcome.diags)
        /\ a.outcome.status = "succeeded" => lockfiles[a.id] = a.outcome.graph

\* A record of a rerun is about a row that another, later, finished run repeats.
RerunRecordsTrue ==
    \A k \in DOMAIN changes : changes[k].action = "rerun" =>
        \E i \in DOMAIN requests :
            /\ i > changes[k].id /\ Terminal(i)
            /\ requests[i].manifest = requests[changes[k].id].manifest

\* A finished row is final: no later run, rerun or restart changes it or
\* replaces its nodes or its lockfile.
TerminalForGood ==
    [][\A i \in Ids :
         /\ Terminal(i) => i \in DOMAIN requests' /\ requests'[i] = requests[i]
         /\ nodes[i] # NoGraph => nodes'[i] = nodes[i]
         /\ lockfiles[i] # NoGraph => lockfiles'[i] = lockfiles[i]]_vars

\* Every pending row is finished at last, unless a statement fails or the
\* process dies: nothing else makes a run hang, and nothing takes it up again.
PendingEnds ==
    \A i \in Ids :
        (i \in DOMAIN requests /\ ~Terminal(i)) ~> (Terminal(i) \/ faults > 0)

\* A run that is finished, and whose request is over, is whole: its nodes are
\* stored, a success has its lockfile and the run its change record, while no
\* statement has failed and the process lives.
FinishedIsWhole ==
    \A i \in DOMAIN requests : faults = 0 /\ Terminal(i) /\ ~Working(i) =>
        /\ nodes[i] = requests[i].graph
        /\ requests[i].status = "succeeded" => lockfiles[i] = requests[i].graph
        /\ \E k \in DOMAIN changes : changes[k].id = i /\ changes[k].action = "resolve"
=============================================================================
