------------------------------ MODULE Readiness ------------------------------
(***************************************************************************)
(* The readiness check of a draft (CheckReadiness), its publication, and   *)
(* the resolution of a manifest that asks for it: three requests one after *)
(* the other over the catalog of Resolver, whose engine the first and the  *)
(* last of them run.                                                       *)
(*                                                                         *)
(* The check resolves the draft's declarations as if they were a manifest, *)
(* publication checks them for registered targets only, and neither looks  *)
(* at what the other found.                                                *)
(***************************************************************************)
EXTENDS Resolver

CONSTANT Drafts     \* the versions the check is asked about, which exist

ASSUME DraftsOK ==
    /\ Drafts \subseteq Registered \X Vers      \* getVersion finds the artifact first
    /\ \A s \in Starts, d \in Drafts : s.status[d[1]][d[2]] # "absent"

VARIABLES
    draft,          \* the version asked about
    phase,          \* where the three requests are
    check           \* the answer of the check, and what its engine selected

readinessVars == <<vars, draft, phase, check>>

\* The kinds of problem a blocker can speak of; "ERROR" is the text of an error.
Kinds == {"CYCLE", "MISSING", "CONFLICT", "ERROR"}

\* A blocker: its name, 0 when it is empty, and what its reason and its details
\* say together, a kind of problem and the artifact that has it.
Blocker == [name : Names \cup {0}, kind : Kinds, about : Names]

\* selected is in no answer: it is kept here for what the check is compared with.
Found == [code : {"NONE", "INTERNAL", "ALREADY_PUBLISHED", "READY", "BLOCKED"},
          blockers : Seq(Blocker), selected : [Names -> Vers \cup {0}]]

ReadinessTypeOK ==
    /\ TypeOK /\ draft \in Drafts /\ check \in Found
    /\ phase \in {"asked", "checking", "checked", "published", "resolving", "refused"}

\* Mutant: without ORDER BY, say in the opposite order.
DeclaredUnordered(n, v) ==
    LET D == Targets(n, v)
        FromLast(k) == Nth(D, Cardinality(D) + 1 - k)
    IN  [k \in 1 .. Cardinality(D) |-> [name |-> FromLast(k), text |-> deps[n][v][FromLast(k)]]]

\* ListDependencies: the declarations in order of name, as manifest items.
Declared(n, v) ==
    LET D == Targets(n, v)
    IN  [k \in 1 .. Cardinality(D) |-> [name |-> Nth(D, k), text |-> deps[n][v][Nth(D, k)]]]

NothingSelected == [n \in Names |-> 0]

ReadinessInit ==
    /\ Init /\ draft \in Drafts /\ phase = "asked"
    /\ check = [code |-> "NONE", blockers |-> << >>, selected |-> NothingSelected]
-----------------------------------------------------------------------------
\* A new run of the engine, over this manifest.
Run(items) ==
    /\ manifest' = items /\ item' = 1
    /\ stack' = << >> /\ selected' = NothingSelected
    /\ graph' = << >> /\ diags' = << >> /\ result' = "running"
    /\ UNCHANGED <<catalog, edits, faults, draft>>

\* The type of a diagnostic is dropped, and told by the wording of its message
\* only; a read that failed may have put the text of its error there.
Wordings(d) ==
    IF d.type = "MISSING" /\ faults > 0 THEN {"MISSING", "ERROR"} ELSE {d.type}

\* A diagnostic becomes a blocker: its message and its details are copied, its
\* type and candidates are dropped, and the name is never set.  The artifact is
\* the last on a cycle's path, and else is spelled out in one of the two texts.
Converted(d, kind) ==
    [name |-> 0, kind |-> kind,
     about |-> IF d.type = "CYCLE" THEN d.path[Len(d.path)] ELSE d.name]

\* The run is over: its diagnostics are told as blockers.
Told(code) ==
    \E kinds \in [DOMAIN diags -> Kinds] :
        /\ \A k \in DOMAIN diags : kinds[k] \in Wordings(diags[k])
        /\ check' = [code |-> code, selected |-> selected,
                     blockers |-> [k \in DOMAIN diags |-> Converted(diags[k], kinds[k])]]

\* The check: only a draft is looked at, and one that declares nothing is ready.
Check ==
    LET n == draft[1]
        v == draft[2]
        items == Declared(n, v)
    IN
    /\ phase = "asked"
    /\ \/ /\ status[n][v] # "draft"
          /\ phase' = "refused" /\ check' = [check EXCEPT !.code = "ALREADY_PUBLISHED"]
          /\ UNCHANGED <<vars, draft>>
       \/ /\ status[n][v] = "draft" /\ items = << >>
          /\ phase' = "checked" /\ check' = [check EXCEPT !.code = "READY"]
          /\ UNCHANGED <<vars, draft>>
       \/ /\ status[n][v] = "draft" /\ items # << >>
          /\ phase' = "checking" /\ Run(items) /\ UNCHANGED check

\* engine.Resolve, in the check and in the resolution.
Resolve ==
    /\ phase \in {"checking", "resolving"} /\ Engine
    /\ UNCHANGED <<draft, phase, check>>

\* The answer of the check: ready, or the diagnostics as blockers.
Conclude ==
    /\ phase = "checking" /\ result # "running"
    /\ phase' = "checked"
    /\ Told(IF result = "failed" THEN "BLOCKED" ELSE "READY")
    /\ UNCHANGED <<vars, draft>>

\* PublishVersion, whatever the check found: the targets are registered, or it
\* is refused.
Publish ==
    LET n == draft[1]
        v == draft[2]
    IN
    /\ phase = "checked" /\ status[n][v] = "draft"
    /\ \/ /\ Targets(n, v) \subseteq Registered
          /\ status' = [status EXCEPT ![n][v] = "published"]
          /\ phase' = "published"
       \/ /\ ~(Targets(n, v) \subseteq Registered)
          /\ phase' = "refused" /\ UNCHANGED status
    /\ UNCHANGED <<deps, manifest, item, stack, selected, graph, diags, result, edits,
                   faults, draft, check>>

\* POST /resolve with the published version as the only item, exactly.
Ask ==
    /\ phase = "published" /\ phase' = "resolving"
    /\ \E t \in Texts : Accepts[t] = {draft[2]} /\ Run(<<[name |-> draft[1], text |-> t]>>)
    /\ UNCHANGED check

\* A statement fails before the engine is at work: getVersion or
\* ListDependencies in the check, a statement of the publication, or the INSERT
\* of the resolution.  The request is answered INTERNAL, and nothing is changed.
StatementFails ==
    /\ phase \in {"asked", "checked", "published"} /\ phase' = "refused"
    /\ faults < MaxFaults /\ faults' = faults + 1
    /\ check' = IF phase = "asked" THEN [check EXCEPT !.code = "INTERNAL"] ELSE check
    /\ UNCHANGED <<catalog, manifest, item, stack, selected, graph, diags, result, edits, draft>>

\* The requests are over.
Over ==
    /\ phase = "refused" \/ (phase = "resolving" /\ result # "running")
    /\ UNCHANGED readinessVars

ReadinessNext ==
    Check \/ Resolve \/ Conclude \/ Publish \/ Ask \/ StatementFails \/ Over

ReadinessSpec == ReadinessInit /\ [][ReadinessNext]_readinessVars
-----------------------------------------------------------------------------
\* The kind and the artifact of each diagnostic, and those a reader of the
\* blockers is told of.
Verdicts(ds) == [k \in DOMAIN ds |-> <<ds[k].type, ds[k].name>>]
Said(blockers) == [k \in DOMAIN blockers |-> <<blockers[k].kind, blockers[k].about>>]

\* The check met the draft's own artifact, which the draft is not yet a version
\* of: the engine selected another version of it, or found none.
MetItself ==
    \/ check.selected[draft[1]] # 0
    \/ \E k \in DOMAIN check.blockers : check.blockers[k].about = draft[1]

\* The check tells what publication will bring: when nothing but the draft
\* changes, no statement fails, no revived version is there (which the explicit
\* items of the check may choose and the dependencies of the version may not),
\* and the draft does not lead back to its own artifact, then the version
\* resolves exactly when it was ready, to what the check selected besides
\* itself, and otherwise is refused for what the texts of the blockers say, in
\* their order: the same problems of the same artifacts.
ReadinessPredictsResolution ==
    phase = "resolving" /\ Returned /\ faults = 0 /\ ~MetItself
        /\ (\A n \in Names, v \in Vers : status[n][v] # "revived") =>
    /\ (result = "succeeded") <=> (check.code = "READY")
    /\ Verdicts(diags) = Said(check.blockers)
    /\ selected = [check.selected EXCEPT ![draft[1]] = draft[2]]
=============================================================================
