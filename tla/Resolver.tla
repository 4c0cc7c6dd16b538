------------------------------- MODULE Resolver -------------------------------
(***************************************************************************)
(* The resolution engine (internal/resolver): one run of Engine.Resolve    *)
(* over a manifest.  The recursive function resolveArtifact is a stack of  *)
(* frames; a step is one call of it, up to the next read of the catalog.   *)
(* The catalog is read statement by statement, so versions can be          *)
(* published and deprecated by other requests while the engine runs.       *)
(*                                                                         *)
(* Names are numbers in the order ListDependencies sorts them, and the     *)
(* versions of an artifact numbers in the order of semver precedence.  A   *)
(* constraint is known by its text and by the versions it accepts; its     *)
(* text parses, since manifests and stored dependencies are checked before *)
(* the engine sees them.                                                   *)
(***************************************************************************)
EXTENDS Integers, Sequences, FiniteSets

CONSTANTS
    Names, Vers,        \* numbered artifacts, and versions of each
    Texts, NoText,      \* constraint texts; no dependency
    Accepts,            \* text -> the versions it accepts
    Registered,         \* the names that are in table artifacts
    Starts,             \* tables to start from, and manifests to resolve over
                        \* them: [status, deps, manifests] records
    MaxEdits,           \* bound: catalog changes by others during the run
    MaxFaults           \* bound: failed reads of the catalog

\* A row's status; "revived" is published with deprecated_at still set, which
\* Registry shows can happen.
Statuses == {"absent", "draft", "published", "revived", "deprecated"}

Items == [name : Names, text : Texts]

ASSUME ConstantsOK ==
    /\ Names \subseteq Nat \ {0} /\ Vers \subseteq Nat \ {0}
    /\ NoText \notin Texts /\ Accepts \in [Texts -> SUBSET Vers]
    /\ IsFiniteSet(Names) /\ IsFiniteSet(Vers) /\ Registered \subseteq Names
    /\ \A s \in Starts :
         /\ s.status \in [Names -> [Vers -> Statuses]]
         /\ s.deps \in [Names -> [Vers -> [Names -> Texts \cup {NoText}]]]
         /\ s.manifests \subseteq Seq(Items) \ {<< >>}
    /\ MaxEdits \in Nat /\ MaxFaults \in Nat

VARIABLES
    status, deps,   \* the catalog: rows, and what each version declares
    manifest,       \* the manifest being resolved
    item,           \* the manifest item being resolved
    stack,          \* the calls of resolveArtifact in progress
    selected,       \* name -> the version selected, 0 if none
    graph,          \* the nodes of the result, in order of discovery
    diags,          \* the diagnostics, in order
    result,         \* "running", then "succeeded" or "failed"
    edits, faults   \* changes and failed reads so far

catalog == <<status, deps>>
vars == <<status, deps, manifest, item, stack, selected, graph, diags, result,
          edits, faults>>

\* todo: the dependencies of the frame's version that are still to visit.
Frame == [name : Names, loaded : BOOLEAN, todo : SUBSET Names]
Node == [name : Names, ver : Vers, depth : Nat, parent : Names \cup {0}, text : Texts]
Diag == [type : {"CYCLE", "MISSING", "CONFLICT"}, name : Names, path : Seq(Names)]

TypeOK ==
    /\ status \in [Names -> [Vers -> Statuses]]
    /\ deps \in [Names -> [Vers -> [Names -> Texts \cup {NoText}]]]
    /\ manifest \in Seq(Items) /\ item \in 1 .. Len(manifest) + 1
    /\ stack \in Seq(Frame) /\ selected \in [Names -> Vers \cup {0}]
    /\ graph \in Seq(Node) /\ diags \in Seq(Diag)
    /\ result \in {"running", "succeeded", "failed"}
    /\ edits \in 0 .. MaxEdits /\ faults \in 0 .. MaxFaults

Init ==
    /\ \E s \in Starts : status = s.status /\ deps = s.deps /\ manifest \in s.manifests
    /\ item = 1
    /\ stack = << >> /\ selected = [n \in Names |-> 0]
    /\ graph = << >> /\ diags = << >> /\ result = "running"
    /\ edits = 0 /\ faults = 0
-----------------------------------------------------------------------------
Top == stack[Len(stack)]

\* Mutant: inStack is not cleared when a call returns.
EverInStack == {n \in Names : selected[n] # 0}

InStack == {stack[k].name : k \in DOMAIN stack}

\* The dependencies version v of n declares.
Targets(n, v) == {m \in Names : deps[n][v][m] # NoText}

\* The next call of resolveArtifact: the manifest item, or the first dependency
\* left in the frame on top.
HasNext ==
    /\ result = "running"
    /\ IF stack = << >> THEN item <= Len(manifest) ELSE Top.loaded /\ Top.todo # {}

Pending ==
    IF stack = << >>
    THEN [name |-> manifest[item].name, text |-> manifest[item].text, parent |-> 0]
    ELSE LET m == CHOOSE m \in Top.todo : \A o \in Top.todo : m <= o
         IN  [name |-> m, text |-> deps[Top.name][selected[Top.name]][m],
              parent |-> Top.name]

\* The call is made: its caller goes on with the next one; pushed are the
\* frames of the call itself.
Call(pushed) ==
    IF stack = << >> THEN item' = item + 1 /\ stack' = pushed
    ELSE /\ stack' = [stack EXCEPT ![Len(stack)].todo = @ \ {Pending.name}] \o pushed
         /\ UNCHANGED item

Report(type, path) ==
    diags' = Append(diags, [type |-> type, name |-> Pending.name, path |-> path])

\* Mutant: the path leaves out the top of the stack.
CycleWithoutTop ==
    /\ HasNext /\ Pending.name \in InStack
    /\ Report("CYCLE", [k \in 1 .. Len(stack) |->
                          IF k < Len(stack) THEN stack[k].name ELSE Pending.name])
    /\ Call(<< >>)
    /\ UNCHANGED <<catalog, manifest, selected, graph, result, edits, faults>>

\* The call finds its name on the stack.  The path leaves out the bottom of the
\* stack.
Cycle ==
    /\ HasNext /\ Pending.name \in InStack
    /\ Report("CYCLE", [k \in 1 .. Len(stack) |->
                          IF k < Len(stack) THEN stack[k + 1].name ELSE Pending.name])
    /\ Call(<< >>)
    /\ UNCHANGED <<catalog, manifest, selected, graph, result, edits, faults>>

\* Mutant: "already selected, skip" is looked at before the stack.
AlreadySelectedFirst ==
    /\ HasNext /\ selected[Pending.name] # 0
    /\ Call(<< >>)
    /\ UNCHANGED <<catalog, manifest, selected, graph, diags, result, edits, faults>>

\* Mutant: the caller does not go on.
AlreadySelectedStuck ==
    /\ HasNext /\ Pending.name \notin InStack /\ selected[Pending.name] # 0
    /\ UNCHANGED vars

\* The name has a version already, whatever this call's constraint says.
AlreadySelected ==
    /\ HasNext /\ Pending.name \notin InStack /\ selected[Pending.name] # 0
    /\ Call(<< >>)
    /\ UNCHANGED <<catalog, manifest, selected, graph, diags, result, edits, faults>>

\* A name with an item in the manifest has an explicit constraint.
Explicit(n) == \E k \in DOMAIN manifest : manifest[k].name = n

\* PublishedVersions for a name without, AllPublishedVersions for one with an
\* explicit constraint.
Candidates(n) ==
    {v \in Vers : \/ status[n][v] = "published"
                  \/ (status[n][v] = "revived" /\ Explicit(n))}

Matching == {v \in Candidates(Pending.name) : v \in Accepts[Pending.text]}

Fresh == HasNext /\ Pending.name \notin InStack /\ selected[Pending.name] = 0

\* Mutant: only what the manifest asks for is reported.
MissingOfManifest ==
    /\ Fresh /\ (Pending.name \notin Registered \/ Matching = {})
    /\ IF Pending.parent = 0 THEN Report("MISSING", << >>) ELSE UNCHANGED diags
    /\ Call(<< >>)
    /\ UNCHANGED <<catalog, manifest, selected, graph, result, edits, faults>>

\* The artifact is not registered, or no candidate satisfies the constraint.
Missing ==
    /\ Fresh /\ (Pending.name \notin Registered \/ Matching = {})
    /\ Report("MISSING", << >>)
    /\ Call(<< >>)
    /\ UNCHANGED <<catalog, manifest, selected, graph, result, edits, faults>>

\* Mutant: the comparison is turned round.
SelectLowest ==
    LET v == CHOOSE v \in Matching : \A o \in Matching : v <= o IN
    /\ Fresh /\ Pending.name \in Registered /\ Matching # {}
    /\ selected' = [selected EXCEPT ![Pending.name] = v]
    /\ graph' = Append(graph, [name |-> Pending.name, ver |-> v, depth |-> Len(stack),
                               parent |-> Pending.parent, text |-> Pending.text])
    /\ Call(<<[name |-> Pending.name, loaded |-> FALSE, todo |-> {}]>>)
    /\ UNCHANGED <<catalog, manifest, diags, result, edits, faults>>

\* The highest candidate that satisfies the constraint is selected, and the
\* call goes on to its dependencies.
Select ==
    LET v == CHOOSE v \in Matching : \A o \in Matching : o <= v IN
    /\ Fresh /\ Pending.name \in Registered /\ Matching # {}
    /\ selected' = [selected EXCEPT ![Pending.name] = v]
    /\ graph' = Append(graph, [name |-> Pending.name, ver |-> v, depth |-> Len(stack),
                               parent |-> Pending.parent, text |-> Pending.text])
    /\ Call(<<[name |-> Pending.name, loaded |-> FALSE, todo |-> {}]>>)
    /\ UNCHANGED <<catalog, manifest, diags, result, edits, faults>>

\* DependenciesFor of the version selected.
Load ==
    /\ stack # << >> /\ ~Top.loaded
    /\ stack' = [stack EXCEPT
         ![Len(stack)].loaded = TRUE,
         ![Len(stack)].todo = Targets(Top.name, selected[Top.name])]
    /\ UNCHANGED <<catalog, manifest, item, selected, graph, diags, result, edits,
                   faults>>

\* The loop over the dependencies is over: resolveArtifact returns.
Return ==
    /\ stack # << >> /\ Top.loaded /\ Top.todo = {}
    /\ stack' = SubSeq(stack, 1, Len(stack) - 1)
    /\ UNCHANGED <<catalog, manifest, item, selected, graph, diags, result, edits,
                   faults>>

\* detectConflicts: an item whose text differs from that of the first item of
\* the same name.
Conflicting(k) ==
    \E j \in 1 .. k - 1 :
        /\ manifest[j].name = manifest[k].name /\ manifest[j].text # manifest[k].text
        /\ \A i \in 1 .. j - 1 : manifest[i].name # manifest[k].name

\* The k-th smallest number of S.
Nth(S, k) == CHOOSE x \in S : Cardinality({y \in S : y < x}) = k - 1

\* Mutant: the sort is by name only.
BeforeByName(x, y) == x.name <= y.name

\* The sort by depth, then by name.
Before(x, y) == x.depth < y.depth \/ (x.depth = y.depth /\ x.name <= y.name)

Sorted(nodes) ==
    CHOOSE s \in [DOMAIN nodes -> {nodes[k] : k \in DOMAIN nodes}] :
        /\ {s[k] : k \in DOMAIN s} = {nodes[k] : k \in DOMAIN nodes}
        /\ \A j, k \in DOMAIN s : j <= k => Before(s[j], s[k])

\* detectConflicts runs, the nodes are sorted, and the result is returned.
Finish ==
    LET Conflict(k) == [type |-> "CONFLICT", name |-> manifest[k].name, path |-> << >>]
        found == {k \in DOMAIN manifest : Conflicting(k)}
    IN
    /\ result = "running" /\ stack = << >> /\ item > Len(manifest)
    /\ diags' = diags \o [k \in 1 .. Cardinality(found) |-> Conflict(Nth(found, k))]
    /\ graph' = Sorted(graph)
    /\ result' = IF diags' = << >> THEN "succeeded" ELSE "failed"
    /\ UNCHANGED <<catalog, manifest, item, stack, selected, edits, faults>>

\* lockfile.Generate: the entries of the nodes, sorted by name.
Entry(nodes, name) == CHOOSE x \in {nodes[j] : j \in DOMAIN nodes} : x.name = name

Generate(nodes) ==
    [k \in DOMAIN nodes |-> Entry(nodes, Nth({nodes[j].name : j \in DOMAIN nodes}, k))]

\* A read of the catalog fails: for the artifact or its versions the name is
\* reported missing; for the dependencies the error is dropped, and the version
\* has those that were read before it, in the order of the query.
ReadFails ==
    /\ faults < MaxFaults /\ faults' = faults + 1
    /\ \/ /\ Fresh /\ Report("MISSING", << >>) /\ Call(<< >>)
       \/ /\ stack # << >> /\ ~Top.loaded
          /\ \E last \in Names \cup {0} :
               stack' = [stack EXCEPT
                 ![Len(stack)].loaded = TRUE,
                 ![Len(stack)].todo = {m \in Targets(Top.name, selected[Top.name]) :
                                         m <= last}]
          /\ UNCHANGED <<item, diags>>
    /\ UNCHANGED <<catalog, manifest, selected, graph, result, edits>>

\* Another request publishes a draft, deprecates a published version, or, as a
\* late publisher can, publishes a deprecated one.
Edit ==
    /\ result = "running" /\ edits < MaxEdits /\ edits' = edits + 1
    /\ \E n \in Names, v \in Vers :
         \/ /\ status[n][v] = "draft"
            /\ status' = [status EXCEPT ![n][v] = "published"]
         \/ /\ status[n][v] \in {"published", "revived"}
            /\ status' = [status EXCEPT ![n][v] = "deprecated"]
         \/ /\ status[n][v] = "deprecated"
            /\ status' = [status EXCEPT ![n][v] = "revived"]
    /\ UNCHANGED <<deps, manifest, item, stack, selected, graph, diags, result, faults>>

\* The result has been returned.
Done == result # "running" /\ UNCHANGED vars

Engine ==
    \/ Cycle \/ AlreadySelected \/ Missing \/ Select \/ Load \/ Return \/ Finish
    \/ ReadFails

Next == Engine \/ Edit \/ Done

\* The engine's goroutine is scheduled until it returns; nothing else is owed.
Spec == Init /\ [][Next]_vars /\ WF_vars(Engine)
-----------------------------------------------------------------------------
Returned == result # "running"

\* The versions selected of the names in C depend on each other in a circle:
\* from each one a dependency leads to another, without end.
Circle(C) ==
    C # {} /\ \A n \in C : selected[n] # 0 /\ \E m \in C : m \in Targets(n, selected[n])

Cyclic == \E C \in SUBSET Names : Circle(C)

Reported(type) == {diags[k].name : k \in {j \in DOMAIN diags : diags[j].type = type}}

\* Two items of one name, in two texts, that no version satisfies both.
Exclusive(j, k) ==
    /\ manifest[j].name = manifest[k].name /\ manifest[j].text # manifest[k].text
    /\ Accepts[manifest[j].text] \cap Accepts[manifest[k].text] = {}

\* An item of the manifest that accepts one version and no other pins it.
Pinning(n, v) ==
    \E k \in DOMAIN manifest : manifest[k].name = n /\ Accepts[manifest[k].text] = {v}

\* What the documents offer a resolution: published versions that are not
\* deprecated, and deprecated ones too where the manifest pins them.
Installable(n, v) ==
    \/ status[n][v] = "published"
    \/ status[n][v] \in {"revived", "deprecated"} /\ Pinning(n, v)

Unavailable(n, text) ==
    n \notin Registered \/ \A v \in Accepts[text] : ~Installable(n, v)

\* A cycle is reported only when the versions selected depend on each other in a
\* circle, and no circle is passed over although the engine gives up a branch as
\* soon as it meets a name it knows - unless one of its names was reported
\* missing before another requirement found a version of it.  So no success has
\* a circle.
CyclesReported ==
    /\ Reported("CYCLE") # {} => Cyclic
    /\ Returned /\ faults = 0 =>
         \A C \in SUBSET Names : Circle(C) =>
             Reported("CYCLE") # {} \/ C \cap Reported("MISSING") # {}

\* A reported path can be walked: each selected version declares the next name,
\* and the last one is either on the path before or, where the path leaves out
\* the bottom of the stack, depends on the first itself.  The reader of a
\* diagnosis can go round the circle it names.
CyclePathIsWalk ==
    \A k \in DOMAIN diags : diags[k].type = "CYCLE" =>
        LET p == diags[k].path
            last == p[Len(p)]
            Needs(n, m) == selected[n] # 0 /\ m \in Targets(n, selected[n])
        IN  /\ \A j \in 1 .. Len(p) - 1 : Needs(p[j], p[j + 1])
            /\ (\E j \in 1 .. Len(p) - 1 : p[j] = last) \/ Needs(last, p[1])

\* A success is a whole installation, and its lockfile pins it: each selected
\* version under its name, the names in order and none twice (so that equal
\* results have equal lockfiles); and every item of the manifest and every
\* dependency of an entry has an entry itself.
SuccessIsClosed ==
    result = "succeeded" =>
        LET entries == Generate(graph)
            Pinned == {entries[k].name : k \in DOMAIN entries}
        IN  /\ Pinned = {n \in Names : selected[n] # 0}
            /\ \A k \in DOMAIN entries :
                 /\ entries[k].ver = selected[entries[k].name]
                 /\ \A j \in 1 .. k - 1 : entries[j].name < entries[k].name
            /\ faults = 0 =>
                 /\ \A k \in DOMAIN manifest : manifest[k].name \in Pinned
                 /\ \A k \in DOMAIN entries :
                      Targets(entries[k].name, entries[k].ver) \subseteq Pinned

\* The result lists every selected version once, the version that required it
\* before it and one level up, down from the items of the manifest.
RequirersFirst ==
    Returned =>
        /\ \A n \in Names : selected[n] # 0 =>
             Cardinality({k \in DOMAIN graph : graph[k].name = n}) = 1
        /\ \A k \in DOMAIN graph :
             /\ graph[k].ver = selected[graph[k].name]
             /\ graph[k].parent = 0 => graph[k].depth = 0
             /\ graph[k].parent # 0 =>
                  \E j \in 1 .. k - 1 : /\ graph[j].name = graph[k].parent
                                        /\ graph[j].depth = graph[k].depth - 1

\* Each version in the result is one its first requirement accepts and, unless
\* others changed the catalog meanwhile, the highest such version that is
\* published and not deprecated (a revived one may be chosen above it).
HighestForFirstRequirement ==
    \A k \in DOMAIN graph :
        LET x == graph[k] IN
        /\ x.ver \in Accepts[x.text]
        /\ status[x.name][x.ver] \in {"published", "revived", "deprecated"}
        /\ edits = 0 => \A v \in Accepts[x.text] :
             v > x.ver => status[x.name][v] # "published"

\* Where the engine departs from the documents: it takes two texts for a
\* contradiction that a version satisfies both of, and does not find a
\* deprecated version that is pinned.
SaidTwoWays ==
    \E j, k \in DOMAIN manifest :
        /\ manifest[j].name = manifest[k].name /\ manifest[j].text # manifest[k].text
        /\ ~Exclusive(j, k)

PinsDeprecated == \E n \in Names, v \in Vers : Pinning(n, v) /\ status[n][v] = "deprecated"

\* A resolution that fails had a cause the documents give for it: the selected
\* versions depend on each other in a circle, two items of the manifest exclude
\* each other, or something that was required is not to be had at all.  Meeting
\* a name twice is none.  Two causes the documents do not give are excepted, for
\* which the code does fail: SaidTwoWays and PinsDeprecated.  Nor does a manifest
\* whose items exclude each other ever succeed, whatever lies between them.
FailureJustified ==
    /\ result = "failed" /\ faults = 0 /\ edits = 0 /\ ~SaidTwoWays /\ ~PinsDeprecated =>
         \/ Cyclic
         \/ \E j, k \in DOMAIN manifest : Exclusive(j, k)
         \/ \E k \in DOMAIN manifest : Unavailable(manifest[k].name, manifest[k].text)
         \/ \E n, m \in Names :
              /\ selected[n] # 0 /\ m \in Targets(n, selected[n])
              /\ Unavailable(m, deps[n][selected[n]][m])
    /\ result = "succeeded" => \A j, k \in DOMAIN manifest : ~Exclusive(j, k)

\* Resolution ends, on circular dependencies and a changing catalog too.
Terminates == <>Returned

\* A conflict is diagnosed rather than passed over: a success satisfies every
\* requirement made of a selected version.
SuccessSatisfiesAll ==
    result = "succeeded" =>
        /\ \A k \in DOMAIN manifest : selected[manifest[k].name] \in Accepts[manifest[k].text]
        /\ \A n \in Names : selected[n] # 0 =>
             \A m \in Targets(n, selected[n]) : selected[m] \in Accepts[deps[n][selected[n]][m]]
=============================================================================
