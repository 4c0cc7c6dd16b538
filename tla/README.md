# Verification of the artifact dependency resolver

TLA+ modules, TLC runs and TLAPS proofs for the Go service in `src/`: a registry of
artifacts and versions, an engine that resolves a manifest of requirements into one
version per artifact, and a history of resolutions, behind an HTTP API and over one
SQLite file.

- [1. The system](#1-the-system)
- [2. Modules](#2-modules)
- [3. Runs and bounds](#3-runs-and-bounds)
- [4. Where the code and its documents part](#4-where-the-code-and-its-documents-part)
- [5. Proofs](#5-proofs)
- [6. Not modelled, and the plan](#6-not-modelled-and-the-plan)

To run: `tlc -config Registry_race.cfg MCRegistry`, and so on for every `.cfg` (the part
before the underscore names the module: `Registry_*` is for `MCRegistry`);
`tlapm Ranks.tla`, and the same for every `*Proofs.tla`, checks the proofs.

## 1. The system

### Components

| component | state | operations | where |
|---|---|---|---|
| semver | none | `Parse`, `Compare`, `Sort` | `internal/semver` |
| constraint | none | `Parse`, `Match`, seven operators | `internal/constraint` |
| resolver | per run: stack of calls, selected versions, nodes, diagnostics | `Resolve` | `internal/resolver` |
| registry service | none between requests; per request a copy of a row | create artifact and version, publish, deprecate, delete, replace dependencies | `internal/service/service.go`, `version_service.go` |
| registry store | tables `artifacts`, `versions`, `dependencies`, `change_records` | single statements | `internal/store` |
| published versions | none | the candidate queries of the engine | `internal/store/published_store.go` |
| resolution service | none between requests | resolve, rerun, get, list | `internal/service/resolve_service.go`, `rerun_service.go` |
| resolution store | tables `resolution_requests`, `resolution_nodes`, `lockfiles` | insert, finish, save nodes (in a transaction), save lockfile | `internal/store/resolution_store.go`, `lockfile_store.go` |
| lockfile | none | generate, checksum, verify | `internal/lockfile` |
| readiness | none | runs the engine over the declarations of a draft | `internal/service/readiness_service.go` |
| diff | none | reads two versions and what they declare, and compares | `internal/service/diff_service.go`, `internal/diff` |
| audit queries | none | pages of the change records | `internal/service/audit_service.go` |
| httpapi, errcode, model | none | decoding, routing, error codes | `internal/httpapi`, `internal/errcode`, `internal/model` |
| server, config | the process, the schema in the file, the pool of one connection | start, migrate, serve, shut down | `cmd`, `internal/config`, `internal/store/store.go` |

### How they interact

Every HTTP request is served by a goroutine of its own. It calls the service, which calls
the store once or more; the components share nothing but the tables. `SetMaxOpenConns(1)`
makes the statements one after another, but there is no lock around a request and, except
for the nodes of a resolution, no transaction: **every call of the store commits on its
own**. The statements of different requests therefore interleave freely, and a crash or a
failed statement leaves what the statements before it wrote. The engine reads the catalog
through the store in the middle of its recursion, one statement at a time.

### What is hard in it

1. *Stale reads.* A service function reads a row, decides, and writes by id; the row can
   have been published, deprecated or deleted in between (`version_service.go`,
   `version_store.go:86-103`).
2. *Operations of several statements.* A replacement of dependencies is a DELETE and
   several INSERTs, a resolution is an INSERT, an UPDATE, the nodes, the record, the
   lockfile. Any prefix of them can be all that is left.
3. *The audit trail.* Records are written after the write they record, and the error of
   that write is dropped.
4. *The depth-first search.* Two early returns in a certain order (on the stack: a cycle;
   selected: skip) decide which cycles are seen, on which path, and which constraints are
   never looked at. The catalog may change under it.
5. *Order of versions.* Prerelease identifiers that are numbers for `Atoi` and for nobody
   else, ties by build metadata, a single pass over the candidates that must not lose the highest.
6. *Ranges.* `^` and `~` at 0.x, prereleases at either end, and what is parsed and then
   dropped.
7. *Reads of several statements.* The detail of a resolution is two reads, a diff up to
   eight, a listing one per page; writers come in between.
8. *One connection.* It serializes the statements and keeps foreign keys on for everyone
   (the PRAGMA is about a connection); and whoever holds it and wants another waits for
   ever, and the shutdown waits with it.
9. *Start and end.* The migration is many statements without a transaction; shutdown has
   no timeout; a signal too early, or an error of the listener, ends the process at once.

`PROJECT.json` lists each of them at its line under `hazards`, with the properties that
would see it go wrong.

### What makes each component correct

- *registry*: the life of a version is the documented one; what is published stays; what
  a published version declares is fixed; declarations have existing ends; the audit trail
  tells what happened to whom.
- *resolver*: it ends; a success is complete and satisfies what was required; a failure
  has a cause; a reported cycle is there, and no success has one; the highest version is
  chosen.
- *semver, constraint*: comparison is an order; what an operator accepts is a range; the
  candidates that lose are explained truthfully.
- *resolutions*: one run per row; what is stored of a run agrees; what a client was told
  stays true; a finished run is final; every run is finished.
- *lockfile*: it pins each selected version once, in an order that is that of the names.
- *readiness, diff, history*: an answer put together from several reads is true of one
  state, or at least contradicts nothing the client sees later.
- *server*: a request meets the whole schema and a connection with foreign keys; an
  interrupted start is made good; an orderly end loses nothing and comes.

## 2. Modules

| module | models | extends / uses |
|---|---|---|
| `Lifecycle` | abstract: the life of a version as a user sees it | - |
| `Registry` | the registry's requests over its tables; implements `Lifecycle` | `INSTANCE Lifecycle` |
| `RegistryProofs` | theorems about `Registry`: lives, declarations, the audit trail, one request at a time | `Registry`, `TLAPS` |
| `Resolver` | one run of the engine, while others change the catalog | - |
| `ResolverProofs` | theorems about `Resolver` | `Resolver`, `Ranks` |
| `SemVer` | `Parse` and `Compare` | - |
| `Constraint` | `Parse`, `Match` and the operators | `SemVer` |
| `Selection` | `selectVersion`: filter, sort, choose, explain | `Constraint` |
| `SelectionProofs` | theorems about `SemVer`, `Constraint` and `Selection` | `Selection`, `TLAPS` |
| `Resolutions` | resolve and rerun over the history tables | - |
| `Readiness` | the readiness check, the publication and the resolution of one version | `Resolver` |
| `ReadinessProofs` | theorems about `Readiness` | `Readiness`, `ResolverProofs` |
| `Comparison` | the diff of two versions, read beside the registry's requests | `Registry` |
| `ComparisonProofs` | theorems about `Comparison` | `Comparison`, `RegistryProofs`, `Ranks` |
| `History` | the clients who read lockfiles, details and pages | `Resolutions` |
| `ResolutionsProofs` | theorems about `Resolutions` and `History` | `History`, `Ranks` |
| `Server` | the process and its pool: start, migration, requests, signals, end | - |
| `ServerProofs` | theorems about `Server` | `Server`, `TLAPS` |
| `Ranks` | lemmas: ranks in an ordered finite set, on which sorting and paging rest | `TLAPS` |
| `MC*` | instances for TLC | the module named |

### Registry

`Next` is the interleaving of handlers. A handler's `stage` is the program counter: each
action is **one SQL statement together with the Go code up to the next one**, so the
interleavings of the model are those the single connection allows.

| action | code |
|---|---|
| `Begin` | a request reaches the handler; the operations are those that write |
| `CreateArtifact`, `CreateVersion` | the service function, with the insert and the unique index |
| `PublishLookup`, `DeprecateLookup`, `DeleteLookup`, `ReplaceLookup` | `GetVersion` and the switch on the status |
| `PublishValidate` | `validateDependencies` over the stored declarations |
| `Reread`, `Write` | the two statements of `UpdateVersionStatus` |
| `Remove` | `DeleteVersion`: `DELETE ... AND status='draft'` and the foreign key |
| `Clear`, `Declare`, `ReadBack` | `ReplaceDependencies` |
| `Audit` | `AppendChange` |
| `StatementFails`, `Crash` | a statement returns an error; the process dies and is restarted |

Two reads are joined to the statement after them: the lookup of the artifact's row, which
never changes and is never removed, and in `Clear` the check of the body, which reads
artifacts only (artifacts are never removed, so a check that passed stays true). A row is
its name, version, status and whether each timestamp is set. A change record is its
entity, action and the identity in its snapshot. The guards of `Begin` bound the run
only: a request starts when there is room for the rows it may write.

`Lifecycle` is what a reader of the specification expects of an id: unborn, draft,
published, deprecated, or gone. The refinement mapping (`LifeOf`) reads it off the
`versions` table and the AUTOINCREMENT counter. Its `Spec` is the documented life,
`RelaxedSpec` adds the one step that overlapping requests add: deprecated back to
published.

### Resolver

`resolveArtifact` is recursive; `stack` is its call stack, a frame holding the name and
the dependencies still to visit. `Pending` is the call about to be made, from the manifest
or from the frame on top, and each way through the function is an action: `Cycle`,
`AlreadySelected`, `Missing`, `Select`. `Load` is `DependenciesFor`, `Return` the end of
the loop. `Finish` is `detectConflicts`, the sort and the status
(the list `Nodes` of the result has the same entries as the graph, sorted by depth only; it is
not modelled apart). `ReadFails` is an error
of a query: for versions it becomes a diagnostic, for dependencies it is dropped. `Edit`
is another request publishing or deprecating between two statements.

Names and versions are numbers in the order the code sorts them. A constraint is a text
and the set of versions it accepts. That the order of versions *is* an order with a
highest match, and that this is what `selectVersion` returns, is `Selection`'s business
(`ComparesLikeAnOrder`, `ChoosesHighest`). What a version declares does not change during
a run: only versions that are not drafts are read, and that their declarations can change
through a race is found in `Registry` (`PublishedDepsFrozen`).

### SemVer, Constraint, Selection

A version text is its pieces: an optional `v`, the numbers of the core, the identifiers
of the prerelease and the build. Identifiers are numbered in byte order, and `Atoi` says
which of them Go reads as a number. `Compare` has all the cases of the code, including a
leading zero, a minus sign and a number too large for an `int`. `Constraint` is the two
levels of the code (alternatives, each a conjunction of terms), with what `parseNode` accepts
as a condition on the pieces. `Selection` goes through the candidates in the order of the
query, one per step, keeping the best so far and an elimination for each of the others.

### Resolutions

The same style as `Registry`: `Insert` (pending row), `Resolve` (the engine, reduced to
its outcome), `Finish` (the UPDATE), `SaveNodes` (the only transaction, one step),
`Audit`, `SaveLockfile`, and for a rerun `ReadOriginal` before and `AuditRerun` after.
`answers` is what each client was told last; a crash does not take it back. The random
part of `request_ref` is taken to be unique (64 random bits). `ErrorOf` is what `Finish`
keeps of the diagnostics of a failure: the type and the message of the first.

### Readiness

`Readiness` extends `Resolver` with the three requests in the life of a release: `Check`
(`CheckReadiness`: only a draft; `Declared` is `ListDependencies`, whose rows become a
manifest), `Resolve` (the engine, the very actions of `Resolver`), `Conclude`
(ready, or the diagnostics told as blockers), `Publish` (`PublishVersion`, which asks for
registered targets and never for readiness), and `Ask` (a resolution of the version just
published). `StatementFails` is an error of a statement outside the engine: of the lookup or of
`ListDependencies` in the check (answered `INTERNAL`), of the publication, of the row of the
resolution; a query of the engine fails by `ReadFails` of `Resolver`.

A blocker is not a diagnostic. `Told` and `Converted` are the conversion of
`readiness_service.go:61-66`: the message becomes the reason, the details are copied, `Type` and
`Candidates` are dropped, and `Name`, which the record declares, is never set. What is left
says by its wording which kind of problem it is (`Wordings`: "dependency cycle detected",
"not found", "no version of ... satisfies", "conflicting constraints"), and spells out the artifact in one
of the two texts, for a cycle as the last on its path. A query that failed may have put the
text of its error in the place of the wording (kind `ERROR`). So the model keeps of the two texts
a kind and an artifact (`kind`, `about`) and the name as the code leaves it, empty (0).
`selected` in `check` is not part of the answer; it is kept for what the property compares.

`Drafts` are versions the lookup of the handler finds: of registered artifacts, and
in the table. `Starts` gives every catalog in which that can begin; `Edit` is left out, for
the question is what the check is worth when nobody interferes.

### Comparison

`Comparison` extends `Registry` with one more request, `cmp`, whose `stage` says which of
the reads of `CompareVersionDependencies` is next; all actions of `Registry` go on beside
it (`Others`). `Difference` is `diff.Dependencies` with its sort: the maps of the code are
functions from names to texts, so the order in which Go ranges over them cannot matter, as it
cannot after a sort by a key without ties: `Entries` is what the loops collect, `InOrder` the
sort. `settled` is remembered for `DiffExact` only.

### History

`History` extends `Resolutions` with readers: `ReadLockfile`, then the two reads of
`GetResolution`; or `BeginScan` and `NextPage`, a client that asks for page after page
until one is not full. `Listed` is the WHERE of `ListResolutionRequests` or
`ListChangesPage`, `Page` their ORDER BY, LIMIT and OFFSET, `Limit` the default of
`pagination`. A lockfile in the table is its entries: `Marshal`, `Parse` and the checksum
are taken to lose nothing, so what is read verifies.

### Server

| action | code |
|---|---|
| `Start`, `Migrate`, `MigrateFails`, `Serve` | `main` up to `http.Server`; `store.Open` and the statements of `migrate`, one per step |
| `Listen`, `ListenFails` | the goroutine with `ListenAndServe` and its `log.Fatalf` |
| `CatchSignals`, `Signal`, `Drain`, `Close` | `signal.Notify`, the channel of one place, `Shutdown` without a timeout, the deferred `st.Close` |
| `Arrive`, `Acquire`, `Execute` | a request: what it asks of `database/sql`, a connection for each statement or transaction |
| `Crash` | the process dies in any state |

What the statements do is left to `Registry` and `Resolutions`; here a request is the
list of its uses of the connection, each of one statement or, for a transaction, of several.
The pool is external and modelled from how it is used: a use takes a free connection,
opens one if `MaxOpen` allows, or waits. That `Registry` and `Resolutions` take one
statement for one step rests on `MaxOpen` being 1.

## 3. Runs and bounds

| run | instance | shows |
|---|---|---|
| `Registry_race` | 2 requests at once, 1 name, 1 version string, ids 1-2, 6 records, 1 fault | what survives every interleaving: types, timestamps, what a handler has in hand, declarations, the audit trail, and `RelaxedSpec` |
| `Registry_alone` | 1 request at a time, valid and refused names, versions, constraints and bodies, 1 fault | when requests do not overlap: the documented life, frozen dependencies, nothing stored of a refused replacement and all of one answered with success, after faults too |
| `Resolver_engine` | all 512 graphs on 3 names with a 4th that is not registered; 864 catalogs of 2 versions of 3 names, with overlapping and disjoint constraints; 1 change, 1 failed read | cycles and their paths, a closed success and its lockfile, order of the result, highest version for the first requirement, no failure without a cause the documents give (two exceptions apart) and no success of exclusive items, termination |
| `Selection_choice` | 20 versions, up to 3 candidates, 51 constraints | comparison is an order, highest match, true explanations, ranges |
| `Resolutions_history` | 2 requests at once, 2 rows, 1 fault | stored parts agree, answers (of the diagnostics, the first) and finished rows stay; without a fault every run ends, whole and recorded |
| `Server_life` | 3 requests of one to three uses, a pool that could open 2 connections, 2 objects in the schema, 2 abrupt ends | whole schema and foreign keys for every request, interrupted migrations made good, no request lost by an orderly end, and the end comes |
| `Readiness_predicts` | versions 1 and 2 of name 1; its declarations among its own name, 2 and 3, theirs in circles and not; published, draft, revived and deprecated versions; 1 failed statement or read | the texts of the blockers tell what the resolution after publication finds, the exceptions apart |
| `Comparison_diff` | 1 writer beside 1 comparison, from two drafts of one name, 2 targets, 1 fault | the diff of two versions past being drafts is exact, and sorted |
| `History_reads` | 2 handlers, 3 rows, pages of 1 and of 20, all filters | details do not contradict lockfiles, and paging passes over no row |

Each of the other three runs states one sentence of the documents and is violated; see
section 4.

**Why the bounds are enough.** *Handlers*: the conflicts of the registry are between a
reader that acts late and one other that changes what it read, so two suffice; even the
revival of a deprecated version, which takes a publisher asleep and two requests one after
the other, has them served by one handler. *Ids*: two, so that an id can be given out
after a deletion; *records*: six, enough for two whole lives. *Faults*: one; whatever a
second one leaves, a crash leaves at once. *Names in the engine*: three give cycles of
length one, two and three, met from inside and from outside, diamonds and chains, and a
fourth is missing. *Candidates*: three are what transitivity and a choice need. *Versions*:
chosen at the boundaries of `^` and `~`, at every kind of prerelease identifier, and with
and without build metadata. *Symmetry* of handlers is used in the `Registry` runs with two
of them and in `History_reads`, that of version texts in `Comparison_diff`; no property
of these runs is a liveness property. `History_reads` has a VIEW that leaves out `answers`,
which no action and no property of `History` reads; it explores no faults, which
`Resolutions_history` does. *Rows in the history*: three, so that a scan with
pages of one can be passed by insertions twice. *Writers beside a comparison*: one; it can be
anywhere in a replacement when the comparison begins and make any number of changes
between two of its reads. *Requests of the server*: three, for one to hold the connection
and two to wait for it. *Objects*: two, so that the migration can end before, between and
after them.

`TypeOK` is checked by TLC for `Registry` and `Resolutions` and proved for all modules with
a state but `History` (section 5); what `History` adds is typed by its invariant.

**Fairness.** `Resolver` has weak fairness of the engine, `Resolutions` of each handler's
steps: a goroutine that can run is run, and each waits for nothing but the connection,
which is given back after each statement. Clients, other requests and faults owe nothing.
`Registry` needs none: nothing is promised there but safety. In `Server`, `main` and the
listener are goroutines that can run and are run (weak fairness), as is a request that has
a connection. A request that waits for the connection needs strong fairness: it is
enabled only from time to time, when the connection is free, and `database/sql` hands it
to a waiter chosen by ranging over a map, so that none is passed over for ever. Nothing is
assumed of signals, starts and faults.

**Deadlock** is checked in every run. `Rest` and `Done` are explicit stuttering of a system
in which no request is in flight, or of a run that has returned; a request or a run that is
stuck halfway is still a deadlock.

**Conditions.** A property that says `faults = 0` is about runs in which no statement failed
and the process lived; the same run also explores those in which one did, for the other
properties. The bodies, manifests and catalogs of the `MC` modules are requests the API accepts
for processing, refused ones included.

## 4. Where the code and its documents part

| run | property | what happens |
|---|---|---|
| `Registry_revive` | `RefinesLifecycle` | a late publisher writes its copy over a deprecated row |
| `Registry_thawed_deps` | `PublishedDepsFrozen` | a replacement goes on after the version was published |
| `Resolver_unmet` | `SuccessSatisfiesAll` | a later requirement is skipped with its constraint |

`findings` in `PROJECT.json` has the line of each and the sentence it contradicts.

The models also show the following, which the properties of the passing runs are worded
around; each is visible by dropping the condition named.

- A draft that declares dependencies cannot be deleted (`Remove`): the foreign key refuses
  it and the answer is 500, where the specification says a draft can be deleted.
- The write and its change record are two commits (`Write`, `Audit`), where the specification
  says one transaction: a crash or a failed insert leaves a publication without a record.
  `NoWriteUnaudited` wants `faults = 0` for this.
- The UPDATE of a version that another request has just deleted matches no row (`Write`),
  and the publication is answered 200 and recorded all the same.
- `AllPublishedVersions` looks for deprecated rows under the status `published`
  (`Candidates`): a manifest cannot pin a deprecated version, which the comment at
  `published_store.go:28` and the specification promise; a revived one it can.
- The prerelease of a constraint is dropped (`ParseNode`): `=1.0.0-rc` accepts 1.0.0 and not
  1.0.0-rc.
- A replacement of dependencies is one DELETE and several INSERTs, each a commit of its own, where the
  specification and the comment at `version_service.go:108` promise a full replacement.
  `ReplacedWhole` asks for the whole body where a client was told of success, and for nothing
  of a body that one of its items makes unacceptable. It says nothing of a replacement that
  passes the checks and then ends with an error or with the process: a body that names a target
  twice is answered 500 after the items before the repetition have replaced what was declared.
  And it is checked of one request at a time, for two replacements mix: the DELETE of one falls
  between the INSERTs of the other, and a client told 200 has not its body stored.
- `CyclesReported` leaves out a circle through a name that was reported missing: a first
  requirement that finds no version returns, a later one selects a version of it, and the
  circle that version closes can lie in what is not visited again. The run has failed anyhow.
- `CyclePathIsWalk` lets the path leave out the bottom of the stack: `stack[1:]` does, so
  an artifact that depends on itself is reported with a path of one name.
- `SuccessIsClosed` wants `faults = 0`: the error of `DependenciesFor` is dropped, and what
  was not read is not visited.
- `FailureJustified` takes the documents' causes: a circle, two items of the manifest that no
  version satisfies both (`Exclusive`: 互斥 at `engine.go:175` and in the specification), and a
  requirement that nothing installable meets (`Unavailable`, which counts a deprecated version
  that the manifest pins as installable). It excepts the two cases in which the code fails without
  one: `detectConflicts` compares texts, so that a requirement in two texts one version
  satisfies, or that accept the very same versions, is a CONFLICT (`SaidTwoWays`); and a pinned
  version that is deprecated is MISSING (`PinsDeprecated`).
- `TermsAreRanges` is about releases: on prereleases `^` differs from the range its comment
  gives, for `>=` and `<` look at the core only. The operator `=>` parses and matches nothing.
- `PendingEnds` and `FinishedIsWhole` want `faults = 0`: nothing takes up
  an unfinished row after a restart, a row succeeds before its nodes and its lockfile are saved,
  and the error of the change record is dropped.
- The type of a row's status in `Resolutions` has no "running", which the specification names
  and the code never writes. `AnswersKept` compares the first of the diagnostics a client was
  told with the error of the row; the others are in no table, and nor are the details and
  the eliminated candidates of the first, where the specification says of
  `GET /resolutions/{id}` that the detail has the diagnostics.
- A blocker of the readiness check has no name (`ReadinessBlocker.Name` is never set), no type and no
  candidates: a client must take the artifact and the kind of problem out of the texts, which is
  what `Said` does and `ReadinessPredictsResolution` compares. After a failed query they need
  not tell, and the property wants `faults = 0`.
- Publication does not ask for readiness: a version reported blocked can be published when its
  targets are registered. `ReadinessPredictsResolution` leaves out a draft that leads back to its
  own artifact (the check resolves another version of it or finds none, the resolution finds a
  circle) and revived versions, which count for the check's items, being explicit, and not for
  the dependencies of the version.
- `DiffExact` is about versions past being drafts: a diff of drafts can be taken in the middle
  of a replacement, or compare versions deleted and created again, under the same name.
- `ScanComplete` leaves out the listing of pending requests: a row that is finished between two
  pages leaves it, and the row after the page takes its place, unseen. Any listing can show a
  row twice.
- `DetailConsistent` allows a row that succeeded without nodes yet, and nodes under a row read
  as pending. The column `checksum` of a lockfile is written and never compared.
- `RequestsAnswered` allows a loss after an abrupt end: a signal before `signal.Notify`, or an
  error of the listener (`log.Fatalf`), ends the process with the requests in flight.
  A second signal during the shutdown is swallowed by the channel; the shutdown waits as long
  as the slowest request.
- `INSERT OR IGNORE INTO schema_version` has no unique column to conflict with: every start adds
  a row, which nothing reads. `dirOf("/x.db")` is empty, for which `MkdirAll` fails: such a
  `DB_PATH` does not start. Neither is modelled.

## 5. Proofs

Every theorem below holds for every value of the constants that satisfies the named
assumptions, and TLC evaluates each assumption in a passing run. The *property* is the
definition a run checks; a theorem without one states what its row says.

### Registry

For any sets of names, versions, constraints and bodies, any number of handlers, rows,
records and faults:

| theorem | property |
|---|---|
| `TypeCorrect` | `TypeOK` |
| `TimestampsCorrect` | `TimestampsAgree` |
| `InHandCorrect` | `InHandSound` |
| `DeclarationsCorrect` | `DeclarationsSound` |
| `PublishedForGood` | `LeavesDraftForever` |
| `RelaxedLifecycle` | `RefinesRelaxed`: `Registry` implements `Lifecycle!RelaxedSpec` |
| `DeletionsFinal` | `DeletionFinal` |
| `DeprecationRecordsTrue` | `DeprecationRecordTrue` |
| `EveryWriteAudited` | `NoWriteUnaudited` |
| `TrailNamesOneVersion` | `AuditNamesOneVersion` |
| `DocumentedLifecycle` | `RefinesLifecycle`, if at most one request is served at a time |
| `FrozenWhenAlone` | `PublishedDepsFrozen`, likewise |
| `ReplacementsWhole` | `ReplacedWhole`, likewise |

*Assumptions*: `ConstantsOK` (accepted values are among those requests can mention, absent
values are none of them, bounds are numbers) and `AbsentValuesOK`. The last three theorems
assume `OneAtATime` besides, that all handlers are one: without it they are false, as the
runs `Registry_revive` and `Registry_thawed_deps` show of the first two, and section 4 tells of
the third.

*The argument.* `TypeOK` alone is not inductive: a handler that is about to write must
have an id that was handed out and a row to write. `TypeInv` adds `HandlersOK` (what each
stage knows of its call, and that it has an id and a row) and `IdsInOrder` (rows have ids
below the counter). `StepTyped` shows it kept, one step per action.

`TimestampsAgree` is not inductive either: `Write` stores a copy read earlier, so the copy
has to be right, and stay right. `LifeInv` adds `InHandSound`: a version being deprecated is
past being a draft whatever happened since (publication is not undone and only drafts are
deleted), and the copy about to be written has the timestamps of its operation. The two
need each other, and are proved together. All that a step can do to the tables is put in
one lemma (`TableStep`: a row is inserted below the counter, deleted while a draft, stamped
when it exists, or left alone), from which follow `LeavesDraftForever`, the refinement
(each shape is a step of `Lifecycle` or a stutter) and that nothing deleted comes back.

`DeletionFinal` and `DeprecationRecordTrue` follow by induction over the steps, since a record
is appended only by a handler whose `InHandTrue` says that the row is gone, or published.
Both are about the *past*, kept in the table `changes` (`RecordsTrue`): what makes them
inductive is that `NothingComesBack`, which follows from `TableStep`: a row that is gone
stays gone, and one that was published stays so. `DeclarationsSound` needs besides the types
that a handler declares only what it has checked (`InHandTrue`), and that artifacts are never
removed.

The audit trail has an invariant of its own, `TrailInv`, in three parts. `OneIdentity`: the row
of an id, the records about it and the handlers that hold it all give it one name and
version. `RecordedOnce`: a creation or a deletion is on record once, or is still to be
recorded by one handler. `WritesTold`: while nothing failed, every write a row shows is on record or
a handler is about to record it, and so is the deprecation in the copy a publisher is
about to write back: that last clause is what a late publisher, the very one of
`Registry_revive`, needs.

*One request at a time.* With one handler, what a request read is what it still finds when it
writes (`Undisturbed`, whose invariant is `AloneInv`). Then the one step that `RelaxedSpec` adds
to the documented life cannot be taken, and only drafts have their declarations replaced. For
`ReplacedWhole` the invariant `BodyInv` follows the replacement of each handler through
(`BodyOK`): past the checks its body is acceptable and stays so, for artifacts are never removed;
after item *n* the version declares the first *n* items and nothing else (`Partly`), and when
the list is read back, all of it (`DeclaresAll`). Faults need no condition: a replacement that
fails or dies is not answered with success.

### Resolver

For any finite sets of names and versions, any catalog, manifest and constraints, any
number of changes and failed reads:

| theorem | property |
|---|---|
| `ResolverTyped` | its `TypeOK` |
| `CyclesAreReported` | `CyclesReported` |
| `CyclePathsWalk` | `CyclePathIsWalk` |
| `SuccessesAreClosed` | `SuccessIsClosed` |
| `RequirersComeFirst` | `RequirersFirst` |
| `HighestIsSelected` | `HighestForFirstRequirement` |
| `FailuresJustified` | `FailureJustified` |

*Assumption*: `ConstantsOK`; its finite sets are what a registry has at any time, and what
`Cardinality` in the sorting of the lockfile needs.

*The argument* is that of a depth-first search. `StackOK`: the calls in progress are of
different names, each a dependency of the one below. A call that finds its name on the stack
has therefore found a circle, and the names from there up are a walk. For the converse,
`SearchOK` says what holds as long as no cycle is reported: what a call that has *returned*
needs has returned too, or was reported missing (`ReturnedOK`); one in progress, of what it
has visited, the same but for the call above it (`VisitedOK`); and every circle among the
names that have returned contains a missing one (`CirclesOK`). The step that matters is
`Return`, which adds a name to the finished ones: all that a circle through it needs has
returned before or was reported missing, so without a missing name each of its names leads to
another that had returned before, and what is left of the circle without the new name is a
circle among the old ones. At the end the stack is empty, and
all that was selected has returned. `Cause` is why a diagnosis was made as the engine sees it (texts that differ, no candidate), and
is kept because versions selected and their declarations stay, and `FailureJustified` speaks of
catalogs without edits. What it comes to in the documents' terms is `NotToBeHad` (what has no
candidate is not installable, pinned deprecated versions apart) and, for two items in different
texts, that they exclude each other unless the requirement is said two ways. That no success
has exclusive items follows from `Finish`, which reports every two texts. `GraphOK` keeps
the levels of nodes and frames in step; sorting keeps them (`Sorted`, `SortOf`), as the
lemmas of `Ranks` say that ranks in a strict order are 0 to n - 1, each taken once.

### Readiness

For any finite catalog, any draft in it and any number of failed reads:

| theorem | property |
|---|---|
| `ReadinessTyped` | its `ReadinessTypeOK` |
| `ReadinessPredicted` | `ReadinessPredictsResolution` |

*Assumptions*: `ConstantsOK` of `Resolver` and `DraftsOK`.

*The argument* compares two runs of the engine, and the first is over when the second begins.
They are made to look alike: in the check, the declarations of the draft are the manifest; in the
resolution, they are what is left to visit in the frame of the draft at the bottom of the stack. So
`Ahead` is the run of the check seen with that frame below it, holding the items left, with the
draft selected and its row published (`Coming`). As long as the check does not meet the draft's own
artifact (`Met`), no version is revived and no read fails, each of its steps is the one step
`After` makes from `Ahead` (`AheadMirrored`), and each step of the resolution is the one `After`
makes from `Seen`, the run as it is (`SeenMirrored`): the next item is the smallest dependency left
(`NextItem`), the candidates are the same, and so is every verdict. That makes determinism an
invariant without a variable for the past. `Reaches(st, dp, X, F)` says that F is in every set
closed under `After` that has X in it: the check keeps that what is ahead is reached from
`Beginning` (`CheckingOK`), its answer is where that leads, `Ending` (`AnswerOK`), and publication
changes the one row that `Coming` has changed already. In the resolution the first two steps
select the draft and load its declarations, which is `Beginning`; after that, as there is one way
on (`ReachedNext`), `Ending` stays ahead of `Seen` until the bottom frame has nothing left, which
is where both end (`EndReached`); `Finish` adds nothing, since one item contradicts no other
(`OnTheWay`). `EngineOK`, which `ResolverProofs` shows to be kept, gives the shape of the stack and
what the result says of the diagnostics. The answer has not the diagnostics, though: `BlockersSaid`
shows that without a fault the texts of the blockers say the kind and the artifact of each, for
which the path of a cycle must end in its name (`CyclesNamed`); a failed statement only ends the
requests (`FailureKeeps`).

### SemVer, Constraint, Selection

For any identifiers, versions, constraints and candidates:

| theorem | property |
|---|---|
| `CompareIsOrder` | `ComparesLikeAnOrder` |
| `HighestIsChosen` | `ChoosesHighest` |
| `EliminationsAreTrue` | `EliminationsExplain` |
| `OperatorsAreRanges` | `TermsAreRanges` |
| `SelectionTyped` | its `TypeOK` |

*Assumptions*: `IdentifiersOK` and `TextsOK` (numbers and byte order of the identifiers, pieces
of the texts, what they are drawn from).

*The argument.* `Compare` decides at the first place where two lists of pieces differ, and an
end is a difference; identifiers are compared by what `Atoi` made of them, then by bytes, and
that this has no circles is where the cases of a number against a text are all needed. With
transitivity, one pass over the candidates keeps the highest of those seen (`BestOK`) and one
true elimination for each of the others (`ElimsOK`). An operator accepts a convex set, and on
releases the very range its comment gives.

### Resolutions and History

For any number of handlers, rows and faults, and any lists of manifests and outcomes:

| theorem | property |
|---|---|
| `ResolutionsTyped` | its `TypeOK` |
| `RowsAreApart` | `OneRunPerRow` |
| `StoreAgrees` | `StoredInOrder` |
| `AnswersStayTrue` | `AnswersKept` |
| `RerunsRecordedTruly` | `RerunRecordsTrue` |
| `NothingHalfDone` | `FinishedIsWhole` |
| `FinishedForGood` | `TerminalForGood` |
| `DetailNeverContradicts` | `DetailConsistent` |
| `PagingPassesOverNothing` | `ScanComplete` |

*Assumptions*: `ConstantsOK` of `Resolutions`, `LimitsOK` of `History`.

*The argument.* `ResolutionsInv` says of each stage of a run what it has stored already
(`RunOK`), that no two handlers have a row in common (`RowsApart`), that there is room for the
rows on their way (`Room`), and that what a client was told is in the tables, of the diagnostics the first (`AnswerOK`). All
that a step does is put in one lemma again: the tables only grow (`TablesGrow`), in the
handler's own row (`HandlerStep`), so that what others rely on stays. In `HistoryInv` the second
read of a detail finds all that the first one did, and more. A scan passes over nothing
because a row that was listed when it began and stays listed can only move *down* the
list, as newer rows come in above it: its rank never falls below the offset until it is
shown (`ScanOK`). That the page at an offset holds the rows of those ranks is
`Ranks!EveryRankTaken`.

### Comparison

For any finite set of names in order, and as `Registry` besides:

| theorem | property |
|---|---|
| `DiffsExact` | `DiffExact` |
| `ComparisonTyped` | `ComparisonTypeOK` |

*The argument.* A name and version string have one row at a time (`RowsUnique`, which is the
unique index), so a lookup that finds a settled version finds the row that was settled. A row
past being a draft stays (`NothingComesBack`), under its name, and no replacement of what it
declares can begin any more, for `ReplaceLookup` accepts drafts only; one under way was
excluded when the comparison began. `Firm` is that, and is kept by every step of the writers
(`FirmStays`). What was read of firm rows is therefore what they declare now (`SettledRead`).
`DifferenceIs` says what `Difference` makes of it: an entry for each name that differs, in the
order of `Sorts`, which is strict on entries of different names.

### Server

For any number of requests, connections, objects and abrupt ends:

| theorem | property |
|---|---|
| `ServedWhole` | `ServedOnWholeSchema` |
| `OneStatementAtATime` | `StatementsNeverOverlap`: no two requests execute a statement at once |
| `NeverTwoConnections` | the pool has one connection at most |
| `OrderlyEndLosesNothing` | `LostToDeaths`: the safety part of `RequestsAnswered`, that no request is lost while no process died |
| `ServerTyped` | its `TypeOK` |

The invariant `ServerInv` says besides the types where the connection comes from
(`OneConnection`: none before the first statement of the migration, afterwards the one that
statement ran on, with foreign keys), what the position of `main` says of the schema
(`SchemaFollows`) and that only a serving process has requests in flight (`RequestsOK`).
`OneConnection` is what makes `ServedOnWholeSchema` inductive: a statement can only get the
connection that has foreign keys if no other can be opened, which is `AvailableIsOn`; and only
while no other request holds it (`AcquiresAlone`), from which follows that statements never
overlap, on which the step size of `Registry` and `Resolutions` rests. The assumption is `ConstantsOK` of `Server`.

### Only model-checked

All liveness (`Terminates`, `PendingEnds`, `StartServes`, `RequestsAnswered`, `SignalStops`),
for fairness and ENABLED are out of the prover's reach. Every safety property the passing
runs check is a theorem. No lemma is about a recursive definition: what the code does
by recursion or in loops over lists is a state machine here (the stack of `Resolver`, the pass of
`Selection`), or a function of ranks (`Ranks`).

## 6. Not modelled, and the plan

Left out for good: JSON, routing, the health handler, logging, wording of messages, HTTP
status numbers, the reading of the environment and build scripts (no state of the system);
reads of one row or of an unfiltered list of artifacts and versions, which are one statement
and answer what it returns. Randomness of references and SHA-256 are taken as unique.

Planned and done: the safety properties of the passing runs are proved. What could be added is
another question, not another part: what a resolution is worth when publications interfere between
the check and it, which `Readiness` leaves out (its `Edit` would make the prediction false), and a
resource bound for the engine's recursion, whose depth is the number of names.

The order in which the modules were written is that of what is at stake: `Registry` has the
state that requests fight over; `Resolver` is what the program is for; then the orders and
ranges it rests on, the history, and at last the process and the readers.
