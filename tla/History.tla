------------------------------- MODULE History -------------------------------
(***************************************************************************)
(* The readers of the resolution history, beside the runs of Resolutions   *)
(* that write it: the lockfile and the detail of a resolution, and a       *)
(* client that goes through GET /resolutions or GET /changes page by page. *)
(*                                                                         *)
(* A page is one statement over a table that grows at the front, where the *)
(* newest row is listed first; a detail is two statements, the row and the *)
(* nodes.  What the readers remember is the client's knowledge.            *)
(***************************************************************************)
EXTENDS Resolutions

CONSTANT Limits     \* values of the limit parameter: numbers, absent is 0

ASSUME LimitsOK == Limits \subseteq Nat

VARIABLES
    detail,         \* a client reading a lockfile, then the detail
    scan            \* a client going through a listing

historyVars == <<vars, detail, scan>>

\* pinned: the graph of the lockfile read first, if there was one.
Detail == [stage : {"none", "row", "nodes", "done"}, id : 0 .. MaxRequests,
           pinned : MaybeGraph, row : Row \cup {NoManifest}, nodes : MaybeGraph]

\* A listing: of the requests, of one status or of all ("*"), or of the change
\* records, of one resolution or of all (0).
Listings == [table : {"requests"}, status : {"*", "pending", "succeeded", "failed"}]
                \cup [table : {"changes"}, id : 0 .. MaxRequests]

NoListing == [table |-> "none"]

\* due: the rows the listing had when the scan began; seen: those shown so far.
Scan == [stage : {"none", "paging", "done"}, of : Listings \cup {NoListing},
         limit : Nat, offset : Nat, due : SUBSET Nat, seen : SUBSET Nat]

HistoryTypeOK == detail \in Detail /\ scan \in Scan

NoDetail == [stage |-> "none", id |-> 0, pinned |-> NoGraph, row |-> NoManifest,
             nodes |-> NoGraph]

NoScan == [stage |-> "none", of |-> NoListing, limit |-> 0, offset |-> 0,
           due |-> {}, seen |-> {}]

HistoryInit == Init /\ detail = NoDetail /\ scan = NoScan
-----------------------------------------------------------------------------
\* GetLockfileByRequest, or ByRef: a lockfile that is stored parses and, its
\* checksum being that of its entries, verifies.
ReadLockfile ==
    /\ detail.stage = "none" /\ scan.stage = "none"
    /\ \E i \in DOMAIN requests :
         detail' = [NoDetail EXCEPT !.stage = "row", !.id = i, !.pinned = lockfiles[i]]
    /\ UNCHANGED scan

\* GetResolution: the row, then the nodes.
GetResolution ==
    \/ /\ detail.stage = "row"
       /\ detail' = [detail EXCEPT !.stage = "nodes", !.row = requests[detail.id]]
       /\ UNCHANGED scan
    \/ /\ detail.stage = "nodes"
       /\ detail' = [detail EXCEPT !.stage = "done", !.nodes = nodes[detail.id]]
       /\ UNCHANGED scan

\* pagination: a limit that is absent or not positive is 20.
Limit(given) == IF given > 0 THEN given ELSE 20

\* WHERE: the rows of a listing.
Listed(l) ==
    IF l.table = "requests"
    THEN {i \in DOMAIN requests : l.status \in {"*", requests[i].status}}
    ELSE {k \in DOMAIN changes : l.id \in {0, changes[k].id}}

\* Mutant: the arguments of LIMIT and OFFSET exchanged.
PageSwapped(l, limit, offset) ==
    {i \in Listed(l) : LET newer == Cardinality({j \in Listed(l) : j > i}) IN
                       limit <= newer /\ newer < limit + offset}

\* ORDER BY id DESC LIMIT limit OFFSET offset.
Page(l, limit, offset) ==
    {i \in Listed(l) : LET newer == Cardinality({j \in Listed(l) : j > i}) IN
                       offset <= newer /\ newer < offset + limit}

\* The client is one or the other: readers do not meet.
BeginScan ==
    /\ scan.stage = "none" /\ detail.stage = "none"
    /\ \E l \in Listings, n \in Limits :
         scan' = [NoScan EXCEPT !.stage = "paging", !.of = l, !.limit = Limit(n),
                                !.due = Listed(l)]
    /\ UNCHANGED detail

\* The client asks for the next page until one is not full.
NextPage ==
    LET page == Page(scan.of, scan.limit, scan.offset) IN
    /\ scan.stage = "paging"
    /\ scan' = [scan EXCEPT !.seen = @ \cup page,
                  !.offset = @ + scan.limit,
                  !.stage = IF Cardinality(page) < scan.limit THEN "done" ELSE @]
    /\ UNCHANGED detail

Readers == ReadLockfile \/ GetResolution \/ BeginScan \/ NextPage

\* Where a bounded run may end: nothing in flight and no row left to insert.
Rest ==
    /\ Len(requests) = MaxRequests /\ \A h \in Handlers : req[h] = Idle
    /\ UNCHANGED historyVars

HistoryNext ==
    \/ Next /\ UNCHANGED <<detail, scan>>
    \/ Readers /\ UNCHANGED vars
    \/ Rest

HistorySpec == HistoryInit /\ [][HistoryNext]_historyVars
-----------------------------------------------------------------------------
\* What a client puts together from two requests of three reads never
\* contradicts itself or what the run comes to: who has seen the lockfile finds
\* the resolution succeeded with just the nodes it pins, and nodes are those of
\* the row, however the run goes on between the reads.  (A row that succeeded
\* without nodes yet, and nodes under a row read as pending, can be seen.)
DetailConsistent ==
    detail.stage = "done" =>
        /\ detail.nodes # NoGraph =>
             /\ detail.nodes = requests[detail.id].graph
             /\ detail.row.status # "pending" => detail.row.graph = detail.nodes
        /\ detail.pinned # NoGraph =>
             detail.row.status = "succeeded" /\ detail.nodes = detail.pinned

\* Going through a listing page by page shows every row that was there when the
\* client began: rows that come meanwhile move the others to later pages, so
\* some are shown twice and none is passed over.  The exception is the listing
\* of pending requests, which rows leave: the page after moves past others.
ScanComplete ==
    scan.stage = "done"
        /\ (scan.of.table = "requests" => scan.of.status # "pending") =>
        scan.due \subseteq scan.seen
=============================================================================
