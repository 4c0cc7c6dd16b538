-------------------------------- MODULE Server --------------------------------
(***************************************************************************)
(* The process (cmd/server) and its database handle: start, migration,     *)
(* serving, orderly shutdown, abrupt death and restart on the same file.   *)
(*                                                                         *)
(* A request is what it asks of the handle, one use of a connection after  *)
(* the other, each of one statement or, in a transaction, of several; what *)
(* the statements do is the business of Registry and Resolutions.  The     *)
(* handle is database/sql's pool: a use takes a free connection, opens one *)
(* when the limit allows, or waits.                                        *)
(***************************************************************************)
EXTENDS Integers, Sequences, FiniteSets

CONSTANTS
    Requests,       \* requests that can be in flight at once
    Scripts,        \* what a request can be: the lengths of its uses
    Conns,          \* connections the pool could open
    Objects,        \* tables and indexes the migration creates
    NoConn,         \* absent value
    MaxDeaths       \* bound: starts that end abruptly

ASSUME ConstantsOK ==
    /\ Scripts \subseteq Seq(Nat \ {0}) \ {<< >>}
    /\ IsFiniteSet(Conns) /\ Conns # {} /\ NoConn \notin Conns
    /\ Objects \in Nat /\ MaxDeaths \in Nat

VARIABLES
    proc,           \* what main is doing
    pos,            \* the statement of migrate that is next
    schema,         \* the database file: how many objects it has
    listening,      \* ListenAndServe accepts requests
    catching,       \* signal.Notify has been called
    caught,         \* the channel holds a signal
    conns,          \* the pool: connections, with foreign keys on or off
    req,            \* the requests in flight
    deaths          \* abrupt ends so far

vars == <<proc, pos, schema, listening, catching, caught, conns, req, deaths>>

Idle == [stage |-> "none", rest |-> << >>, conn |-> NoConn]

TypeOK ==
    /\ proc \in {"down", "migrating", "serving", "draining"}
    /\ pos \in 1 .. Objects + 3 /\ schema \in 0 .. Objects
    /\ listening \in BOOLEAN /\ catching \in BOOLEAN /\ caught \in BOOLEAN
    /\ conns \in [Conns -> {"closed", "off", "on"}]
    /\ req \in [Requests -> [stage : {"none", "waiting", "using", "answered", "lost"},
                             rest : Seq(Nat), conn : Conns \cup {NoConn}]]
    /\ deaths \in 0 .. MaxDeaths

Init ==
    /\ proc = "down" /\ pos = 1 /\ schema = 0
    /\ listening = FALSE /\ catching = FALSE /\ caught = FALSE
    /\ conns = [k \in Conns |-> "closed"]
    /\ req = [r \in Requests |-> Idle]
    /\ deaths = 0
-----------------------------------------------------------------------------
Running(r) == req[r].stage \in {"waiting", "using"}

\* The process is gone, with its connections and the requests in flight.
Vanish ==
    /\ proc' = "down" /\ pos' = 1
    /\ listening' = FALSE /\ catching' = FALSE /\ caught' = FALSE
    /\ conns' = [k \in Conns |-> "closed"]
    /\ req' = [r \in Requests |->
                 IF Running(r) THEN [Idle EXCEPT !.stage = "lost"] ELSE req[r]]

Die == deaths < MaxDeaths /\ deaths' = deaths + 1 /\ Vanish /\ UNCHANGED schema

\* Mutant: SetMaxOpenConns is not called.
MaxOpenUnlimited == Cardinality(Conns)

MaxOpen == 1

Open == {k \in Conns : conns[k] # "closed"}
Free == {k \in Open : \A r \in Requests : req[r].conn # k}

\* The connections the pool can give: a free one or, failing that, a new one,
\* on which SQLite's foreign_keys is off.
Available == IF Free # {} THEN Free
             ELSE IF Cardinality(Open) < MaxOpen THEN Conns \ Open ELSE {}

Taken(k) == IF conns[k] = "closed" THEN "off" ELSE conns[k]

\* A start with a valid configuration: store.Open begins to migrate.
Start ==
    /\ proc = "down" /\ proc' = "migrating"
    /\ UNCHANGED <<pos, schema, listening, catching, caught, conns, req, deaths>>

\* Mutant: CREATE without IF NOT EXISTS; on an object that is there, the start
\* fails, and main exits.
MigrateCreatingAgain ==
    /\ proc = "migrating" /\ pos <= Objects + 2
    /\ IF pos > 2 /\ pos - 2 <= schema THEN Vanish /\ UNCHANGED <<schema, deaths>>
       ELSE /\ \E k \in Available :
                 conns' = [conns EXCEPT ![k] = IF pos = 1 THEN "on" ELSE Taken(k)]
            /\ schema' = IF pos > 2 THEN pos - 2 ELSE schema
            /\ pos' = pos + 1
            /\ UNCHANGED <<proc, listening, catching, caught, req, deaths>>

\* One statement of migrate: PRAGMA foreign_keys, which is about the connection
\* it runs on; PRAGMA journal_mode, which is about the file; CREATE ... IF NOT
\* EXISTS, one object after the other.
Migrate ==
    /\ proc = "migrating" /\ pos <= Objects + 2
    /\ \E k \in Available :
         conns' = [conns EXCEPT ![k] = IF pos = 1 THEN "on" ELSE Taken(k)]
    /\ schema' = IF pos - 2 > schema THEN pos - 2 ELSE schema
    /\ pos' = pos + 1
    /\ UNCHANGED <<proc, listening, catching, caught, req, deaths>>

\* A statement of migrate fails: the handle is closed and main exits.
MigrateFails == proc = "migrating" /\ pos <= Objects + 2 /\ Die

\* store.Open returns; main starts the goroutine that listens.
Serve ==
    /\ proc = "migrating" /\ pos = Objects + 3 /\ proc' = "serving"
    /\ UNCHANGED <<pos, schema, listening, catching, caught, conns, req, deaths>>

\* ListenAndServe gets to its port.  After Shutdown it would return at once.
Listen ==
    /\ proc = "serving" /\ ~listening /\ listening' = TRUE
    /\ UNCHANGED <<proc, pos, schema, catching, caught, conns, req, deaths>>

\* ListenAndServe returns an error, before or after it accepted requests:
\* log.Fatalf ends the process, and no deferred call runs.
ListenFails == proc = "serving" /\ Die

\* signal.Notify, after the goroutine was started.
CatchSignals ==
    /\ proc = "serving" /\ ~catching /\ catching' = TRUE
    /\ UNCHANGED <<proc, pos, schema, listening, caught, conns, req, deaths>>

\* SIGTERM or SIGINT: kept in the channel of one place, dropped when it is full;
\* before Notify it ends the process.
Signal ==
    \/ /\ proc # "down" /\ ~catching /\ Die
    \/ /\ proc # "down" /\ catching /\ caught' = TRUE
       /\ UNCHANGED <<proc, pos, schema, listening, catching, conns, req, deaths>>

\* main receives the signal and calls Shutdown: nothing more is accepted.
Drain ==
    /\ proc = "serving" /\ caught
    /\ proc' = "draining" /\ listening' = FALSE /\ caught' = FALSE
    /\ UNCHANGED <<pos, schema, catching, conns, req, deaths>>

\* Mutant: Shutdown with a context that is done.
CloseAtOnce == proc = "draining" /\ Vanish /\ UNCHANGED <<schema, deaths>>

\* Shutdown returns when no request is in flight; then the deferred Close, and
\* main returns.
Close ==
    /\ proc = "draining" /\ \A r \in Requests : ~Running(r)
    /\ Vanish /\ UNCHANGED <<schema, deaths>>

Arrive(r) ==
    /\ listening /\ ~Running(r)
    /\ \E s \in Scripts :
         req' = [req EXCEPT ![r] = [Idle EXCEPT !.stage = "waiting", !.rest = s]]
    /\ UNCHANGED <<proc, pos, schema, listening, catching, caught, conns, deaths>>

\* db.Exec, db.Query or db.Begin gets its connection.
Acquire(r) ==
    /\ req[r].stage = "waiting"
    /\ \E k \in Available :
         /\ conns' = [conns EXCEPT ![k] = Taken(k)]
         /\ req' = [req EXCEPT ![r].stage = "using", ![r].conn = k]
    /\ UNCHANGED <<proc, pos, schema, listening, catching, caught, deaths>>

\* One statement less to do in the current use; after the last one, the
\* connection is given back, and after the last use the request is answered.
Done(r) ==
    LET rest == req[r].rest IN
    req' = [req EXCEPT ![r] =
      IF Head(rest) > 1 THEN [@ EXCEPT !.rest = <<Head(rest) - 1>> \o Tail(rest)]
      ELSE IF Len(rest) > 1 THEN [Idle EXCEPT !.stage = "waiting", !.rest = Tail(rest)]
      ELSE [Idle EXCEPT !.stage = "answered"]]

\* Mutant: inside a transaction s.db.Exec instead of tx.Exec, which wants a
\* connection of its own.
ExecuteOutsideTx(r) ==
    /\ req[r].stage = "using" /\ Done(r)
    /\ Head(req[r].rest) > 1 => Available # {}
    /\ UNCHANGED <<proc, pos, schema, listening, catching, caught, conns, deaths>>

Execute(r) ==
    /\ req[r].stage = "using" /\ Done(r)
    /\ UNCHANGED <<proc, pos, schema, listening, catching, caught, conns, deaths>>

Crash == proc # "down" /\ Die

Main == Migrate \/ Serve \/ CatchSignals \/ Drain \/ Close

Next ==
    \/ Start \/ Main \/ MigrateFails \/ Listen \/ ListenFails \/ Signal \/ Crash
    \/ \E r \in Requests : Arrive(r) \/ Acquire(r) \/ Execute(r)

\* Goroutines that can run are run.  Of the requests that wait for a connection
\* database/sql serves one at random when it is given back (a range over a
\* map), so none waits for ever: strong fairness.  Nobody owes a start, a
\* request, a signal or a fault.
Spec ==
    /\ Init /\ [][Next]_vars
    /\ WF_vars(Main) /\ WF_vars(Listen)
    /\ \A r \in Requests : SF_vars(Acquire(r)) /\ WF_vars(Execute(r))
-----------------------------------------------------------------------------
\* A statement of a request meets the whole schema, and a connection on which
\* foreign keys are on: PRAGMA foreign_keys was given to one connection, in the
\* start, and it is the limit of one that makes it the connection of everybody.
ServedOnWholeSchema ==
    \A r \in Requests : req[r].stage = "using" =>
        schema = Objects /\ conns[req[r].conn] = "on"

\* A start gets to serving on whatever an earlier start, ended after any of its
\* statements, has left in the file, unless this one ends abruptly too.
StartServes ==
    \A d \in 0 .. MaxDeaths :
        proc = "migrating" /\ deaths = d ~> proc = "serving" \/ deaths > d

\* Every request that was accepted is answered, though it waits for the one
\* connection and a signal may come meanwhile, unless the process has died
\* abruptly: an orderly shutdown loses none.
RequestsAnswered ==
    \A r \in Requests :
        Running(r) ~> \/ req[r].stage = "answered"
                      \/ req[r].stage = "lost" /\ deaths > 0

\* A signal that was caught ends the process: requests in flight do end, and
\* what arrives meanwhile cannot put the end off for ever.
SignalStops == proc = "serving" /\ caught ~> proc = "down"
=============================================================================
