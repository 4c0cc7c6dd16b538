----------------------------- MODULE ServerProofs -----------------------------
(***************************************************************************)
(* Theorems about Server for any number of requests, connections, schema   *)
(* objects and abrupt ends, with proofs checked by TLAPS.                  *)
(***************************************************************************)
EXTENDS Server, FiniteSetTheorems, SequenceTheorems, TLAPS

USE ConstantsOK

-----------------------------------------------------------------------------
(* The inductive invariant.                                                *)

\* Before the first statement of the migration no connection is open; after it
\* there is one, on which foreign keys are on, until the process ends.
OneConnection ==
    /\ pos = 1 => \A k \in Conns : conns[k] = "closed"
    /\ pos > 1 => \E k \in Conns : Open = {k} /\ conns[k] = "on"

\* How far main is says how much of the schema there is.
SchemaFollows ==
    /\ proc = "down" => pos = 1
    /\ proc \in {"serving", "draining"} => pos = Objects + 3
    /\ pos - 3 <= schema
    /\ listening => proc = "serving"

\* A request in flight has something left to do, and holds an open connection
\* exactly while it executes.
RequestOK(r) ==
    /\ r.stage \in {"waiting", "using"} =>
         /\ proc \in {"serving", "draining"}
         /\ r.rest \in Seq(Nat \ {0}) /\ r.rest # << >>
    /\ r.stage = "using" => r.conn \in Conns /\ conns[r.conn] = "on"

RequestsOK == \A r \in Requests : RequestOK(req[r])

\* A request is lost only when the process died abruptly.
LostToDeaths == \A r \in Requests : req[r].stage = "lost" => deaths > 0

\* The statements of requests come one after the other, and what a request does in
\* a transaction nobody comes between: a connection is given to one request at a
\* time, and the limit leaves one to give.
StatementsNeverOverlap ==
    \A r, s \in Requests : req[r].stage = "using" /\ req[s].stage = "using" => r = s

ServerInv == TypeOK /\ OneConnection /\ SchemaFollows /\ RequestsOK

-----------------------------------------------------------------------------
\* A server that starts satisfies the invariant.
LEMMA InitEstablishes == Init => ServerInv
<1> SUFFICES ASSUME Init PROVE ServerInv
  OBVIOUS
<1>1. << >> \in Seq(Nat)
  OBVIOUS
<1>2. TypeOK
  <2>1. listening \in BOOLEAN /\ catching \in BOOLEAN /\ caught \in BOOLEAN
    BY DEF Init
  <2>2. req \in [Requests -> [stage : {"none", "waiting", "using", "answered", "lost"},
                              rest : Seq(Nat), conn : Conns \cup {NoConn}]]
    BY <1>1 DEF Init, Idle
  <2>3. conns \in [Conns -> {"closed", "off", "on"}]
    BY DEF Init
  <2>4. /\ proc \in {"down", "migrating", "serving", "draining"}
        /\ pos \in 1 .. Objects + 3 /\ schema \in 0 .. Objects
        /\ deaths \in 0 .. MaxDeaths
    BY DEF Init
  <2>5. QED
    BY <2>1, <2>2, <2>3, <2>4, Zenon DEF TypeOK
<1>3. OneConnection /\ SchemaFollows /\ RequestsOK
  BY DEF Init, OneConnection, SchemaFollows, RequestsOK, RequestOK, Idle
<1>4. QED
  BY <1>2, <1>3 DEF ServerInv

\* Once the pool has its connection, it has no other to give.
LEMMA AvailableIsOn ==
    ASSUME OneConnection, pos > 1, NEW k \in Available
    PROVE  /\ k \in Conns /\ Open = {k}
           /\ conns[k] = "on" /\ Taken(k) = "on"
<1>1. PICK c \in Conns : Open = {c} /\ conns[c] = "on"
  BY DEF OneConnection
<1>2. Cardinality(Open) = 1
  BY <1>1, FS_Singleton
<1>3. k \in Free
  BY <1>2 DEF Available, MaxOpen
<1>4. k = c
  BY <1>1, <1>3 DEF Free
<1>5. QED
  BY <1>1, <1>4 DEF Taken

\* The end of the process, orderly or not.
LEMMA VanishKeeps ==
    ASSUME ServerInv, Vanish, schema' = schema, deaths' \in 0 .. MaxDeaths
    PROVE  ServerInv'
<1>1. << >> \in Seq(Nat)
  OBVIOUS
<1>2. TypeOK'
  <2>1. req' \in [Requests -> [stage : {"none", "waiting", "using", "answered", "lost"},
                               rest : Seq(Nat), conn : Conns \cup {NoConn}]]
    BY <1>1 DEF ServerInv, TypeOK, Vanish, Idle
  <2>2. listening' \in BOOLEAN /\ catching' \in BOOLEAN /\ caught' \in BOOLEAN
    BY DEF Vanish
  <2>3. conns' \in [Conns -> {"closed", "off", "on"}]
    BY DEF Vanish
  <2>4. /\ proc' \in {"down", "migrating", "serving", "draining"}
        /\ pos' \in 1 .. Objects + 3 /\ schema' \in 0 .. Objects
    BY DEF Vanish, ServerInv, TypeOK
  <2>5. QED
    BY <2>1, <2>2, <2>3, <2>4, Zenon DEF TypeOK
<1>3. OneConnection'
  BY DEF Vanish, OneConnection
<1>4. SchemaFollows'
  BY DEF ServerInv, TypeOK, Vanish, SchemaFollows
<1>5. RequestsOK'
  BY DEF ServerInv, TypeOK, Vanish, RequestsOK, RequestOK, Running, Idle
<1>6. QED
  BY <1>2, <1>3, <1>4, <1>5 DEF ServerInv

\* A process that dies takes every request and connection with it.
LEMMA DieKeeps == ServerInv /\ Die => ServerInv'
<1> SUFFICES ASSUME ServerInv, Die PROVE ServerInv'
  OBVIOUS
<1>1. deaths' \in 0 .. MaxDeaths
  BY DEF ServerInv, TypeOK, Die
<1>2. QED
  BY <1>1, VanishKeeps DEF Die

\* A statement of the migration, the first of which opens the connection.
LEMMA MigrateKeeps == ServerInv /\ Migrate => ServerInv'
<1> SUFFICES ASSUME ServerInv, Migrate PROVE ServerInv'
  OBVIOUS
<1>1. PICK k \in Available :
        conns' = [conns EXCEPT ![k] = IF pos = 1 THEN "on" ELSE Taken(k)]
  BY DEF Migrate
<1>2. k \in Conns
  BY DEF Available, Free, Open
<1>3. conns'[k] = "on" /\ \A c \in Conns \ {k} : conns'[c] = "closed"
  <2>1. CASE pos = 1
    BY <1>1, <1>2, <2>1 DEF ServerInv, TypeOK, OneConnection
  <2>2. CASE pos > 1
    BY <1>1, <1>2, <2>2, AvailableIsOn DEF ServerInv, TypeOK, Open
  <2>3. QED
    BY <2>1, <2>2 DEF ServerInv, TypeOK
<1>4. Open' = {k}
  BY <1>2, <1>3 DEF Open
<1>5. TypeOK'
  <2>1. conns' \in [Conns -> {"closed", "off", "on"}]
    BY <1>1, <1>2, <1>3 DEF ServerInv, TypeOK, Taken
  <2>2. QED
    BY <2>1 DEF ServerInv, TypeOK, Migrate
<1>6. OneConnection'
  BY <1>2, <1>3, <1>4 DEF ServerInv, TypeOK, Migrate, OneConnection
<1>7. SchemaFollows'
  BY DEF ServerInv, TypeOK, Migrate, SchemaFollows
<1>8. RequestsOK'
  BY DEF ServerInv, TypeOK, Migrate, RequestsOK, RequestOK
<1>9. QED
  BY <1>5, <1>6, <1>7, <1>8 DEF ServerInv

\* The steps of main and of the listener that leave connections and requests.
LEMMA MainKeeps ==
    ASSUME ServerInv, UNCHANGED <<pos, schema, conns, req, deaths>>,
           listening' \in BOOLEAN, catching' \in BOOLEAN, caught' \in BOOLEAN,
           \/ proc' = proc
           \/ proc = "down" /\ proc' = "migrating"
           \/ pos = Objects + 3 /\ proc' \in {"serving", "draining"},
           listening' => proc' = "serving"
    PROVE  ServerInv'
<1>1. TypeOK'
  BY DEF ServerInv, TypeOK
<1>2. OneConnection'
  BY DEF ServerInv, OneConnection, Open
<1>3. SchemaFollows'
  BY DEF ServerInv, TypeOK, SchemaFollows
<1>4. RequestsOK'
  BY DEF ServerInv, TypeOK, SchemaFollows, RequestsOK, RequestOK
<1>5. QED
  BY <1>1, <1>2, <1>3, <1>4 DEF ServerInv

\* A step of one request, which leaves the process alone.
LEMMA RequestKeeps ==
    ASSUME ServerInv, NEW r \in Requests, NEW v, req' = [req EXCEPT ![r] = v],
           v \in [stage : {"none", "waiting", "using", "answered", "lost"},
                  rest : Seq(Nat), conn : Conns \cup {NoConn}],
           RequestOK(v),
           UNCHANGED <<proc, pos, schema, listening, catching, caught, conns, deaths>>
    PROVE  ServerInv'
<1>1. TypeOK'
  BY DEF ServerInv, TypeOK
<1>2. OneConnection'
  BY DEF ServerInv, OneConnection, Open
<1>3. SchemaFollows'
  BY DEF ServerInv, SchemaFollows
<1>4. RequestsOK'
  BY DEF ServerInv, TypeOK, RequestsOK, RequestOK
<1>5. QED
  BY <1>1, <1>2, <1>3, <1>4 DEF ServerInv

\* A request that arrives holds nothing yet.
LEMMA ArriveKeeps ==
    ASSUME ServerInv, NEW r \in Requests, Arrive(r) PROVE ServerInv'
<1>1. PICK s \in Scripts :
        req' = [req EXCEPT ![r] = [Idle EXCEPT !.stage = "waiting", !.rest = s]]
  BY DEF Arrive
<1> DEFINE v == [Idle EXCEPT !.stage = "waiting", !.rest = s]
<1>2. s \in Seq(Nat \ {0}) /\ s # << >> /\ s \in Seq(Nat)
  BY <1>1
<1>3. v.stage = "waiting" /\ v.rest = s /\ v.conn = NoConn
  BY DEF Idle
<1>4. v \in [stage : {"none", "waiting", "using", "answered", "lost"},
             rest : Seq(Nat), conn : Conns \cup {NoConn}]
  BY <1>2 DEF Idle
<1>5. RequestOK(v)
  BY <1>2, <1>3 DEF Arrive, ServerInv, SchemaFollows, RequestOK
<1> HIDE DEF v
<1>6. QED
  BY <1>1, <1>4, <1>5, RequestKeeps DEF Arrive, v

\* The connection goes to a request while none holds it.
LEMMA AcquireKeeps ==
    ASSUME ServerInv, NEW r \in Requests, Acquire(r) PROVE ServerInv'
<1>1. PICK k \in Available :
        /\ conns' = [conns EXCEPT ![k] = Taken(k)]
        /\ req' = [req EXCEPT ![r].stage = "using", ![r].conn = k]
  BY DEF Acquire
<1>2. proc \in {"serving", "draining"} /\ pos > 1
  BY DEF Acquire, ServerInv, TypeOK, SchemaFollows, RequestsOK, RequestOK
<1>3. k \in Conns /\ conns[k] = "on" /\ Taken(k) = "on"
  BY <1>2, AvailableIsOn DEF ServerInv
<1>4. conns' = conns
  BY <1>1, <1>3 DEF ServerInv, TypeOK
<1> DEFINE v == [req[r] EXCEPT !.stage = "using", !.conn = k]
<1>5. req' = [req EXCEPT ![r] = v]
  BY <1>1
<1>6. v \in [stage : {"none", "waiting", "using", "answered", "lost"},
             rest : Seq(Nat), conn : Conns \cup {NoConn}]
  BY <1>3 DEF ServerInv, TypeOK
<1>7. v.stage = "using" /\ v.conn = k /\ v.rest = req[r].rest
  BY DEF ServerInv, TypeOK
<1>8. RequestOK(v)
  BY <1>3, <1>7 DEF Acquire, ServerInv, RequestsOK, RequestOK
<1> HIDE DEF v
<1>9. QED
  BY <1>4, <1>5, <1>6, <1>8, RequestKeeps DEF Acquire

\* A statement is executed on the connection held.
LEMMA ExecuteKeeps ==
    ASSUME ServerInv, NEW r \in Requests, Execute(r) PROVE ServerInv'
<1> DEFINE rest == req[r].rest
           v == IF Head(rest) > 1 THEN [req[r] EXCEPT !.rest = <<Head(rest) - 1>> \o Tail(rest)]
                ELSE IF Len(rest) > 1
                THEN [Idle EXCEPT !.stage = "waiting", !.rest = Tail(rest)]
                ELSE [Idle EXCEPT !.stage = "answered"]
<1>1. req' = [req EXCEPT ![r] = v]
  BY DEF Execute, Done, ServerInv, TypeOK
<1>2. /\ rest \in Seq(Nat \ {0}) /\ rest # << >>
      /\ proc \in {"serving", "draining"} /\ req[r].stage = "using"
      /\ req[r].conn \in Conns /\ conns[req[r].conn] = "on"
  BY DEF Execute, ServerInv, RequestsOK, RequestOK
<1>3. /\ Head(rest) \in Nat \ {0} /\ Tail(rest) \in Seq(Nat \ {0})
      /\ Len(rest) > 1 => Tail(rest) # << >>
  <2>1. /\ Head(rest) \in Nat \ {0} /\ Tail(rest) \in Seq(Nat \ {0})
        /\ Len(Tail(rest)) = Len(rest) - 1 /\ Len(rest) \in Nat
    BY <1>2, HeadTailProperties
  <2>e. Len(<< >>) = 0
    BY EmptySeq
  <2>2. Len(rest) > 1 => Tail(rest) # << >>
    <3> SUFFICES ASSUME Len(rest) > 1, Tail(rest) = << >> PROVE FALSE
      OBVIOUS
    <3>1. Len(Tail(rest)) = 0
      BY <2>e, Zenon
    <3> HIDE DEF rest
    <3>2. QED
      BY <2>1, <3>1
  <2>3. QED
    BY <2>1, <2>2
<1>4. Head(rest) > 1 => /\ <<Head(rest) - 1>> \o Tail(rest) \in Seq(Nat \ {0})
                        /\ <<Head(rest) - 1>> \o Tail(rest) # << >>
  BY <1>3
<1>5. Seq(Nat \ {0}) \subseteq Seq(Nat) /\ << >> \in Seq(Nat)
  OBVIOUS
<1> HIDE DEF rest
<1>6. /\ v \in [stage : {"none", "waiting", "using", "answered", "lost"},
                rest : Seq(Nat), conn : Conns \cup {NoConn}]
      /\ RequestOK(v)
  <2>1. CASE Head(rest) > 1
    BY <1>2, <1>4, <1>5, <2>1 DEF ServerInv, TypeOK, RequestOK
  <2>2. CASE ~(Head(rest) > 1) /\ Len(rest) > 1
    BY <1>2, <1>3, <1>5, <2>2 DEF RequestOK, Idle
  <2>3. CASE ~(Head(rest) > 1) /\ ~(Len(rest) > 1)
    BY <1>5, <2>3 DEF RequestOK, Idle
  <2>4. QED
    BY <2>1, <2>2, <2>3
<1> HIDE DEF v
<1>7. QED
  BY <1>1, <1>6, RequestKeeps DEF Execute

-----------------------------------------------------------------------------
\* Every step keeps the invariant.
LEMMA NextKeeps == ServerInv /\ [Next]_vars => ServerInv'
<1> SUFFICES ASSUME ServerInv, [Next]_vars PROVE ServerInv'
  OBVIOUS
<1>t. /\ listening \in BOOLEAN /\ catching \in BOOLEAN /\ caught \in BOOLEAN
      /\ listening => proc = "serving"
  BY DEF ServerInv, TypeOK, SchemaFollows
<1>p. proc \in {"serving", "draining"} => pos = Objects + 3
  BY DEF ServerInv, SchemaFollows
<1>1. CASE Start \/ Serve \/ Listen \/ CatchSignals \/ Drain
  <2>1. CASE Start
    BY <1>t, <2>1, MainKeeps DEF Start
  <2>2. CASE Serve
    BY <1>t, <2>2, MainKeeps DEF Serve
  <2>3. CASE Listen
    BY <1>t, <2>3, MainKeeps DEF Listen
  <2>4. CASE CatchSignals
    BY <1>t, <2>4, MainKeeps DEF CatchSignals
  <2>5. CASE Drain
    BY <1>t, <1>p, <2>5, MainKeeps DEF Drain
  <2>6. QED
    BY <1>1, <2>1, <2>2, <2>3, <2>4, <2>5
<1>2. CASE Signal
  <2>1. CASE Die
    BY <2>1, DieKeeps
  <2>2. CASE ~Die
    <3>1. /\ catching /\ caught' = TRUE
          /\ UNCHANGED <<proc, pos, schema, listening, catching, conns, req, deaths>>
      BY <1>2, <2>2, Zenon DEF Signal
    <3>2. listening' \in BOOLEAN /\ catching' \in BOOLEAN /\ caught' \in BOOLEAN
      BY <3>1, <1>t
    <3>3. QED
      BY <3>1, <3>2, <1>t, MainKeeps
  <2>3. QED
    BY <2>1, <2>2
<1>3. CASE MigrateFails \/ ListenFails \/ Crash
  BY <1>3, DieKeeps DEF MigrateFails, ListenFails, Crash
<1>4. CASE Migrate
  BY <1>4, MigrateKeeps
<1>5. CASE Close
  BY <1>5, VanishKeeps DEF Close, ServerInv, TypeOK
<1>6. ASSUME NEW r \in Requests, Arrive(r) \/ Acquire(r) \/ Execute(r) PROVE ServerInv'
  BY <1>6, ArriveKeeps, AcquireKeeps, ExecuteKeeps
<1>7. CASE UNCHANGED vars
  <2>1. TypeOK'
    BY <1>7 DEF ServerInv, TypeOK, vars
  <2>2. OneConnection' /\ SchemaFollows' /\ RequestsOK'
    BY <1>7 DEF ServerInv, OneConnection, Open, SchemaFollows, RequestsOK, RequestOK, vars
  <2>3. QED
    BY <2>1, <2>2 DEF ServerInv
<1>8. QED
  BY <1>1, <1>2, <1>3, <1>4, <1>5, <1>6, <1>7 DEF Next, Main

\* The invariant holds in every reachable state.
LEMMA Invariant == Spec => []ServerInv
<1> QED
  BY InitEstablishes, NextKeeps, PTL DEF Spec

\* A request is given the connection while no other has it.
LEMMA AcquiresAlone ==
    ASSUME ServerInv, NEW r \in Requests, Acquire(r)
    PROVE  \A s \in Requests \ {r} : req'[s].stage # "using"
<1> SUFFICES ASSUME NEW s \in Requests \ {r}, req'[s].stage = "using" PROVE FALSE
  OBVIOUS
<1>1. PICK k \in Available : req' = [req EXCEPT ![r].stage = "using", ![r].conn = k]
  BY DEF Acquire
<1>2. req[s].stage = "using"
  BY <1>1 DEF ServerInv, TypeOK
<1>3. pos > 1 /\ req[s].conn \in Conns /\ conns[req[s].conn] = "on"
  BY <1>2 DEF ServerInv, TypeOK, SchemaFollows, RequestsOK, RequestOK
<1>4. Open = {k}
  BY <1>3, AvailableIsOn DEF ServerInv
<1>5. req[s].conn = k
  BY <1>3, <1>4 DEF Open
<1>6. Cardinality(Open) = 1
  BY <1>4, FS_Singleton
<1>7. k \in Free
  BY <1>6 DEF Available, MaxOpen
<1>8. QED
  BY <1>5, <1>7 DEF Free

\* No other step puts a request to its statement.
LEMMA OthersTakeNothing ==
    ASSUME ServerInv, [Next]_vars, \A r \in Requests : ~Acquire(r), NEW s \in Requests,
           req'[s].stage = "using"
    PROVE  req[s].stage = "using"
<1>1. CASE Start \/ Serve \/ Listen \/ CatchSignals \/ Drain \/ Migrate \/ UNCHANGED vars
  BY <1>1 DEF Start, Serve, Listen, CatchSignals, Drain, Migrate, vars
<1>2. CASE Vanish
  BY <1>2 DEF Vanish, Running, Idle
<1>3. CASE Signal /\ ~Die
  BY <1>3 DEF Signal
<1>4. ASSUME NEW r \in Requests, Arrive(r) PROVE req[s].stage = "using"
  BY <1>4 DEF Arrive, Idle, ServerInv, TypeOK
<1>5. ASSUME NEW r \in Requests, Execute(r) PROVE req[s].stage = "using"
  BY <1>5 DEF Execute, Done, Idle, ServerInv, TypeOK
<1>6. QED
  BY <1>1, <1>2, <1>3, <1>4, <1>5 DEF Next, Main, Close, Die, MigrateFails, ListenFails, Crash

\* Requests are lost by the steps that count a death only.
LEMMA LossCounted == ServerInv /\ LostToDeaths /\ [Next]_vars => LostToDeaths'
<1> SUFFICES ASSUME ServerInv, LostToDeaths, [Next]_vars, NEW s \in Requests,
                    req'[s].stage = "lost"
             PROVE  deaths' > 0
  BY DEF LostToDeaths
<1>1. deaths \in Nat
  BY DEF ServerInv, TypeOK
<1>2. CASE Die
  BY <1>1, <1>2 DEF Die
<1>3. CASE Close
  <2>1. req'[s] = req[s] /\ deaths' = deaths
    BY <1>3 DEF Close, Vanish
  <2>2. QED
    BY <2>1 DEF LostToDeaths
<1>4. CASE Start \/ Serve \/ Listen \/ CatchSignals \/ Drain \/ Migrate \/ UNCHANGED vars
  BY <1>4 DEF Start, Serve, Listen, CatchSignals, Drain, Migrate, vars, LostToDeaths
<1>5. CASE Signal /\ ~Die
  BY <1>5 DEF Signal, LostToDeaths
<1>6. ASSUME NEW r \in Requests, Arrive(r) \/ Acquire(r) \/ Execute(r) PROVE deaths' > 0
  <2>1. deaths' = deaths
    BY <1>6 DEF Arrive, Acquire, Execute
  <2>2. req[s].stage = "lost"
    <3>1. CASE Arrive(r)
      BY <3>1 DEF Arrive, Idle, ServerInv, TypeOK
    <3>2. CASE Acquire(r)
      BY <3>2 DEF Acquire, ServerInv, TypeOK
    <3>3. CASE Execute(r)
      BY <3>3 DEF Execute, Done, Idle, ServerInv, TypeOK
    <3>4. QED
      BY <1>6, <3>1, <3>2, <3>3
  <2>3. QED
    BY <2>1, <2>2 DEF LostToDeaths
<1>7. QED
  BY <1>2, <1>3, <1>4, <1>5, <1>6 DEF Next, Main, MigrateFails, ListenFails, Crash

\* The process, its pool and its requests keep their types.
THEOREM ServerTyped == Spec => []TypeOK
<1>1. ServerInv => TypeOK
  BY DEF ServerInv
<1>2. QED
  BY <1>1, Invariant, PTL

\* No statement of a request ever meets a part of the schema, or a connection
\* without foreign keys, after whatever sequence of interrupted starts.
THEOREM ServedWhole == Spec => []ServedOnWholeSchema
<1>1. ServerInv => ServedOnWholeSchema
  BY DEF ServerInv, TypeOK, SchemaFollows, RequestsOK, RequestOK, ServedOnWholeSchema
<1>2. QED
  BY <1>1, Invariant, PTL

\* No two requests execute at once, so that the statements come one after the
\* other, as Registry and Resolutions have them, and nothing comes between those
\* of a transaction.
THEOREM OneStatementAtATime == Spec => []StatementsNeverOverlap
<1>1. Init => StatementsNeverOverlap
  BY DEF Init, Idle, StatementsNeverOverlap
<1>2. ServerInv /\ StatementsNeverOverlap /\ [Next]_vars => StatementsNeverOverlap'
  <2> SUFFICES ASSUME ServerInv, StatementsNeverOverlap, [Next]_vars
               PROVE  StatementsNeverOverlap'
    OBVIOUS
  <2>1. CASE \E r \in Requests : Acquire(r)
    BY <2>1, AcquiresAlone DEF StatementsNeverOverlap
  <2>2. CASE \A r \in Requests : ~Acquire(r)
    BY <2>2, OthersTakeNothing DEF StatementsNeverOverlap
  <2>3. QED
    BY <2>1, <2>2
<1>3. QED
  BY <1>1, <1>2, Invariant, PTL DEF Spec

\* An orderly end loses no request: one that was accepted and got no answer was in
\* flight when the process died.
THEOREM OrderlyEndLosesNothing == Spec => []LostToDeaths
<1>1. Init => LostToDeaths
  BY DEF Init, Idle, LostToDeaths
<1>2. QED
  BY <1>1, LossCounted, Invariant, PTL DEF Spec

\* The limit of one is kept: the pool never has a second connection.
THEOREM NeverTwoConnections == Spec => [](\A j, k \in Open : j = k)
<1>1. ServerInv => \A j, k \in Open : j = k
  BY DEF ServerInv, TypeOK, OneConnection, Open
<1>2. QED
  BY <1>1, Invariant, PTL
=============================================================================
