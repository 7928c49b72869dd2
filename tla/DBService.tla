------------------------------ MODULE DBService ------------------------------
(***************************************************************************)
(* The MySQL connection pool of DBService and the statements DBTable runs  *)
(* on it, called from many threads at once.                                *)
(*                                                                         *)
(* m_ConnectionPool is a ConcurrentBag, so TryTake and Add are atomic and  *)
(* everything between them interleaves.  GetTable/TableExists, CreateTable *)
(* and QueryField give the connection back in a finally block; Insert and  *)
(* Query only do so when the statement returned normally.                  *)
(*                                                                         *)
(* A thread runs one job at a time: one of the call sequences that         *)
(* QuoteCacheService makes on the quote database.  The MySQL server keeps  *)
(* tables with a primary key; it or the link to it may also fail any       *)
(* statement, at most MaxErrors times (a bound of the model).  A failed    *)
(* link leaves a MySqlConnection that is not open any more, and where      *)
(* there is a finally block that connection goes back to the bag.          *)
(***************************************************************************)
EXTENDS Naturals, FiniteSets

CONSTANTS
    Connections,   \* the MySqlConnection objects OnStart opens
    Threads,       \* the threads that use the service
    Tables,        \* table names
    Keys,          \* primary keys of rows
    MaxErrors,     \* bound on the failures the server invents
    NoConnection   \* the value of a local variable that holds no connection

ASSUME DBAssumption ==
    /\ IsFiniteSet(Connections)
    /\ IsFiniteSet(Threads)
    /\ MaxErrors \in Nat
    /\ NoConnection \notin Connections
    /\ {"unopened", "free", "lost", "closed", "discarded"} \cap Threads = {}

VARIABLES
    service,  \* created, started, stopping (in OnDestroy's loop), stopped
    state,    \* each MySqlConnection: unopened, open, broken (its link failed,
              \* State is not Open any more), or taken out by OnDestroy,
              \* closed or, if it was broken, discarded as it is
    pool,     \* m_ConnectionPool: how often the bag holds each connection
    conn,     \* local variable "connection" of each thread
    work,     \* what each thread was last asked to do
    stmt,     \* the DBService/DBTable method the thread is in
    phase,    \* where in that method it is
    result,   \* what the statement said
    outcome,  \* how the thread's last job ended
    schema,   \* tables that exist on the server
    rows,     \* primary keys stored in each table
    errors    \* failures invented so far

poolVars   == <<state, pool, conn>>
threadVars == <<work, stmt, phase, result, outcome>>
serverVars == <<schema, rows, errors>>
vars       == <<service, poolVars, threadVars, serverVars>>

Jobs == {"StoreCandle", "StoreCandleList", "QueryCandles", "QueryDates"}

(* Mutant of Protected: CreateTable without its finally block. *)
ProtectedExceptCreate == {"TableExists", "GetTable", "QueryField"}

(* The statements whose method recycles the connection in a finally block. *)
Protected == {"TableExists", "GetTable", "CreateTable", "QueryField"}
DataStatements == {"Insert", "BatchInsert", "Query", "QueryField"}
Statements == Protected \cup DataStatements

Phases   == {"idle", "get", "exec", "commit", "reading", "recycle"}
Results  == {"none", "found", "missing", "done", "error"}
Outcomes == {"none", "returned", "threw"}

Work == [job : Jobs, table : Tables, key : Keys]

DataStatement(job) ==
    CASE job = "StoreCandle"     -> "Insert"
      [] job = "StoreCandleList" -> "BatchInsert"
      [] job = "QueryCandles"    -> "Query"
      [] job = "QueryDates"      -> "QueryField"

FirstStatement(job) == IF job = "QueryDates" THEN "TableExists" ELSE "GetTable"

(* Mutant of AfterStatement: the writers insert although GetTable was null. *)
AfterStatementNoCreate(job, s, r) ==
    IF r = "error" THEN "threw"
    ELSE IF s \in DataStatements THEN "returned"
    ELSE IF s = "TableExists" THEN "GetTable"
    ELSE DataStatement(job)

(***************************************************************************)
(* What the caller does after statement s of its job ended with r: call    *)
(* another method, return, or let the exception through.  A null table is  *)
(* created by the two writers, skipped by QueryCandleData and dereferenced *)
(* by QueryCandleDateTimeList.                                             *)
(***************************************************************************)
AfterStatement(job, s, r) ==
    IF r = "error" THEN "threw" ELSE
    CASE s = "TableExists" -> IF r = "found" THEN "GetTable" ELSE "returned"
      [] s = "CreateTable" -> DataStatement(job)
      [] s \in DataStatements -> "returned"
      [] s = "GetTable"    ->
            IF r = "found" THEN DataStatement(job)
            ELSE CASE job = "QueryCandles" -> "returned"
                   [] job = "QueryDates"   -> "threw"
                   [] OTHER                -> "CreateTable"

(* Every job ends with an outcome; the connection is no longer held. *)
Leave(t, how) ==
    /\ phase'   = [phase EXCEPT ![t] = "idle"]
    /\ outcome' = [outcome EXCEPT ![t] = how]
    /\ UNCHANGED stmt

Enter(t, s) ==
    /\ stmt'  = [stmt EXCEPT ![t] = s]
    /\ phase' = [phase EXCEPT ![t] = "get"]
    /\ UNCHANGED outcome

-----------------------------------------------------------------------------
(* Lifecycle. *)

Init ==
    /\ service = "created"
    /\ state   = [c \in Connections |-> "unopened"]
    /\ pool    = [c \in Connections |-> 0]
    /\ conn    = [t \in Threads |-> NoConnection]
    /\ \E w \in Work : work = [t \in Threads |-> w]
    /\ stmt    = [t \in Threads |-> "GetTable"]
    /\ phase   = [t \in Threads |-> "idle"]
    /\ result  = [t \in Threads |-> "none"]
    /\ outcome = [t \in Threads |-> "none"]
    /\ schema  \in SUBSET Tables
    /\ rows    = [tb \in Tables |-> {}]
    /\ errors  = 0

(* Mutant of OnStart: the loop fills one connection too few. *)
OnStartOneShort(configured) ==
    /\ service = "created"
    /\ service' = "started"
    /\ \E short \in Connections :
          /\ state' = [c \in Connections |->
                          IF configured /\ c # short THEN "open" ELSE state[c]]
          /\ pool'  = [c \in Connections |->
                          IF configured /\ c # short THEN 1 ELSE pool[c]]
    /\ UNCHANGED <<conn, threadVars, serverVars>>

(* OnStart opens every connection and puts it in the bag; without the ini  *)
(* file it returns early and the bag stays empty.                          *)
OnStart(configured) ==
    /\ service = "created"
    /\ service' = "started"
    /\ IF configured
       THEN /\ state' = [c \in Connections |-> "open"]
            /\ pool'  = [c \in Connections |-> 1]
       ELSE UNCHANGED <<state, pool>>
    /\ UNCHANGED <<conn, threadVars, serverVars>>

PoolIsEmpty == \A c \in Connections : pool[c] = 0

(* ProcessExit runs on another thread while the jobs go on: each turn of   *)
(* OnDestroy's loop takes a connection and closes it if it is open.        *)
OnDestroy ==
    /\ service = "started"
    /\ service' = "stopping"
    /\ UNCHANGED <<poolVars, threadVars, serverVars>>

(* Mutants of Drain: it closes without asking whether TryTake found one; it *)
(* looks at a connection with TryPeek and leaves it in the bag.            *)
DrainUnasked(c) ==
    /\ service = "stopping"
    /\ pool' = [pool EXCEPT ![c] = @ - 1]
    /\ state' = [state EXCEPT ![c] = IF @ = "open" THEN "closed" ELSE "discarded"]
    /\ UNCHANGED <<service, conn, threadVars, serverVars>>

DrainPeeking(c) ==
    /\ service = "stopping"
    /\ pool[c] > 0
    /\ state' = [state EXCEPT ![c] = IF @ = "open" THEN "closed" ELSE "discarded"]
    /\ UNCHANGED <<service, pool, conn, threadVars, serverVars>>

Drain(c) ==
    /\ service = "stopping"
    /\ pool[c] > 0
    /\ pool' = [pool EXCEPT ![c] = @ - 1]
    /\ state' = [state EXCEPT ![c] = IF @ = "open" THEN "closed" ELSE "discarded"]
    /\ UNCHANGED <<service, conn, threadVars, serverVars>>

(* The loop ends when TryTake finds nothing; a connection that comes back  *)
(* later stays in the bag and is not closed.                               *)
DrainEnds ==
    /\ service = "stopping"
    /\ PoolIsEmpty
    /\ service' = "stopped"
    /\ UNCHANGED <<poolVars, threadVars, serverVars>>

-----------------------------------------------------------------------------
(* One job of one thread. *)

Begin(t, w) ==
    /\ service # "created"
    /\ phase[t] = "idle"
    /\ work' = [work EXCEPT ![t] = w]
    /\ Enter(t, FirstStatement(w.job))
    /\ UNCHANGED <<service, poolVars, result, serverVars>>

(* Mutant of GetConnection: TryPeek for TryTake. *)
GetConnectionPeeking(t, c) ==
    /\ phase[t] = "get"
    /\ pool[c] > 0
    /\ conn'  = [conn EXCEPT ![t] = c]
    /\ phase' = [phase EXCEPT ![t] = "exec"]
    /\ UNCHANGED <<service, state, pool, work, stmt, result, outcome, serverVars>>

GetConnection(t, c) ==
    /\ phase[t] = "get"
    /\ pool[c] > 0
    /\ pool'  = [pool EXCEPT ![c] = @ - 1]
    /\ conn'  = [conn EXCEPT ![t] = c]
    /\ phase' = [phase EXCEPT ![t] = "exec"]
    /\ UNCHANGED <<service, state, work, stmt, result, outcome, serverVars>>

(* "No available connections in the pool." *)
GetConnectionThrows(t) ==
    /\ phase[t] = "get"
    /\ PoolIsEmpty
    /\ Leave(t, "threw")
    /\ UNCHANGED <<service, poolVars, work, result, serverVars>>

(* The statement ended with r and its method goes on to RecycleConnection. *)
Finish(t, r) ==
    /\ phase'  = [phase EXCEPT ![t] = "recycle"]
    /\ result' = [result EXCEPT ![t] = r]
    /\ UNCHANGED <<service, pool, conn, work, stmt, outcome>>

(* A thread is about to run one of these statements on an open connection. *)
Executes(t, statements) ==
    /\ phase[t] = "exec"
    /\ stmt[t] \in statements
    /\ state[conn[t]] = "open"

CheckTable(t) ==
    /\ Executes(t, {"TableExists", "GetTable"})
    /\ Finish(t, IF work[t].table \in schema THEN "found" ELSE "missing")
    /\ UNCHANGED <<state, serverVars>>

AddTable(t) ==
    /\ schema' = schema \cup {work[t].table}
    /\ UNCHANGED rows

StoreRow(t) ==
    /\ rows' = [rows EXCEPT ![work[t].table] = @ \cup {work[t].key}]
    /\ UNCHANGED schema

(* CREATE TABLE IF NOT EXISTS. *)
CreateTable(t) ==
    /\ Executes(t, {"CreateTable"})
    /\ Finish(t, "done")
    /\ AddTable(t)
    /\ UNCHANGED <<state, errors>>

(* INSERT without ON DUPLICATE KEY UPDATE: the key must be new. *)
Insert(t) ==
    /\ Executes(t, {"Insert"})
    /\ work[t].key \notin rows[work[t].table]
    /\ Finish(t, "done")
    /\ StoreRow(t)
    /\ UNCHANGED <<state, errors>>

(* The batch insert runs in a transaction: nothing is stored before the    *)
(* commit, and then the row is replaced if its key is there already.       *)
BatchInsert(t) ==
    /\ Executes(t, {"BatchInsert"})
    /\ phase' = [phase EXCEPT ![t] = "commit"]
    /\ UNCHANGED <<service, poolVars, work, stmt, result, outcome, serverVars>>

(* Mutant of Commit: the transaction is disposed of uncommitted. *)
CommitForgotten(t) ==
    /\ phase[t] = "commit"
    /\ Finish(t, "done")
    /\ UNCHANGED <<state, serverVars>>

Commit(t) ==
    /\ phase[t] = "commit"
    /\ Finish(t, "done")
    /\ StoreRow(t)
    /\ UNCHANGED <<state, errors>>

Query(t) ==
    /\ Executes(t, {"Query"})
    /\ Finish(t, "done")
    /\ UNCHANGED <<state, serverVars>>

(* QueryField is an iterator: the caller's enumeration opens the reader,   *)
(* keeps the connection while it goes on, and ends it.                     *)
OpenReader(t) ==
    /\ Executes(t, {"QueryField"})
    /\ phase' = [phase EXCEPT ![t] = "reading"]
    /\ UNCHANGED <<service, poolVars, work, stmt, result, outcome, serverVars>>

CloseReader(t) ==
    /\ phase[t] = "reading"
    /\ Finish(t, "done")
    /\ UNCHANGED <<state, serverVars>>

(* An exception in a statement: where there is a finally block the method  *)
(* still recycles, otherwise nobody has the connection any more.           *)
Throw(t) ==
    IF stmt[t] \in Protected
    THEN Finish(t, "error")
    ELSE /\ conn' = [conn EXCEPT ![t] = NoConnection]
         /\ Leave(t, "threw")
         /\ UNCHANGED <<service, pool, work, result>>

DuplicateKey(t) ==
    /\ Executes(t, {"Insert"})
    /\ work[t].key \in rows[work[t].table]
    /\ Throw(t)
    /\ UNCHANGED <<state, serverVars>>

(* GetConnection does not look at the State of what it hands out: on a     *)
(* broken connection every statement, BeginTransaction too, throws at once *)
(* and nothing reaches the server.                                         *)
StatementOnBroken(t) ==
    /\ phase[t] = "exec"
    /\ state[conn[t]] # "open"
    /\ Throw(t)
    /\ UNCHANGED <<state, serverVars>>

(* A failure of the server, or of the link to it, which breaks the         *)
(* connection.  The failing statement may have been carried out all the    *)
(* same; a batch insert only at the commit.                                *)
CarriedOut(t) ==
    \/ stmt[t] = "CreateTable" /\ AddTable(t)
    \/ (stmt[t] = "Insert" \/ phase[t] = "commit") /\ StoreRow(t)

ServerError(t) ==
    /\ phase[t] \in {"exec", "commit", "reading"}
    /\ state[conn[t]] = "open"
    /\ errors < MaxErrors
    /\ errors' = errors + 1
    /\ Throw(t)
    /\ UNCHANGED state \/ state' = [state EXCEPT ![conn[t]] = "broken"]
    /\ UNCHANGED <<schema, rows>> \/ CarriedOut(t)

(* Mutant of RecycleConnection: a method that answers "no such table"      *)
(* returns before it has recycled.                                         *)
RecycleConnectionUnlessMissing(t) ==
    /\ phase[t] = "recycle"
    /\ pool' = [pool EXCEPT ![conn[t]] = IF result[t] = "missing" THEN @ ELSE @ + 1]
    /\ conn' = [conn EXCEPT ![t] = NoConnection]
    /\ result' = [result EXCEPT ![t] = "none"]
    /\ LET next == AfterStatement(work[t].job, stmt[t], result[t])
       IN  IF next \in Outcomes THEN Leave(t, next) ELSE Enter(t, next)
    /\ UNCHANGED <<service, state, work, serverVars>>

RecycleConnection(t) ==
    /\ phase[t] = "recycle"
    /\ pool' = [pool EXCEPT ![conn[t]] = @ + 1]
    /\ conn' = [conn EXCEPT ![t] = NoConnection]
    /\ result' = [result EXCEPT ![t] = "none"]
    /\ LET next == AfterStatement(work[t].job, stmt[t], result[t])
       IN  IF next \in Outcomes THEN Leave(t, next) ELSE Enter(t, next)
    /\ UNCHANGED <<service, state, work, serverVars>>

Step(t) ==
    \/ \E c \in Connections : GetConnection(t, c)
    \/ GetConnectionThrows(t)
    \/ CheckTable(t) \/ CreateTable(t) \/ Query(t)
    \/ Insert(t) \/ DuplicateKey(t)
    \/ BatchInsert(t) \/ Commit(t)
    \/ OpenReader(t) \/ CloseReader(t)
    \/ StatementOnBroken(t)
    \/ RecycleConnection(t)

Next ==
    \/ \E configured \in BOOLEAN : OnStart(configured)
    \/ OnDestroy \/ DrainEnds
    \/ \E c \in Connections : Drain(c)
    \/ \E t \in Threads, w \in Work : Begin(t, w)
    \/ \E t \in Threads : Step(t) \/ ServerError(t)

(* A thread inside a job is scheduled again and again by the operating     *)
(* system, and a statement that does not fail returns.                     *)
Fairness == \A t \in Threads : WF_vars(Step(t))

Spec == Init /\ [][Next]_vars /\ Fairness
-----------------------------------------------------------------------------
(* Properties. *)

Pooled == {c \in Connections : pool[c] > 0}
Held   == {conn[t] : t \in Threads} \ {NoConnection}

(* What OnStart opened and OnDestroy has not taken out, broken or not. *)
Opened == {c \in Connections : state[c] \in {"open", "broken"}}
LostConnections == Opened \ (Pooled \cup Held)

HoldingPhases == {"exec", "commit", "reading", "recycle"}

TypeOK ==
    /\ service \in {"created", "started", "stopping", "stopped"}
    /\ state   \in [Connections -> {"unopened", "open", "broken", "closed", "discarded"}]
    /\ pool    \in [Connections -> Nat]
    /\ conn    \in [Threads -> Connections \cup {NoConnection}]
    /\ work    \in [Threads -> Work]
    /\ stmt    \in [Threads -> Statements]
    /\ phase   \in [Threads -> Phases]
    /\ result  \in [Threads -> Results]
    /\ outcome \in [Threads -> Outcomes]
    /\ schema  \in SUBSET Tables
    /\ rows    \in [Tables -> SUBSET Keys]
    /\ errors  \in 0 .. MaxErrors

(* Two threads never run statements on one MySqlConnection, which is not   *)
(* thread-safe: the bag holds a connection at most once, a connection in   *)
(* use is not in the bag, and no two threads have the same one.            *)
ConnectionExclusive ==
    /\ \A c \in Connections : pool[c] <= 1
    /\ Pooled \cap Held = {}
    /\ \A t, u \in Threads :
          conn[t] = conn[u] /\ conn[t] # NoConnection => t = u

(* OnDestroy races the jobs, yet nothing that it took out, closed or not,  *)
(* is handed out or used afterwards.  That what is handed out still works  *)
(* is not claimed: a connection that broke in use is lent again.           *)
ClosedNeverUsed == Pooled \cup Held \subseteq Opened

(* GetConnection finds the bag empty only because the service is not (or   *)
(* no longer) up, because an earlier failure lost a connection, or because *)
(* more threads ask than there are connections.                            *)
StarvedOnlyByLossOrLoad ==
    \A t \in Threads :
        phase[t] = "get" /\ PoolIsEmpty =>
            \/ service # "started"
            \/ \A c \in Connections : state[c] = "unopened"
            \/ LostConnections # {}
            \/ Cardinality(Threads) > Cardinality(Connections)

(* A store job that returned to its caller has its row in the database,    *)
(* whatever the statements of the other threads did meanwhile.             *)
StoredWhenReturned ==
    \A t \in Threads :
        outcome[t] = "returned" /\ phase[t] = "idle"
        /\ work[t].job \in {"StoreCandle", "StoreCandleList"}
            => work[t].key \in rows[work[t].table]

(* INSERT and SELECT never name a table that does not exist, although the  *)
(* check for it, its creation and the statement are separate calls.        *)
StatementsOnExistingTables ==
    \A t \in Threads :
        stmt[t] \in DataStatements /\ phase[t] \in {"get"} \cup HoldingPhases
            => work[t].table \in schema

(* A connection is lost only by a throwing Insert, batch Insert or Query,  *)
(* the methods without a finally block.                                    *)
LostBy(c) ==
    \E t \in Threads :
        /\ conn[t] = c
        /\ stmt[t] \in {"Insert", "BatchInsert", "Query"}
        /\ outcome'[t] = "threw"

OnlyUnprotectedStatementsLose ==
    [][\A c \in LostConnections' \ LostConnections : LostBy(c)]_vars

(* The pool implements ConnectionLease: the place of a connection is read  *)
(* off its state, the bag and the threads' local variables.                *)
Holder(c) == CHOOSE t \in Threads : conn[t] = c

PlaceOf(c) ==
    CASE state[c] = "unopened" -> "unopened"
      [] state[c] # "unopened" /\ c \in Held -> Holder(c)
      [] state[c] # "unopened" /\ c \in Pooled \ Held -> "free"
      [] c \in LostConnections -> "lost"
      [] state[c] \in {"closed", "discarded"} /\ c \notin Pooled \cup Held -> state[c]

Place  == [c \in Connections |-> PlaceOf(c)]
Broken == {c \in Connections : state[c] \in {"broken", "discarded"}}

Lease == INSTANCE ConnectionLease
         WITH Borrowers <- Threads, place <- Place, broken <- Broken

ImplementsLease == Lease!Spec
=============================================================================
