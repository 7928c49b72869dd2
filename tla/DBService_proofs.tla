--------------------------- MODULE DBService_proofs ---------------------------
(***************************************************************************)
(* Proofs about DBService, for any number of threads and connections, any  *)
(* tables and keys, and any bound on the failures of the server.           *)
(***************************************************************************)
EXTENDS DBService, FiniteSetTheorems, TLAPS

(* What a caller does next is to call a method or to end its job.          *)
LEMMA AfterStatementType ==
    ASSUME NEW job \in Jobs, NEW s \in Statements, NEW r \in Results
    PROVE  AfterStatement(job, s, r) \in Statements \cup {"returned", "threw"}
  BY DEF AfterStatement, DataStatement, Jobs, Statements, Protected,
         DataStatements, Results

(* A writer returns only from its insert, and a data statement follows     *)
(* only a table that was found or created.                                 *)
LEMMA AfterStatementOfWriter ==
    ASSUME NEW job \in {"StoreCandle", "StoreCandleList"}, NEW r \in Results,
           NEW s \in {"GetTable", "CreateTable", "Insert", "BatchInsert"}
    PROVE  /\ AfterStatement(job, s, r) = "returned"
                 => r # "error" /\ s \in {"Insert", "BatchInsert"}
           /\ AfterStatement(job, s, r)
                 \in {"CreateTable", "Insert", "BatchInsert", "returned", "threw"}
  BY DEF AfterStatement, DataStatement, DataStatements, Results

(* A data statement is reached only when the table was found by GetTable   *)
(* or has just been created without an error.                              *)
LEMMA DataStatementAfter ==
    ASSUME NEW job \in Jobs, NEW s \in Statements, NEW r \in Results,
           AfterStatement(job, s, r) \in DataStatements
    PROVE  r # "error" /\ (s = "CreateTable" \/ (s = "GetTable" /\ r = "found"))
<1>1. CASE r = "error"
  BY <1>1 DEF AfterStatement, DataStatements
<1>2. CASE r # "error" /\ s = "TableExists"
  BY <1>2 DEF AfterStatement, DataStatements
<1>3. CASE r # "error" /\ s \in DataStatements
  BY <1>3 DEF AfterStatement, DataStatements
<1>4. CASE r # "error" /\ s = "GetTable" /\ r # "found"
  BY <1>4 DEF AfterStatement, DataStatements
<1> QED BY <1>1, <1>2, <1>3, <1>4 DEF Statements, Protected,
           DataStatements

(* Every job starts by asking whether its table exists.                    *)
LEMMA FirstStatementType ==
    ASSUME NEW job \in Jobs
    PROVE  FirstStatement(job) \in {"GetTable", "TableExists"}
  BY DEF FirstStatement

(* The steps without their fairness: the lemmas about []P are stated for   *)
(* them, so that a module that adds steps of its own can cite them.        *)
Safety == Init /\ [][Next]_vars

(* The types, without fairness. *)
LEMMA SafeTypes == Safety => []TypeOK
<1>1. Init => TypeOK
  BY DBAssumption DEF Init, TypeOK, Statements, Protected, Phases, Results,
     Outcomes
<1>2. TypeOK /\ [Next]_vars => TypeOK'
  <2> SUFFICES ASSUME TypeOK, [Next]_vars PROVE TypeOK'
    OBVIOUS
  <2> USE DEF TypeOK
  <2>1. ASSUME NEW b \in BOOLEAN, OnStart(b) PROVE TypeOK'
    BY <2>1 DEF OnStart, threadVars, serverVars
  <2>2. CASE OnDestroy \/ DrainEnds
    BY <2>2 DEF OnDestroy, DrainEnds, poolVars, threadVars, serverVars
  <2>3. ASSUME NEW c \in Connections, Drain(c) PROVE TypeOK'
    BY <2>3 DEF Drain, threadVars, serverVars
  <2>4. ASSUME NEW t \in Threads, NEW w \in Work, Begin(t, w) PROVE TypeOK'
    <3>1. FirstStatement(w.job) \in Statements
      BY FirstStatementType DEF Work, Statements, Protected
    <3> QED BY <2>4, <3>1 DEF Begin, Enter, Phases, poolVars, serverVars
  <2>5. ASSUME NEW t \in Threads, NEW c \in Connections, GetConnection(t, c)
        PROVE  TypeOK'
    BY <2>5 DEF GetConnection, Phases, serverVars
  <2>6. ASSUME NEW t \in Threads, GetConnectionThrows(t) PROVE TypeOK'
    BY <2>6 DEF GetConnectionThrows, Leave, Phases, Outcomes, poolVars,
       serverVars
  <2>7. ASSUME NEW t \in Threads,
               CheckTable(t) \/ CreateTable(t) \/ Query(t) \/ CloseReader(t)
        PROVE  TypeOK'
    BY <2>7 DEF CheckTable, CreateTable, AddTable, Query, CloseReader, Finish,
       Phases, Results, Work, poolVars, serverVars
  <2>8. ASSUME NEW t \in Threads, Insert(t) \/ Commit(t) PROVE TypeOK'
    <3>1. StoreRow(t)
      BY <2>8 DEF Insert, Commit
    <3>2. rows' \in [Tables -> SUBSET Keys]
      BY <3>1 DEF StoreRow, Work
    <3>3. Finish(t, "done") /\ UNCHANGED <<state, errors>>
      BY <2>8 DEF Insert, Commit
    <3> QED BY <3>1, <3>2, <3>3 DEF Finish, StoreRow, Phases, Results, poolVars
  <2>9. ASSUME NEW t \in Threads, BatchInsert(t) \/ OpenReader(t) PROVE TypeOK'
    BY <2>9 DEF BatchInsert, OpenReader, Phases, poolVars, serverVars
  <2>10. ASSUME NEW t \in Threads, DuplicateKey(t) \/ StatementOnBroken(t)
         PROVE  TypeOK'
    BY <2>10 DEF DuplicateKey, StatementOnBroken, Throw, Finish, Leave, Phases, Results, Outcomes,
       poolVars, serverVars
  <2>11. ASSUME NEW t \in Threads, ServerError(t) PROVE TypeOK'
    <3>1. rows' \in [Tables -> SUBSET Keys] /\ schema' \in SUBSET Tables
      <4>1. UNCHANGED <<schema, rows>> \/ CarriedOut(t)
        BY <2>11 DEF ServerError
      <4> QED BY <4>1 DEF CarriedOut, AddTable, StoreRow, Work
    <3>2. errors' \in 0 .. MaxErrors
      BY <2>11, DBAssumption DEF ServerError
    <3>3. Throw(t)
      BY <2>11 DEF ServerError
    <3>s. state' \in [Connections -> {"unopened", "open", "broken", "closed", "discarded"}]
      BY <2>11 DEF ServerError
    <3>4. CASE stmt[t] \in Protected
      <4>1. Finish(t, "error")
        BY <3>3, <3>4 DEF Throw
      <4> QED BY <3>1, <3>2, <3>s, <4>1 DEF Finish, Phases, Results, poolVars
    <3>5. CASE stmt[t] \notin Protected
      BY <3>1, <3>2, <3>3, <3>s, <3>5 DEF Throw, Leave, Phases, Outcomes
    <3> QED BY <3>4, <3>5
  <2>12. ASSUME NEW t \in Threads, RecycleConnection(t) PROVE TypeOK'
    <3> DEFINE next == AfterStatement(work[t].job, stmt[t], result[t])
    <3>1. next \in Statements \cup {"returned", "threw"}
      BY AfterStatementType DEF Work
    <3>2. pool' \in [Connections -> Nat]
      <4>1. pool' = [pool EXCEPT ![conn[t]] = pool[conn[t]] + 1]
        BY <2>12 DEF RecycleConnection
      <4>2. CASE conn[t] \in Connections
        BY <4>1, <4>2
      <4>3. CASE conn[t] \notin Connections
        BY <4>1, <4>3
      <4> QED BY <4>2, <4>3
    <3>3. conn' \in [Threads -> Connections \cup {NoConnection}]
      BY <2>12 DEF RecycleConnection
    <3>4. result' \in [Threads -> Results]
      BY <2>12 DEF RecycleConnection, Results
    <3>5. /\ phase' \in [Threads -> Phases]
          /\ stmt' \in [Threads -> Statements]
          /\ outcome' \in [Threads -> Outcomes]
      <4>1. IF next \in Outcomes THEN Leave(t, next) ELSE Enter(t, next)
        BY <2>12 DEF RecycleConnection
      <4> HIDE DEF next
      <4> QED BY <3>1, <4>1 DEF Leave, Enter, Phases, Outcomes
    <3> QED BY <2>12, <3>2, <3>3, <3>4, <3>5 DEF RecycleConnection, serverVars
  <2>13. CASE UNCHANGED vars
    BY <2>13 DEF vars, poolVars, threadVars, serverVars
  <2> QED BY <2>1, <2>2, <2>3, <2>4, <2>5, <2>6, <2>7, <2>8, <2>9, <2>10,
             <2>11, <2>12, <2>13 DEF Next, Step
<1> QED BY <1>1, <1>2, PTL DEF Safety

(* Every variable keeps its type, whatever the threads, the server and the *)
(* process lifecycle do.                                                   *)
THEOREM TypeCorrect == Spec => []TypeOK
<1> QED BY SafeTypes, PTL DEF Spec, Safety

-----------------------------------------------------------------------------
(* The strengthening of the two pool invariants that every step preserves: *)
(* a thread holds a connection exactly while it is in a statement, nothing *)
(* is open before the service starts, and what is in the bag or held has   *)
(* been opened and not taken out by OnDestroy, though it may be broken.    *)
PoolInv ==
    /\ service = "created" => \A c \in Connections : state[c] = "unopened"
    /\ \A t \in Threads : conn[t] # NoConnection <=> phase[t] \in HoldingPhases
    /\ \A c \in Connections : pool[c] <= 1
    /\ \A c \in Connections : pool[c] > 0 => state[c] \in {"open", "broken"}
    /\ \A t \in Threads :
          conn[t] \in Connections
              => state[conn[t]] \in {"open", "broken"} /\ pool[conn[t]] = 0
    /\ \A t, u \in Threads :
          conn[t] = conn[u] /\ conn[t] # NoConnection => t = u

(* What a statement may do to the connections: nothing, or an open one     *)
(* breaks.                                                                 *)
StateGoesOn ==
    /\ \A c \in Connections : state'[c] \in {state[c], "broken"}
    /\ \A c \in Connections : state'[c] # state[c] => state[c] = "open"

(* No statement does more than that. *)
LEMMA StatementsBreakAtMost ==
    ASSUME TypeOK, NEW t \in Threads, Step(t) \/ ServerError(t)
    PROVE  StateGoesOn
<1>1. ASSUME UNCHANGED state PROVE StateGoesOn
  BY <1>1 DEF StateGoesOn
<1>2. CASE ServerError(t)
  BY <1>2 DEF ServerError, StateGoesOn, TypeOK
<1>3. CASE Step(t)
  BY <1>1, <1>3 DEF Step, GetConnection, GetConnectionThrows, CheckTable,
     CreateTable, Query, CloseReader, Insert, Commit, BatchInsert, OpenReader,
     DuplicateKey, StatementOnBroken, RecycleConnection, poolVars
<1> QED BY <1>2, <1>3

(* A step of one thread that only moves it inside its statement. *)
LEMMA InsideStatement ==
    ASSUME PoolInv, NEW t \in Threads, TypeOK,
           phase[t] \in HoldingPhases,
           \E p \in HoldingPhases : phase' = [phase EXCEPT ![t] = p],
           StateGoesOn, UNCHANGED <<service, pool, conn>>
    PROVE  PoolInv'
  BY DEF PoolInv, TypeOK, StateGoesOn

(* A step of one thread that throws its connection away. *)
LEMMA ThrowKeepsPoolInv ==
    ASSUME PoolInv, NEW t \in Threads, TypeOK,
           phase[t] \in HoldingPhases, Throw(t), StateGoesOn
    PROVE  PoolInv'
<1>1. CASE stmt[t] \in Protected
  <2>1. Finish(t, "error")
    BY <1>1 DEF Throw
  <2>2. phase' = [phase EXCEPT ![t] = "recycle"] /\ UNCHANGED <<service, pool, conn>>
    BY <2>1 DEF Finish
  <2> QED BY <2>2, InsideStatement DEF HoldingPhases
<1>2. CASE stmt[t] \notin Protected
  <2>1. /\ conn' = [conn EXCEPT ![t] = NoConnection]
        /\ phase' = [phase EXCEPT ![t] = "idle"]
        /\ UNCHANGED <<service, pool>>
    BY <1>2 DEF Throw, Leave
  <2> QED BY <2>1, DBAssumption DEF PoolInv, TypeOK, HoldingPhases, StateGoesOn
<1> QED BY <1>1, <1>2

(* PoolInv is inductive relative to the types: one step per action.        *)
LEMMA PoolInvInductive == TypeOK /\ PoolInv /\ [Next]_vars => PoolInv'
<1> SUFFICES ASSUME TypeOK, PoolInv, [Next]_vars PROVE PoolInv'
  OBVIOUS
<1>1. ASSUME NEW b \in BOOLEAN, OnStart(b) PROVE PoolInv'
  BY <1>1 DEF OnStart, threadVars, PoolInv, TypeOK
<1>2. CASE OnDestroy \/ DrainEnds
  BY <1>2 DEF OnDestroy, DrainEnds, poolVars, threadVars, PoolInv
<1>3. ASSUME NEW c \in Connections, Drain(c) PROVE PoolInv'
  BY <1>3 DEF Drain, threadVars, PoolInv, TypeOK
<1>4. ASSUME NEW t \in Threads, NEW w \in Work, Begin(t, w) PROVE PoolInv'
  BY <1>4 DEF Begin, Enter, poolVars, PoolInv, TypeOK, HoldingPhases
<1>5. ASSUME NEW t \in Threads, NEW c \in Connections, GetConnection(t, c)
      PROVE  PoolInv'
  BY <1>5, DBAssumption DEF GetConnection, PoolInv, TypeOK, HoldingPhases
<1>6. ASSUME NEW t \in Threads, GetConnectionThrows(t) PROVE PoolInv'
  BY <1>6 DEF GetConnectionThrows, Leave, poolVars, PoolInv, TypeOK,
     HoldingPhases
<1>7. ASSUME NEW t \in Threads,
             \/ CheckTable(t) \/ CreateTable(t) \/ Query(t) \/ CloseReader(t)
             \/ Insert(t) \/ Commit(t)
      PROVE  PoolInv'
  <2>1. PICK r : Finish(t, r)
    BY <1>7 DEF CheckTable, CreateTable, Query, CloseReader, Insert, Commit
  <2>2. phase' = [phase EXCEPT ![t] = "recycle"] /\ UNCHANGED <<service, pool, conn>>
    BY <2>1 DEF Finish
  <2>3. phase[t] \in HoldingPhases
    BY <1>7 DEF CheckTable, CreateTable, Query, CloseReader, Insert, Commit,
       Executes, HoldingPhases
  <2>4. StateGoesOn
    BY <1>7, StatementsBreakAtMost DEF Step
  <2> QED BY <2>2, <2>3, <2>4, InsideStatement DEF HoldingPhases
<1>8. ASSUME NEW t \in Threads, BatchInsert(t) \/ OpenReader(t) PROVE PoolInv'
  <2>1. StateGoesOn
    BY <1>8, StatementsBreakAtMost DEF Step
  <2> QED BY <1>8, <2>1, InsideStatement
          DEF BatchInsert, OpenReader, Executes, HoldingPhases, poolVars
<1>9. ASSUME NEW t \in Threads,
             DuplicateKey(t) \/ StatementOnBroken(t) \/ ServerError(t)
      PROVE  PoolInv'
  <2>1. StateGoesOn
    BY <1>9, StatementsBreakAtMost DEF Step
  <2>2. Throw(t) /\ phase[t] \in HoldingPhases
    BY <1>9 DEF DuplicateKey, StatementOnBroken, ServerError, Executes, HoldingPhases
  <2> QED BY <2>1, <2>2, ThrowKeepsPoolInv
<1>11. ASSUME NEW t \in Threads, RecycleConnection(t) PROVE PoolInv'
  <2>1. /\ conn[t] \in Connections
        /\ pool' = [pool EXCEPT ![conn[t]] = pool[conn[t]] + 1]
        /\ conn' = [conn EXCEPT ![t] = NoConnection]
        /\ UNCHANGED <<service, state>>
    BY <1>11 DEF RecycleConnection, PoolInv, TypeOK, HoldingPhases
  <2>2. \E p \in {"idle", "get"} : phase' = [phase EXCEPT ![t] = p]
    BY <1>11 DEF RecycleConnection, Leave, Enter
  <2> QED BY <2>1, <2>2, DBAssumption DEF PoolInv, TypeOK, HoldingPhases
<1>12. CASE UNCHANGED vars
  BY <1>12 DEF vars, poolVars, threadVars, PoolInv
<1> QED BY <1>1, <1>2, <1>3, <1>4, <1>5, <1>6, <1>7, <1>8, <1>9, <1>11,
           <1>12 DEF Next, Step

(* The pool invariant, without fairness. *)
LEMMA SafePool == Safety => []PoolInv
<1>1. Init => PoolInv
  BY DBAssumption DEF Init, PoolInv, HoldingPhases
<1> QED BY <1>1, PoolInvInductive, SafeTypes, PTL DEF Safety

(* Through every interleaving the bag holds a connection at most once, a   *)
(* thread holds one exactly while it is inside a method, and what is held  *)
(* is out of the bag.                                                      *)
THEOREM PoolInvariant == Spec => []PoolInv
<1> QED BY SafePool, PTL DEF Spec, Safety

(* GetConnection never hands one connection to two threads, and a          *)
(* connection in use is never in the bag.                                  *)
THEOREM Exclusive == Spec => []ConnectionExclusive
<1>1. TypeOK /\ PoolInv => ConnectionExclusive
  BY DBAssumption DEF TypeOK, PoolInv, ConnectionExclusive, Pooled, Held
<1> QED BY <1>1, PoolInvariant, TypeCorrect, PTL

(* Whenever OnDestroy runs, nothing that it took out is in the bag or in   *)
(* use: every connection there was opened and is open or broken.           *)
THEOREM TakenOutNeverUsed == Spec => []ClosedNeverUsed
<1>1. TypeOK /\ PoolInv => ClosedNeverUsed
  BY DBAssumption DEF TypeOK, PoolInv, ClosedNeverUsed, Pooled, Held, Opened
<1> QED BY <1>1, PoolInvariant, TypeCorrect, PTL

-----------------------------------------------------------------------------
(* The place of a connection, read off the concrete state. *)
PlaceFacts ==
    \A c \in Connections :
        /\ state[c] = "unopened" => Place[c] = "unopened"
        /\ \A t \in Threads : conn[t] = c => Place[c] = t
        /\ pool[c] > 0 => Place[c] = "free"
        /\ c \in Opened /\ pool[c] = 0 /\ (\A t \in Threads : conn[t] # c)
              => Place[c] = "lost"
        /\ state[c] \in {"closed", "discarded"} => Place[c] = state[c]

(* Under the pool invariant the CASE of PlaceOf has the one expected arm.  *)
LEMMA PlaceIs == TypeOK /\ PoolInv => PlaceFacts
<1> SUFFICES ASSUME TypeOK, PoolInv, NEW c \in Connections
             PROVE  /\ state[c] = "unopened" => Place[c] = "unopened"
                    /\ \A t \in Threads : conn[t] = c => Place[c] = t
                    /\ pool[c] > 0 => Place[c] = "free"
                    /\ c \in Opened /\ pool[c] = 0
                       /\ (\A t \in Threads : conn[t] # c) => Place[c] = "lost"
                    /\ state[c] \in {"closed", "discarded"} => Place[c] = state[c]
  BY DEF PlaceFacts
<1>1. c \in Held <=> \E t \in Threads : conn[t] = c
  BY DBAssumption DEF Held
<1>2. c \in Pooled <=> pool[c] > 0
  BY DEF Pooled
<1>3. /\ pool[c] \in Nat
      /\ state[c] \in {"unopened", "open", "broken", "closed", "discarded"}
      /\ c \in Opened <=> state[c] \in {"open", "broken"}
      /\ c \in LostConnections <=> c \in Opened /\ c \notin Pooled /\ c \notin Held
  BY DEF TypeOK, Opened, LostConnections
<1>4. pool[c] > 0 => c \notin Held /\ c \in Opened
  BY <1>1, <1>3 DEF PoolInv
<1>5. c \in Held => c \in Opened
  BY <1>1, <1>3 DEF PoolInv
<1>6. ASSUME NEW t \in Threads, conn[t] = c PROVE Holder(c) = t
  BY <1>6, DBAssumption DEF Holder, PoolInv
<1>7. CASE c \in Held
  BY <1>1, <1>2, <1>3, <1>4, <1>5, <1>6, <1>7 DEF Place, PlaceOf
<1>8. CASE c \notin Held
  BY <1>1, <1>2, <1>3, <1>4, <1>8 DEF Place, PlaceOf
<1> QED BY <1>7, <1>8

(* The same in the next state.                                             *)
LEMMA PlaceIsPrimed == TypeOK' /\ PoolInv' => PlaceFacts'
  BY PlaceIs, PTL

(* A step that changes neither the connections nor who holds them. *)
LEMMA SamePlace ==
    ASSUME UNCHANGED poolVars
    PROVE  Place' = Place /\ Broken' = Broken
  BY DEF poolVars, Place, PlaceOf, Holder, Held, Pooled, LostConnections,
         Opened, Broken

(* Place is a function of the connections, in either state: what an EXCEPT *)
(* of the abstract actions is compared with.                               *)
LEMMA PlaceIsFunction == Place = [c \in Connections |-> Place[c]]
  BY DEF Place

(* The same in the next state.                                             *)
LEMMA PlaceIsFunctionPrimed == Place' = [c \in Connections |-> Place'[c]]
  BY DEF Place

(* A throwing statement keeps the connection in place or loses it, and may *)
(* leave it broken in either case.                                         *)
LEMMA ThrowImplementsLose ==
    ASSUME TypeOK, PoolInv, PlaceFacts, PlaceFacts', TypeOK', PoolInv',
           NEW t \in Threads, phase[t] \in HoldingPhases, Throw(t),
           \/ UNCHANGED state
           \/ state' = [state EXCEPT ![conn[t]] = "broken"]
    PROVE  [Lease!Next]_<<Place, Broken>>
<1> DEFINE c == conn[t]
<1>1. /\ c \in Connections /\ c # NoConnection /\ pool[c] = 0
      /\ state[c] \in {"open", "broken"} /\ state'[c] \in {"open", "broken"}
      /\ Place[c] = t
      /\ pool' = pool
  BY DEF PoolInv, TypeOK, PlaceFacts, Throw, Finish
<1>2. ASSUME NEW d \in Connections, d # c PROVE Place'[d] = Place[d]
  <2>1. \A u \in Threads : conn'[u] = d <=> conn[u] = d
    BY <1>1, <1>2, DBAssumption DEF TypeOK, Throw, Finish
  <2>2. state'[d] = state[d] /\ pool'[d] = pool[d]
    BY <1>1, <1>2 DEF TypeOK
  <2> QED BY <2>1, <2>2 DEF PlaceFacts, Opened, TypeOK
<1>3. \/ Place' = Place
      \/ Place' = [Place EXCEPT ![c] = "lost"]
  <2>1. CASE stmt[t] \in Protected
    <3>1. Place'[c] = t
      BY <1>1, <2>1 DEF Throw, Finish, PlaceFacts
    <3> QED BY <1>1, <1>2, <3>1, PlaceIsFunction, PlaceIsFunctionPrimed
  <2>2. CASE stmt[t] \notin Protected
    <3>1. conn' = [conn EXCEPT ![t] = NoConnection]
      BY <2>2 DEF Throw
    <3>2. \A u \in Threads : conn'[u] # c
      BY <1>1, <3>1 DEF PoolInv, TypeOK
    <3>3. Place'[c] = "lost"
      BY <1>1, <3>2 DEF PlaceFacts, Opened
    <3> QED BY <1>1, <1>2, <3>3, PlaceIsFunction, PlaceIsFunctionPrimed
  <2> QED BY <2>1, <2>2
<1>4. Place = [Place EXCEPT ![c] = t]
  BY <1>1, PlaceIsFunction
<1>5. CASE UNCHANGED state
  <2>1. UNCHANGED Broken
    BY <1>5 DEF Broken
  <2>2. CASE Place' = Place
    BY <2>1, <2>2
  <2>3. CASE Place' = [Place EXCEPT ![c] = "lost"]
    <3>1. Lease!Lose(c, t)
      BY <1>1, <2>1, <2>3 DEF Lease!Lose, Lease!Move, Lease!Lost
    <3> QED BY <1>1, <3>1 DEF Lease!Next
  <2> QED BY <1>3, <2>2, <2>3
<1>6. CASE state' = [state EXCEPT ![c] = "broken"]
  <2>1. Broken' = Broken \cup {c}
    BY <1>1, <1>6 DEF Broken, TypeOK
  <2>2. Lease!Move(c, t, t) \/ Lease!Move(c, t, Lease!Lost)
    BY <1>1, <1>3, <1>4 DEF Lease!Move, Lease!Lost
  <2>3. Lease!Break(c, t)
    BY <2>1, <2>2 DEF Lease!Break
  <2> QED BY <1>1, <2>3 DEF Lease!Next
<1> QED BY <1>5, <1>6

(* Every step of the pool is a step of ConnectionLease or leaves all the   *)
(* places and their links as they are.                                     *)
LEMMA StepImplements ==
    TypeOK /\ PoolInv /\ PlaceFacts /\ (TypeOK /\ PoolInv /\ PlaceFacts)'
        /\ [Next]_vars => [Lease!Next]_<<Place, Broken>>
<1> SUFFICES ASSUME TypeOK, PoolInv, PlaceFacts, TypeOK', PoolInv', PlaceFacts',
                    [Next]_vars
             PROVE  [Lease!Next]_<<Place, Broken>>
  OBVIOUS
<1>1. ASSUME NEW b \in BOOLEAN, OnStart(b) PROVE [Lease!Next]_<<Place, Broken>>
  <2>1. CASE b
    <3>1. \A c \in Connections : Place[c] = "unopened" /\ Place'[c] = "free"
      BY <1>1, <2>1 DEF OnStart, PoolInv, PlaceFacts
    <3>2. Place' = [c \in Connections |-> "free"]
      BY <3>1, PlaceIsFunctionPrimed
    <3>3. Broken = {} /\ Broken' = {}
      BY <1>1, <2>1 DEF OnStart, PoolInv, Broken
    <3>4. Lease!OpenAll
      BY <3>1, <3>2, <3>3 DEF Lease!OpenAll, Lease!Unopened, Lease!Free
    <3> QED BY <3>4 DEF Lease!Next
  <2>2. CASE ~b
    BY <1>1, <2>2, SamePlace DEF OnStart, poolVars
  <2> QED BY <2>1, <2>2
<1>2. CASE OnDestroy \/ DrainEnds
  BY <1>2, SamePlace DEF OnDestroy, DrainEnds
<1>3. ASSUME NEW c \in Connections, Drain(c) PROVE [Lease!Next]_<<Place, Broken>>
  <2>1. /\ pool[c] > 0 /\ pool' = [pool EXCEPT ![c] = @ - 1]
        /\ state[c] \in {"open", "broken"}
        /\ state' = [state EXCEPT ![c] = IF state[c] = "open"
                                         THEN "closed" ELSE "discarded"]
        /\ UNCHANGED conn
    BY <1>3 DEF Drain, PoolInv
  <2>2. /\ Place[c] = "free"
        /\ Place'[c] = IF c \in Broken THEN "discarded" ELSE "closed"
    BY <2>1 DEF PlaceFacts, TypeOK, Broken
  <2>3. ASSUME NEW d \in Connections, d # c PROVE Place'[d] = Place[d]
    BY <2>1, <2>3 DEF PlaceFacts, TypeOK, Opened
  <2>4. Place' = [Place EXCEPT ![c] = IF c \in Broken THEN "discarded" ELSE "closed"]
    BY <2>2, <2>3, PlaceIsFunction, PlaceIsFunctionPrimed
  <2>5. Broken' = Broken
    BY <2>1 DEF Broken, TypeOK
  <2>6. Lease!Retire(c)
    BY <2>2, <2>4, <2>5
       DEF Lease!Retire, Lease!Move, Lease!Closed, Lease!Discarded, Lease!Free
  <2> QED BY <2>6 DEF Lease!Next
<1>4. ASSUME NEW t \in Threads, NEW w \in Work, Begin(t, w)
      PROVE  [Lease!Next]_<<Place, Broken>>
  BY <1>4, SamePlace DEF Begin
<1>5. ASSUME NEW t \in Threads, NEW c \in Connections, GetConnection(t, c)
      PROVE  [Lease!Next]_<<Place, Broken>>
  <2>1. /\ pool[c] > 0 /\ pool' = [pool EXCEPT ![c] = @ - 1]
        /\ conn' = [conn EXCEPT ![t] = c]
        /\ conn[t] = NoConnection
        /\ UNCHANGED state
    BY <1>5 DEF GetConnection, PoolInv, HoldingPhases
  <2>2. conn'[t] = c
    BY <2>1 DEF TypeOK
  <2>3. Place[c] = "free" /\ Place'[c] = t
    BY <2>1, <2>2 DEF PlaceFacts
  <2>4. ASSUME NEW d \in Connections, d # c PROVE Place'[d] = Place[d]
    <3>1. \A u \in Threads : conn'[u] = d <=> conn[u] = d
      BY <2>1, <2>4, DBAssumption DEF TypeOK
    <3> QED BY <2>1, <2>4, <3>1 DEF PlaceFacts, TypeOK, Opened
  <2>5. Place' = [Place EXCEPT ![c] = t]
    BY <2>3, <2>4, PlaceIsFunction, PlaceIsFunctionPrimed
  <2>6. Lease!Lend(c, t)
    BY <2>1, <2>3, <2>5 DEF Lease!Lend, Lease!Move, Lease!Free, Broken
  <2> QED BY <2>6 DEF Lease!Next
<1>6. ASSUME NEW t \in Threads,
             \/ GetConnectionThrows(t)
             \/ CheckTable(t) \/ CreateTable(t) \/ Query(t) \/ CloseReader(t)
             \/ Insert(t) \/ Commit(t) \/ BatchInsert(t) \/ OpenReader(t)
      PROVE  [Lease!Next]_<<Place, Broken>>
  <2>1. UNCHANGED poolVars
    BY <1>6 DEF GetConnectionThrows, CheckTable, CreateTable, Query,
       CloseReader, Insert, Commit, BatchInsert, OpenReader, Finish, poolVars
  <2> QED BY <2>1, SamePlace
<1>7. ASSUME NEW t \in Threads, DuplicateKey(t) \/ StatementOnBroken(t)
      PROVE  [Lease!Next]_<<Place, Broken>>
  BY <1>7, ThrowImplementsLose
     DEF DuplicateKey, StatementOnBroken, Executes, HoldingPhases
<1>8. ASSUME NEW t \in Threads, ServerError(t) PROVE [Lease!Next]_<<Place, Broken>>
  BY <1>8, ThrowImplementsLose DEF ServerError, HoldingPhases
<1>9. ASSUME NEW t \in Threads, RecycleConnection(t) PROVE [Lease!Next]_<<Place, Broken>>
  <2> DEFINE c == conn[t]
  <2>1. /\ c \in Connections /\ c # NoConnection /\ pool[c] = 0
        /\ pool' = [pool EXCEPT ![c] = pool[c] + 1]
        /\ conn' = [conn EXCEPT ![t] = NoConnection]
        /\ UNCHANGED state
    BY <1>9 DEF RecycleConnection, PoolInv, TypeOK, HoldingPhases
  <2>2. Place[c] = t /\ Place'[c] = "free"
    BY <2>1 DEF PlaceFacts, TypeOK
  <2>3. ASSUME NEW d \in Connections, d # c PROVE Place'[d] = Place[d]
    <3>1. \A u \in Threads : conn'[u] = d <=> conn[u] = d
      BY <2>1, <2>3, DBAssumption DEF TypeOK
    <3> QED BY <2>1, <2>3, <3>1 DEF PlaceFacts, TypeOK, Opened
  <2>4. Place' = [Place EXCEPT ![c] = "free"]
    BY <2>1, <2>2, <2>3, PlaceIsFunction, PlaceIsFunctionPrimed
  <2>5. Lease!Return(c, t)
    BY <2>1, <2>2, <2>4 DEF Lease!Return, Lease!Move, Lease!Free, Broken
  <2> QED BY <2>1, <2>5 DEF Lease!Next
<1>10. CASE UNCHANGED vars
  BY <1>10, SamePlace DEF vars
<1> QED BY <1>1, <1>2, <1>3, <1>4, <1>5, <1>6, <1>7, <1>8, <1>9, <1>10
        DEF Next, Step

(* The refinement, without fairness. *)
LEMMA SafeLease == Safety => ImplementsLease
<1>1. Init => Lease!Init
  <2> SUFFICES ASSUME Init PROVE Lease!Init
    OBVIOUS
  <2>1. \A c \in Connections : state[c] = "unopened"
    BY DEF Init
  <2>2. \A c \in Connections : PlaceOf(c) = "unopened"
    <3>1. Held = {} /\ Pooled = {}
      BY DEF Init, Held, Pooled
    <3>2. Opened = {}
      BY <2>1 DEF Opened
    <3> QED BY <2>1, <3>1, <3>2 DEF PlaceOf, LostConnections
  <2>3. Place = [c \in Connections |-> "unopened"]
    BY <2>2 DEF Place
  <2>4. Broken = {}
    BY <2>1 DEF Broken
  <2> QED BY <2>3, <2>4 DEF Lease!Init, Lease!Unopened
<1>2. Safety => [](TypeOK /\ PoolInv)
  BY SafeTypes, SafePool, PTL
<1> QED BY <1>1, <1>2, PlaceIs, StepImplements, PTL
        DEF Safety, ImplementsLease, Lease!Spec, Lease!leaseVars

(* The bag, the finally blocks and OnDestroy together lend, take back and  *)
(* lose connections, whole or broken, close the whole and drop the broken  *)
(* ones only as ConnectionLease allows.                                    *)
THEOREM Refinement == Spec => ImplementsLease
<1> QED BY SafeLease, PTL DEF Spec, Safety

-----------------------------------------------------------------------------
(* Until OnDestroy begins, the connections are all unopened or all opened. *)
AllOrNone ==
    service \in {"created", "started"} =>
        \/ \A c \in Connections : state[c] = "unopened"
        \/ \A c \in Connections : c \in Opened

(* OnStart opens all the connections or, without the ini file, none.       *)
LEMMA AllOrNoneInvariant == Safety => []AllOrNone
<1>1. Init => AllOrNone
  BY DEF Init, AllOrNone
<1>2. TypeOK /\ PoolInv /\ AllOrNone /\ [Next]_vars => AllOrNone'
  <2> SUFFICES ASSUME TypeOK, PoolInv, AllOrNone, [Next]_vars PROVE AllOrNone'
    OBVIOUS
  <2>1. CASE \E b \in BOOLEAN : OnStart(b)
    BY <2>1 DEF OnStart, AllOrNone, Opened
  <2>2. CASE \E c \in Connections : Drain(c)
    BY <2>2 DEF Drain, AllOrNone
  <2>3. CASE OnDestroy \/ DrainEnds
    BY <2>3 DEF OnDestroy, DrainEnds, AllOrNone
  <2>4. ASSUME NEW t \in Threads,
               \/ \E w \in Work : Begin(t, w)
               \/ Step(t) \/ ServerError(t)
        PROVE  UNCHANGED service /\ StateGoesOn
    <3>1. UNCHANGED service
      BY <2>4 DEF Begin, Step, ServerError, GetConnection, GetConnectionThrows,
         CheckTable, CreateTable, Query, CloseReader, Insert, Commit, BatchInsert,
         OpenReader, DuplicateKey, StatementOnBroken, RecycleConnection, Finish, Throw
    <3>2. (\E w \in Work : Begin(t, w)) => StateGoesOn
      BY DEF Begin, poolVars, StateGoesOn
    <3> QED BY <2>4, <3>1, <3>2, StatementsBreakAtMost
  <2>5. CASE UNCHANGED vars
    BY <2>5 DEF vars, poolVars, AllOrNone, Opened
  <2>6. UNCHANGED service /\ StateGoesOn => AllOrNone'
    BY DEF AllOrNone, Opened, StateGoesOn
  <2> QED BY <2>1, <2>2, <2>3, <2>4, <2>5, <2>6 DEF Next
<1> QED BY <1>1, <1>2, SafeTypes, SafePool, PTL DEF Safety

(* The pigeonhole argument: with the service up, a thread that finds the   *)
(* bag empty although no connection was lost sees every connection in the  *)
(* hands of another thread, so there are more threads than connections.    *)
THEOREM Starved == Spec => []StarvedOnlyByLossOrLoad
<1>1. ASSUME TypeOK, PoolInv, AllOrNone PROVE StarvedOnlyByLossOrLoad
  <2> SUFFICES ASSUME NEW t \in Threads, phase[t] = "get", PoolIsEmpty,
                      service = "started",
                      \E c \in Connections : state[c] # "unopened",
                      LostConnections = {}
               PROVE  Cardinality(Threads) > Cardinality(Connections)
    BY DEF StarvedOnlyByLossOrLoad
  <2>1. \A c \in Connections : c \in Opened
    BY <1>1 DEF AllOrNone
  <2>2. \A c \in Connections : c \in Held
    BY <2>1 DEF LostConnections, Pooled, PoolIsEmpty
  <2> DEFINE Others == Threads \ {t}
             f == [c \in Connections |-> Holder(c)]
  <2>3. conn[t] = NoConnection
    BY <1>1 DEF PoolInv, HoldingPhases
  <2>4. \A c \in Connections : Holder(c) \in Threads /\ conn[Holder(c)] = c
    <3>1. \A c \in Connections : \E u \in Threads : conn[u] = c
      BY <2>2 DEF Held
    <3> QED BY <3>1 DEF Holder
  <2>5. \A c \in Connections : Holder(c) \in Others
    BY <2>3, <2>4, DBAssumption
  <2>6. f \in [Connections -> Others]
    BY <2>5
  <2>7. IsInjective(f)
    BY <2>4 DEF IsInjective
  <2>8. f \in Injection(Connections, Others)
    BY <2>6, <2>7 DEF Injection
  <2>9. IsFiniteSet(Others) /\ Cardinality(Others) = Cardinality(Threads) - 1
    BY DBAssumption, FS_RemoveElement
  <2>10. Cardinality(Connections) <= Cardinality(Others)
    BY <2>8, <2>9, FS_Injection
  <2>11. Cardinality(Threads) \in Nat /\ Cardinality(Connections) \in Nat
    BY DBAssumption, FS_CardinalityType
  <2> QED BY <2>9, <2>10, <2>11
<1> QED BY <1>1, TypeCorrect, PoolInvariant, AllOrNoneInvariant, PTL DEF Spec, Safety

-----------------------------------------------------------------------------
(* What a thread knows about the table and the row of its job: it goes     *)
(* past the table check only with the table there, and a writer finishes   *)
(* its insert only with the row there.                                     *)
Writers == {"StoreCandle", "StoreCandleList"}
RowStored(t)   == work[t].key \in rows[work[t].table]
TableExists(t) == work[t].table \in schema
Ended(t)       == phase[t] = "recycle" /\ result[t] # "error"

JobInv(t) ==
    /\ phase[t] # "idle" /\ stmt[t] \in DataStatements => TableExists(t)
    /\ phase[t] = "recycle" /\ result[t] = "found" => TableExists(t)
    /\ Ended(t) /\ stmt[t] = "CreateTable" => TableExists(t)
    /\ phase[t] # "idle" /\ work[t].job \in Writers
          => stmt[t] \in {"GetTable", "CreateTable", "Insert", "BatchInsert"}
    /\ Ended(t) /\ stmt[t] \in {"Insert", "BatchInsert"} => RowStored(t)
    /\ phase[t] = "commit" => stmt[t] = "BatchInsert"
    /\ phase[t] = "reading" => stmt[t] = "QueryField"
    /\ phase[t] = "idle" /\ outcome[t] = "returned" /\ work[t].job \in Writers
          => RowStored(t)

JobsInv == \A t \in Threads : JobInv(t)

(* Tables and rows are never removed, so what a thread knows stays true    *)
(* while the others move.                                                  *)
LEMMA ServerGrows ==
    ASSUME TypeOK, [Next]_vars
    PROVE  /\ schema \subseteq schema'
           /\ \A tb \in Tables : rows[tb] \subseteq rows'[tb]
<1>1. ASSUME NEW t \in Threads, StoreRow(t)
      PROVE  /\ schema \subseteq schema'
             /\ \A tb \in Tables : rows[tb] \subseteq rows'[tb]
  BY <1>1 DEF StoreRow, TypeOK
<1>2. ASSUME NEW t \in Threads, ServerError(t)
      PROVE  /\ schema \subseteq schema'
             /\ \A tb \in Tables : rows[tb] \subseteq rows'[tb]
  BY <1>1, <1>2 DEF ServerError, CarriedOut, AddTable, TypeOK
<1>3. ASSUME NEW t \in Threads, CreateTable(t)
      PROVE  /\ schema \subseteq schema'
             /\ \A tb \in Tables : rows[tb] \subseteq rows'[tb]
  BY <1>3 DEF CreateTable, AddTable
<1>4. ASSUME NEW t \in Threads, Step(t)
      PROVE  /\ schema \subseteq schema'
             /\ \A tb \in Tables : rows[tb] \subseteq rows'[tb]
  BY <1>1, <1>3, <1>4 DEF Step, GetConnection, GetConnectionThrows, CheckTable,
     Query, Insert, DuplicateKey, StatementOnBroken, BatchInsert, Commit,
     OpenReader, CloseReader, RecycleConnection, serverVars
<1> QED BY <1>2, <1>4 DEF Next, OnStart, OnDestroy, Drain, DrainEnds, Begin,
           vars, serverVars

(* A step that leaves the variables of thread t alone keeps JobInv(t).     *)
LEMMA OthersKeepJobInv ==
    ASSUME TypeOK, [Next]_vars, NEW t \in Threads, JobInv(t),
           work'[t] = work[t], stmt'[t] = stmt[t], phase'[t] = phase[t],
           result'[t] = result[t], outcome'[t] = outcome[t]
    PROVE  JobInv(t)'
<1>1. TableExists(t) => TableExists(t)'
  BY ServerGrows DEF TableExists
<1>2. RowStored(t) => RowStored(t)'
  BY ServerGrows DEF RowStored, TypeOK, Work
<1> QED BY <1>1, <1>2 DEF JobInv, Ended

(* Only the thread that moves changes its variables. *)
LEMMA OwnVariables ==
    ASSUME TypeOK, NEW t \in Threads, NEW u \in Threads, u # t,
           \/ \E w \in Work : Begin(t, w)
           \/ Step(t) \/ ServerError(t)
    PROVE  /\ work'[u] = work[u] /\ stmt'[u] = stmt[u] /\ phase'[u] = phase[u]
           /\ result'[u] = result[u] /\ outcome'[u] = outcome[u]
<1>1. CASE \E w \in Work : Begin(t, w)
  BY <1>1 DEF Begin, Enter, TypeOK
<1>2. ASSUME NEW r, Finish(t, r)
      PROVE  /\ work'[u] = work[u] /\ stmt'[u] = stmt[u] /\ phase'[u] = phase[u]
             /\ result'[u] = result[u] /\ outcome'[u] = outcome[u]
  BY <1>2 DEF Finish, TypeOK
<1>3. ASSUME Throw(t)
      PROVE  /\ work'[u] = work[u] /\ stmt'[u] = stmt[u] /\ phase'[u] = phase[u]
             /\ result'[u] = result[u] /\ outcome'[u] = outcome[u]
  BY <1>2, <1>3 DEF Throw, Leave, TypeOK
<1>4. CASE RecycleConnection(t)
  BY <1>4 DEF RecycleConnection, Leave, Enter, TypeOK
<1>5. CASE Step(t) /\ ~RecycleConnection(t)
  BY <1>2, <1>3, <1>5 DEF Step, GetConnection, GetConnectionThrows, Leave,
     CheckTable, CreateTable, Query, Insert, DuplicateKey, StatementOnBroken,
     BatchInsert, Commit, OpenReader, CloseReader, TypeOK
<1>6. CASE ServerError(t)
  BY <1>3, <1>6 DEF ServerError
<1> QED BY <1>1, <1>4, <1>5, <1>6

(* A throwing statement ends the job, or its method recycles with "error". *)
LEMMA ThrowKeepsJobInv ==
    ASSUME TypeOK, [Next]_vars, NEW t \in Threads, JobInv(t), Throw(t),
           phase[t] \in {"exec", "commit", "reading"}
    PROVE  JobInv(t)'
<1>1. work' = work /\ (TableExists(t) => TableExists(t)')
  BY ServerGrows DEF Throw, Finish, TableExists
<1>2. CASE stmt[t] \in Protected
  BY <1>1, <1>2 DEF Throw, Finish, JobInv, Ended, TypeOK
<1>3. CASE stmt[t] \notin Protected
  BY <1>1, <1>3 DEF Throw, Leave, JobInv, Ended, TypeOK
<1> QED BY <1>2, <1>3

(* What the caller does after a statement fits what the thread knows. *)
LEMMA RecycleKeepsJobInv ==
    ASSUME TypeOK, [Next]_vars, NEW t \in Threads, JobInv(t),
           RecycleConnection(t)
    PROVE  JobInv(t)'
<1> DEFINE next == AfterStatement(work[t].job, stmt[t], result[t])
<1>1. /\ phase[t] = "recycle" /\ result'[t] = "none"
      /\ UNCHANGED <<work, schema, rows>>
      /\ IF next \in Outcomes THEN Leave(t, next) ELSE Enter(t, next)
  BY DEF RecycleConnection, serverVars, TypeOK
<1>2. work[t].job \in Jobs /\ stmt[t] \in Statements /\ result[t] \in Results
  BY DEF TypeOK, Work
<1>3. /\ TableExists(t) <=> TableExists(t)'
      /\ RowStored(t) <=> RowStored(t)'
  BY <1>1 DEF TableExists, RowStored
<1>4. CASE next \in Outcomes
  <2>1. phase'[t] = "idle" /\ outcome'[t] = next
    BY <1>1, <1>4 DEF Leave, TypeOK
  <2>2. next = "returned" /\ work[t].job \in Writers
           => result[t] # "error" /\ stmt[t] \in {"Insert", "BatchInsert"}
    BY <1>1, <1>2, AfterStatementOfWriter DEF Writers, JobInv
  <2>3. next = "returned" /\ work[t].job \in Writers => RowStored(t)
    BY <1>1, <2>2 DEF JobInv, Ended
  <2> HIDE DEF next
  <2> QED BY <1>1, <1>3, <2>1, <2>3 DEF JobInv, Ended, Outcomes
<1>5. CASE next \notin Outcomes
  <2>1. phase'[t] = "get" /\ stmt'[t] = next
    BY <1>1, <1>5 DEF Enter, TypeOK
  <2>2. next \in DataStatements => TableExists(t)
    BY <1>1, <1>2, DataStatementAfter DEF JobInv, Ended
  <2>3. work[t].job \in Writers
           => next \in {"GetTable", "CreateTable", "Insert", "BatchInsert"}
    BY <1>1, <1>2, <1>5, AfterStatementOfWriter DEF Writers, JobInv, Outcomes
  <2> HIDE DEF next
  <2> QED BY <1>1, <1>3, <2>1, <2>2, <2>3 DEF JobInv, Ended
<1> QED BY <1>4, <1>5

(* Inside a job each step leaves its thread knowing what JobInv says.      *)
LEMMA StatementKeepsJobInv ==
    ASSUME TypeOK, [Next]_vars, NEW t \in Threads, JobInv(t), Step(t)
    PROVE  JobInv(t)'
<1>1. TableExists(t) => TableExists(t)' \/ work' # work
  BY ServerGrows DEF TableExists
<1>2. CASE (\E c \in Connections : GetConnection(t, c)) \/ GetConnectionThrows(t)
  BY <1>1, <1>2 DEF GetConnection, GetConnectionThrows, Leave, JobInv, Ended,
     TypeOK
<1>3. CASE CheckTable(t)
  <2>1. /\ phase'[t] = "recycle" /\ stmt[t] \in {"TableExists", "GetTable"}
        /\ result'[t] = "found" => TableExists(t)
        /\ UNCHANGED <<work, stmt, schema>>
        /\ phase[t] = "exec"
    BY <1>3 DEF CheckTable, Executes, Finish, TypeOK, serverVars, TableExists
  <2>2. TableExists(t) <=> TableExists(t)'
    BY <2>1 DEF TableExists
  <2> QED BY <2>1, <2>2 DEF JobInv, Ended, DataStatements
<1>4. CASE CreateTable(t)
  <2>1. /\ phase'[t] = "recycle" /\ result'[t] = "done"
        /\ phase[t] = "exec" /\ stmt[t] = "CreateTable"
        /\ UNCHANGED <<work, stmt>>
    BY <1>4 DEF CreateTable, Executes, Finish, TypeOK
  <2>2. TableExists(t)'
    BY <1>4, <2>1 DEF CreateTable, Executes, AddTable, TableExists
  <2> QED BY <2>1, <2>2 DEF JobInv, Ended, DataStatements
<1>5. CASE Insert(t) \/ Commit(t)
  <2>1. /\ phase'[t] = "recycle" /\ result'[t] = "done"
        /\ stmt[t] \in {"Insert", "BatchInsert"} /\ phase[t] # "idle"
        /\ UNCHANGED <<work, stmt, schema>>
    BY <1>5 DEF Insert, Commit, Executes, Finish, StoreRow, TypeOK, JobInv
  <2>2. RowStored(t)'
    BY <1>5, <2>1 DEF Insert, Commit, Executes, StoreRow, RowStored, TypeOK, Work
  <2>3. TableExists(t) <=> TableExists(t)'
    BY <2>1 DEF TableExists
  <2> QED BY <2>1, <2>2, <2>3 DEF JobInv, Ended, DataStatements
<1>6. CASE Query(t) \/ CloseReader(t)
  <2>1. /\ phase'[t] = "recycle" /\ result'[t] = "done"
        /\ stmt[t] \in {"Query", "QueryField"} /\ phase[t] # "idle"
        /\ UNCHANGED <<work, stmt, schema>>
    BY <1>6 DEF Query, CloseReader, Executes, Finish, serverVars, TypeOK, JobInv
  <2>2. TableExists(t) <=> TableExists(t)'
    BY <2>1 DEF TableExists
  <2> QED BY <2>1, <2>2 DEF JobInv, Ended
<1>7. CASE BatchInsert(t) \/ OpenReader(t)
  <2>1. /\ \/ stmt[t] = "BatchInsert" /\ phase'[t] = "commit"
           \/ stmt[t] = "QueryField" /\ phase'[t] = "reading"
        /\ phase[t] = "exec"
        /\ UNCHANGED <<work, stmt, schema>>
    BY <1>7 DEF BatchInsert, OpenReader, Executes, serverVars, TypeOK
  <2>2. TableExists(t) <=> TableExists(t)'
    BY <2>1 DEF TableExists
  <2> QED BY <2>1, <2>2 DEF JobInv, Ended
<1>8. CASE DuplicateKey(t) \/ StatementOnBroken(t)
  BY <1>8, ThrowKeepsJobInv DEF DuplicateKey, StatementOnBroken, Executes
<1>9. CASE RecycleConnection(t)
  BY <1>9, RecycleKeepsJobInv
<1> QED BY <1>2, <1>3, <1>4, <1>5, <1>6, <1>7, <1>8, <1>9 DEF Step

(* At every point of its job a thread knows that its table exists, and after *)
(* its insert that the row is there, whatever the other threads do.        *)
LEMMA JobsInvariant == Safety => []JobsInv
<1>1. Init => JobsInv
  BY DEF Init, JobsInv, JobInv, Ended
<1>2. TypeOK /\ JobsInv /\ [Next]_vars => JobsInv'
  <2> SUFFICES ASSUME TypeOK, JobsInv, [Next]_vars, NEW u \in Threads
               PROVE  JobInv(u)'
    BY DEF JobsInv
  <2>1. JobInv(u)
    BY DEF JobsInv
  <2>2. ASSUME NEW w \in Work, Begin(u, w) PROVE JobInv(u)'
    BY <2>1, <2>2 DEF Begin, Enter, FirstStatement, JobInv, Ended, Writers,
       DataStatements, TypeOK
  <2>3. ASSUME ServerError(u) PROVE JobInv(u)'
    BY <2>1, <2>3, ThrowKeepsJobInv DEF ServerError
  <2>4. ASSUME Step(u) PROVE JobInv(u)'
    BY <2>1, <2>4, StatementKeepsJobInv
  <2>5. ASSUME NEW t \in Threads, t # u,
               \/ \E w \in Work : Begin(t, w)
               \/ Step(t) \/ ServerError(t)
        PROVE  JobInv(u)'
    BY <2>1, <2>5, OwnVariables, OthersKeepJobInv
  <2>6. ASSUME UNCHANGED threadVars PROVE JobInv(u)'
    BY <2>1, <2>6, OthersKeepJobInv DEF threadVars
  <2>7. \/ UNCHANGED threadVars
        \/ \E t \in Threads : \/ \E w \in Work : Begin(t, w)
                              \/ Step(t) \/ ServerError(t)
    BY DEF Next, OnStart, OnDestroy, Drain, DrainEnds, vars
  <2> QED BY <2>2, <2>3, <2>4, <2>5, <2>6, <2>7
<1> QED BY <1>1, <1>2, SafeTypes, PTL DEF Safety

(* A store job that returned has its row in the table. *)
THEOREM Stored == Spec => []StoredWhenReturned
<1>1. JobsInv => StoredWhenReturned
  BY DEF JobsInv, JobInv, Writers, RowStored, StoredWhenReturned
<1> QED BY <1>1, JobsInvariant, PTL DEF Spec, Safety

(* No INSERT or SELECT runs before its table exists. *)
THEOREM OnExistingTables == Spec => []StatementsOnExistingTables
<1>1. JobsInv => StatementsOnExistingTables
  BY DEF JobsInv, JobInv, TableExists, HoldingPhases, StatementsOnExistingTables
<1> QED BY <1>1, JobsInvariant, PTL DEF Spec, Safety

(* A step loses at most one connection, that of a statement without a      *)
(* finally block that throws.                                              *)
LEMMA WhoLoses ==
    ASSUME TypeOK, PoolInv, [Next]_vars
    PROVE  \/ LostConnections' \subseteq LostConnections
           \/ \E t \in Threads :
                 /\ Throw(t) /\ stmt[t] \notin Protected
                 /\ phase[t] \in {"exec", "commit", "reading"}
                 /\ LostConnections' \subseteq LostConnections \cup {conn[t]}
<1> USE DEF LostConnections, Opened, Pooled, Held
<1>1. ASSUME UNCHANGED poolVars PROVE LostConnections' = LostConnections
  BY <1>1 DEF poolVars
<1>2. ASSUME NEW t \in Threads,
             DuplicateKey(t) \/ StatementOnBroken(t) \/ ServerError(t)
      PROVE  \/ LostConnections' \subseteq LostConnections
             \/ /\ Throw(t) /\ stmt[t] \notin Protected
                /\ phase[t] \in {"exec", "commit", "reading"}
                /\ LostConnections' \subseteq LostConnections \cup {conn[t]}
  <2>1. Throw(t) /\ phase[t] \in {"exec", "commit", "reading"}
    BY <1>2 DEF DuplicateKey, StatementOnBroken, ServerError, Executes
  <2>o. Opened' = Opened
    <3>1. CASE UNCHANGED state
      BY <3>1
    <3>2. CASE ServerError(t)
      BY <3>2 DEF ServerError, TypeOK
    <3> QED BY <1>2, <3>1, <3>2 DEF DuplicateKey, StatementOnBroken
  <2>2. CASE stmt[t] \in Protected
    BY <2>1, <2>2, <2>o DEF Throw, Finish
  <2>3. CASE stmt[t] \notin Protected
    <3>1. UNCHANGED pool /\ conn' = [conn EXCEPT ![t] = NoConnection]
      BY <2>1, <2>3 DEF Throw
    <3>2. \A u \in Threads : u = t \/ conn'[u] = conn[u]
      BY <3>1 DEF TypeOK
    <3>3. LostConnections' \subseteq LostConnections \cup {conn[t]}
      BY <3>1, <3>2, <2>o
    <3> QED BY <2>1, <2>3, <3>3
  <2> QED BY <2>2, <2>3
<1>3. ASSUME NEW b \in BOOLEAN, OnStart(b) PROVE LostConnections' \subseteq LostConnections
  BY <1>3 DEF OnStart
<1>4. ASSUME NEW c \in Connections, Drain(c) PROVE LostConnections' \subseteq LostConnections
  BY <1>4 DEF Drain, TypeOK
<1>5. ASSUME NEW t \in Threads, NEW c \in Connections, GetConnection(t, c)
      PROVE  LostConnections' \subseteq LostConnections
  <2>1. /\ conn[t] = NoConnection
        /\ conn' = [conn EXCEPT ![t] = c] /\ state' = state
        /\ \A d \in Connections : d = c \/ pool'[d] = pool[d]
    BY <1>5 DEF GetConnection, PoolInv, HoldingPhases, TypeOK
  <2>2. c \in Held' /\ \A u \in Threads : u = t \/ conn'[u] = conn[u]
    BY <2>1, DBAssumption DEF TypeOK
  <2> QED BY <2>1, <2>2
<1>6. ASSUME NEW t \in Threads, RecycleConnection(t)
      PROVE  LostConnections' \subseteq LostConnections
  <2>1. /\ conn[t] \in Connections
        /\ pool' = [pool EXCEPT ![conn[t]] = pool[conn[t]] + 1]
        /\ conn' = [conn EXCEPT ![t] = NoConnection]
        /\ UNCHANGED state
    BY <1>6 DEF RecycleConnection, PoolInv, TypeOK, HoldingPhases
  <2>2. conn[t] \in Pooled' /\ \A u \in Threads : u = t \/ conn'[u] = conn[u]
    BY <2>1 DEF TypeOK
  <2>3. \A d \in Connections : d = conn[t] \/ pool'[d] = pool[d]
    BY <2>1 DEF TypeOK
  <2> QED BY <2>1, <2>2, <2>3
<1>7. ASSUME NEW t \in Threads, Step(t),
             ~(\E c \in Connections : GetConnection(t, c)), ~RecycleConnection(t)
      PROVE  DuplicateKey(t) \/ StatementOnBroken(t) \/ UNCHANGED poolVars
  BY <1>7 DEF Step, GetConnectionThrows, CheckTable, CreateTable, Query, Insert,
     BatchInsert, Commit, OpenReader, CloseReader, Finish, poolVars
<1>8. ASSUME \/ OnDestroy \/ DrainEnds \/ UNCHANGED vars
             \/ \E t \in Threads, w \in Work : Begin(t, w)
      PROVE  UNCHANGED poolVars
  BY <1>8 DEF OnDestroy, DrainEnds, Begin, vars
<1> HIDE DEF LostConnections
<1> QED BY <1>1, <1>2, <1>3, <1>4, <1>5, <1>6, <1>7, <1>8 DEF Next

(* Every method but Insert, batch Insert and Query gives its connection    *)
(* back, exception or not.                                                 *)
THEOREM OnlyThreeMethodsLose == Spec => OnlyUnprotectedStatementsLose
<1>1. TypeOK /\ PoolInv /\ [Next]_vars
         => [\A c \in LostConnections' \ LostConnections : LostBy(c)]_vars
  <2> SUFFICES ASSUME TypeOK, PoolInv, Next,
                      NEW c \in LostConnections', c \notin LostConnections
               PROVE  LostBy(c)
    BY DEF vars, poolVars, LostConnections, Opened, Pooled, Held
  <2>1. PICK t \in Threads : Throw(t) /\ stmt[t] \notin Protected /\ conn[t] = c
    BY WhoLoses
  <2>2. outcome'[t] = "threw"
    BY <2>1 DEF Throw, Leave, TypeOK
  <2>3. stmt[t] \in {"Insert", "BatchInsert", "Query"}
    BY <2>1 DEF TypeOK, Statements, Protected, DataStatements
  <2> QED BY <2>1, <2>2, <2>3 DEF LostBy
<1> QED BY <1>1, TypeCorrect, PoolInvariant, PTL
        DEF Spec, OnlyUnprotectedStatementsLose
-----------------------------------------------------------------------------
(* A connection that was lost is lost for good: nothing brings it back to  *)
(* the bag, not even OnDestroy finds it, and it is never closed.           *)
LossIsForGood == [][LostConnections \subseteq LostConnections']_vars

(* What is lost is neither in the bag, where the steps that lend and close *)
(* look for it, nor in a local variable, from where it is given back.      *)
LEMMA LossStays ==
    ASSUME TypeOK, PoolInv, [Next]_vars
    PROVE  LostConnections \subseteq LostConnections'
<1> SUFFICES ASSUME NEW c \in LostConnections PROVE c \in LostConnections'
  OBVIOUS
<1>c. c \in Connections /\ c \in Opened /\ c \notin Pooled /\ c \notin Held
  BY DEF LostConnections, Opened
<1>1. c # NoConnection
  BY <1>c, DBAssumption
<1>p. pool[c] = 0
  BY <1>c DEF Pooled, TypeOK
<1>h. \A t \in Threads : conn[t] # c
  BY <1>c, <1>1 DEF Held
<1>0. /\ c \in Connections /\ state[c] \in {"open", "broken"} /\ pool[c] = 0
      /\ \A t \in Threads : conn[t] # c
  BY <1>c, <1>p, <1>h DEF Opened
<1>2. ASSUME state'[c] \in {"open", "broken"}, pool'[c] = 0, \A t \in Threads : conn'[t] # c
      PROVE  c \in LostConnections'
  BY <1>0, <1>1, <1>2 DEF LostConnections, Opened, Pooled, Held
<1>3. ASSUME UNCHANGED poolVars PROVE c \in LostConnections'
  BY <1>0, <1>2, <1>3 DEF poolVars
<1>4. ASSUME NEW b \in BOOLEAN, OnStart(b) PROVE c \in LostConnections'
  BY <1>0, <1>4 DEF OnStart, PoolInv
<1>5. ASSUME NEW d \in Connections, Drain(d) PROVE c \in LostConnections'
  BY <1>0, <1>2, <1>5 DEF Drain, TypeOK
<1>6. ASSUME NEW t \in Threads, NEW d \in Connections, GetConnection(t, d)
      PROVE  c \in LostConnections'
  BY <1>0, <1>2, <1>6 DEF GetConnection, TypeOK
<1>7. ASSUME NEW t \in Threads, RecycleConnection(t) PROVE c \in LostConnections'
  BY <1>0, <1>1, <1>2, <1>7 DEF RecycleConnection, TypeOK
<1>8. ASSUME NEW t \in Threads, Throw(t), Step(t) \/ ServerError(t)
      PROVE  c \in LostConnections'
  <2>s. state'[c] \in {"open", "broken"}
    BY <1>0, <1>8, StatementsBreakAtMost DEF StateGoesOn
  <2>1. CASE stmt[t] \in Protected
    BY <1>0, <1>2, <1>8, <2>1, <2>s DEF Throw, Finish
  <2>2. CASE stmt[t] \notin Protected
    BY <1>0, <1>1, <1>2, <1>8, <2>2, <2>s DEF Throw, TypeOK
  <2> QED BY <2>1, <2>2
<1>9. ASSUME NEW t \in Threads, Step(t),
             ~(\E d \in Connections : GetConnection(t, d)), ~RecycleConnection(t)
      PROVE  Throw(t) \/ UNCHANGED poolVars
  BY <1>9 DEF Step, DuplicateKey, StatementOnBroken, GetConnectionThrows, CheckTable,
     CreateTable, Query, Insert, BatchInsert, Commit, OpenReader, CloseReader, Finish,
     poolVars
<1>10. ASSUME \/ OnDestroy \/ DrainEnds \/ UNCHANGED vars
              \/ \E t \in Threads, w \in Work : Begin(t, w)
       PROVE  UNCHANGED poolVars
  BY <1>10 DEF OnDestroy, DrainEnds, Begin, vars
<1>11. ASSUME NEW t \in Threads, ServerError(t) PROVE Throw(t)
  BY <1>11 DEF ServerError
<1> QED BY <1>3, <1>4, <1>5, <1>6, <1>7, <1>8, <1>9, <1>10, <1>11 DEF Next

(* Nothing brings a lost connection back. *)
THEOREM NothingComesBack == Spec => LossIsForGood
<1>1. TypeOK /\ PoolInv /\ [Next]_vars
         => [LostConnections \subseteq LostConnections']_vars
  BY LossStays
<1> QED BY <1>1, TypeCorrect, PoolInvariant, PTL DEF Spec, LossIsForGood

(* So the failures add up: once as many statements have failed as there    *)
(* are connections, nobody is ever given one again.                        *)
UsedUp == LostConnections = Connections

UsedUpForEver == UsedUp => [](UsedUp /\ Pooled \cup Held = {})

(* From then on the bag stays empty and every method that asks throws.     *)
THEOREM NobodyServedAgain == Spec => []UsedUpForEver
<1>1. TypeOK /\ PoolInv /\ [Next]_vars /\ UsedUp => UsedUp'
  <2> SUFFICES ASSUME TypeOK, PoolInv, [Next]_vars, UsedUp PROVE UsedUp'
    OBVIOUS
  <2>1. LostConnections' \subseteq Connections
    BY DEF LostConnections, Opened
  <2> QED BY <2>1, LossStays DEF UsedUp
<1>2. TypeOK /\ UsedUp => Pooled \cup Held = {}
  BY DEF UsedUp, LostConnections, Pooled, Held, TypeOK
<1> QED BY <1>1, <1>2, TypeCorrect, PoolInvariant, PTL DEF Spec, UsedUpForEver

-----------------------------------------------------------------------------
(* A link that failed is never renewed, and a leak cannot be undone: once  *)
(* no connection in the bag or in use is open, none ever is again, and     *)
(* nothing more is stored and no table created until the process ends.     *)
NoneUsable ==
    /\ service # "created"
    /\ \A c \in Pooled \cup Held : state[c] # "open"

OutageIsForGood ==
    [][NoneUsable => NoneUsable' /\ UNCHANGED <<schema, rows>>]_vars

(* Between the two statements of a transaction, or while a reader is open, *)
(* nobody else can break the connection.                                   *)
LinkInv ==
    \A t \in Threads :
        phase[t] \in {"commit", "reading"} => state[conn[t]] = "open"

(* Only its holder breaks a connection, and then leaves the statement.     *)
LEMMA LinkInvariant == Spec => []LinkInv
<1>1. Init => LinkInv
  BY DEF Init, LinkInv
<1>2. TypeOK /\ PoolInv /\ LinkInv /\ [Next]_vars => LinkInv'
  <2> SUFFICES ASSUME TypeOK, PoolInv, LinkInv, [Next]_vars, NEW t \in Threads,
                      phase'[t] \in {"commit", "reading"}
               PROVE  state'[conn'[t]] = "open"
    BY DEF LinkInv
  <2>1. ASSUME phase[t] \in {"commit", "reading"}
        PROVE  conn[t] \in Connections /\ pool[conn[t]] = 0 /\ state[conn[t]] = "open"
    BY <2>1 DEF PoolInv, LinkInv, TypeOK, HoldingPhases
  <2>2. ASSUME NEW u \in Threads, Step(u) \/ ServerError(u), u # t
        PROVE  state'[conn'[t]] = "open"
    <3>1. phase'[t] = phase[t]
      BY <2>2, OwnVariables
    <3>2. conn'[t] = conn[t]
      BY <2>2 DEF Step, ServerError, GetConnection, GetConnectionThrows, CheckTable,
         CreateTable, Query, CloseReader, Insert, Commit, BatchInsert, OpenReader,
         DuplicateKey, StatementOnBroken, RecycleConnection, Finish, Throw, poolVars,
         TypeOK
    <3>3. conn[u] # conn[t]
      BY <2>1, <2>2, <3>1, DBAssumption DEF PoolInv
    <3>4. state' = state \/ state' = [state EXCEPT ![conn[u]] = "broken"]
      BY <2>2 DEF Step, ServerError, GetConnection, GetConnectionThrows, CheckTable,
         CreateTable, Query, CloseReader, Insert, Commit, BatchInsert, OpenReader,
         DuplicateKey, StatementOnBroken, RecycleConnection, poolVars
    <3> QED BY <2>1, <3>1, <3>2, <3>3, <3>4 DEF TypeOK
  <2>3. ASSUME BatchInsert(t) \/ OpenReader(t) PROVE state'[conn'[t]] = "open"
    BY <2>3 DEF BatchInsert, OpenReader, Executes, poolVars
  <2>4. ASSUME NEW r, Finish(t, r) PROVE FALSE
    BY <2>4 DEF Finish, TypeOK
  <2>5. ASSUME Throw(t) PROVE FALSE
    BY <2>4, <2>5 DEF Throw, Leave, TypeOK
  <2>6. ASSUME Step(t) \/ ServerError(t) PROVE BatchInsert(t) \/ OpenReader(t)
    BY <2>4, <2>5, <2>6 DEF Step, ServerError, GetConnection, GetConnectionThrows,
       Leave, CheckTable, CreateTable, Query, CloseReader, Insert, Commit,
       DuplicateKey, StatementOnBroken, RecycleConnection, Enter, TypeOK
  <2>7. ASSUME NEW u \in Threads, NEW w \in Work, Begin(u, w)
        PROVE  state'[conn'[t]] = "open"
    BY <2>1, <2>7 DEF Begin, Enter, poolVars, TypeOK
  <2>8. ASSUME NEW c \in Connections, Drain(c) PROVE state'[conn'[t]] = "open"
    BY <2>1, <2>8 DEF Drain, threadVars, TypeOK
  <2>9. ASSUME NEW b \in BOOLEAN, OnStart(b) PROVE state'[conn'[t]] = "open"
    BY <2>1, <2>9 DEF OnStart, threadVars, PoolInv
  <2>10. ASSUME OnDestroy \/ DrainEnds \/ UNCHANGED vars
         PROVE  state'[conn'[t]] = "open"
    BY <2>1, <2>10 DEF OnDestroy, DrainEnds, vars, poolVars, threadVars
  <2> QED BY <2>2, <2>3, <2>6, <2>7, <2>8, <2>9, <2>10 DEF Next
<1> QED BY <1>1, <1>2, TypeCorrect, PoolInvariant, PTL DEF Spec

(* So no outage of the database heals while the process lives: it needs a  *)
(* restart, though the bag may be full.                                    *)
THEOREM OutageStays == Spec => OutageIsForGood
<1>1. TypeOK /\ PoolInv /\ LinkInv /\ [Next]_vars
         => [NoneUsable => NoneUsable' /\ UNCHANGED <<schema, rows>>]_vars
  <2> SUFFICES ASSUME TypeOK, PoolInv, LinkInv, Next, NoneUsable
               PROVE  NoneUsable' /\ UNCHANGED <<schema, rows>>
    OBVIOUS
  <2>1. /\ \A t \in Threads : conn[t] \in Connections => state[conn[t]] # "open"
        /\ \A c \in Connections : pool[c] > 0 => state[c] # "open"
        /\ service # "created"
    BY DBAssumption DEF NoneUsable, Pooled, Held
  <2>2. \A t \in Threads : phase[t] \notin {"commit", "reading"}
    BY <2>1 DEF LinkInv, PoolInv, TypeOK, HoldingPhases
  <2>3. \A t \in Threads : phase[t] = "exec" => state[conn[t]] # "open"
    BY <2>1 DEF PoolInv, TypeOK, HoldingPhases
  <2>4. ASSUME NEW t \in Threads, Step(t) \/ ServerError(t)
        PROVE  /\ UNCHANGED <<service, state, schema, rows>>
               /\ Pooled' \cup Held' \subseteq Pooled \cup Held
    <3>1. \/ \E c \in Connections : GetConnection(t, c)
          \/ GetConnectionThrows(t) \/ StatementOnBroken(t) \/ RecycleConnection(t)
      BY <2>2, <2>3, <2>4 DEF Step, ServerError, CheckTable, CreateTable, Query,
         CloseReader, Insert, Commit, BatchInsert, OpenReader, DuplicateKey, Executes
    <3>2. ASSUME NEW c \in Connections, GetConnection(t, c)
          PROVE  Pooled' \cup Held' \subseteq Pooled \cup Held
      BY <3>2 DEF GetConnection, Pooled, Held, TypeOK
    <3>3. ASSUME GetConnectionThrows(t) PROVE Pooled' \cup Held' \subseteq Pooled \cup Held
      BY <3>3 DEF GetConnectionThrows, poolVars, Pooled, Held
    <3>4. ASSUME StatementOnBroken(t) PROVE Pooled' \cup Held' \subseteq Pooled \cup Held
      BY <3>4 DEF StatementOnBroken, Throw, Finish, Pooled, Held, TypeOK
    <3>5. ASSUME RecycleConnection(t) PROVE Pooled' \cup Held' \subseteq Pooled \cup Held
      BY <3>5, DBAssumption DEF RecycleConnection, Pooled, Held, TypeOK
    <3>6. UNCHANGED <<service, state, schema, rows>>
      BY <3>1 DEF GetConnection, GetConnectionThrows, StatementOnBroken, Throw, Finish,
         RecycleConnection, poolVars, serverVars
    <3> QED BY <3>1, <3>2, <3>3, <3>4, <3>5, <3>6
  <2>5. ASSUME NEW c \in Connections, Drain(c)
        PROVE  NoneUsable' /\ UNCHANGED <<schema, rows>>
    <3>1. /\ Pooled' \subseteq Pooled /\ Held' = Held
          /\ \A d \in Connections : state[d] # "open" => state'[d] # "open"
      BY <2>5 DEF Drain, Pooled, Held, TypeOK
    <3>2. Pooled \cup Held \subseteq Connections
      BY DEF Pooled, Held, TypeOK
    <3> QED BY <2>5, <3>1, <3>2 DEF Drain, NoneUsable, serverVars
  <2>6. ASSUME OnDestroy \/ DrainEnds \/ \E t \in Threads, w \in Work : Begin(t, w)
        PROVE  NoneUsable' /\ UNCHANGED <<schema, rows>>
    BY <2>6 DEF OnDestroy, DrainEnds, Begin, poolVars, serverVars, NoneUsable, Pooled, Held
  <2>7. ASSUME NEW b \in BOOLEAN, OnStart(b) PROVE FALSE
    BY <2>1, <2>7 DEF OnStart
  <2>8. ASSUME NEW t \in Threads, Step(t) \/ ServerError(t)
        PROVE  NoneUsable' /\ UNCHANGED <<schema, rows>>
    BY <2>4, <2>8 DEF NoneUsable
  <2> QED BY <2>5, <2>6, <2>7, <2>8 DEF Next
<1> QED BY <1>1, TypeCorrect, PoolInvariant, LinkInvariant, PTL
        DEF Spec, OutageIsForGood
=============================================================================
