-------------------------- MODULE DBWriteTasks_proofs --------------------------
(***************************************************************************)
(* Theorems about the store tasks, for any number of them and any pool.    *)
(*                                                                         *)
(* The steps of the composition are steps of the database or leave it      *)
(* alone, so its invariants (Safety of DBService_proofs) hold here.  What  *)
(* they say of a thread is tied to the status of its task by TaskInv: only *)
(* a running task has a thread inside a job, and it begins one job, once.  *)
(***************************************************************************)
EXTENDS DBWriteTasks, DBService_proofs

(* Every step of the composition is one of the database or none. *)
LEMMA WritesAreSteps == [WritesNext]_allVars => [Next]_vars
  BY ThreadAssumption
     DEF WritesNext, allVars, Database, DatabaseStep, StartTask, StorageCandleData,
         RunTask, EndTask, CompleteTask, Next

(* So what is proved of the database holds under the tasks. *)
LEMMA WritesAreSafe == WritesSpec => Safety
  BY WritesAreSteps, PTL DEF WritesSpec, WritesInit, Safety

-----------------------------------------------------------------------------
Ran(t) == status[t] # "Created"

TaskVarsOK ==
    /\ call   \in [Tasks -> {"none", "registered", "enqueuing", "enqueued",
                             "threw", "scheduled"}]
    /\ status \in [Tasks -> {"Created", "Running"} \cup Terminal]
    /\ overlapped \subseteq Tasks /\ queue \subseteq Tasks /\ completed \subseteq Tasks

TaskInv ==
    \A t \in Tasks :
        /\ Ran(t) => call[t] = "scheduled" /\ work[t].job \in StoreJobs
        /\ status[t] # "Running" => phase[t] = "idle"
        /\ status[t] = "RanToCompletion" => outcome[t] = "returned"
        /\ t \in completed => status[t] \in Terminal

(* The steps of the thread of a task, inside its job. *)
JobMoves(t) == Step(t) \/ ServerError(t)

(* A job moves only while it is in the database, on one work item. *)
LEMMA JobMovesFacts ==
    ASSUME TypeOK, NEW t \in Threads, JobMoves(t)
    PROVE  phase[t] # "idle" /\ work' = work
<1>1. ASSUME Throw(t) PROVE work' = work
  BY <1>1 DEF Throw, Finish
<1>2. CASE ServerError(t)
  BY <1>1, <1>2 DEF ServerError
<1>3. CASE Step(t)
  BY <1>1, <1>3 DEF Step, GetConnection, GetConnectionThrows, CheckTable, CreateTable,
     Query, Insert, DuplicateKey, StatementOnBroken, BatchInsert, Commit, OpenReader,
     CloseReader, RecycleConnection, Executes, Finish
<1> QED BY <1>2, <1>3 DEF JobMoves

(* The steps of WritesNext, by what they change. *)
LEMMA WhoMoves ==
    ASSUME TypeOK, TaskVarsOK, [WritesNext]_allVars
    PROVE  \/ UNCHANGED <<threadVars, tmVars>>
           \/ \E t \in Tasks : JobMoves(t) /\ UNCHANGED tmVars
           \/ \E t \in Tasks, w \in Work : StartTask(t, w)
           \/ \E t \in Tasks :
                 StorageCandleData(t) \/ RunTask(t) \/ EndTask(t) \/ CompleteTask(t)
<1>1. CASE Database
  BY <1>1, ThreadAssumption
     DEF Database, OnStart, OnDestroy, DrainEnds, Drain, JobMoves
<1>2. CASE \E t \in Threads : DatabaseStep(t)
  BY <1>2, ThreadAssumption DEF DatabaseStep, JobMoves
<1>3. CASE UNCHANGED allVars
  BY <1>3 DEF allVars, vars
<1> QED BY <1>1, <1>2, <1>3 DEF WritesNext

(* The variables of the task manager. *)
LEMMA TaskVarsKeep ==
    ASSUME TypeOK, TaskVarsOK, [WritesNext]_allVars
    PROVE  TaskVarsOK'
<1>1. CASE UNCHANGED tmVars
  BY <1>1 DEF tmVars, TaskVarsOK
<1>2. ASSUME NEW t \in Tasks, StorageCandleData(t) \/ RunTask(t) PROVE TaskVarsOK'
  BY <1>2 DEF StorageCandleData, RunTask, Register, CallStep, EnqueueBegins, EnqueueEnds,
     EnqueueThrows, Schedule, CallGoes, TaskVarsOK
<1>3. ASSUME NEW t \in Tasks, EndTask(t) \/ \E w \in Work : StartTask(t, w)
      PROVE  TaskVarsOK'
  BY <1>3 DEF EndTask, StartTask, EndAction, StartAction, StatusGoes, Terminal, TaskVarsOK
<1>4. ASSUME NEW t \in Tasks, CompleteTask(t) PROVE TaskVarsOK'
  BY <1>4 DEF CompleteTask, SetCompleted, TaskVarsOK
<1> QED BY <1>1, <1>2, <1>3, <1>4, WhoMoves

(* TaskInv, by the kinds of steps. *)
LEMMA TaskInvKeeps ==
    ASSUME TypeOK, TaskVarsOK, TaskInv, [WritesNext]_allVars
    PROVE  TaskInv'
<1>1. CASE UNCHANGED <<threadVars, tmVars>>
  BY <1>1 DEF threadVars, tmVars, TaskInv, Ran
<1>2. ASSUME NEW t \in Tasks, JobMoves(t), UNCHANGED tmVars PROVE TaskInv'
  <2>1. t \in Threads /\ status[t] = "Running" /\ work' = work
    BY <1>2, JobMovesFacts, ThreadAssumption DEF TaskInv
  <2>2. \A u \in Tasks : u # t => phase'[u] = phase[u] /\ outcome'[u] = outcome[u]
    BY <1>2, <2>1, OwnVariables, ThreadAssumption DEF JobMoves
  <2>3. status'[t] = "Running"
    BY <1>2, <2>1 DEF tmVars
  <2> QED BY <1>2, <2>1, <2>2, <2>3 DEF tmVars, TaskInv, Ran, Terminal
<1>3. ASSUME NEW t \in Tasks, NEW w \in Work, StartTask(t, w) PROVE TaskInv'
  <2>1. /\ call[t] = "scheduled" /\ status[t] = "Created"
        /\ status' = [status EXCEPT ![t] = "Running"]
        /\ UNCHANGED <<call, completed>>
        /\ w.job \in StoreJobs
        /\ work' = [work EXCEPT ![t] = w]
        /\ phase' = [phase EXCEPT ![t] = "get"] /\ outcome' = outcome
    BY <1>3 DEF StartTask, StartAction, StatusGoes, Begin, Enter
  <2> QED BY <2>1, ThreadAssumption DEF TaskInv, TaskVarsOK, TypeOK, Ran, Terminal
<1>4. ASSUME NEW t \in Tasks, StorageCandleData(t) \/ RunTask(t) PROVE TaskInv'
  <2>1. /\ UNCHANGED <<work, phase, outcome, status, completed>>
        /\ call[t] # "scheduled"
        /\ \A u \in Tasks : u # t => call'[u] = call[u]
    BY <1>4 DEF StorageCandleData, RunTask, Register, CallStep, EnqueueBegins,
       EnqueueEnds, EnqueueThrows, Schedule, CallGoes, TaskVarsOK, vars, threadVars
  <2> QED BY <2>1 DEF TaskInv, Ran
<1>5. ASSUME NEW t \in Tasks, EndTask(t) PROVE TaskInv'
  <2>1. /\ phase[t] = "idle" /\ status[t] = "Running"
        /\ status' = [status EXCEPT ![t] = IF outcome[t] = "returned"
                                           THEN "RanToCompletion" ELSE "Faulted"]
        /\ UNCHANGED <<call, completed, work, phase, outcome>>
    BY <1>5 DEF EndTask, EndAction, StatusGoes, vars, threadVars
  <2> QED BY <2>1 DEF TaskInv, TaskVarsOK, Ran, Terminal
<1>6. ASSUME NEW t \in Tasks, CompleteTask(t) PROVE TaskInv'
  <2>1. /\ status[t] \in Terminal /\ completed' = completed \cup {t}
        /\ UNCHANGED <<call, status, work, phase, outcome>>
    BY <1>6 DEF CompleteTask, SetCompleted, vars, threadVars
  <2> QED BY <2>1 DEF TaskInv, Ran
<1> QED BY <1>1, <1>2, <1>3, <1>4, <1>5, <1>6, WhoMoves

TaskState == TaskVarsOK /\ TaskInv

(* The invariants of the database and of the tasks, together. *)
LEMMA TaskStateHolds == WritesSpec => [](TypeOK /\ PoolInv /\ JobsInv /\ TaskState)
<1>1. WritesInit => TaskState
  BY ThreadAssumption
     DEF WritesInit, Init, TaskInit, TaskState, TaskVarsOK, TaskInv, Ran
<1>2. TypeOK /\ TaskState /\ [WritesNext]_allVars => TaskState'
  BY TaskVarsKeep, TaskInvKeeps DEF TaskState
<1> QED
  BY <1>1, <1>2, WritesAreSafe, SafeTypes, SafePool, JobsInvariant, PTL DEF WritesSpec

(* The types of the composition, for any number of tasks. *)
THEOREM TaskTypesHold == WritesSpec => []TaskTypeOK
<1>1. TypeOK /\ TaskState => TaskTypeOK
  BY DEF TaskState, TaskVarsOK, TaskTypeOK
<1> QED BY <1>1, TaskStateHolds, PTL

(* A task that TaskManager calls complete has stored its row.              *)
THEOREM CompletedIsStored == WritesSpec => []CompletionMeansStored
<1>1. ASSUME TypeOK, JobsInv, TaskState, NEW t \in Tasks, status[t] = "RanToCompletion"
      PROVE  work[t].key \in rows[work[t].table]
  <2>1. phase[t] = "idle" /\ outcome[t] = "returned" /\ work[t].job \in StoreJobs
    BY <1>1 DEF TaskState, TaskInv, Ran
  <2> QED BY <1>1, <2>1, ThreadAssumption
          DEF JobsInv, JobInv, RowStored, Writers, StoreJobs
<1>2. TypeOK /\ JobsInv /\ TaskState => CompletionMeansStored
  BY <1>1 DEF CompletionMeansStored
<1> QED BY <1>2, TaskStateHolds, PTL

(* A task that has ended, or was never started, holds no connection.       *)
THEOREM DoneTasksQuiet == WritesSpec => []DoneTasksAreQuiet
<1>1. TypeOK /\ PoolInv /\ TaskState => DoneTasksAreQuiet
  BY ThreadAssumption
     DEF DoneTasksAreQuiet, TaskState, TaskInv, PoolInv, Ran, Terminal, HoldingPhases
<1> QED BY <1>1, TaskStateHolds, PTL

-----------------------------------------------------------------------------
(* Losses: Failed only grows, and a step that loses a connection adds the  *)
(* task that lost it.                                                      *)

LEMMA FailedGrows ==
    ASSUME TypeOK, TaskState, [WritesNext]_allVars
    PROVE  Failed \subseteq Failed'
<1>0. \A t \in Failed : t \in Tasks /\ phase[t] = "idle"
  BY DEF Failed
<1>1. CASE UNCHANGED <<threadVars, tmVars>>
  BY <1>1 DEF threadVars, tmVars, Failed
<1>2. ASSUME NEW t \in Tasks, JobMoves(t), UNCHANGED tmVars PROVE Failed \subseteq Failed'
  <2>1. phase[t] # "idle"
    BY <1>2, JobMovesFacts, ThreadAssumption
  <2>2. \A u \in Tasks : u # t => phase'[u] = phase[u] /\ outcome'[u] = outcome[u]
    BY <1>2, OwnVariables, ThreadAssumption DEF JobMoves
  <2> QED BY <1>2, <2>1, <2>2 DEF Failed, tmVars
<1>3. ASSUME NEW t \in Tasks, NEW w \in Work, StartTask(t, w) PROVE Failed \subseteq Failed'
  <2>1. /\ status[t] = "Created" /\ outcome' = outcome
        /\ \A u \in Tasks : u # t => phase'[u] = phase[u] /\ status'[u] = status[u]
    BY <1>3, ThreadAssumption
       DEF StartTask, StartAction, StatusGoes, Begin, Enter, TypeOK, TaskState, TaskVarsOK
  <2> QED BY <2>1 DEF Failed
<1>4. ASSUME NEW t \in Tasks,
             StorageCandleData(t) \/ RunTask(t) \/ CompleteTask(t)
      PROVE  Failed \subseteq Failed'
  <2>1. UNCHANGED <<status, phase, outcome>>
    BY <1>4 DEF StorageCandleData, RunTask, CompleteTask, SetCompleted, Register, CallStep,
       EnqueueBegins, EnqueueEnds, EnqueueThrows, Schedule, vars, threadVars
  <2> QED BY <2>1 DEF Failed
<1>5. ASSUME NEW t \in Tasks, EndTask(t) PROVE Failed \subseteq Failed'
  <2>1. /\ UNCHANGED <<phase, outcome>>
        /\ \A u \in Tasks : u # t => status'[u] = status[u]
        /\ outcome[t] = "threw" => status'[t] = "Faulted"
    BY <1>5 DEF EndTask, EndAction, StatusGoes, vars, threadVars, TaskState, TaskVarsOK
  <2> QED BY <2>1 DEF Failed
<1> QED BY <1>1, <1>2, <1>3, <1>4, <1>5, WhoMoves DEF TaskState

(* The task whose statement throws a connection away becomes one of them.  *)
LEMMA LoserFails ==
    ASSUME TypeOK, TaskState, [WritesNext]_allVars, NEW t \in Threads,
           Throw(t), stmt[t] \notin Protected, phase[t] \in {"exec", "commit", "reading"}
    PROVE  t \in Tasks /\ t \notin Failed /\ t \in Failed'
<1>1. t \in Tasks /\ status[t] = "Running" /\ phase[t] # "idle"
  BY ThreadAssumption DEF TaskState, TaskInv
<1>2. phase'[t] = "idle" /\ outcome'[t] = "threw"
  BY DEF Throw, Leave, TypeOK
<1>3. status'[t] = "Running"
  <2>1. CASE UNCHANGED status
    BY <1>1, <2>1
  <2>2. ASSUME NEW u \in Tasks, StorageCandleData(u) \/ RunTask(u) \/ CompleteTask(u)
        PROVE  UNCHANGED phase
    BY <2>2 DEF StorageCandleData, RunTask, CompleteTask, vars, threadVars
  <2>3. ASSUME NEW u \in Tasks, EndTask(u) PROVE UNCHANGED phase
    BY <2>3 DEF EndTask, vars, threadVars
  <2>4. ASSUME NEW u \in Tasks, NEW w \in Work, StartTask(u, w)
        PROVE  phase'[t] # "idle"
    BY <1>1, <2>4 DEF StartTask, Begin, Enter, TypeOK
  <2> QED BY <1>1, <1>2, <2>1, <2>2, <2>3, <2>4, WhoMoves DEF TaskState, tmVars
<1> QED BY <1>1, <1>2, <1>3 DEF Failed

(* One more element adds at most one to the cardinality. *)
LEMMA OneMore ==
    ASSUME NEW S, NEW x, IsFiniteSet(S)
    PROVE  /\ IsFiniteSet(S \cup {x})
           /\ Cardinality(S \cup {x}) <= Cardinality(S) + 1
<1> DEFINE T == S \cup {x}
<1>1. IsFiniteSet(T) /\ Cardinality(T) = IF x \in S THEN Cardinality(S) ELSE Cardinality(S) + 1
  BY FS_AddElement
<1>2. Cardinality(S) \in Nat
  BY FS_CardinalityType
<1> HIDE DEF T
<1>3. Cardinality(T) <= Cardinality(S) + 1
  BY <1>1, <1>2
<1> QED BY <1>1, <1>3 DEF T

(* Every connection that is lost is lost by one task that reports it, and  *)
(* no two by the same: the pool cannot shrink further than that.           *)
THEOREM LossesReported == WritesSpec => []LossesAreReported
<1>1. WritesInit => LossesAreReported
  <2> SUFFICES ASSUME WritesInit PROVE LossesAreReported
    OBVIOUS
  <2>1. LostConnections = {} /\ Failed = {}
    BY DEF WritesInit, Init, TaskInit, LostConnections, Opened, Failed
  <2> QED BY <2>1, FS_EmptySet DEF LossesAreReported
<1>2. ASSUME TypeOK, PoolInv, TaskState, LossesAreReported, [WritesNext]_allVars
      PROVE  LossesAreReported'
  <2>1. /\ IsFiniteSet(LostConnections) /\ IsFiniteSet(LostConnections')
        /\ IsFiniteSet(Failed) /\ IsFiniteSet(Failed')
    <3>1. LostConnections \subseteq Connections /\ LostConnections' \subseteq Connections
      BY DEF LostConnections, Opened
    <3>2. Failed \subseteq Threads /\ Failed' \subseteq Threads
      BY ThreadAssumption DEF Failed
    <3> QED BY <3>1, <3>2, DBAssumption, FS_Subset
  <2>2. Failed \subseteq Failed' /\ Cardinality(Failed) <= Cardinality(Failed')
    BY <1>2, <2>1, FailedGrows, FS_Subset
  <2>3. /\ Cardinality(LostConnections) \in Nat /\ Cardinality(LostConnections') \in Nat
        /\ Cardinality(Failed) \in Nat /\ Cardinality(Failed') \in Nat
    BY <2>1, FS_CardinalityType
  <2>4. CASE LostConnections' \subseteq LostConnections
    <3>1. Cardinality(LostConnections') <= Cardinality(LostConnections)
      BY <2>1, <2>4, FS_Subset
    <3> QED BY <1>2, <2>2, <2>3, <3>1 DEF LossesAreReported
  <2>5. ASSUME NEW t \in Threads, Throw(t), stmt[t] \notin Protected,
               phase[t] \in {"exec", "commit", "reading"},
               LostConnections' \subseteq LostConnections \cup {conn[t]}
        PROVE  LossesAreReported'
    <3>1. t \notin Failed /\ t \in Failed'
      BY <1>2, <2>5, LoserFails
    <3>2. /\ IsFiniteSet(LostConnections \cup {conn[t]})
          /\ Cardinality(LostConnections \cup {conn[t]}) <= Cardinality(LostConnections) + 1
      BY <2>1, OneMore
    <3>3. /\ IsFiniteSet(Failed \cup {t})
          /\ Cardinality(Failed \cup {t}) = Cardinality(Failed) + 1
      BY <2>1, <3>1, FS_AddElement
    <3>4. Cardinality(LostConnections') <= Cardinality(LostConnections \cup {conn[t]})
      BY <2>5, <3>2, FS_Subset
    <3>5. Cardinality(Failed \cup {t}) <= Cardinality(Failed')
      BY <2>1, <2>2, <3>1, FS_Subset
    <3>6. Cardinality(LostConnections \cup {conn[t]}) \in Nat
          /\ Cardinality(LostConnections) <= Cardinality(Failed)
      BY <1>2, <3>2, FS_CardinalityType DEF LossesAreReported
    <3> QED BY <2>3, <3>2, <3>3, <3>4, <3>5, <3>6 DEF LossesAreReported
  <2>6. [Next]_vars
    BY <1>2, WritesAreSteps
  <2>7. \/ LostConnections' \subseteq LostConnections
        \/ \E t \in Threads :
              /\ Throw(t) /\ stmt[t] \notin Protected
              /\ phase[t] \in {"exec", "commit", "reading"}
              /\ LostConnections' \subseteq LostConnections \cup {conn[t]}
    BY <1>2, <2>6, WhoLoses
  <2> QED BY <2>4, <2>5, <2>7
<1>3. TypeOK /\ PoolInv /\ TaskState /\ LossesAreReported /\ [WritesNext]_allVars
         => LossesAreReported'
  BY <1>2
<1> QED BY <1>1, <1>3, TaskStateHolds, PTL DEF WritesSpec
-----------------------------------------------------------------------------
(* The store tasks use the pool only as ConnectionLease allows, with links *)
(* that fail under some of them and connections that others get broken.    *)
THEOREM TasksKeepLease == WritesSpec => ImplementsLease
<1> QED BY WritesAreSafe, SafeLease, PTL

(* "DBService.cs" sizes the pool by the number of tasks.  While a task     *)
(* runs one job, that is enough whatever fails: with as many connections   *)
(* as tasks, none finds the bag empty while the service is up, although    *)
(* each failure costs a connection.                                        *)
OneForEachTask ==
    /\ service = "started" /\ \E c \in Connections : state[c] # "unopened"
    /\ Cardinality(Tasks) <= Cardinality(Connections)
    => \A t \in Tasks : phase[t] = "get" => ~PoolIsEmpty

(* The connections in use, and the tasks that use them. *)
Holders == {t \in Threads : conn[t] # NoConnection}

(* No two tasks have the same connection. *)
LEMMA HeldByHolders ==
    ASSUME TypeOK, PoolInv
    PROVE  /\ IsFiniteSet(Held) /\ IsFiniteSet(Holders)
           /\ Cardinality(Held) <= Cardinality(Holders)
<1> DEFINE f == [c \in Held |-> Holder(c)]
<1>1. IsFiniteSet(Holders)
  BY DBAssumption, FS_Subset DEF Holders
<1>2. \A c \in Held : Holder(c) \in Threads /\ conn[Holder(c)] = c /\ c # NoConnection
  <2>1. \A c \in Held : \E t \in Threads : conn[t] = c /\ c # NoConnection
    BY DEF Held
  <2> QED BY <2>1 DEF Holder
<1>3. f \in [Held -> Holders]
  BY <1>2 DEF Holders
<1>4. IsInjective(f)
  BY <1>2 DEF IsInjective
<1>5. f \in Injection(Held, Holders)
  BY <1>3, <1>4 DEF Injection
<1> QED BY <1>1, <1>5, FS_Injection

(* Every connection is lost by a failed task of its own or in the hands of *)
(* a task of its own, and the task that asks is neither.                   *)
THEOREM EnoughForEachTask == WritesSpec => []OneForEachTask
<1>1. ASSUME TypeOK, PoolInv, AllOrNone, TaskState, LossesAreReported,
             service = "started", \E c \in Connections : state[c] # "unopened",
             NEW t \in Tasks, phase[t] = "get", PoolIsEmpty
      PROVE  Cardinality(Connections) < Cardinality(Tasks)
  <2>1. \A c \in Connections : c \in Opened
    BY <1>1 DEF AllOrNone
  <2>2. Connections = Held \cup LostConnections
    BY <1>1, <2>1 DEF LostConnections, Opened, Pooled, PoolIsEmpty, Held, TypeOK
  <2>3. /\ IsFiniteSet(Held) /\ IsFiniteSet(Holders)
        /\ Cardinality(Held) <= Cardinality(Holders)
    BY <1>1, HeldByHolders
  <2>4. IsFiniteSet(Tasks) /\ IsFiniteSet(LostConnections) /\ IsFiniteSet(Failed)
    BY DBAssumption, ThreadAssumption, FS_Subset DEF LostConnections, Opened, Failed
  <2>5. /\ Cardinality(Held) \in Nat /\ Cardinality(Holders) \in Nat
        /\ Cardinality(LostConnections) \in Nat /\ Cardinality(Failed) \in Nat
        /\ Cardinality(Tasks) \in Nat
    BY <2>3, <2>4, FS_CardinalityType
  <2>6. Cardinality(Connections) <= Cardinality(Held) + Cardinality(LostConnections)
    <3>1. Held \cap LostConnections = {}
      BY DEF LostConnections
    <3>2. Cardinality(Held \cup LostConnections)
             = Cardinality(Held) + Cardinality(LostConnections) - Cardinality({})
      BY <2>3, <2>4, <3>1, FS_Union
    <3>3. Cardinality({}) = 0
      BY FS_EmptySet
    <3> QED BY <2>2, <2>5, <3>2, <3>3
  <2>7. Cardinality(Holders \cup Failed) = Cardinality(Holders) + Cardinality(Failed)
    <3>1. Holders \cap Failed = {}
      BY <1>1, ThreadAssumption DEF Holders, Failed, PoolInv, HoldingPhases
    <3>2. Cardinality(Holders \cup Failed)
             = Cardinality(Holders) + Cardinality(Failed) - Cardinality({})
      BY <2>3, <2>4, <3>1, FS_Union
    <3>3. Cardinality({}) = 0
      BY FS_EmptySet
    <3> QED BY <2>5, <3>2, <3>3
  <2>8. t \notin Holders \cup Failed /\ Holders \cup Failed \cup {t} \subseteq Tasks
    BY <1>1, ThreadAssumption DEF Holders, Failed, PoolInv, HoldingPhases
  <2>9. Cardinality(Holders \cup Failed) + 1 <= Cardinality(Tasks)
    <3>1. IsFiniteSet(Holders \cup Failed)
      BY <2>3, <2>4, FS_Union
    <3>2. Cardinality(Holders \cup Failed \cup {t}) = Cardinality(Holders \cup Failed) + 1
      BY <2>8, <3>1, FS_AddElement
    <3>3. Cardinality(Holders \cup Failed \cup {t}) <= Cardinality(Tasks)
      BY <2>4, <2>8, FS_Subset
    <3> QED BY <3>2, <3>3
  <2>10. /\ Cardinality(LostConnections) <= Cardinality(Failed)
         /\ Cardinality(Connections) \in Nat
    BY <1>1, DBAssumption, FS_CardinalityType DEF LossesAreReported
  <2> QED BY <2>3, <2>5, <2>6, <2>7, <2>9, <2>10
<1>2. TypeOK /\ PoolInv /\ AllOrNone /\ TaskState /\ LossesAreReported => OneForEachTask
  <2> SUFFICES ASSUME TypeOK, PoolInv, AllOrNone, TaskState, LossesAreReported,
                      service = "started",
                      \E c \in Connections : state[c] # "unopened",
                      Cardinality(Tasks) <= Cardinality(Connections),
                      NEW t \in Tasks, phase[t] = "get", PoolIsEmpty
               PROVE  FALSE
    BY DEF OneForEachTask
  <2>1. Cardinality(Tasks) \in Nat /\ Cardinality(Connections) \in Nat
    BY DBAssumption, ThreadAssumption, FS_CardinalityType
  <2> QED BY <1>1, <2>1
<1> QED BY <1>2, TaskStateHolds, LossesReported, WritesAreSafe, AllOrNoneInvariant, PTL
=============================================================================
