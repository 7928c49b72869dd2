---------------------------- MODULE DBWriteTasks ----------------------------
(***************************************************************************)
(* QuoteCacheService.StorageCandleData on TaskManager: every store job of  *)
(* the quote database runs as the action of one task, on a thread-pool     *)
(* thread that runs nothing else meanwhile.                                *)
(***************************************************************************)
EXTENDS DBService, TaskManager

(* Each task has a thread of its own. *)
ASSUME ThreadAssumption == Threads = Tasks

StoreJobs == {"StoreCandle", "StoreCandleList"}

allVars == <<vars, tmVars>>

WritesInit == Init /\ TaskInit

(* StorageCandleData calls RunTask, with the services up. *)
StorageCandleData(t) ==
    /\ service # "created"
    /\ Register(t)
    /\ UNCHANGED vars

RunTask(t) == CallStep(t) /\ UNCHANGED vars

StartTask(t, w) ==
    /\ StartAction(t)
    /\ w.job \in StoreJobs
    /\ Begin(t, w)

(* Mutant of EndTask: the action is fire and forget, its work goes on. *)
EndTaskEarly(t) ==
    /\ EndAction(t, TRUE)
    /\ UNCHANGED vars

EndTask(t) ==
    /\ phase[t] = "idle"
    /\ EndAction(t, outcome[t] = "returned")
    /\ UNCHANGED vars

CompleteTask(t) == SetCompleted(t) /\ UNCHANGED vars

Database ==
    /\ \/ \E configured \in BOOLEAN : OnStart(configured)
       \/ OnDestroy \/ DrainEnds
       \/ \E c \in Connections : Drain(c)
       \/ \E t \in Threads : ServerError(t)
    /\ UNCHANGED tmVars

DatabaseStep(t) == Step(t) /\ UNCHANGED tmVars

WritesNext ==
    \/ Database
    \/ \E t \in Threads : DatabaseStep(t)
    \/ \E t \in Tasks, w \in Work : StartTask(t, w)
    \/ \E t \in Tasks :
          StorageCandleData(t) \/ RunTask(t) \/ EndTask(t) \/ CompleteTask(t)

(* Threads are scheduled, and the thread pool runs what it was given. *)
WritesFairness ==
    /\ \A t \in Threads : WF_allVars(DatabaseStep(t))
    /\ \A t \in Tasks :
          /\ WF_allVars(RunTask(t))
          /\ WF_allVars(\E w \in Work : StartTask(t, w))
          /\ WF_allVars(EndTask(t))
          /\ WF_allVars(CompleteTask(t))

WritesSpec == WritesInit /\ [][WritesNext]_allVars /\ WritesFairness

-----------------------------------------------------------------------------
TaskTypeOK ==
    /\ TypeOK
    /\ call   \in [Tasks -> {"none", "registered", "enqueuing", "enqueued",
                             "threw", "scheduled"}]
    /\ status \in [Tasks -> {"Created", "Running"} \cup Terminal]
    /\ overlapped \cup queue \cup completed \subseteq Tasks

(* What TaskManager reports is what happened in the database: a task that  *)
(* RanToCompletion stored its row, though it was the pool, the tables and  *)
(* the commit of other threads that decided about it.                      *)
CompletionMeansStored ==
    \A t \in Tasks :
        status[t] = "RanToCompletion" => work[t].key \in rows[work[t].table]

(* The pool shrinks by at most one connection for each task whose job      *)
(* threw: no connection is lost that no task reports.                      *)
Failed ==
    {t \in Tasks : status[t] \in {"Running", "Faulted"}
                 /\ phase[t] = "idle" /\ outcome[t] = "threw"}

LossesAreReported ==
    Cardinality(LostConnections) <= Cardinality(Failed)

(* A task whose status is terminal never uses the database again, and      *)
(* neither does one whose RunTask threw.                                   *)
DoneTasksAreQuiet ==
    \A t \in Tasks :
        status[t] \in Terminal \/ t \in completed \/ call[t] = "threw"
            => phase[t] = "idle" /\ conn[t] = NoConnection

(* Every task that StorageCandleData asked for ends and is marked          *)
(* completed, whatever the pool and the server do to its job, unless the   *)
(* unsynchronised Enqueue threw and RunTask never started it.              *)
TasksComplete ==
    \A t \in Tasks :
        call[t] = "registered" ~> t \in completed \/ call[t] = "threw"
=============================================================================
