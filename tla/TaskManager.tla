----------------------------- MODULE TaskManager -----------------------------
(***************************************************************************)
(* TaskManager.RunTask, called from any thread: it enters the task in the  *)
(* concurrent task bag, puts it in a PriorityQueue that is not thread-safe,*)
(* and hands it to the thread pool, where its status follows the           *)
(* execution.  CancelTask sets a token that no action of this program      *)
(* reads, so it changes no behaviour and is left out.                      *)
(*                                                                         *)
(* An Enqueue is two steps.  When two of them overlap the queue may lose   *)
(* entries, or throw, which ends RunTask before the task is scheduled.     *)
(* Nothing ever dequeues.                                                  *)
(***************************************************************************)
CONSTANT Tasks  \* task ids; each stands for one call of RunTask

VARIABLES
    call,       \* how far the RunTask call for each task has come
    overlapped, \* calls whose Enqueue ran at the same time as another
    queue,      \* m_PriorityQueue: the tasks it holds
    status,     \* TaskInfo.Status
    completed   \* the tasks whose Progress.IsCompleted is set

tmVars == <<call, overlapped, queue, status, completed>>

Terminal == {"RanToCompletion", "Faulted"}

TaskInit ==
    /\ call       = [t \in Tasks |-> "none"]
    /\ overlapped = {}
    /\ queue      = {}
    /\ status     = [t \in Tasks |-> "Created"]
    /\ completed  = {}

CallGoes(t, from, to) ==
    /\ call[t] = from
    /\ call' = [call EXCEPT ![t] = to]

(* m_TaskBag[taskId] = taskInfo *)
Register(t) ==
    /\ CallGoes(t, "none", "registered")
    /\ UNCHANGED <<overlapped, queue, status, completed>>

EnqueueBegins(t) ==
    /\ CallGoes(t, "registered", "enqueuing")
    /\ LET others == {u \in Tasks : call[u] = "enqueuing"}
       IN  overlapped' = IF others = {} THEN overlapped
                         ELSE overlapped \cup others \cup {t}
    /\ UNCHANGED <<queue, status, completed>>

EnqueueEnds(t) ==
    /\ CallGoes(t, "enqueuing", "enqueued")
    /\ \/ queue' = queue \cup {t}
       \/ t \in overlapped /\ queue' \in SUBSET (queue \cup {t})
    /\ UNCHANGED <<overlapped, status, completed>>

EnqueueThrows(t) ==
    /\ t \in overlapped
    /\ CallGoes(t, "enqueuing", "threw")
    /\ UNCHANGED <<overlapped, queue, status, completed>>

(* Task.Run *)
Schedule(t) ==
    /\ CallGoes(t, "enqueued", "scheduled")
    /\ UNCHANGED <<overlapped, queue, status, completed>>

StatusGoes(t, from, to) ==
    /\ status[t] = from
    /\ status' = [status EXCEPT ![t] = to]
    /\ UNCHANGED <<call, overlapped, queue, completed>>

StartAction(t) == call[t] = "scheduled" /\ StatusGoes(t, "Created", "Running")

(* Mutant of EndAction: nothing catches what the action throws. *)
EndActionUncaught(t, returned) == StatusGoes(t, "Running", "RanToCompletion")

(* The action returned or threw; none throws OperationCanceledException.   *)
EndAction(t, returned) ==
    StatusGoes(t, "Running", IF returned THEN "RanToCompletion" ELSE "Faulted")

(* Mutant of SetCompleted: at the end of the try block, not in finally. *)
SetCompletedInTry(t) ==
    /\ status[t] = "RanToCompletion"
    /\ t \notin completed
    /\ completed' = completed \cup {t}
    /\ UNCHANGED <<call, overlapped, queue, status>>

(* The finally block. *)
SetCompleted(t) ==
    /\ status[t] \in Terminal
    /\ t \notin completed
    /\ completed' = completed \cup {t}
    /\ UNCHANGED <<call, overlapped, queue, status>>

(* RunTask goes on until it returns or throws. *)
CallStep(t) ==
    EnqueueBegins(t) \/ EnqueueEnds(t) \/ EnqueueThrows(t) \/ Schedule(t)
=============================================================================
