------------------------------ MODULE SetLeverage ------------------------------
(***************************************************************************)
(* AbstractTradingService.SetLeverage: one thread-pool task for each       *)
(* sub-account calls the exchange and stores its answer in results[index], *)
(* then the caller waits for all of them and adds the answers up.          *)
(*                                                                         *)
(* The tasks capture the caller's variable index, not its value: a task    *)
(* evaluates it when it starts, while the caller goes on incrementing it.  *)
(* The store itself, with its bounds check, comes after the API call.      *)
(*                                                                         *)
(* Sub-accounts are numbered in the order of m_SubAccountTradingDataMap.   *)
(***************************************************************************)
EXTENDS Naturals, FiniteSets

CONSTANTS
    N,         \* number of sub-accounts in m_SubAccountTradingDataMap
    NoResult   \* null

SubAccounts == 0 .. N - 1

ASSUME LeverageAssumption == N \in Nat /\ NoResult \notin SubAccounts

VARIABLES
    caller,     \* where SetLeverage is
    index,      \* its loop variable, shared with the tasks
    task,       \* state of each task
    slot,       \* the value of index the task evaluated
    answer,     \* what the API call said
    leverage,   \* the setting of each account at the exchange
    results,    \* whose answer each element of the array results holds
    refetched   \* UpdateAllLeverageBracketImpl was called

leverageVars == <<caller, index, task, slot, answer, leverage, results, refetched>>

LeverageInit ==
    /\ caller    = "spawning"
    /\ index     = 0
    /\ task      = [a \in SubAccounts |-> "none"]
    /\ slot      = [a \in SubAccounts |-> 0]
    /\ answer    = [a \in SubAccounts |-> "none"]
    /\ leverage  = [a \in SubAccounts |-> "old"]
    /\ results   = [s \in SubAccounts |-> NoResult]
    /\ refetched = FALSE

(* Task.Run for the account the foreach has reached. *)
RunTask ==
    /\ caller = "spawning" /\ index < N
    /\ task[index] = "none"
    /\ task' = [task EXCEPT ![index] = "created"]
    /\ UNCHANGED <<caller, index, slot, answer, leverage, results, refetched>>

(* Mutant of IncrementIndex: the lambda increments index as well. *)
IncrementIndexTwice ==
    /\ caller = "spawning" /\ index < N
    /\ task[index] # "none"
    /\ index' \in {index + 1, index + 2}
    /\ UNCHANGED <<caller, task, slot, answer, leverage, results, refetched>>

IncrementIndex ==
    /\ caller = "spawning" /\ index < N
    /\ task[index] # "none"
    /\ index' = index + 1
    /\ UNCHANGED <<caller, task, slot, answer, leverage, results, refetched>>

TaskGoes(a, from, to) ==
    /\ task[a] = from
    /\ task' = [task EXCEPT ![a] = to]

EvaluateIndex(a) ==
    /\ TaskGoes(a, "created", "calling")
    /\ slot' = [slot EXCEPT ![a] = index]
    /\ UNCHANGED <<caller, index, answer, leverage, results, refetched>>

(* APISetLeverageImpl: the exchange sets the leverage, or refuses and the  *)
(* answer has an ErrorMessage.                                             *)
APISetLeverageImpl(a) ==
    /\ TaskGoes(a, "calling", "storing")
    /\ \/ /\ answer' = [answer EXCEPT ![a] = "set"]
          /\ leverage' = [leverage EXCEPT ![a] = "new"]
       \/ /\ answer' = [answer EXCEPT ![a] = "refused"]
          /\ UNCHANGED leverage
    /\ UNCHANGED <<caller, index, slot, results, refetched>>

(* A failure without Data is dereferenced; the request may have reached    *)
(* the exchange or not.                                                    *)
APISetLeverageThrows(a) ==
    /\ TaskGoes(a, "calling", "faulted")
    /\ answer' = [answer EXCEPT ![a] = "threw"]
    /\ \E l \in {"old", "new"} : leverage' = [leverage EXCEPT ![a] = l]
    /\ UNCHANGED <<caller, index, slot, results, refetched>>

StoreResult(a) ==
    /\ slot[a] < N
    /\ TaskGoes(a, "storing", "done")
    /\ results' = [results EXCEPT ![slot[a]] = a]
    /\ UNCHANGED <<caller, index, slot, answer, leverage, refetched>>

IndexOutOfRange(a) ==
    /\ slot[a] = N
    /\ TaskGoes(a, "storing", "faulted")
    /\ UNCHANGED <<caller, index, slot, answer, leverage, results, refetched>>

CallerGoes(from, to) ==
    /\ caller = from
    /\ caller' = to
    /\ UNCHANGED <<index, task, slot, answer, leverage, results>>

(* Mutant of WaitAll: only successful tasks count as ended. *)
WaitAllSucceeded ==
    /\ index = N
    /\ \A a \in SubAccounts : task[a] = "done"
    /\ CallerGoes("spawning", "adding")
    /\ UNCHANGED refetched

(* Task.WaitAll waits for every task and throws if any of them did. *)
WaitAll ==
    /\ index = N
    /\ \A a \in SubAccounts : task[a] \in {"done", "faulted"}
    /\ CallerGoes("spawning",
                  IF \E a \in SubAccounts : task[a] = "faulted" THEN "threw" ELSE "adding")
    /\ UNCHANGED refetched

Answers == {results[s] : s \in SubAccounts}

AnyRefused == \E a \in Answers \ {NoResult} : answer[a] = "refused"

(* Mutants of AddUp: it skips the elements that are null; the failures of  *)
(* single accounts do not count.                                           *)
AddUpSkippingNull ==
    /\ CallerGoes("adding", IF AnyRefused THEN "refetching" ELSE "returned")
    /\ UNCHANGED refetched

AddUpIgnoringErrors ==
    /\ CallerGoes("adding", IF NoResult \in Answers THEN "threw" ELSE "returned")
    /\ UNCHANGED refetched

(* The loop over results dereferences every element. *)
AddUp ==
    /\ CallerGoes("adding",
                  CASE NoResult \in Answers -> "threw"
                    [] NoResult \notin Answers /\ AnyRefused -> "refetching"
                    [] NoResult \notin Answers /\ ~AnyRefused -> "returned")
    /\ UNCHANGED refetched

UpdateAllLeverageBracketImpl ==
    /\ CallerGoes("refetching", "returned")
    /\ refetched' = TRUE

TaskStep(a) ==
    \/ EvaluateIndex(a)
    \/ APISetLeverageImpl(a) \/ APISetLeverageThrows(a)
    \/ StoreResult(a) \/ IndexOutOfRange(a)

CallerStep ==
    RunTask \/ IncrementIndex \/ WaitAll \/ AddUp \/ UpdateAllLeverageBracketImpl

LeverageNext == CallerStep \/ \E a \in SubAccounts : TaskStep(a)

(* The caller's thread runs, the thread pool runs every task it was given, *)
(* and a REST call returns.                                                *)
LeverageFairness ==
    /\ WF_leverageVars(CallerStep)
    /\ \A a \in SubAccounts : WF_leverageVars(TaskStep(a))

LeverageSpec == LeverageInit /\ [][LeverageNext]_leverageVars /\ LeverageFairness

-----------------------------------------------------------------------------
LeverageTypeOK ==
    /\ caller   \in {"spawning", "adding", "refetching", "returned", "threw"}
    /\ index    \in 0 .. N
    /\ task     \in [SubAccounts -> {"none", "created", "calling", "storing",
                                     "done", "faulted"}]
    /\ slot     \in [SubAccounts -> 0 .. N]
    /\ answer   \in [SubAccounts -> {"none", "set", "refused", "threw"}]
    /\ leverage \in [SubAccounts -> {"old", "new"}]
    /\ results  \in [SubAccounts -> SubAccounts \cup {NoResult}]
    /\ refetched \in BOOLEAN

(* When the sum is returned it has the answer of every sub-account, and    *)
(* each exactly once, whatever values of index the tasks saw: a collision  *)
(* or an index past the end never goes unnoticed.                          *)
EachAccountOnce ==
    caller \in {"refetching", "returned"} =>
        \A a \in SubAccounts :
            \E s \in SubAccounts :
                results[s] = a /\ \A r \in SubAccounts : results[r] = a => r = s

(* SetLeverage returns without an error message (so without refetching the *)
(* brackets) only if every account has the new leverage at the exchange.   *)
ReturnedMeansSet ==
    caller = "returned" /\ ~refetched =>
        \A a \in SubAccounts : leverage[a] = "new"

(* SetLeverage ends, by a return or by an exception, whatever the tasks do. *)
SetLeverageEnds == <>(caller \in {"returned", "threw"})
=============================================================================
