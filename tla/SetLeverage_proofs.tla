-------------------------- MODULE SetLeverage_proofs --------------------------
(***************************************************************************)
(* What SetLeverage returns, for any number of sub-accounts and whatever   *)
(* values of the shared variable index the tasks see.                      *)
(*                                                                         *)
(* LeverageInv says which task wrote which element of results and what a   *)
(* task that is done knows about the exchange.  With it results is an      *)
(* injection once no element is null, and an injection of a finite set     *)
(* into itself reaches every sub-account.                                  *)
(***************************************************************************)
EXTENDS SetLeverage, FiniteSetTheorems, TLAPS

(* The tasks are started in the order of the loop. *)
LoopInv ==
    /\ \A a \in SubAccounts : a < index => task[a] # "none"
    /\ \A a \in SubAccounts : a > index => task[a] = "none"

(* An element is written by a task that is done, the one that saw its index. *)
ResultsInv ==
    /\ \A s \in SubAccounts :
          results[s] # NoResult => task[results[s]] = "done" /\ slot[results[s]] = s
    /\ \A a \in SubAccounts :
          task[a] \in {"storing", "done"} => answer[a] \in {"set", "refused"}
    /\ \A a \in SubAccounts : answer[a] = "set" => leverage[a] = "new"
    /\ \A a \in SubAccounts :
          task[a] \in {"none", "created", "calling"} => answer[a] = "none"

(* What the caller has found out. *)
CallerInv ==
    /\ caller # "spawning" =>
          index = N /\ \A a \in SubAccounts : task[a] \in {"done", "faulted"}
    /\ caller \in {"refetching", "returned"} => NoResult \notin Answers
    /\ caller = "returned" /\ ~refetched => ~AnyRefused

LeverageInv == LeverageTypeOK /\ LoopInv /\ ResultsInv /\ CallerInv

(* The initial state satisfies LeverageInv. *)
LEMMA LeverageInvInit == LeverageInit => LeverageInv
<1> SUFFICES ASSUME LeverageInit PROVE LeverageInv
  OBVIOUS
<1>1. N \in Nat
  BY LeverageAssumption
<1>2. LeverageTypeOK
  <2>1. refetched \in BOOLEAN
    BY DEF LeverageInit
  <2>2. /\ caller = "spawning" /\ index \in 0 .. N
        /\ task   = [a \in SubAccounts |-> "none"]
        /\ slot   = [a \in SubAccounts |-> 0] /\ 0 \in 0 .. N
        /\ answer = [a \in SubAccounts |-> "none"]
        /\ leverage = [a \in SubAccounts |-> "old"]
        /\ results  = [s \in SubAccounts |-> NoResult]
    BY <1>1 DEF LeverageInit
  <2> QED BY <2>1, <2>2 DEF LeverageTypeOK
<1>3. LoopInv
  BY <1>1 DEF LeverageInit, LoopInv, SubAccounts
<1>4. ResultsInv /\ CallerInv
  BY DEF LeverageInit, ResultsInv, CallerInv
<1> QED BY <1>2, <1>3, <1>4 DEF LeverageInv

(* A step of the task of account a keeps LeverageInv. *)
LEMMA TaskKeepsInv ==
    ASSUME LeverageInv, NEW a \in SubAccounts, TaskStep(a)
    PROVE  LeverageInv'
<1>1. a < N /\ a # NoResult /\ N \in Nat
  BY LeverageAssumption DEF SubAccounts
<1>2. CASE EvaluateIndex(a)
  BY <1>1, <1>2 DEF EvaluateIndex, TaskGoes, LeverageInv, LeverageTypeOK, LoopInv,
     ResultsInv, CallerInv, Answers, AnyRefused
<1>3. CASE APISetLeverageImpl(a)
  BY <1>1, <1>3 DEF APISetLeverageImpl, TaskGoes, LeverageInv, LeverageTypeOK,
     LoopInv, ResultsInv, CallerInv, Answers, AnyRefused
<1>4. CASE APISetLeverageThrows(a)
  BY <1>1, <1>4 DEF APISetLeverageThrows, TaskGoes, LeverageInv, LeverageTypeOK,
     LoopInv, ResultsInv, CallerInv, Answers, AnyRefused
<1>5. CASE StoreResult(a)
  <2>1. /\ task[a] = "storing" /\ slot[a] \in SubAccounts
        /\ task' = [task EXCEPT ![a] = "done"]
        /\ results' = [results EXCEPT ![slot[a]] = a]
        /\ UNCHANGED <<caller, index, slot, answer, leverage, refetched>>
    BY <1>1, <1>5 DEF StoreResult, TaskGoes, LeverageInv, LeverageTypeOK, SubAccounts
  <2>2. LeverageTypeOK'
    BY <2>1 DEF LeverageInv, LeverageTypeOK
  <2>3. LoopInv'
    BY <2>1 DEF LeverageInv, LeverageTypeOK, LoopInv
  <2>4. ResultsInv'
    BY <1>1, <2>1 DEF LeverageInv, LeverageTypeOK, ResultsInv
  <2>5. CallerInv'
    BY <2>1 DEF LeverageInv, LeverageTypeOK, CallerInv
  <2> QED BY <2>2, <2>3, <2>4, <2>5 DEF LeverageInv
<1>6. CASE IndexOutOfRange(a)
  BY <1>1, <1>6 DEF IndexOutOfRange, TaskGoes, LeverageInv, LeverageTypeOK, LoopInv,
     ResultsInv, CallerInv, Answers, AnyRefused
<1> QED BY <1>2, <1>3, <1>4, <1>5, <1>6 DEF TaskStep

(* A step of the caller keeps LeverageInv. *)
LEMMA CallerKeepsInv ==
    ASSUME LeverageInv, CallerStep
    PROVE  LeverageInv'
<1>1. CASE RunTask
  BY <1>1, LeverageAssumption DEF RunTask, LeverageInv, LeverageTypeOK, LoopInv,
     ResultsInv, CallerInv, SubAccounts
<1>2. CASE IncrementIndex
  BY <1>2, LeverageAssumption DEF IncrementIndex, LeverageInv, LeverageTypeOK,
     LoopInv, ResultsInv, CallerInv, SubAccounts
<1>3. CASE WaitAll
  BY <1>3 DEF WaitAll, CallerGoes, LeverageInv, LeverageTypeOK, LoopInv,
     ResultsInv, CallerInv
<1>4. CASE AddUp
  BY <1>4 DEF AddUp, CallerGoes, LeverageInv, LeverageTypeOK, LoopInv,
     ResultsInv, CallerInv, Answers, AnyRefused
<1>5. CASE UpdateAllLeverageBracketImpl
  BY <1>5 DEF UpdateAllLeverageBracketImpl, CallerGoes, LeverageInv,
     LeverageTypeOK, LoopInv, ResultsInv, CallerInv, Answers, AnyRefused
<1> QED BY <1>1, <1>2, <1>3, <1>4, <1>5 DEF CallerStep

(* LeverageInv holds in every state of every execution. *)
THEOREM LeverageInvariant == LeverageSpec => []LeverageInv
<1>1. LeverageInv /\ [LeverageNext]_leverageVars => LeverageInv'
  <2>1. ASSUME LeverageInv, UNCHANGED leverageVars PROVE LeverageInv'
    BY <2>1 DEF leverageVars, LeverageInv, LeverageTypeOK, LoopInv, ResultsInv,
       CallerInv, Answers, AnyRefused
  <2> QED BY <2>1, TaskKeepsInv, CallerKeepsInv DEF LeverageNext
<1> QED BY <1>1, LeverageInvInit, PTL DEF LeverageSpec

(* Every variable of SetLeverage keeps its type; no task writes outside    *)
(* the array.                                                              *)
THEOREM LeverageTypes == LeverageSpec => []LeverageTypeOK
<1>1. LeverageInv => LeverageTypeOK
  BY DEF LeverageInv
<1> QED BY <1>1, LeverageInvariant, PTL

(* Once no element is null, each sub-account is the value of one element.  *)
LEMMA ResultsReachEveryAccount ==
    ASSUME LeverageInv, NoResult \notin Answers, NEW a \in SubAccounts
    PROVE  \E s \in SubAccounts :
               results[s] = a /\ \A r \in SubAccounts : results[r] = a => r = s
<1>1. results \in [SubAccounts -> SubAccounts]
  BY DEF LeverageInv, LeverageTypeOK, Answers
<1>2. \A s \in SubAccounts : slot[results[s]] = s
  BY DEF LeverageInv, ResultsInv, Answers
<1>3. results \in Injection(SubAccounts, SubAccounts)
  BY <1>1, <1>2 DEF Injection, IsInjective
<1>4. IsFiniteSet(SubAccounts)
  BY FS_Interval, LeverageAssumption DEF SubAccounts
<1>5. results \in Surjection(SubAccounts, SubAccounts)
  BY <1>3, <1>4, FS_Injection
<1> QED BY <1>2, <1>5 DEF Surjection

(* The sum SetLeverage returns has the answer of every sub-account once.   *)
THEOREM OnceEach == LeverageSpec => []EachAccountOnce
<1>1. LeverageInv => EachAccountOnce
  BY ResultsReachEveryAccount DEF LeverageInv, CallerInv, EachAccountOnce
<1> QED BY <1>1, LeverageInvariant, PTL

(* A return without an error message means the new leverage everywhere.    *)
THEOREM SetEverywhere == LeverageSpec => []ReturnedMeansSet
<1>1. ASSUME LeverageInv, caller = "returned", ~refetched, NEW a \in SubAccounts
      PROVE  leverage[a] = "new"
  <2>1. NoResult \notin Answers /\ ~AnyRefused
    BY <1>1 DEF LeverageInv, CallerInv
  <2>2. PICK s \in SubAccounts : results[s] = a
    BY <1>1, <2>1, ResultsReachEveryAccount
  <2>3. a \in Answers \ {NoResult} /\ task[a] = "done"
    BY <1>1, <2>1, <2>2 DEF Answers, LeverageInv, ResultsInv
  <2> QED BY <1>1, <2>1, <2>3 DEF AnyRefused, LeverageInv, ResultsInv
<1>2. LeverageInv => ReturnedMeansSet
  BY <1>1 DEF ReturnedMeansSet
<1> QED BY <1>2, LeverageInvariant, PTL
-----------------------------------------------------------------------------
(* After the return, and why SetLeverage may throw.                        *)

(* No task outlives SetLeverage: once it adds up, returns or throws, no    *)
(* further request sets a leverage and nothing writes to results.          *)
QuietAfterWaitAll ==
    [][caller # "spawning" =>
         UNCHANGED <<index, task, slot, answer, leverage, results>>]_leverageVars

(* WaitAll waits for the faulted tasks too. *)
THEOREM NoTaskOutlives == LeverageSpec => QuietAfterWaitAll
<1>1. ASSUME LeverageInv, [LeverageNext]_leverageVars, caller # "spawning"
      PROVE  UNCHANGED <<index, task, slot, answer, leverage, results>>
  <2>1. \A a \in SubAccounts : ~TaskStep(a)
    BY <1>1 DEF LeverageInv, CallerInv, TaskStep, EvaluateIndex, APISetLeverageImpl,
       APISetLeverageThrows, StoreResult, IndexOutOfRange, TaskGoes
  <2> QED
    BY <1>1, <2>1 DEF LeverageNext, CallerStep, RunTask, IncrementIndex, WaitAll, AddUp,
       UpdateAllLeverageBracketImpl, CallerGoes, leverageVars
<1> QED BY <1>1, LeverageInvariant, PTL DEF LeverageSpec, QuietAfterWaitAll

(* A request failed without data, or the tasks did not see the values of   *)
(* index they were started with: one saw the end of the loop, or two saw   *)
(* the same.                                                               *)
SomethingWentWrong ==
    \/ \E a \in SubAccounts : answer[a] = "threw" \/ slot[a] = N
    \/ \E a, b \in SubAccounts : a # b /\ slot[a] = slot[b]

(* SetLeverage throws for one of these reasons and for no other, and when  *)
(* one of them is there it never returns.                                  *)
ThrowsForAReason ==
    /\ caller = "threw" => SomethingWentWrong
    /\ caller \in {"refetching", "returned"} => ~SomethingWentWrong

ReasonInv ==
    /\ \A a \in SubAccounts :
         /\ task[a] = "done" => slot[a] \in SubAccounts /\ results[slot[a]] # NoResult
         /\ task[a] = "faulted" => answer[a] = "threw" \/ slot[a] = N
    /\ caller = "adding" => \A a \in SubAccounts : task[a] = "done"
    /\ caller = "threw" => SomethingWentWrong

(* An element that nobody wrote means that two tasks wrote the same one.   *)
LEMMA NullMeansCollision ==
    ASSUME LeverageInv, ReasonInv, \A a \in SubAccounts : task[a] = "done",
           NoResult \in Answers
    PROVE  SomethingWentWrong
<1> SUFFICES ASSUME \A a, b \in SubAccounts : slot[a] = slot[b] => a = b PROVE FALSE
  BY DEF SomethingWentWrong
<1>1. slot \in [SubAccounts -> SubAccounts]
  BY DEF LeverageInv, LeverageTypeOK, ReasonInv
<1>2. slot \in Injection(SubAccounts, SubAccounts)
  BY <1>1 DEF Injection, IsInjective
<1>3. slot \in Surjection(SubAccounts, SubAccounts)
  BY <1>2, FS_Interval, FS_Injection, LeverageAssumption DEF SubAccounts
<1>4. PICK s \in SubAccounts : results[s] = NoResult
  BY DEF Answers
<1>5. PICK a \in SubAccounts : slot[a] = s
  BY <1>3 DEF Surjection
<1> QED BY <1>4, <1>5 DEF ReasonInv

(* Every step keeps what is known of the reasons. *)
LEMMA ReasonKeeps ==
    ASSUME LeverageInv, ReasonInv, [LeverageNext]_leverageVars PROVE ReasonInv'
<1> USE LeverageAssumption DEF ReasonInv, SomethingWentWrong
<1>n. N \notin SubAccounts
  BY DEF SubAccounts
<1>1. ASSUME NEW a \in SubAccounts, TaskStep(a) PROVE ReasonInv'
  <2>0. caller = "spawning" /\ caller' = caller
    BY <1>1 DEF TaskStep, EvaluateIndex, APISetLeverageImpl, APISetLeverageThrows,
       StoreResult, IndexOutOfRange, TaskGoes, LeverageInv, CallerInv
  <2>1. CASE EvaluateIndex(a) \/ APISetLeverageImpl(a) \/ APISetLeverageThrows(a)
    BY <2>0, <2>1 DEF EvaluateIndex, APISetLeverageImpl, APISetLeverageThrows, TaskGoes,
       LeverageInv, LeverageTypeOK
  <2>2. CASE StoreResult(a)
    <3>1. slot[a] \in SubAccounts /\ a # NoResult
      BY <2>2 DEF StoreResult, LeverageInv, LeverageTypeOK, SubAccounts
    <3> QED BY <2>0, <2>2, <3>1 DEF StoreResult, TaskGoes, LeverageInv, LeverageTypeOK
  <2>3. CASE IndexOutOfRange(a)
    BY <2>0, <2>3 DEF IndexOutOfRange, TaskGoes, LeverageInv, LeverageTypeOK
  <2> QED BY <1>1, <2>1, <2>2, <2>3 DEF TaskStep
<1>2. CASE RunTask \/ IncrementIndex
  BY <1>2 DEF RunTask, IncrementIndex, LeverageInv, LeverageTypeOK
<1>3. CASE WaitAll
  BY <1>3 DEF WaitAll, CallerGoes
<1>4. CASE AddUp
  <2>1. UNCHANGED <<index, task, slot, answer, leverage, results>>
    BY <1>4 DEF AddUp, CallerGoes
  <2>2. /\ caller = "adding" /\ caller' # "adding"
        /\ caller' = "threw" => NoResult \in Answers
    BY <1>4 DEF AddUp, CallerGoes
  <2>3. NoResult \in Answers => SomethingWentWrong
    BY <2>2, NullMeansCollision
  <2> QED BY <2>1, <2>2, <2>3
<1>5. CASE UpdateAllLeverageBracketImpl \/ UNCHANGED leverageVars
  BY <1>5 DEF UpdateAllLeverageBracketImpl, CallerGoes, leverageVars
<1> QED BY <1>1, <1>2, <1>3, <1>4, <1>5 DEF LeverageNext, CallerStep

(* What is returned has been written by tasks that each saw their index.   *)
LEMMA ReturnsWithoutReason ==
    ASSUME LeverageInv, caller \in {"refetching", "returned"}
    PROVE  ~SomethingWentWrong
<1>1. \A a \in SubAccounts : \E s \in SubAccounts : results[s] = a
  BY ResultsReachEveryAccount DEF LeverageInv, CallerInv
<1>2. \A a \in SubAccounts : /\ task[a] = "done" /\ slot[a] \in SubAccounts
                             /\ results[slot[a]] = a
  BY <1>1, LeverageAssumption DEF LeverageInv, ResultsInv
<1>3. \A a \in SubAccounts : answer[a] # "threw" /\ slot[a] # N
  BY <1>2, LeverageAssumption DEF LeverageInv, ResultsInv, SubAccounts
<1> QED BY <1>2, <1>3 DEF SomethingWentWrong

(* An exception of SetLeverage has a request or the shared index to blame. *)
THEOREM ThrowsOnlyForAReason == LeverageSpec => []ThrowsForAReason
<1>1. LeverageInit => ReasonInv
  BY DEF LeverageInit, ReasonInv
<1>2. LeverageInv /\ ReasonInv /\ [LeverageNext]_leverageVars => ReasonInv'
  BY ReasonKeeps
<1>3. LeverageInv /\ ReasonInv => ThrowsForAReason
  BY ReturnsWithoutReason DEF ReasonInv, ThrowsForAReason
<1> QED BY <1>1, <1>2, <1>3, LeverageInvariant, PTL DEF LeverageSpec
=============================================================================
