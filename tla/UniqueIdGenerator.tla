--------------------------- MODULE UniqueIdGenerator ---------------------------
(***************************************************************************)
(* UniqueIdGenerator.Get, called by any number of threads.                 *)
(*                                                                         *)
(* Get runs under ms_Lock and is one step, unless the sequence numbers of  *)
(* the millisecond are used up: then the caller keeps the lock and polls   *)
(* the clock until it has gone past ms_LastTimestamp.                      *)
(*                                                                         *)
(* The clock is DateTimeOffset.UtcNow in milliseconds.  It advances on its *)
(* own, and an adjustment of the system time may set it back.  Bounds of   *)
(* the model: the clock runs at most MaxLead ahead of the last Get, and is *)
(* set back once, by at most MaxStepBack.                                  *)
(***************************************************************************)
EXTENDS Integers, Sequences

CONSTANTS
    Callers,      \* the threads that call Get
    MaxSequence,  \* m_MaxSequence, 999 in the code
    Width,        \* the factor between timestamp and sequence, 1000 in the code
    MaxLead,
    MaxStepBack,
    Nobody        \* ms_Lock is free

ASSUME IdAssumption ==
    /\ MaxSequence \in Nat \ {0}
    /\ Width \in Nat /\ MaxSequence <= Width
    /\ MaxLead \in Nat \ {0}
    /\ MaxStepBack \in Nat
    /\ Nobody \notin Callers

VARIABLES
    clock,             \* the system time
    setBack,           \* whether it was ever set back
    ms_LastTimestamp,
    m_Sequence,
    lock,              \* the caller that keeps ms_Lock while it polls the clock
    issued             \* the ids returned so far, in the order of the returns

clockVars == <<clock, setBack>>
getVars   == <<ms_LastTimestamp, m_Sequence, lock, issued>>
idVars    == <<clockVars, getVars>>

IdInit ==
    /\ clock \in 1 .. MaxLead
    /\ setBack = FALSE
    /\ ms_LastTimestamp = 0
    /\ m_Sequence = 0
    /\ lock = Nobody
    /\ issued = <<>>

NewId(timestamp, sequence) == timestamp * Width + sequence

(* Get returns with the timestamp and the sequence number it decided on. *)
GetReturns(timestamp, sequence) ==
    /\ ms_LastTimestamp' = timestamp
    /\ m_Sequence' = sequence
    /\ issued' = Append(issued, NewId(timestamp, sequence))
    /\ lock' = Nobody
    /\ UNCHANGED clockVars

NextSequence == (m_Sequence + 1) % MaxSequence

(* A Get that finds ms_Lock free and need not wait. *)
GetAtOnce ==
    /\ lock = Nobody
    /\ \/ clock # ms_LastTimestamp /\ GetReturns(clock, 0)
       \/ /\ clock = ms_LastTimestamp
          /\ NextSequence # 0
          /\ GetReturns(clock, NextSequence)

(* The sequence overflows: caller c waits inside the lock. *)
GetOverflows(c) ==
    /\ lock = Nobody
    /\ clock = ms_LastTimestamp
    /\ NextSequence = 0
    /\ m_Sequence' = 0
    /\ lock' = c
    /\ UNCHANGED <<clockVars, ms_LastTimestamp, issued>>

(* Mutant of WaitForNextTimestamp: "<" for "<=" in the polling loop. *)
WaitForThisTimestamp(c) ==
    /\ lock = c
    /\ clock >= ms_LastTimestamp
    /\ GetReturns(clock, m_Sequence)

WaitForNextTimestamp(c) ==
    /\ lock = c
    /\ clock > ms_LastTimestamp
    /\ GetReturns(clock, m_Sequence)

Tick ==
    /\ clock < ms_LastTimestamp + MaxLead
    /\ clock' = clock + 1
    /\ UNCHANGED <<setBack, getVars>>

StepBack ==
    /\ ~setBack
    /\ setBack' = TRUE
    /\ \E d \in 1 .. MaxStepBack : d < clock /\ clock' = clock - d
    /\ UNCHANGED getVars

IdNext ==
    \/ GetAtOnce
    \/ \E c \in Callers : GetOverflows(c) \/ WaitForNextTimestamp(c)
    \/ Tick \/ StepBack

IdSpec == IdInit /\ [][IdNext]_idVars

-----------------------------------------------------------------------------
(* As long as the clock was not set back, every id is greater than all the *)
(* ids returned before it: also across the wait for the next millisecond   *)
(* and whichever threads called.                                           *)
IdsIncrease ==
    ~setBack =>
        \A i, j \in 1 .. Len(issued) : i < j => issued[i] < issued[j]

(* "生成唯一订单ID": no two calls return the same id. *)
IdsAreUnique ==
    \A i, j \in 1 .. Len(issued) : i # j => issued[i] # issued[j]
=============================================================================
