------------------------ MODULE UniqueIdGenerator_proofs ------------------------
(***************************************************************************)
(* While the clock is not set back, UniqueIdGenerator.Get returns ids that *)
(* increase, for any number of threads, any m_MaxSequence up to the factor *)
(* between timestamp and sequence number, and any course of the clock.     *)
(*                                                                         *)
(* IdsIncrease is not inductive: it does not bound the ids by what the     *)
(* generator remembers.  IdInv does: no id is above Highest, the last id   *)
(* while ms_Lock is free, and the last possible one of the millisecond     *)
(* while a caller waits for the next.                                      *)
(***************************************************************************)
EXTENDS UniqueIdGenerator, TLAPS

IdTypeOK ==
    /\ clock \in Nat /\ setBack \in BOOLEAN
    /\ ms_LastTimestamp \in Nat
    /\ m_Sequence \in 0 .. MaxSequence - 1
    /\ lock \in Callers \cup {Nobody}
    /\ issued \in Seq(Nat)

Highest ==
    ms_LastTimestamp * Width + (IF lock = Nobody THEN m_Sequence ELSE Width - 1)

IdInv ==
    /\ IdTypeOK
    /\ lock # Nobody => m_Sequence = 0
    /\ ~setBack => clock >= ms_LastTimestamp
    /\ ~setBack => \A i \in 1 .. Len(issued) : issued[i] <= Highest
    /\ IdsIncrease

(* The sequence number is the next one or wraps around to 0.               *)
LEMMA NextSequenceFact ==
    ASSUME m_Sequence \in 0 .. MaxSequence - 1
    PROVE  /\ NextSequence \in 0 .. MaxSequence - 1
           /\ NextSequence # 0 => NextSequence = m_Sequence + 1
<1>1. CASE m_Sequence + 1 < MaxSequence
  BY <1>1, IdAssumption DEF NextSequence
<1>2. CASE m_Sequence + 1 = MaxSequence
  BY <1>2, IdAssumption DEF NextSequence
<1> QED BY <1>1, <1>2, IdAssumption

(* A later millisecond has only ids above those of an earlier one.         *)
LEMMA LaterMillisecond ==
    ASSUME NEW T \in Nat, NEW U \in Nat, T < U
    PROVE  U * Width \in Nat /\ T * Width \in Nat /\ U * Width >= T * Width + Width
<1>1. PICK d \in Nat : U = T + 1 + d
  <2> WITNESS U - T - 1 \in Nat
  <2> QED OBVIOUS
<1>2. /\ (T + 1 + d) * Width = T * Width + Width + d * Width
      /\ d * Width \in Nat /\ T * Width \in Nat
  BY IdAssumption
<1> QED BY <1>1, <1>2, IdAssumption

(* Appending an id above all the others keeps them increasing.             *)
LEMMA AppendKeepsInv ==
    ASSUME IdInv, NEW timestamp \in Nat, NEW sequence \in 0 .. MaxSequence - 1,
           GetReturns(timestamp, sequence),
           ~setBack => clock >= timestamp,
           ~setBack => NewId(timestamp, sequence) > Highest
    PROVE  /\ IdInv'
           /\ issued'[Len(issued')] = Highest' /\ Highest' \in Nat
           /\ ~setBack => Highest' > Highest
           /\ setBack' = setBack
<1> DEFINE id == NewId(timestamp, sequence)
<1>1. id \in Nat /\ Highest' = id
  BY IdAssumption DEF GetReturns, NewId, Highest
<1>2. Highest \in Int
  BY IdAssumption DEF IdInv, IdTypeOK, Highest
<1> HIDE DEF id
<1>3. /\ issued' \in Seq(Nat)
      /\ Len(issued') = Len(issued) + 1
      /\ issued'[Len(issued) + 1] = id
      /\ \A i \in 1 .. Len(issued) : issued'[i] = issued[i] /\ issued[i] \in Nat
  BY <1>1 DEF GetReturns, IdInv, IdTypeOK, id
<1>4. IdTypeOK' /\ lock' = Nobody /\ setBack' = setBack /\ clock' = clock
      /\ ms_LastTimestamp' = timestamp
  BY <1>3 DEF GetReturns, IdInv, IdTypeOK, clockVars
<1>5. ASSUME ~setBack, NEW i \in 1 .. Len(issued) PROVE issued[i] < id
  BY <1>1, <1>2, <1>3, <1>5 DEF IdInv, id
<1>6. Len(issued) \in Nat
      /\ \A i \in 1 .. Len(issued') : i \in 1 .. Len(issued) \/ i = Len(issued) + 1
  BY <1>3 DEF IdInv, IdTypeOK
<1>7. ASSUME ~setBack, NEW i \in 1 .. Len(issued')
      PROVE  issued'[i] <= Highest'
  <2>1. CASE i \in 1 .. Len(issued)
    BY <1>1, <1>3, <1>5, <1>7, <2>1
  <2>2. CASE i = Len(issued) + 1
    BY <1>1, <1>3, <2>2
  <2> QED BY <1>6, <2>1, <2>2
<1>8. IdsIncrease'
  <2> SUFFICES ASSUME ~setBack, NEW i \in 1 .. Len(issued'),
                      NEW j \in 1 .. Len(issued'), i < j
               PROVE  issued'[i] < issued'[j]
    BY <1>4 DEF IdsIncrease
  <2>1. i \in 1 .. Len(issued)
    BY <1>3, <1>6
  <2>2. CASE j \in 1 .. Len(issued)
    BY <1>3, <2>1, <2>2 DEF IdInv, IdsIncrease
  <2>3. CASE j = Len(issued) + 1
    BY <1>3, <1>5, <2>1, <2>3
  <2> QED BY <1>6, <2>2, <2>3
<1>9. IdInv'
  BY <1>4, <1>7, <1>8, <1>1 DEF IdInv, IdTypeOK
<1> QED BY <1>1, <1>3, <1>4, <1>6, <1>9 DEF id

(* A Get that returns decides on a timestamp the clock has reached and on  *)
(* an id above all the ids before it.                                      *)
LEMMA GetIsAbove ==
    ASSUME IdInv, GetAtOnce \/ \E c \in Callers : WaitForNextTimestamp(c)
    PROVE  \E timestamp \in Nat, sequence \in 0 .. MaxSequence - 1 :
               /\ GetReturns(timestamp, sequence)
               /\ ~setBack => clock >= timestamp
               /\ ~setBack => NewId(timestamp, sequence) > Highest
<1> DEFINE Above ==
        \E timestamp \in Nat, sequence \in 0 .. MaxSequence - 1 :
            /\ GetReturns(timestamp, sequence)
            /\ ~setBack => clock >= timestamp
            /\ ~setBack => NewId(timestamp, sequence) > Highest
<1>1. CASE GetAtOnce
  <2>1. CASE clock # ms_LastTimestamp /\ GetReturns(clock, 0)
    <3>1. ~setBack => NewId(clock, 0) > Highest
      <4> SUFFICES ASSUME ~setBack PROVE NewId(clock, 0) > Highest
        OBVIOUS
      <4>1. ms_LastTimestamp < clock
        BY <2>1 DEF IdInv, IdTypeOK
      <4>2. /\ clock * Width \in Nat /\ ms_LastTimestamp * Width \in Nat
            /\ clock * Width >= ms_LastTimestamp * Width + Width
        BY <4>1, LaterMillisecond DEF IdInv, IdTypeOK
      <4> QED BY <1>1, <4>2, IdAssumption
              DEF GetAtOnce, NewId, Highest, IdInv, IdTypeOK
    <3>2. clock \in Nat /\ 0 \in 0 .. MaxSequence - 1
      BY IdAssumption DEF IdInv, IdTypeOK
    <3> QED BY <2>1, <3>1, <3>2
  <2>2. CASE /\ clock = ms_LastTimestamp
             /\ NextSequence # 0 /\ GetReturns(clock, NextSequence)
    <3>1. NextSequence \in 0 .. MaxSequence - 1 /\ NextSequence = m_Sequence + 1
      BY <2>2, NextSequenceFact DEF IdInv, IdTypeOK
    <3>2. lock = Nobody /\ clock \in Nat
      BY <1>1 DEF GetAtOnce, IdInv, IdTypeOK
    <3>3. clock * Width \in Nat
      BY <3>2, IdAssumption
    <3>4. NewId(clock, NextSequence) > Highest
      BY <2>2, <3>1, <3>2, <3>3, IdAssumption DEF NewId, Highest, IdInv, IdTypeOK
    <3> QED BY <2>2, <3>1, <3>2, <3>4 DEF IdInv, IdTypeOK
  <2> QED BY <1>1, <2>1, <2>2 DEF GetAtOnce
<1>2. ASSUME NEW c \in Callers, WaitForNextTimestamp(c) PROVE Above
  <2>1. /\ clock * Width \in Nat /\ ms_LastTimestamp * Width \in Nat
        /\ clock * Width >= ms_LastTimestamp * Width + Width
    BY <1>2, LaterMillisecond DEF WaitForNextTimestamp, IdInv, IdTypeOK
  <2>2. NewId(clock, m_Sequence) > Highest
    BY <1>2, <2>1, IdAssumption
       DEF WaitForNextTimestamp, NewId, Highest, IdInv, IdTypeOK
  <2>3. clock \in Nat /\ m_Sequence \in 0 .. MaxSequence - 1
    BY DEF IdInv, IdTypeOK
  <2> QED BY <1>2, <2>2, <2>3 DEF WaitForNextTimestamp, IdInv, IdTypeOK
<1> QED BY <1>1, <1>2

(* So what it returns is the new Highest, and greater than the old one.    *)
LEMMA GetReturnsHighest ==
    ASSUME IdInv, GetAtOnce \/ \E c \in Callers : WaitForNextTimestamp(c)
    PROVE  /\ IdInv'
           /\ issued'[Len(issued')] = Highest' /\ Highest' \in Nat
           /\ ~setBack => Highest' > Highest
           /\ setBack' = setBack
  BY GetIsAbove, AppendKeepsInv

(* Every other step of the generator leaves Highest where it is, or raises *)
(* it to the last id of the millisecond.                                   *)
LEMMA HighestGrows ==
    ASSUME IdInv, \/ \E c \in Callers : GetOverflows(c)
                  \/ Tick \/ StepBack \/ UNCHANGED idVars
    PROVE  /\ Highest \in Int /\ Highest' \in Int /\ Highest <= Highest'
           /\ ~setBack' => ~setBack
<1>1. ms_LastTimestamp * Width \in Nat /\ Highest \in Int
  BY IdAssumption DEF IdInv, IdTypeOK, Highest
<1>2. CASE \E c \in Callers : GetOverflows(c)
  BY <1>1, <1>2, IdAssumption
     DEF GetOverflows, clockVars, Highest, IdInv, IdTypeOK
<1>3. CASE Tick \/ StepBack \/ UNCHANGED idVars
  BY <1>1, <1>3 DEF Tick, StepBack, idVars, clockVars, getVars, Highest
<1> QED BY <1>2, <1>3

(* IdInv is inductive: one step per action.                                *)
LEMMA IdInvInductive == IdInv /\ [IdNext]_idVars => IdInv'
<1> SUFFICES ASSUME IdInv, [IdNext]_idVars PROVE IdInv'
  OBVIOUS
<1>1. CASE GetAtOnce \/ \E c \in Callers : WaitForNextTimestamp(c)
  BY <1>1, GetReturnsHighest
<1>2. ASSUME NEW c \in Callers, GetOverflows(c) PROVE IdInv'
  <2>1. Highest <= Highest' /\ Highest \in Int /\ Highest' \in Int
    BY <1>2, HighestGrows
  <2>2. \A i \in 1 .. Len(issued) : issued[i] \in Nat
    BY DEF IdInv, IdTypeOK
  <2> QED BY <1>2, <2>1, <2>2, IdAssumption
          DEF GetOverflows, clockVars, IdInv, IdTypeOK, IdsIncrease
<1>3. CASE Tick
  BY <1>3 DEF Tick, getVars, IdInv, IdTypeOK, Highest, IdsIncrease
<1>4. CASE StepBack
  BY <1>4, IdAssumption DEF StepBack, getVars, IdInv, IdTypeOK, Highest, IdsIncrease
<1>5. CASE UNCHANGED idVars
  BY <1>5 DEF idVars, clockVars, getVars, IdInv, IdTypeOK, Highest, IdsIncrease
<1> QED BY <1>1, <1>2, <1>3, <1>4, <1>5 DEF IdNext

(* The generator starts in IdInv.                                          *)
LEMMA IdInvInit == IdInit => IdInv
<1> SUFFICES ASSUME IdInit PROVE IdInv
  OBVIOUS
<1>1. issued \in Seq(Nat) /\ Len(issued) = 0
  BY DEF IdInit
<1>2. /\ clock \in Nat /\ ms_LastTimestamp = 0 /\ m_Sequence \in 0 .. MaxSequence - 1
      /\ m_Sequence = 0 /\ lock = Nobody
  BY IdAssumption DEF IdInit
<1>3. setBack \in BOOLEAN
  BY DEF IdInit
<1> QED BY <1>1, <1>2, <1>3 DEF IdInv, IdTypeOK, IdsIncrease

(* Whatever the threads and the clock do, IdInv holds.                     *)
THEOREM IdInvariant == IdSpec => []IdInv
<1> QED BY IdInvInit, IdInvInductive, PTL DEF IdSpec

(* As long as the clock was not set back, each id is greater than all the  *)
(* ids Get returned before.                                                *)
THEOREM Increasing == IdSpec => []IdsIncrease
<1>1. IdInv => IdsIncrease
  BY DEF IdInv
<1> QED BY <1>1, IdInvariant, PTL

(* As long as the clock was not set back, no id is returned twice.         *)
THEOREM Unique == IdSpec => [](~setBack => IdsAreUnique)
<1>1. IdInv => (~setBack => IdsAreUnique)
  <2> SUFFICES ASSUME IdInv, ~setBack,
                      NEW i \in 1 .. Len(issued), NEW j \in 1 .. Len(issued), i # j
               PROVE  issued[i] # issued[j]
    BY DEF IdsAreUnique
  <2>1. issued[i] \in Nat /\ issued[j] \in Nat
    BY DEF IdInv, IdTypeOK
  <2>2. CASE i < j
    BY <2>1, <2>2 DEF IdInv, IdsIncrease
  <2>3. CASE j < i
    BY <2>1, <2>3 DEF IdInv, IdsIncrease
  <2> QED BY <2>2, <2>3
<1> QED BY <1>1, IdInvariant, PTL
-----------------------------------------------------------------------------
(* After the clock was set back an id may be returned again, but never     *)
(* right after itself: whatever the clock does, two calls in a row get     *)
(* different ids.                                                          *)
NeighboursDiffer ==
    \A i \in 1 .. Len(issued) : i + 1 \in 1 .. Len(issued) => issued[i] # issued[i + 1]

(* The last id is of the millisecond the generator remembers, and while    *)
(* the lock is free it is the one with the sequence number it remembers.   *)
LastId ==
    Len(issued) # 0 =>
        \E sequence \in 0 .. MaxSequence - 1 :
            /\ issued[Len(issued)] = NewId(ms_LastTimestamp, sequence)
            /\ lock = Nobody => sequence = m_Sequence

(* Ids of different milliseconds differ. *)
LEMMA MillisecondsApart ==
    ASSUME NEW T \in Nat, NEW U \in Nat, T # U,
           NEW p \in 0 .. MaxSequence - 1, NEW q \in 0 .. MaxSequence - 1
    PROVE  NewId(T, p) # NewId(U, q)
<1>1. CASE T < U
  <2>1. T * Width \in Nat /\ U * Width \in Nat /\ U * Width >= T * Width + Width
    BY <1>1, LaterMillisecond
  <2> QED BY <2>1, IdAssumption DEF NewId
<1>2. CASE U < T
  <2>1. T * Width \in Nat /\ U * Width \in Nat /\ T * Width >= U * Width + Width
    BY <1>2, LaterMillisecond
  <2> QED BY <2>1, IdAssumption DEF NewId
<1> QED BY <1>1, <1>2

(* An id that differs from the last one may be appended. *)
LEMMA AppendKeepsNeighbours ==
    ASSUME IdInv, LastId, NeighboursDiffer,
           NEW timestamp \in Nat, NEW sequence \in 0 .. MaxSequence - 1,
           GetReturns(timestamp, sequence),
           Len(issued) # 0 => issued[Len(issued)] # NewId(timestamp, sequence)
    PROVE  LastId' /\ NeighboursDiffer'
<1> DEFINE id == NewId(timestamp, sequence)
<1>1. id \in Nat
  BY IdAssumption DEF NewId
<1>2. issued \in Seq(Nat) /\ issued' = Append(issued, id)
  BY DEF IdInv, IdTypeOK, GetReturns
<1> HIDE DEF id
<1>3. /\ Len(issued) \in Nat /\ Len(issued') = Len(issued) + 1
      /\ issued'[Len(issued) + 1] = id
      /\ \A i \in 1 .. Len(issued) : issued'[i] = issued[i]
  BY <1>1, <1>2
<1>4. LastId'
  BY <1>3 DEF LastId, GetReturns, id
<1>5. ASSUME NEW i \in 1 .. Len(issued'), i + 1 \in 1 .. Len(issued')
      PROVE  issued'[i] # issued'[i + 1]
  <2>1. i \in 1 .. Len(issued)
    BY <1>3, <1>5
  <2>2. CASE i + 1 \in 1 .. Len(issued)
    BY <1>3, <2>1, <2>2 DEF NeighboursDiffer
  <2>3. CASE i = Len(issued)
    BY <1>3, <2>1, <2>3 DEF id
  <2> QED BY <1>3, <2>1, <2>2, <2>3
<1> QED BY <1>4, <1>5 DEF NeighboursDiffer

(* Whatever the clock does, two calls in a row get different ids. *)
THEOREM Neighbours == IdSpec => []NeighboursDiffer
<1>1. IdInit => LastId /\ NeighboursDiffer
  BY DEF IdInit, LastId, NeighboursDiffer
<1>2. ASSUME IdInv, LastId, NeighboursDiffer, [IdNext]_idVars
      PROVE  LastId' /\ NeighboursDiffer'
  <2>0. /\ clock \in Nat /\ ms_LastTimestamp \in Nat
        /\ m_Sequence \in 0 .. MaxSequence - 1 /\ 0 \in 0 .. MaxSequence - 1
    BY <1>2, IdAssumption DEF IdInv, IdTypeOK
  <2>1. ASSUME NEW sequence \in 0 .. MaxSequence - 1, clock # ms_LastTimestamp,
               GetReturns(clock, sequence)
        PROVE  LastId' /\ NeighboursDiffer'
    <3>1. Len(issued) # 0 => issued[Len(issued)] # NewId(clock, sequence)
      BY <1>2, <2>0, <2>1, MillisecondsApart DEF LastId
    <3> QED BY <1>2, <2>0, <2>1, <3>1, AppendKeepsNeighbours
  <2>2. CASE GetAtOnce
    <3>1. CASE clock # ms_LastTimestamp /\ GetReturns(clock, 0)
      BY <2>0, <2>1, <3>1
    <3>2. CASE /\ clock = ms_LastTimestamp
               /\ NextSequence # 0 /\ GetReturns(clock, NextSequence)
      <4>1. NextSequence \in 0 .. MaxSequence - 1 /\ NextSequence = m_Sequence + 1
        BY <2>0, <3>2, NextSequenceFact
      <4>2. Len(issued) # 0 => issued[Len(issued)] = NewId(clock, m_Sequence)
        BY <1>2, <2>2, <3>2 DEF LastId, GetAtOnce
      <4>3. NewId(clock, NextSequence) # NewId(clock, m_Sequence)
        <5>1. clock * Width \in Nat
          BY <2>0, IdAssumption
        <5> QED BY <2>0, <4>1, <5>1 DEF NewId
      <4> QED BY <1>2, <2>0, <3>2, <4>1, <4>2, <4>3, AppendKeepsNeighbours
    <3> QED BY <2>2, <3>1, <3>2 DEF GetAtOnce
  <2>3. ASSUME NEW c \in Callers, WaitForNextTimestamp(c)
        PROVE  LastId' /\ NeighboursDiffer'
    BY <2>0, <2>1, <2>3 DEF WaitForNextTimestamp
  <2>4. ASSUME NEW c \in Callers, GetOverflows(c)
        PROVE  LastId' /\ NeighboursDiffer'
    BY <1>2, <2>4, IdAssumption DEF GetOverflows, LastId, NeighboursDiffer, NewId
  <2>5. CASE Tick \/ StepBack \/ UNCHANGED idVars
    BY <1>2, <2>5 DEF Tick, StepBack, idVars, getVars, LastId, NeighboursDiffer, NewId
  <2> QED BY <1>2, <2>2, <2>3, <2>4, <2>5 DEF IdNext
<1> QED BY <1>1, <1>2, IdInvariant, PTL DEF IdSpec
=============================================================================
