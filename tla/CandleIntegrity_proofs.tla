------------------------ MODULE CandleIntegrity_proofs -------------------------
(***************************************************************************)
(* The check of the stored candles, for any symbols, bar sizes, calendars  *)
(* and tables and any number of starts and crashes.                        *)
(*                                                                         *)
(* VerifiedDaysAccounted follows the search: a time between the listing    *)
(* and the last candle seen is accounted for or lies in a gap found so far *)
(* (InGap); when a gap is dealt with, its days are in the tasks, then      *)
(* perhaps in failedDateTime, and then have a full file or are given up    *)
(* (Pending); and a file is torn only for a reason that is remembered      *)
(* (TornExplained), which is what makes it right to skip files that exist. *)
(***************************************************************************)
EXTENDS CandleIntegrity, TLAPS

InPass == pc \in {"scan", "gaps", "download", "fallback"}

(* A record is empty, or reaches from the listing to the start of a day. *)
GoodRecord(r, s) ==
    \/ r = Never
    \/ \E d \in Days : r = [start |-> OnBoard[s], end |-> Midnight(d)]

DoneRecord(s) == [start |-> OnBoard[s], end |-> now]

NowIsMidnight ==
    pc # "down" => \E d \in FirstDay..day : now = Midnight(d)

RecordsGood ==
    \A s \in Symbols : GoodRecord(json[s], s) /\ GoodRecord(record[s], s)

FetchInOrder ==
    /\ pc # "download" => days = {}
    /\ pc \notin {"download", "fallback"} => failed = {}
    /\ days \cap failed = {}
    /\ \A d \in days \cup failed : d < day
    /\ \A d \in failed : file[File(d)] # "full"

TornExplained ==
    \A f \in Dated : file[f] = "torn" =>
        f \in gaveUp \cup cut \cup {File(d) : d \in failed}

GapsInOrder ==
    /\ ~InPass => gaps = {}
    /\ pc # "scan" => rest = {}
    /\ rest \subseteq table[sym][Size]
    /\ \A g \in gaps : g[2] = now \/ g[2] \in table[sym][Size]

RecordAccounted ==
    \A s \in Symbols : \A t \in Range(record[s]) : Accounted(s, First, t)

InGap(t) == \E g \in gaps : g[1] <= t /\ t < g[2]
Pending(t) == DayOf(t) \in days \cup failed

(* How far the search of the first bar size has come. *)
Searched ==
    InPass /\ bar = 1 =>
        \A t \in Times :
            /\ OnBoard[sym] <= t
            /\ IF pc = "scan" THEN t <= prev ELSE t < now
            => Accounted(sym, First, t) \/ InGap(t) \/ Pending(t)

(* The records of the symbols that are done speak of this pass. *)
PassRecords ==
    /\ InPass => /\ sym \notin todo
                 /\ bar > 1 => record[sym] = DoneRecord(sym)
                 /\ \A s \in Symbols \ (todo \cup {sym}) : record[s] = DoneRecord(s)
    /\ pc = "symbols" => \A s \in Symbols \ todo : record[s] = DoneRecord(s)
    /\ pc = "write" => record = [s \in Symbols |-> DoneRecord(s)]

IInv ==
    /\ IntegrityTypeOK /\ NowIsMidnight /\ RecordsGood /\ FetchInOrder
    /\ TornExplained /\ GapsInOrder /\ RecordAccounted /\ Searched
    /\ PassRecords /\ NoUnfinishedDay /\ RecordsTogether
    /\ VerifiedDaysAccounted

-----------------------------------------------------------------------------
(* The constants. *)

LEMMA CalendarFacts ==
    /\ First \in Sizes /\ Interval[First] = 1
    /\ \A z \in Sizes : Interval[z] \in Nat /\ Interval[z] > 0
    /\ \A d \in Days : d \in Nat /\ Midnight(d) \in Times /\ DayOf(Midnight(d)) = d
    /\ \A t \in Times : t \in Nat /\ t > 0 /\ DayOf(t) \in Days
    /\ \A s \in Symbols : OnBoard[s] \in Times
    /\ FirstDay..LastDay \subseteq Days
<1>1. Midnight(LastDay) \in Times /\ LastDay \in Days
  BY DayAssumption, MidnightAssumption DEF Days
<1>2. Midnight(LastDay) \in Int \/ Times = {}
  BY <1>1 DEF Times
<1> QED
  BY <1>1, StrategyAssumption, DayAssumption, MidnightAssumption,
     TableAssumption
     DEF First, Sizes, Days, Times

(* What the leaves below need of the types. *)
LEMMA StateFacts ==
    ASSUME IInv
    PROVE  /\ sym \in Symbols /\ Size \in Sizes /\ (bar = 1 => Size = First)
           /\ \A d \in Days : File(d) \in Dated
           /\ \A s \in Symbols, z \in Sizes : \A t \in table[s][z] :
                t \in Times /\ DayOf(t) <= FirstDay
           /\ day \in Nat /\ day <= LastDay /\ FirstDay <= day /\ day \in Days
           /\ pc # "down" => now \in Times /\ DayOf(now) <= day
           /\ \A g \in gaps : /\ g[1] \in Times /\ g[2] \in Times
                              /\ g \in Times \X Times
                              /\ DayOf(g[2]) <= day
<1>1. sym \in Symbols /\ bar \in 1..Len(BarSizes)
  BY DEF IInv, IntegrityTypeOK
<1>2. Size \in Sizes /\ (bar = 1 => Size = First)
  BY <1>1 DEF Size, Sizes, First
<1>3. \A d \in Days : File(d) \in Dated
  BY <1>1, <1>2 DEF File, Dated
<1>4. \A s \in Symbols, z \in Sizes : \A t \in table[s][z] :
         t \in Times /\ DayOf(t) <= FirstDay
  <2>1. table \in Tables
    BY DEF IInv, IntegrityTypeOK
  <2> QED BY <2>1, TableAssumption
<1>5. day \in Nat /\ day <= LastDay /\ FirstDay <= day /\ day \in Days
  <2>1. day \in FirstDay..LastDay
    BY DEF IInv, IntegrityTypeOK
  <2> QED BY <2>1, DayAssumption DEF Days
<1>6. pc # "down" => now \in Times /\ DayOf(now) <= day
  <2> SUFFICES ASSUME pc # "down" PROVE now \in Times /\ DayOf(now) <= day
    OBVIOUS
  <2>1. PICK d \in FirstDay..day : now = Midnight(d)
    BY DEF IInv, NowIsMidnight
  <2>2. d \in Days /\ d <= day
    BY <1>5, DayAssumption DEF Days
  <2> QED BY <2>1, <2>2, CalendarFacts
<1>7. \A g \in gaps : /\ g[1] \in Times /\ g[2] \in Times
                     /\ g \in Times \X Times
  BY DEF IInv, IntegrityTypeOK
<1>8. \A g \in gaps : DayOf(g[2]) <= day
  <2> TAKE g \in gaps
  <2>1. InPass /\ (g[2] = now \/ g[2] \in table[sym][Size])
    BY DEF IInv, GapsInOrder
  <2>2. CASE g[2] = now
    BY <1>6, <2>1, <2>2 DEF InPass
  <2>3. CASE g[2] \in table[sym][Size]
    <3>1. DayOf(g[2]) <= FirstDay /\ DayOf(g[2]) \in Nat
      BY <1>1, <1>2, <1>4, <2>3, CalendarFacts
    <3> QED BY <1>5, <3>1, DayAssumption
  <2> QED BY <2>1, <2>2, <2>3
<1> QED BY <1>1, <1>2, <1>3, <1>4, <1>5, <1>6, <1>7, <1>8

(* The gap that ends at t. *)
LEMMA MissingFacts ==
    ASSUME IInv, NEW t \in Times
    PROVE  \A g \in Missing(t) : /\ g[1] \in Times /\ g[2] = t
                                 /\ g \in Times \X Times
<1>1. prev \in Nat /\ Interval[Size] \in Nat /\ Interval[Size] > 0
  <2>1. prev \in Nat
    BY DEF IInv, IntegrityTypeOK
  <2> QED BY <2>1, StateFacts, CalendarFacts
<1>2. t \in Nat /\ t <= Midnight(LastDay) /\ Midnight(LastDay) \in Int
  <2>1. Midnight(LastDay) \in Times
    BY CalendarFacts, DayAssumption DEF Days
  <2> QED BY <2>1, CalendarFacts DEF Times
<1>3. t > prev + Interval[Size] => prev + Interval[Size] \in Times
  BY <1>1, <1>2 DEF Times
<1> QED BY <1>3 DEF Missing

(* What GetMissingIntervals starts with. *)
LEMMA ExamineFacts ==
    ASSUME IInv, pc # "down", NEW s \in Symbols, NEW b \in 1..Len(BarSizes),
           Examine(s, b)
    PROVE  /\ bar' = b /\ prev' \in Nat /\ prev' = OnBoard[s]
           /\ rest' \subseteq Times /\ gaps' \subseteq Times \X Times
           /\ \A g \in gaps' : g[2] = now
           /\ rest' = table[s][BarSizes[b]]
           /\ \/ pc' = "gaps" /\ gaps' = {<<OnBoard[s], now>>} /\ rest' = {}
              \/ pc' = "scan" /\ gaps' = {}
<1>1. OnBoard[s] \in Times /\ OnBoard[s] \in Nat /\ now \in Times
  BY CalendarFacts, StateFacts
<1>2. table[s][BarSizes[b]] \subseteq Times
  BY StateFacts DEF Sizes
<1> QED BY <1>1, <1>2 DEF Examine

(* What a stop or a crash leaves. *)
LEMMA MemoryFacts ==
    ASSUME MemoryGoes
    PROVE  /\ pc' = "down" /\ now' = 0 /\ record' = [s \in Symbols |-> Never]
           /\ todo' = {} /\ bar' = 1 /\ bar' \in 1..Len(BarSizes)
           /\ prev' = 0 /\ rest' = {} /\ gaps' = {} /\ days' = {} /\ failed' = {}
           /\ record' \in [Symbols -> Record]
           /\ day' = day /\ table' = table /\ json' = json
           /\ jsonState' = jsonState /\ sym' = sym /\ gaveUp' = gaveUp
<1>1. Never \in Record /\ 1 \in 1..Len(BarSizes)
  BY StrategyAssumption DEF Never, Record
<1> QED BY <1>1 DEF MemoryGoes, world

(* The files of different days are different. *)
LEMMA FileOne ==
    \A d, e : File(d) = File(e) => d = e
  BY DEF File

(* A crash tears some of the files that are being fetched. *)
LEMMA CrashFacts ==
    ASSUME IInv, Crash
    PROVE  /\ MemoryGoes
           /\ \E files \in SUBSET {File(d) : d \in days \cup failed} :
                /\ \A f \in files : file[f] # "full"
                /\ file' = [f \in Dated |-> IF f \in files THEN "torn" ELSE file[f]]
                /\ cut' = cut \cup {f \in {File(d) : d \in days \cup failed} :
                                      file'[f] = "torn"}
<1>1. PICK caught \in InFlight :
        LET files == {File(d) : d \in caught} IN
        /\ file' = [f \in Dated |-> IF f \in files THEN "torn" ELSE file[f]]
        /\ cut' = cut \cup {f \in {File(d) : d \in days \cup failed} :
                              file'[f] = "torn"}
  BY DEF Crash
<1>2. \A d \in caught : d \in days \cup failed /\ file[File(d)] # "full"
  BY <1>1 DEF InFlight, IInv, FetchInOrder
<1>3. /\ {File(d) : d \in caught} \in SUBSET {File(d) : d \in days \cup failed}
      /\ \A f \in {File(d) : d \in caught} : file[f] # "full"
  BY <1>2
<1> QED BY <1>1, <1>3 DEF Crash

-----------------------------------------------------------------------------

(* Every step leaves every variable its type. *)
LEMMA TypesKeep ==
    ASSUME IInv, [Next]_vars PROVE IntegrityTypeOK'
<1>1. CASE OnStart
  BY <1>1, CalendarFacts
     DEF OnStart, ghost, IntegrityTypeOK, fetch, scan, disk, world, IInv
<1>2. ASSUME NEW s \in Symbols, VerifySymbol(s) PROVE IntegrityTypeOK'
  <2>1. Examine(s, 1) /\ pc # "down" /\ 1 \in 1..Len(BarSizes)
    BY <1>2, StrategyAssumption DEF VerifySymbol
  <2>2. /\ bar' \in 1..Len(BarSizes) /\ prev' \in Nat
        /\ rest' \subseteq Times /\ gaps' \subseteq Times \X Times
        /\ pc' \in {"gaps", "scan"}
    BY <2>1, ExamineFacts
  <2> QED
    BY <1>2, <2>2
       DEF VerifySymbol, world, disk, scan, fetch, ghost, IInv, IntegrityTypeOK,
           FetchInOrder, GapsInOrder, Record, Never
<1>3. ASSUME NEW c \in rest, ScanCandle(c) PROVE IntegrityTypeOK'
  BY <1>3, MissingFacts, CalendarFacts
     DEF ScanCandle, ghost, IntegrityTypeOK, fetch, disk, world, IInv
<1>4. CASE ScanEnds
  BY <1>4, MissingFacts, StateFacts
     DEF ScanEnds, ghost, IntegrityTypeOK, fetch, scan, disk, world, IInv
<1>5. ASSUME NEW g \in gaps, SkipGap(g) PROVE IntegrityTypeOK'
  BY <1>5
     DEF SkipGap, ghost, IntegrityTypeOK, fetch, scan, disk, world, IInv
<1>6. ASSUME NEW g \in gaps, APIQueryCandleData(g) PROVE IntegrityTypeOK'
  <2>1. DaysBefore(g) \subseteq Days
    <3>1. g \in Times \X Times
      BY DEF IInv, IntegrityTypeOK, FetchInOrder, GapsInOrder, Record, Never
    <3>2. DayOf(g[1]) \in Nat /\ DayOf(g[2]) \in Nat /\ DayOf(g[2]) <= LastDay
      BY <3>1, CalendarFacts, DayAssumption DEF Days
    <3> QED BY <3>2, DayAssumption DEF DaysBefore, Days
  <2> QED
    BY <1>6, <2>1
       DEF APIQueryCandleData, NextGap, world, disk, scan, fetch, ghost, IInv,
           IntegrityTypeOK, FetchInOrder, GapsInOrder, Record, Never
<1>7. ASSUME NEW d \in days, Task(d) PROVE IntegrityTypeOK'
  BY <1>7
     DEF TaskEnds, TaskFails, TaskDownloads, TaskSkips, Task, ghost,
         IntegrityTypeOK, scan, world, IInv
<1>8. CASE DownloadsEnd
  BY <1>8
     DEF DownloadsEnd, ghost, IntegrityTypeOK, fetch, scan, disk, world, IInv
<1>9. ASSUME NEW d \in failed, Query(d) PROVE IntegrityTypeOK'
  BY <1>9, StateFacts
     DEF QueryEnds, QueryFails, QueryWritesCSV, Query, IntegrityTypeOK, scan,
         world, IInv
<1>10. CASE QueriesEnd
  BY <1>10
     DEF QueriesEnd, ghost, IntegrityTypeOK, fetch, scan, disk, world, IInv
<1>11. CASE StrategyDone
  <2>1. /\ bar' \in 1..Len(BarSizes) /\ prev' \in Nat
        /\ rest' \subseteq Times /\ gaps' \subseteq Times \X Times
        /\ pc' \in {"gaps", "scan", "symbols"}
    <3>1. CASE bar < Len(BarSizes)
      <4>1. Examine(sym, bar + 1) /\ bar + 1 \in 1..Len(BarSizes)
        BY <1>11, <3>1, StrategyAssumption
           DEF StrategyDone, NextStrategy, IntegrityTypeOK, IInv
      <4> QED BY <1>11, <4>1, ExamineFacts, StateFacts DEF StrategyDone
    <3>2. CASE ~(bar < Len(BarSizes))
      BY <1>11, <3>2 DEF StrategyDone, NextStrategy, scan, IInv, IntegrityTypeOK
    <3> QED BY <3>1, <3>2
  <2>2. record' \in [Symbols -> Record]
    <3>1. OnBoard[sym] \in Nat /\ now \in Nat
      BY CalendarFacts, StateFacts DEF IInv, IntegrityTypeOK
    <3> QED BY <1>11, <3>1 DEF StrategyDone, IInv, IntegrityTypeOK, Record
  <2> QED
    BY <1>11, <2>1, <2>2
       DEF StrategyDone, world, disk, fetch, ghost, IInv, IntegrityTypeOK
<1>12. CASE WriteAllText
  BY <1>12
     DEF WriteAllText, ghost, IntegrityTypeOK, fetch, scan, world, IInv
<1>13. CASE TextWritten
  BY <1>13
     DEF TextWritten, ghost, IntegrityTypeOK, fetch, scan, world, IInv
<1>14. CASE Crash
  <2>1. MemoryGoes /\ crashes' \in 0..MaxCrashes
    BY <1>14, DayAssumption DEF Crash, IInv, IntegrityTypeOK
  <2>2. /\ file' \in [Dated -> {"absent", "torn", "full"}]
        /\ cut' \subseteq Dated
    <3>1. {File(d) : d \in days \cup failed} \subseteq Dated
      BY StateFacts DEF IInv, IntegrityTypeOK
    <3>2. cut \subseteq Dated /\ file \in [Dated -> {"absent", "torn", "full"}]
      BY DEF IInv, IntegrityTypeOK
    <3> QED BY <1>14, <3>1, <3>2 DEF Crash
  <2> QED BY <2>1, <2>2, MemoryFacts DEF IInv, IntegrityTypeOK
<1>15. CASE Stop
  BY <1>15, MemoryFacts DEF Stop, IInv, IntegrityTypeOK
<1>16. CASE NewDay
  <2>1. day' \in FirstDay..LastDay
    BY <1>16, DayAssumption DEF NewDay, IInv, IntegrityTypeOK
  <2> QED BY <1>16, <2>1
             DEF NewDay, disk, scan, fetch, ghost, IInv, IntegrityTypeOK
<1>17. CASE UNCHANGED vars
  BY <1>17
     DEF vars, ghost, IntegrityTypeOK, fetch, scan, disk, world, IInv
<1> QED
  BY <1>1, <1>2, <1>3, <1>4, <1>5, <1>6, <1>7, <1>8, <1>9, <1>10, <1>11, <1>12,
     <1>13, <1>14, <1>15, <1>16, <1>17
     DEF Next, PassStep

(* Tasks and failed days are of days that are over, and do not overlap. *)
LEMMA FetchKeeps ==
    ASSUME IInv, [Next]_vars PROVE FetchInOrder'
<1>1. CASE OnStart
  BY <1>1
     DEF OnStart, FetchInOrder, fetch, IInv
<1>2. ASSUME NEW s \in Symbols, VerifySymbol(s) PROVE FetchInOrder'
  BY <1>2
     DEF VerifySymbol, FetchInOrder, fetch, IInv
<1>3. ASSUME NEW c \in rest, ScanCandle(c) PROVE FetchInOrder'
  BY <1>3
     DEF ScanCandle, FetchInOrder, fetch, IInv
<1>4. CASE ScanEnds
  BY <1>4
     DEF ScanEnds, FetchInOrder, fetch, IInv
<1>5. ASSUME NEW g \in gaps, SkipGap(g) PROVE FetchInOrder'
  BY <1>5
     DEF SkipGap, Size, File, FetchInOrder, fetch, disk, world, IInv
<1>6. ASSUME NEW g \in gaps, APIQueryCandleData(g) PROVE FetchInOrder'
  <2>1. DayOf(g[2]) \in Nat /\ DayOf(g[2]) <= day /\ DayOf(g[1]) \in Nat
    BY StateFacts, CalendarFacts
  <2>2. \A d \in DaysBefore(g) : d < day
    BY <2>1, StateFacts DEF DaysBefore
  <2> QED BY <1>6, <2>2 DEF APIQueryCandleData, world, disk, FetchInOrder
<1>7. ASSUME NEW d \in days, Task(d) PROVE FetchInOrder'
  BY <1>7, StateFacts
     DEF TaskEnds, TaskFails, TaskDownloads, TaskSkips, Task, GapsInOrder, Size,
         File, FetchInOrder, ghost, IntegrityTypeOK, world, IInv
<1>8. CASE DownloadsEnd
  BY <1>8
     DEF DownloadsEnd, Size, File, FetchInOrder, fetch, disk, world, IInv
<1>9. ASSUME NEW d \in failed, Query(d) PROVE FetchInOrder'
  BY <1>9, StateFacts
     DEF QueryEnds, QueryFails, QueryWritesCSV, Query, Size, File, FetchInOrder,
         IntegrityTypeOK, world, IInv
<1>10. CASE QueriesEnd
  BY <1>10
     DEF QueriesEnd, FetchInOrder, fetch, IInv
<1>11. CASE StrategyDone
  BY <1>11
     DEF StrategyDone, FetchInOrder, fetch, IInv
<1>12. CASE WriteAllText
  BY <1>12
     DEF WriteAllText, FetchInOrder, fetch, IInv
<1>13. CASE TextWritten
  BY <1>13
     DEF TextWritten, FetchInOrder, fetch, IInv
<1>14. CASE Crash
  BY <1>14
     DEF Crash, MemoryGoes, FetchInOrder
<1>15. CASE Stop
  BY <1>15
     DEF Stop, MemoryGoes, FetchInOrder
<1>16. CASE NewDay
  <2>1. \A d \in days \cup failed : d \in Nat /\ d < day
    BY CalendarFacts DEF IInv, IntegrityTypeOK, FetchInOrder
  <2> QED
    BY <1>16, <2>1, StateFacts
       DEF NewDay, Size, File, FetchInOrder, fetch, disk, IInv
<1>17. CASE UNCHANGED vars
  BY <1>17
     DEF vars, Size, File, FetchInOrder, fetch, disk, world, IInv
<1> QED
  BY <1>1, <1>2, <1>3, <1>4, <1>5, <1>6, <1>7, <1>8, <1>9, <1>10, <1>11, <1>12,
     <1>13, <1>14, <1>15, <1>16, <1>17
     DEF Next, PassStep

(* A file is torn by a failed task, by a failed query or by a crash. *)
LEMMA TornKeeps ==
    ASSUME IInv, [Next]_vars PROVE TornExplained'
<1>1. CASE OnStart
  BY <1>1
     DEF OnStart, TornExplained, FetchInOrder, ghost, disk, IInv
<1>2. ASSUME NEW s \in Symbols, VerifySymbol(s) PROVE TornExplained'
  BY <1>2
     DEF VerifySymbol, TornExplained, FetchInOrder, ghost, disk, IInv
<1>3. ASSUME NEW c \in rest, ScanCandle(c) PROVE TornExplained'
  BY <1>3
     DEF ScanCandle, TornExplained, FetchInOrder, ghost, disk, IInv
<1>4. CASE ScanEnds
  BY <1>4
     DEF ScanEnds, TornExplained, FetchInOrder, ghost, disk, IInv
<1>5. ASSUME NEW g \in gaps, SkipGap(g) PROVE TornExplained'
  BY <1>5
     DEF SkipGap, TornExplained, Size, File, ghost, fetch, disk, IInv
<1>6. ASSUME NEW g \in gaps, APIQueryCandleData(g) PROVE TornExplained'
  BY <1>6
     DEF NextGap, APIQueryCandleData, TornExplained, FetchInOrder, ghost, disk,
         IInv
<1>7. ASSUME NEW d \in days, Task(d) PROVE TornExplained'
  BY <1>7
     DEF TaskEnds, TaskFails, TaskDownloads, TaskSkips, Task, TornExplained,
         Size, File, ghost, IntegrityTypeOK, scan, world, IInv
<1>8. CASE DownloadsEnd
  BY <1>8
     DEF DownloadsEnd, TornExplained, Size, File, ghost, fetch, disk, IInv
<1>9. ASSUME NEW d \in failed, Query(d) PROVE TornExplained'
  BY <1>9
     DEF QueryEnds, QueryFails, QueryWritesCSV, Query, TornExplained, Size,
         File, IntegrityTypeOK, IInv
<1>10. CASE QueriesEnd
  BY <1>10
     DEF QueriesEnd, TornExplained, ghost, disk, IInv
<1>11. CASE StrategyDone
  BY <1>11
     DEF StrategyDone, TornExplained, FetchInOrder, ghost, disk, IInv
<1>12. CASE WriteAllText
  BY <1>12
     DEF WriteAllText, TornExplained, FetchInOrder, ghost, IInv
<1>13. CASE TextWritten
  BY <1>13
     DEF TextWritten, TornExplained, FetchInOrder, ghost, IInv
<1>14. CASE Crash
  <2>1. PICK files \in SUBSET {File(d) : d \in days \cup failed} :
          /\ file' = [f \in Dated |-> IF f \in files THEN "torn" ELSE file[f]]
          /\ cut' = cut \cup {f \in {File(d) : d \in days \cup failed} :
                                file'[f] = "torn"}
    BY <1>14, CrashFacts
  <2>2. gaveUp' = gaveUp
    BY <1>14, CrashFacts, MemoryFacts
  <2> SUFFICES ASSUME NEW f \in Dated, file'[f] = "torn"
               PROVE  f \in gaveUp' \cup cut'
    BY DEF TornExplained
  <2>3. CASE f \in {File(d) : d \in days \cup failed}
    BY <2>1, <2>3
  <2>4. CASE f \notin {File(d) : d \in days \cup failed}
    <3>1. file[f] = "torn"
      BY <2>1, <2>4
    <3>2. f \in gaveUp \cup cut
      BY <2>4, <3>1 DEF IInv, TornExplained
    <3> QED BY <2>1, <2>2, <3>2
  <2> QED BY <2>3, <2>4
<1>15. CASE Stop
  BY <1>15
     DEF Stop, MemoryGoes, TornExplained, FetchInOrder, IInv
<1>16. CASE NewDay
  BY <1>16
     DEF NewDay, TornExplained, Size, File, ghost, fetch, disk, IInv
<1>17. CASE UNCHANGED vars
  BY <1>17
     DEF vars, TornExplained, Size, File, ghost, fetch, disk, IInv
<1> QED
  BY <1>1, <1>2, <1>3, <1>4, <1>5, <1>6, <1>7, <1>8, <1>9, <1>10, <1>11, <1>12,
     <1>13, <1>14, <1>15, <1>16, <1>17
     DEF Next, PassStep

(* No file of a day that is not over is created. *)
LEMMA NoUnfinishedDayKeeps ==
    ASSUME IInv, [Next]_vars PROVE NoUnfinishedDay'
<1>1. CASE OnStart
  BY <1>1
     DEF OnStart, NoUnfinishedDay, disk, world, IInv
<1>2. ASSUME NEW s \in Symbols, VerifySymbol(s) PROVE NoUnfinishedDay'
  BY <1>2
     DEF VerifySymbol, NoUnfinishedDay, disk, world, IInv
<1>3. ASSUME NEW c \in rest, ScanCandle(c) PROVE NoUnfinishedDay'
  BY <1>3
     DEF ScanCandle, NoUnfinishedDay, disk, world, IInv
<1>4. CASE ScanEnds
  BY <1>4
     DEF ScanEnds, NoUnfinishedDay, disk, world, IInv
<1>5. ASSUME NEW g \in gaps, SkipGap(g) PROVE NoUnfinishedDay'
  BY <1>5
     DEF SkipGap, NoUnfinishedDay, disk, world, IInv
<1>6. ASSUME NEW g \in gaps, APIQueryCandleData(g) PROVE NoUnfinishedDay'
  BY <1>6
     DEF APIQueryCandleData, NoUnfinishedDay, disk, world, IInv
<1>7. ASSUME NEW d \in days, Task(d) PROVE NoUnfinishedDay'
  BY <1>7
     DEF TaskEnds, TaskFails, TaskDownloads, TaskSkips, Task, NoUnfinishedDay,
         File, FetchInOrder, IntegrityTypeOK, world, IInv
<1>8. CASE DownloadsEnd
  BY <1>8
     DEF DownloadsEnd, NoUnfinishedDay, disk, world, IInv
<1>9. ASSUME NEW d \in failed, Query(d) PROVE NoUnfinishedDay'
  BY <1>9
     DEF QueryEnds, QueryFails, QueryWritesCSV, Query, NoUnfinishedDay, File,
         FetchInOrder, IntegrityTypeOK, world, IInv
<1>10. CASE QueriesEnd
  BY <1>10
     DEF QueriesEnd, NoUnfinishedDay, disk, world, IInv
<1>11. CASE StrategyDone
  BY <1>11
     DEF StrategyDone, NoUnfinishedDay, disk, world, IInv
<1>12. CASE WriteAllText
  BY <1>12
     DEF WriteAllText, NoUnfinishedDay, world, IInv
<1>13. CASE TextWritten
  BY <1>13
     DEF TextWritten, NoUnfinishedDay, world, IInv
<1>14. CASE Crash
  <2>1. PICK files \in SUBSET {File(d) : d \in days \cup failed} :
          file' = [f \in Dated |-> IF f \in files THEN "torn" ELSE file[f]]
    BY <1>14, CrashFacts
  <2>2. \A f \in files : f[3] < day
    BY DEF IInv, FetchInOrder, File
  <2>3. day' = day
    BY <1>14, CrashFacts, MemoryFacts
  <2> QED BY <2>1, <2>2, <2>3 DEF IInv, NoUnfinishedDay
<1>15. CASE Stop
  BY <1>15
     DEF Stop, NoUnfinishedDay, MemoryGoes, world, IInv
<1>16. CASE NewDay
  <2>1. \A f \in Dated : f[3] \in Nat
    BY CalendarFacts DEF Dated
  <2> QED
    BY <1>16, <2>1, StateFacts DEF NewDay, disk, IInv, NoUnfinishedDay
<1>17. CASE UNCHANGED vars
  BY <1>17
     DEF vars, NoUnfinishedDay, disk, world, IInv
<1> QED
  BY <1>1, <1>2, <1>3, <1>4, <1>5, <1>6, <1>7, <1>8, <1>9, <1>10, <1>11, <1>12,
     <1>13, <1>14, <1>15, <1>16, <1>17
     DEF Next, PassStep

(* Gaps end at a stored candle or at the end of the search. *)
LEMMA GapsKeep ==
    ASSUME IInv, [Next]_vars PROVE GapsInOrder'
<1>1. CASE OnStart
  BY <1>1
     DEF OnStart, GapsInOrder, InPass, scan, IInv
<1>2. ASSUME NEW s \in Symbols, VerifySymbol(s) PROVE GapsInOrder'
  BY <1>2
     DEF VerifySymbol, Examine, GapsInOrder, Size, InPass, world
<1>3. ASSUME NEW c \in rest, ScanCandle(c) PROVE GapsInOrder'
  BY <1>3
     DEF ScanCandle, Missing, GapsInOrder, Size, InPass, world, IInv
<1>4. CASE ScanEnds
  BY <1>4
     DEF ScanEnds, Missing, GapsInOrder, Size, InPass, scan, world, IInv
<1>5. ASSUME NEW g \in gaps, SkipGap(g) PROVE GapsInOrder'
  BY <1>5
     DEF SkipGap, GapsInOrder, Size, InPass, scan, world, IInv
<1>6. ASSUME NEW g \in gaps, APIQueryCandleData(g) PROVE GapsInOrder'
  BY <1>6
     DEF NextGap, APIQueryCandleData, GapsInOrder, Size, InPass, scan, world,
         IInv
<1>7. ASSUME NEW d \in days, Task(d) PROVE GapsInOrder'
  BY <1>7
     DEF TaskEnds, TaskFails, TaskDownloads, TaskSkips, Task, GapsInOrder, Size,
         InPass, scan, world, IInv
<1>8. CASE DownloadsEnd
  BY <1>8
     DEF DownloadsEnd, GapsInOrder, Size, InPass, scan, world, IInv
<1>9. ASSUME NEW d \in failed, Query(d) PROVE GapsInOrder'
  BY <1>9
     DEF QueryEnds, QueryFails, QueryWritesCSV, Query, GapsInOrder, Size,
         InPass, scan, world, IInv
<1>10. CASE QueriesEnd
  BY <1>10
     DEF QueriesEnd, GapsInOrder, Size, InPass, scan, world, IInv
<1>11. CASE StrategyDone
  <2>1. CASE bar < Len(BarSizes)
    <3>1. Examine(sym, bar + 1) /\ bar + 1 \in 1..Len(BarSizes) /\ pc # "down"
      BY <1>11, <2>1, StrategyAssumption
         DEF StrategyDone, NextStrategy, IntegrityTypeOK, IInv
    <3>2. sym \in Symbols
      BY StateFacts
    <3>3. /\ bar' = bar + 1 /\ rest' = table[sym][BarSizes[bar + 1]]
          /\ \A g \in gaps' : g[2] = now
          /\ pc' = "scan" \/ (pc' = "gaps" /\ rest' = {})
      BY <3>1, <3>2, ExamineFacts
    <3> QED
      BY <1>11, <3>3 DEF StrategyDone, world, GapsInOrder, InPass, Size
  <2>2. CASE ~(bar < Len(BarSizes))
    <3>1. gaps = {} /\ rest = {}
      BY <1>11 DEF StrategyDone, IInv, GapsInOrder
    <3> QED
      BY <1>11, <2>2, <3>1
         DEF NextStrategy, StrategyDone, GapsInOrder, scan
  <2> QED BY <2>1, <2>2
<1>12. CASE WriteAllText
  BY <1>12
     DEF WriteAllText, GapsInOrder, InPass, scan, IInv
<1>13. CASE TextWritten
  BY <1>13
     DEF TextWritten, GapsInOrder, InPass, scan, IInv
<1>14. CASE Crash
  BY <1>14
     DEF Crash, MemoryGoes, GapsInOrder
<1>15. CASE Stop
  BY <1>15
     DEF Stop, MemoryGoes, GapsInOrder
<1>16. CASE NewDay
  BY <1>16
     DEF NewDay, GapsInOrder, Size, InPass, scan, IInv
<1>17. CASE UNCHANGED vars
  BY <1>17
     DEF vars, GapsInOrder, Size, InPass, scan, world, IInv
<1> QED
  BY <1>1, <1>2, <1>3, <1>4, <1>5, <1>6, <1>7, <1>8, <1>9, <1>10, <1>11, <1>12,
     <1>13, <1>14, <1>15, <1>16, <1>17
     DEF Next, PassStep

(* The search works up to the start of a day that has come. *)
LEMMA NowKeeps ==
    ASSUME IInv, [Next]_vars PROVE NowIsMidnight'
<1>1. CASE OnStart
  BY <1>1
     DEF OnStart, NowIsMidnight, IntegrityTypeOK, world, IInv
<1>2. ASSUME NEW s \in Symbols, VerifySymbol(s) PROVE NowIsMidnight'
  BY <1>2
     DEF VerifySymbol, NowIsMidnight, world, IInv
<1>3. ASSUME NEW c \in rest, ScanCandle(c) PROVE NowIsMidnight'
  BY <1>3
     DEF ScanCandle, NowIsMidnight, world, IInv
<1>4. CASE ScanEnds
  BY <1>4
     DEF ScanEnds, NowIsMidnight, world, IInv
<1>5. ASSUME NEW g \in gaps, SkipGap(g) PROVE NowIsMidnight'
  BY <1>5
     DEF SkipGap, NowIsMidnight, world, IInv
<1>6. ASSUME NEW g \in gaps, APIQueryCandleData(g) PROVE NowIsMidnight'
  BY <1>6
     DEF NextGap, APIQueryCandleData, NowIsMidnight, world, IInv
<1>7. ASSUME NEW d \in days, Task(d) PROVE NowIsMidnight'
  BY <1>7
     DEF TaskEnds, TaskFails, TaskDownloads, TaskSkips, Task, NowIsMidnight,
         world, IInv
<1>8. CASE DownloadsEnd
  BY <1>8
     DEF DownloadsEnd, NowIsMidnight, world, IInv
<1>9. ASSUME NEW d \in failed, Query(d) PROVE NowIsMidnight'
  BY <1>9
     DEF QueryEnds, QueryFails, QueryWritesCSV, Query, NowIsMidnight, world,
         IInv
<1>10. CASE QueriesEnd
  BY <1>10
     DEF QueriesEnd, NowIsMidnight, world, IInv
<1>11. CASE StrategyDone
  BY <1>11
     DEF StrategyDone, NowIsMidnight, world, IInv
<1>12. CASE WriteAllText
  BY <1>12
     DEF WriteAllText, NowIsMidnight, world, IInv
<1>13. CASE TextWritten
  BY <1>13
     DEF TextWritten, NowIsMidnight, world, IInv
<1>14. CASE Crash
  BY <1>14
     DEF Crash, MemoryGoes, NowIsMidnight
<1>15. CASE Stop
  BY <1>15
     DEF Stop, MemoryGoes, NowIsMidnight
<1>16. CASE NewDay
  BY <1>16
     DEF NewDay, NowIsMidnight, IntegrityTypeOK, IInv
<1>17. CASE UNCHANGED vars
  BY <1>17
     DEF vars, NowIsMidnight, world, IInv
<1> QED
  BY <1>1, <1>2, <1>3, <1>4, <1>5, <1>6, <1>7, <1>8, <1>9, <1>10, <1>11, <1>12,
     <1>13, <1>14, <1>15, <1>16, <1>17
     DEF Next, PassStep

(* Records are empty or reach from the listing to the start of a day. *)
LEMMA RecordsGoodKeeps ==
    ASSUME IInv, [Next]_vars PROVE RecordsGood'
<1>1. CASE OnStart
  BY <1>1
     DEF OnStart, RecordsGood, disk, IInv
<1>2. ASSUME NEW s \in Symbols, VerifySymbol(s) PROVE RecordsGood'
  BY <1>2
     DEF VerifySymbol, RecordsGood, disk, IInv
<1>3. ASSUME NEW c \in rest, ScanCandle(c) PROVE RecordsGood'
  BY <1>3
     DEF ScanCandle, RecordsGood, disk, IInv
<1>4. CASE ScanEnds
  BY <1>4
     DEF ScanEnds, RecordsGood, disk, IInv
<1>5. ASSUME NEW g \in gaps, SkipGap(g) PROVE RecordsGood'
  BY <1>5
     DEF SkipGap, RecordsGood, disk, IInv
<1>6. ASSUME NEW g \in gaps, APIQueryCandleData(g) PROVE RecordsGood'
  BY <1>6
     DEF APIQueryCandleData, RecordsGood, disk, IInv
<1>7. ASSUME NEW d \in days, Task(d) PROVE RecordsGood'
  BY <1>7
     DEF TaskEnds, TaskFails, TaskDownloads, TaskSkips, Task, RecordsGood, IInv
<1>8. CASE DownloadsEnd
  BY <1>8
     DEF DownloadsEnd, RecordsGood, disk, IInv
<1>9. ASSUME NEW d \in failed, Query(d) PROVE RecordsGood'
  BY <1>9
     DEF QueryEnds, QueryFails, QueryWritesCSV, Query, RecordsGood, IInv
<1>10. CASE QueriesEnd
  BY <1>10
     DEF QueriesEnd, RecordsGood, disk, IInv
<1>11. CASE StrategyDone
  BY <1>11, DayAssumption, StateFacts
     DEF StrategyDone, Days, GoodRecord, RecordsGood, NowIsMidnight, disk, IInv
<1>12. CASE WriteAllText
  BY <1>12
     DEF WriteAllText, RecordsGood, IInv
<1>13. CASE TextWritten
  BY <1>13
     DEF TextWritten, RecordsGood, IInv
<1>14. CASE Crash
  BY <1>14
     DEF Crash, MemoryGoes, GoodRecord, RecordsGood, IInv
<1>15. CASE Stop
  BY <1>15
     DEF Stop, MemoryGoes, GoodRecord, RecordsGood, IInv
<1>16. CASE NewDay
  BY <1>16
     DEF NewDay, RecordsGood, disk, IInv
<1>17. CASE UNCHANGED vars
  BY <1>17
     DEF vars, RecordsGood, disk, IInv
<1> QED
  BY <1>1, <1>2, <1>3, <1>4, <1>5, <1>6, <1>7, <1>8, <1>9, <1>10, <1>11, <1>12,
     <1>13, <1>14, <1>15, <1>16, <1>17
     DEF Next, PassStep

(* The records of symbols that are done speak of this pass. *)
LEMMA PassRecordsKeeps ==
    ASSUME IInv, [Next]_vars PROVE PassRecords'
<1>1. CASE OnStart
  BY <1>1
     DEF OnStart, PassRecords, InPass
<1>2. ASSUME NEW s \in Symbols, VerifySymbol(s) PROVE PassRecords'
  BY <1>2
     DEF VerifySymbol, Examine, DoneRecord, PassRecords, IInv
<1>3. ASSUME NEW c \in rest, ScanCandle(c) PROVE PassRecords'
  BY <1>3
     DEF ScanCandle, DoneRecord, PassRecords, InPass, IInv
<1>4. CASE ScanEnds
  BY <1>4
     DEF ScanEnds, DoneRecord, PassRecords, InPass, IInv
<1>5. ASSUME NEW g \in gaps, SkipGap(g) PROVE PassRecords'
  BY <1>5
     DEF SkipGap, DoneRecord, PassRecords, InPass, IInv
<1>6. ASSUME NEW g \in gaps, APIQueryCandleData(g) PROVE PassRecords'
  BY <1>6
     DEF NextGap, APIQueryCandleData, DoneRecord, PassRecords, InPass, IInv
<1>7. ASSUME NEW d \in days, Task(d) PROVE PassRecords'
  BY <1>7
     DEF TaskEnds, TaskFails, TaskDownloads, TaskSkips, Task, DoneRecord,
         PassRecords, InPass, IInv
<1>8. CASE DownloadsEnd
  BY <1>8
     DEF DownloadsEnd, DoneRecord, PassRecords, InPass, IInv
<1>9. ASSUME NEW d \in failed, Query(d) PROVE PassRecords'
  BY <1>9
     DEF QueryEnds, QueryFails, QueryWritesCSV, Query, DoneRecord, PassRecords,
         InPass, IInv
<1>10. CASE QueriesEnd
  BY <1>10
     DEF QueriesEnd, DoneRecord, PassRecords, InPass, IInv
<1>11. CASE StrategyDone
  BY <1>11
     DEF NextStrategy, StrategyDone, Examine, DoneRecord, PassRecords, InPass,
         IntegrityTypeOK, IInv
<1>12. CASE WriteAllText
  BY <1>12
     DEF WriteAllText, DoneRecord, PassRecords, IntegrityTypeOK, IInv
<1>13. CASE TextWritten
  BY <1>13
     DEF TextWritten, PassRecords, InPass
<1>14. CASE Crash
  BY <1>14
     DEF Crash, MemoryGoes, PassRecords, InPass
<1>15. CASE Stop
  BY <1>15
     DEF Stop, MemoryGoes, PassRecords, InPass
<1>16. CASE NewDay
  BY <1>16
     DEF NewDay, DoneRecord, PassRecords, InPass, IInv
<1>17. CASE UNCHANGED vars
  BY <1>17
     DEF vars, DoneRecord, PassRecords, InPass, IInv
<1> QED
  BY <1>1, <1>2, <1>3, <1>4, <1>5, <1>6, <1>7, <1>8, <1>9, <1>10, <1>11, <1>12,
     <1>13, <1>14, <1>15, <1>16, <1>17
     DEF Next, PassStep

(* The JSON is written from records that are all of one pass. *)
LEMMA RecordsTogetherKeeps ==
    ASSUME IInv, [Next]_vars PROVE RecordsTogether'
<1>1. CASE OnStart
  BY <1>1
     DEF OnStart, RecordsTogether, disk, world, IInv
<1>2. ASSUME NEW s \in Symbols, VerifySymbol(s) PROVE RecordsTogether'
  BY <1>2
     DEF VerifySymbol, RecordsTogether, disk, world, IInv
<1>3. ASSUME NEW c \in rest, ScanCandle(c) PROVE RecordsTogether'
  BY <1>3
     DEF ScanCandle, RecordsTogether, disk, world, IInv
<1>4. CASE ScanEnds
  BY <1>4
     DEF ScanEnds, RecordsTogether, disk, world, IInv
<1>5. ASSUME NEW g \in gaps, SkipGap(g) PROVE RecordsTogether'
  BY <1>5
     DEF SkipGap, RecordsTogether, disk, world, IInv
<1>6. ASSUME NEW g \in gaps, APIQueryCandleData(g) PROVE RecordsTogether'
  BY <1>6
     DEF APIQueryCandleData, RecordsTogether, disk, world, IInv
<1>7. ASSUME NEW d \in days, Task(d) PROVE RecordsTogether'
  BY <1>7
     DEF TaskEnds, TaskFails, TaskDownloads, TaskSkips, Task, RecordsTogether,
         world, IInv
<1>8. CASE DownloadsEnd
  BY <1>8
     DEF DownloadsEnd, RecordsTogether, disk, world, IInv
<1>9. ASSUME NEW d \in failed, Query(d) PROVE RecordsTogether'
  BY <1>9
     DEF QueryEnds, QueryFails, QueryWritesCSV, Query, RecordsTogether, world,
         IInv
<1>10. CASE QueriesEnd
  BY <1>10
     DEF QueriesEnd, RecordsTogether, disk, world, IInv
<1>11. CASE StrategyDone
  BY <1>11
     DEF StrategyDone, RecordsTogether, disk, world, IInv
<1>12. CASE WriteAllText
  BY <1>12
     DEF WriteAllText, RecordsTogether
<1>13. CASE TextWritten
  BY <1>13
     DEF TextWritten, RecordsTogether, DoneRecord, PassRecords, NowIsMidnight,
         world, IInv
<1>14. CASE Crash
  BY <1>14
     DEF Crash, MemoryGoes, RecordsTogether, world, IInv
<1>15. CASE Stop
  BY <1>15
     DEF Stop, MemoryGoes, RecordsTogether, world, IInv
<1>16. CASE NewDay
  BY <1>16, StateFacts
     DEF NewDay, RecordsTogether, disk, IInv
<1>17. CASE UNCHANGED vars
  BY <1>17
     DEF vars, RecordsTogether, disk, world, IInv
<1> QED
  BY <1>1, <1>2, <1>3, <1>4, <1>5, <1>6, <1>7, <1>8, <1>9, <1>10, <1>11, <1>12,
     <1>13, <1>14, <1>15, <1>16, <1>17
     DEF Next, PassStep

(* What is stored, complete, given up or cut stays so. *)
LEMMA FilesGrow ==
    ASSUME IInv, [Next]_vars
    PROVE  /\ table' = table /\ gaveUp \subseteq gaveUp' /\ cut \subseteq cut'
           /\ \A f \in Dated : file[f] = "full" => file'[f] = "full"
<1> DEFINE Grow ==
             /\ table' = table /\ gaveUp \subseteq gaveUp' /\ cut \subseteq cut'
             /\ \A f \in Dated : file[f] = "full" => file'[f] = "full"
<1>1. CASE OnStart
  BY <1>1
     DEF OnStart, ghost, disk, world
<1>2. ASSUME NEW s \in Symbols, VerifySymbol(s) PROVE Grow
  BY <1>2
     DEF VerifySymbol, ghost, disk, world
<1>3. ASSUME NEW c \in rest, ScanCandle(c) PROVE Grow
  BY <1>3
     DEF ScanCandle, ghost, disk, world
<1>4. CASE ScanEnds
  BY <1>4
     DEF ScanEnds, ghost, disk, world
<1>5. ASSUME NEW g \in gaps, SkipGap(g) PROVE Grow
  BY <1>5
     DEF SkipGap, ghost, disk, world
<1>6. ASSUME NEW g \in gaps, APIQueryCandleData(g) PROVE Grow
  BY <1>6
     DEF APIQueryCandleData, ghost, disk, world
<1>7. ASSUME NEW d \in days, Task(d) PROVE Grow
  BY <1>7
     DEF TaskEnds, TaskFails, TaskDownloads, TaskSkips, Task, ghost,
         IntegrityTypeOK, world, IInv
<1>8. CASE DownloadsEnd
  BY <1>8
     DEF DownloadsEnd, ghost, disk, world
<1>9. ASSUME NEW d \in failed, Query(d) PROVE Grow
  BY <1>9
     DEF QueryEnds, QueryFails, QueryWritesCSV, Query, FetchInOrder,
         IntegrityTypeOK, world, IInv
<1>10. CASE QueriesEnd
  BY <1>10
     DEF QueriesEnd, ghost, disk, world
<1>11. CASE StrategyDone
  BY <1>11
     DEF StrategyDone, ghost, disk, world
<1>12. CASE WriteAllText
  BY <1>12
     DEF WriteAllText, ghost, world
<1>13. CASE TextWritten
  BY <1>13
     DEF TextWritten, ghost, world
<1>14. CASE Crash
  <2>1. PICK files \in SUBSET {File(d) : d \in days \cup failed} :
          /\ \A f \in files : file[f] # "full"
          /\ file' = [f \in Dated |-> IF f \in files THEN "torn" ELSE file[f]]
          /\ cut \subseteq cut'
    BY <1>14, CrashFacts
  <2>2. table' = table /\ gaveUp' = gaveUp
    BY <1>14, CrashFacts, MemoryFacts
  <2> QED BY <2>1, <2>2
<1>15. CASE Stop
  BY <1>15
     DEF Stop, MemoryGoes, world
<1>16. CASE NewDay
  BY <1>16
     DEF NewDay, ghost, disk
<1>17. CASE UNCHANGED vars
  BY <1>17
     DEF vars, ghost, disk, world
<1> QED
  BY <1>1, <1>2, <1>3, <1>4, <1>5, <1>6, <1>7, <1>8, <1>9, <1>10, <1>11, <1>12,
     <1>13, <1>14, <1>15, <1>16, <1>17
     DEF Next, PassStep

(* What is accounted for stays so. *)
LEMMA AccountedStays ==
    ASSUME IInv, [Next]_vars, NEW s \in Symbols, NEW z \in Sizes, NEW t \in Times,
           Accounted(s, z, t)
    PROVE  Accounted(s, z, t)'
<1>1. <<s, z, DayOf(t)>> \in Dated
  BY CalendarFacts DEF Dated
<1> QED
  BY <1>1, FilesGrow DEF Accounted, Stored, NotSearched, FileOfDay

(* The range of a record consists of times. *)
LEMMA RecordTimes ==
    ASSUME NEW s \in Symbols, NEW r, GoodRecord(r, s)
    PROVE  \A t \in Range(r) : t \in Times
<1>1. CASE r = Never
  BY <1>1 DEF Never, Range
<1>2. CASE \E d \in Days : r = [start |-> OnBoard[s], end |-> Midnight(d)]
  <2>1. PICK d \in Days : r = [start |-> OnBoard[s], end |-> Midnight(d)]
    BY <1>2
  <2>2. /\ OnBoard[s] \in Nat /\ OnBoard[s] > 0 /\ Midnight(d) \in Times
        /\ Midnight(d) \in Nat /\ Midnight(LastDay) \in Int
    BY CalendarFacts, DayAssumption DEF Days, Times
  <2> QED BY <2>1, <2>2 DEF Range, Times
<1> QED BY <1>1, <1>2 DEF GoodRecord

(* When the gaps of the first bar size have been dealt with, everything    *)
(* from the listing to the end of the search is accounted for.             *)
LEMMA SearchEnds ==
    ASSUME IInv, pc = "gaps", gaps = {}, bar = 1
    PROVE  \A t \in Range(DoneRecord(sym)) : Accounted(sym, First, t)
<1>1. days = {} /\ failed = {} /\ InPass
  BY DEF IInv, FetchInOrder, InPass
<1> SUFFICES ASSUME NEW t \in Range(DoneRecord(sym)) PROVE Accounted(sym, First, t)
  OBVIOUS
<1>2. OnBoard[sym] \in Nat /\ OnBoard[sym] > 0 /\ now \in Times /\ now \in Nat
  BY StateFacts, CalendarFacts
<1>3. t \in Times /\ OnBoard[sym] <= t /\ t < now
  BY <1>2, CalendarFacts, DayAssumption DEF Range, DoneRecord, Times, Days
<1>4. ~InGap(t) /\ ~Pending(t)
  BY <1>1 DEF InGap, Pending
<1> QED BY <1>1, <1>3, <1>4 DEF IInv, Searched

(* The steps that change the record in memory. *)
LEMMA RecordSteps ==
    ASSUME IInv, [Next]_vars
    PROVE  \/ record' = record
           \/ OnStart \/ StrategyDone
           \/ record' = [s \in Symbols |-> Never]
<1>1. ASSUME NEW g \in gaps, SkipGap(g) \/ APIQueryCandleData(g)
      PROVE  record' = record
  BY <1>1 DEF SkipGap, APIQueryCandleData
<1>2. ASSUME NEW d \in days, Task(d) PROVE record' = record
  BY <1>2 DEF Task, TaskSkips, TaskDownloads, TaskFails, TaskEnds
<1>3. ASSUME NEW d \in failed, Query(d) PROVE record' = record
  BY <1>3 DEF Query, QueryWritesCSV, QueryFails, QueryEnds
<1>4. ASSUME Crash \/ Stop PROVE record' = [s \in Symbols |-> Never]
  BY <1>4 DEF Crash, Stop, MemoryGoes
<1>5. ASSUME NEW s \in Symbols, VerifySymbol(s) PROVE record' = record
  BY <1>5 DEF VerifySymbol
<1>6. ASSUME NEW c \in rest, ScanCandle(c) PROVE record' = record
  BY <1>6 DEF ScanCandle
<1>7. ASSUME ScanEnds \/ DownloadsEnd \/ QueriesEnd \/ WriteAllText \/ TextWritten
             \/ NewDay \/ UNCHANGED vars
      PROVE  record' = record
  BY <1>7
     DEF ScanEnds, DownloadsEnd, QueriesEnd, WriteAllText, TextWritten, NewDay,
         vars
<1> QED
  BY <1>1, <1>2, <1>3, <1>4, <1>5, <1>6, <1>7 DEF Next, PassStep

(* The steps that change what the JSON says. *)
LEMMA JsonSteps ==
    ASSUME IInv, [Next]_vars
    PROVE  \/ json' = json /\ jsonState' = jsonState
           \/ WriteAllText \/ TextWritten
<1> DEFINE Same == json' = json /\ jsonState' = jsonState
<1>1. ASSUME NEW g \in gaps, SkipGap(g) \/ APIQueryCandleData(g) PROVE Same
  BY <1>1 DEF SkipGap, APIQueryCandleData, disk
<1>2. ASSUME NEW d \in days, Task(d) PROVE Same
  BY <1>2 DEF Task, TaskSkips, TaskDownloads, TaskFails, TaskEnds
<1>3. ASSUME NEW d \in failed, Query(d) PROVE Same
  BY <1>3 DEF Query, QueryWritesCSV, QueryFails, QueryEnds
<1>4. ASSUME Crash \/ Stop PROVE Same
  BY <1>4 DEF Crash, Stop, MemoryGoes
<1>5. ASSUME NEW s \in Symbols, VerifySymbol(s) PROVE Same
  BY <1>5 DEF VerifySymbol, disk
<1>6. ASSUME NEW c \in rest, ScanCandle(c) PROVE Same
  BY <1>6 DEF ScanCandle, disk
<1>7. ASSUME OnStart \/ ScanEnds \/ DownloadsEnd \/ QueriesEnd \/ StrategyDone
             \/ NewDay \/ UNCHANGED vars
      PROVE  Same
  BY <1>7
     DEF OnStart, ScanEnds, DownloadsEnd, QueriesEnd, StrategyDone, NewDay,
         vars, disk
<1> QED
  BY <1>1, <1>2, <1>3, <1>4, <1>5, <1>6, <1>7 DEF Next, PassStep

(* The records in memory speak of times that are accounted for. *)
LEMMA RecordAccountedKeeps ==
    ASSUME IInv, [Next]_vars PROVE RecordAccounted'
<1> SUFFICES ASSUME NEW s \in Symbols, NEW t, t \in Range(record'[s])
             PROVE  Accounted(s, First, t)'
  BY DEF RecordAccounted, Range
<1>1. ASSUME \E r \in {record[s], json[s]} : t \in Range(r), Accounted(s, First, t)
      PROVE  Accounted(s, First, t)'
  <2>1. t \in Times
    BY <1>1, RecordTimes DEF IInv, RecordsGood
  <2> QED BY <1>1, <2>1, CalendarFacts, AccountedStays
<1>2. CASE record' = record
  BY <1>1, <1>2 DEF IInv, RecordAccounted
<1>3. CASE record' = [x \in Symbols |-> Never]
  BY <1>3 DEF Range, Never
<1>4. CASE OnStart
  <2>1. record'[s] = json[s] /\ jsonState \in {"absent", "whole"}
    BY <1>4 DEF OnStart, IInv, IntegrityTypeOK
  <2>2. CASE jsonState = "whole"
    BY <1>1, <2>1, <2>2 DEF IInv, VerifiedDaysAccounted
  <2>3. CASE jsonState = "absent"
    <3>1. json[s] = Never
      BY <2>3 DEF IInv, RecordsTogether
    <3> QED BY <2>1, <3>1 DEF Range, Never
  <2> QED BY <2>1, <2>2, <2>3
<1>5. CASE StrategyDone
  <2>1. /\ record' = [record EXCEPT ![sym] = DoneRecord(sym)]
        /\ pc = "gaps" /\ gaps = {}
        /\ record \in [Symbols -> Record] /\ bar \in 1..Len(BarSizes)
    BY <1>5 DEF StrategyDone, DoneRecord, IInv, IntegrityTypeOK
  <2>2. CASE s # sym \/ bar # 1
    <3>1. record'[s] = record[s]
      BY <2>1, <2>2 DEF IInv, PassRecords, InPass
    <3> QED BY <1>1, <3>1 DEF IInv, RecordAccounted
  <2>3. CASE s = sym /\ bar = 1
    <3>1. record'[s] = DoneRecord(sym)
      BY <2>1, <2>3
    <3>2. Accounted(s, First, t)
      BY <2>1, <2>3, <3>1, SearchEnds
    <3>3. t \in Times
      <4>1. now \in Times /\ now \in Nat /\ OnBoard[sym] \in Nat /\ OnBoard[sym] > 0
        BY <2>1, StateFacts, CalendarFacts
      <4>2. Midnight(LastDay) \in Int
        BY CalendarFacts, DayAssumption DEF Days
      <4> QED BY <3>1, <4>1, <4>2 DEF DoneRecord, Range, Times
    <3> QED BY <3>2, <3>3, CalendarFacts, AccountedStays
  <2> QED BY <2>2, <2>3
<1> QED BY <1>2, <1>3, <1>4, <1>5, RecordSteps

(* So does the JSON, which is a copy of them. *)
LEMMA VerifiedKeeps ==
    ASSUME IInv, [Next]_vars PROVE VerifiedDaysAccounted'
<1> SUFFICES ASSUME jsonState' = "whole",
                    NEW s \in Symbols, NEW t, t \in Range(json'[s])
             PROVE  Accounted(s, First, t)'
  BY DEF VerifiedDaysAccounted, Range
<1>1. /\ ~WriteAllText
      /\ TextWritten => json' = record
  BY DEF WriteAllText, TextWritten
<1>2. \E r \in {record[s], json[s]} : t \in Range(r)
  BY <1>1, JsonSteps
<1>3. t \in Times
  BY <1>2, RecordTimes DEF IInv, RecordsGood
<1>4. Accounted(s, First, t)
  BY <1>1, JsonSteps DEF IInv, RecordAccounted, VerifiedDaysAccounted
<1> QED BY <1>3, <1>4, CalendarFacts, AccountedStays

(* A time that the search has passed stays dealt with, if the gaps and the *)
(* downloads that a step drops are.                                        *)
LEMMA SearchStays ==
    ASSUME IInv, [Next]_vars, InPass, bar = 1, sym' = sym, NEW t \in Times,
           OnBoard[sym] <= t, IF pc = "scan" THEN t <= prev ELSE t < now,
           InGap(t) => Accounted(sym, First, t) \/ InGap(t)' \/ Pending(t)',
           Pending(t) => Accounted(sym, First, t)' \/ Pending(t)'
    PROVE  Accounted(sym, First, t)' \/ InGap(t)' \/ Pending(t)'
<1>1. Accounted(sym, First, t) \/ InGap(t) \/ Pending(t)
  BY DEF IInv, Searched
<1>2. ASSUME Accounted(sym, First, t) PROVE Accounted(sym, First, t)'
  <2>1. sym \in Symbols /\ First \in Sizes
    BY StateFacts, CalendarFacts
  <2>2. \A s \in Symbols : Accounted(s, First, t) => Accounted(s, First, t)'
    BY <2>1, AccountedStays
  <2> QED BY <1>2, <2>1, <2>2 DEF Accounted, Stored, NotSearched, FileOfDay
<1> QED BY <1>1, <1>2

(* The step of GetMissingIntervals from one candle to the next. *)
LEMMA MissingCovers ==
    ASSUME IInv, bar = 1, NEW u \in Times, NEW t \in Times, prev < t, t < u
    PROVE  \E g \in Missing(u) : g[1] <= t /\ t < g[2]
<1>1. Interval[Size] = 1 /\ t \in Nat /\ u \in Nat
  BY StateFacts, CalendarFacts
<1>2. prev \in Nat
  BY DEF IInv, IntegrityTypeOK
<1>3. u > prev + 1 /\ prev + 1 <= t
  BY <1>1, <1>2
<1>4. Missing(u) = {<<prev + 1, u>>}
  BY <1>1, <1>3 DEF Missing
<1> QED BY <1>3, <1>4

(* When a gap is dealt with, its times are accounted for or their days     *)
(* become tasks.                                                           *)
LEMMA GapDays ==
    ASSUME IInv, pc = "gaps", bar = 1, NEW g \in gaps, NEW t \in Times,
           g[1] <= t, t < g[2]
    PROVE  DayOf(t) \in DaysBefore(g) \/ Accounted(sym, First, t)
<1>1. g[1] \in Times /\ g[2] \in Times /\ g[1] \in Nat /\ g[2] \in Nat /\ t \in Nat
  BY StateFacts, CalendarFacts
<1>2. /\ DayOf(g[1]) <= DayOf(t) /\ DayOf(t) <= DayOf(g[2])
      /\ DayOf(g[1]) \in Nat /\ DayOf(t) \in Nat /\ DayOf(g[2]) \in Nat
  BY <1>1, MidnightAssumption, CalendarFacts DEF Days
<1>3. CASE DayOf(t) < DayOf(g[2])
  BY <1>2, <1>3 DEF DaysBefore
<1>4. CASE DayOf(t) = DayOf(g[2])
  <2>1. g[2] = now \/ g[2] \in table[sym][First]
    BY StateFacts DEF IInv, GapsInOrder
  <2>2. CASE g[2] = now
    <3>1. PICK d \in FirstDay..day : now = Midnight(d)
      BY DEF IInv, NowIsMidnight
    <3>2. d \in Days /\ d \in Nat
      BY StateFacts, DayAssumption DEF Days
    <3>3. DayOf(t) < d /\ DayOf(g[2]) = d
      BY <2>2, <3>1, <3>2, MidnightAssumption
    <3> QED BY <1>2, <1>4, <3>2, <3>3
  <2>3. CASE g[2] \in table[sym][First]
    BY <1>4, <2>3 DEF Accounted, NotSearched
  <2> QED BY <2>1, <2>2, <2>3
<1> QED BY <1>2, <1>3, <1>4

(* A day leaves the tasks with a file that exists, or with a failure. *)
LEMMA TaskLeaves ==
    ASSUME IInv, bar = 1, NEW d \in days, Task(d), NEW t \in Times, DayOf(t) = d
    PROVE  Accounted(sym, First, t)' \/ Pending(t)'
<1>1. /\ File(d) = <<sym, First, d>> /\ File(d) \in Dated /\ d \in Days
      /\ sym' = sym /\ gaveUp' = gaveUp /\ cut' = cut
      /\ file \in [Dated -> {"absent", "torn", "full"}]
  BY StateFacts
     DEF Task, TaskSkips, TaskDownloads, TaskFails, TaskEnds, ghost, File,
         IInv, IntegrityTypeOK
<1>2. CASE TaskSkips(d)
  <2>1. file' = file /\ file[File(d)] # "absent"
    BY <1>2 DEF TaskSkips
  <2>2. CASE file[File(d)] = "full"
    BY <1>1, <2>1, <2>2 DEF Accounted, FileOfDay
  <2>3. CASE file[File(d)] = "torn"
    <3>1. d \notin failed
      BY DEF IInv, FetchInOrder
    <3>2. File(d) \notin {File(e) : e \in failed}
      BY <3>1, FileOne
    <3>3. File(d) \in gaveUp \cup cut
      BY <1>1, <2>3, <3>2 DEF IInv, TornExplained
    <3> QED BY <1>1, <3>3 DEF Accounted, FileOfDay
  <2> QED BY <1>1, <2>1, <2>2, <2>3
<1>3. CASE TaskDownloads(d)
  <2>1. file'[<<sym, First, d>>] = "full"
    BY <1>1, <1>3 DEF TaskDownloads
  <2> QED BY <1>1, <2>1 DEF Accounted, FileOfDay
<1>4. CASE TaskFails(d)
  BY <1>4 DEF TaskFails, Pending
<1> QED BY <1>2, <1>3, <1>4 DEF Task

(* A failed day leaves with a file, or is given up. *)
LEMMA QueryLeaves ==
    ASSUME IInv, bar = 1, NEW d \in failed, Query(d), NEW t \in Times, DayOf(t) = d
    PROVE  Accounted(sym, First, t)'
<1>1. /\ File(d) = <<sym, First, d>> /\ File(d) \in Dated /\ sym' = sym
      /\ file \in [Dated -> {"absent", "torn", "full"}]
  BY StateFacts
     DEF QueryEnds, QueryFails, QueryWritesCSV, Query, File, IntegrityTypeOK,
         IInv
<1>2. file'[<<sym, First, d>>] = "full" \/ <<sym, First, d>> \in gaveUp'
  BY <1>1 DEF Query, QueryWritesCSV, QueryFails
<1> QED BY <1>1, <1>2 DEF Accounted, FileOfDay

(* How far the search has come, from step to step. *)
LEMMA SearchedKeeps ==
    ASSUME IInv, [Next]_vars PROVE Searched'
<1> SUFFICES ASSUME InPass', bar' = 1, NEW t \in Times, OnBoard[sym'] <= t,
                    IF pc' = "scan" THEN t <= prev' ELSE t < now'
             PROVE  Accounted(sym, First, t)' \/ InGap(t)' \/ Pending(t)'
  BY DEF Searched
<1> DEFINE Dealt == Accounted(sym, First, t)' \/ InGap(t)' \/ Pending(t)'
<1>t. t \in Nat /\ prev \in Nat
  BY CalendarFacts DEF IInv, IntegrityTypeOK
<1>1. ASSUME NEW s \in Symbols, VerifySymbol(s) PROVE Dealt
  <2>1. /\ Examine(s, 1) /\ pc # "down" /\ 1 \in 1..Len(BarSizes)
        /\ sym' = s /\ now' = now
    BY <1>1, StrategyAssumption DEF VerifySymbol
  <2>2. CASE pc' = "gaps"
    <3>1. gaps' = {<<OnBoard[s], now>>}
      BY <2>1, <2>2, ExamineFacts
    <3> QED BY <2>1, <2>2, <3>1 DEF InGap
  <2>3. CASE pc' = "scan"
    <3>1. prev' = OnBoard[s] /\ OnBoard[s] \in Nat
      BY <2>1, ExamineFacts, CalendarFacts
    <3>2. t = OnBoard[sym']
      BY <1>t, <2>1, <2>3, <3>1
    <3> QED BY <3>2 DEF Accounted, NotSearched
  <2> QED BY <2>1, <2>2, <2>3, ExamineFacts
<1>2. ASSUME NEW c \in rest, ScanCandle(c) PROVE Dealt
  <2>1. /\ pc = "scan" /\ pc' = "scan"
        /\ InPass /\ bar = 1 /\ sym' = sym /\ prev' = c
        /\ gaps' = gaps \cup Missing(c) /\ days' = days /\ failed' = failed
        /\ table' = table
    BY <1>2 DEF ScanCandle, InPass, fetch, world
  <2>2. c \in Times /\ c \in Nat /\ c \in table[sym][First]
    BY <2>1, StateFacts, CalendarFacts DEF IInv, GapsInOrder, IntegrityTypeOK
  <2>3. CASE t <= prev
    BY <2>1, <2>3, SearchStays DEF InGap, Pending
  <2>4. CASE prev < t /\ t < c
    BY <2>1, <2>2, <2>4, MissingCovers DEF InGap
  <2>5. CASE t = c
    BY <2>1, <2>2, <2>5 DEF Accounted, Stored
  <2> QED BY <1>t, <2>1, <2>2, <2>3, <2>4, <2>5
<1>3. CASE ScanEnds
  <2>1. /\ pc = "scan" /\ pc' = "gaps"
        /\ InPass /\ bar = 1 /\ sym' = sym /\ now' = now
        /\ gaps' = gaps \cup Missing(now) /\ days' = days /\ failed' = failed
    BY <1>3 DEF ScanEnds, InPass, fetch
  <2>2. now \in Times
    BY <2>1, StateFacts
  <2>3. CASE t <= prev
    BY <2>1, <2>3, SearchStays DEF InGap, Pending
  <2>4. CASE prev < t
    BY <2>1, <2>2, <2>4, MissingCovers DEF InGap
  <2> QED BY <1>t, <2>3, <2>4
<1>4. ASSUME NEW g \in gaps, SkipGap(g) PROVE Dealt
  <2>1. /\ pc = "gaps" /\ pc' = "gaps"
        /\ InPass /\ bar = 1 /\ sym' = sym /\ now' = now
        /\ gaps' = gaps \ {g} /\ Verified(g) /\ days' = days /\ failed' = failed
    BY <1>4 DEF SkipGap, NextGap, InPass, fetch
  <2>2. ASSUME g[1] <= t, t < g[2] PROVE Accounted(sym, First, t)
    <3>1. /\ g[1] \in Nat /\ g[2] \in Nat /\ sym \in Symbols
          /\ record[sym].start \in Nat /\ record[sym].end \in Nat
      BY StateFacts, CalendarFacts DEF IInv, IntegrityTypeOK, Record
    <3>2. t \in Range(record[sym])
      BY <1>t, <2>1, <2>2, <3>1 DEF Verified, Range
    <3> QED BY <3>1, <3>2 DEF IInv, RecordAccounted
  <2>3. InGap(t) => Accounted(sym, First, t) \/ InGap(t)'
    BY <2>1, <2>2 DEF InGap
  <2> QED BY <2>1, <2>3, SearchStays DEF Pending
<1>5. ASSUME NEW g \in gaps, APIQueryCandleData(g) PROVE Dealt
  <2>1. /\ pc = "gaps" /\ pc' = "download"
        /\ InPass /\ bar = 1 /\ sym' = sym /\ now' = now
        /\ gaps' = gaps \ {g} /\ days' = DaysBefore(g)
    BY <1>5 DEF APIQueryCandleData, NextGap, InPass
  <2>2. ~Pending(t)
    BY <2>1 DEF Pending, IInv, FetchInOrder
  <2>3. InGap(t) => Accounted(sym, First, t) \/ InGap(t)' \/ Pending(t)'
    BY <2>1, GapDays DEF InGap, Pending
  <2> QED BY <2>1, <2>2, <2>3, SearchStays
<1>6. ASSUME NEW d \in days, Task(d) PROVE Dealt
  <2>1. /\ pc = "download" /\ pc' = pc
        /\ InPass /\ bar = 1 /\ sym' = sym /\ now' = now
        /\ gaps' = gaps /\ days' = days \ {d} /\ failed \subseteq failed'
    BY <1>6 DEF Task, TaskSkips, TaskDownloads, TaskFails, TaskEnds, InPass
  <2>2. CASE DayOf(t) = d
    BY <1>6, <2>1, <2>2, TaskLeaves
  <2>3. CASE DayOf(t) # d
    BY <2>1, <2>3, SearchStays DEF InGap, Pending
  <2> QED BY <2>2, <2>3
<1>7. ASSUME NEW d \in failed, Query(d) PROVE Dealt
  <2>1. /\ pc = "fallback" /\ pc' = pc
        /\ InPass /\ bar = 1 /\ sym' = sym /\ now' = now
        /\ gaps' = gaps /\ days' = days /\ failed' = failed \ {d}
    BY <1>7 DEF Query, QueryWritesCSV, QueryFails, QueryEnds, InPass
  <2>2. CASE DayOf(t) = d
    BY <1>7, <2>1, <2>2, QueryLeaves
  <2>3. CASE DayOf(t) # d
    BY <2>1, <2>3, SearchStays DEF InGap, Pending
  <2> QED BY <2>2, <2>3
<1>8. ASSUME DownloadsEnd \/ QueriesEnd \/ NewDay \/ UNCHANGED vars PROVE Dealt
  <2>1. /\ InPass /\ bar = 1 /\ sym' = sym /\ now' = now /\ prev' = prev
        /\ (pc = "scan") = (pc' = "scan")
        /\ gaps' = gaps /\ days' = days /\ failed' = failed
    BY <1>8 DEF DownloadsEnd, QueriesEnd, NewDay, vars, InPass, scan, fetch
  <2> QED BY <2>1, SearchStays DEF InGap, Pending
<1>9. ~StrategyDone
  <2> SUFFICES ASSUME StrategyDone PROVE FALSE
    OBVIOUS
  <2>1. bar \in 1..Len(BarSizes) /\ Len(BarSizes) \in Nat
    BY StrategyAssumption DEF IInv, IntegrityTypeOK
  <2>2. bar' = bar + 1 \/ pc' = "symbols"
    BY DEF StrategyDone, NextStrategy, Examine
  <2> QED BY <2>1, <2>2 DEF InPass
<1>10. ~(OnStart \/ WriteAllText \/ TextWritten \/ Crash \/ Stop)
  BY DEF OnStart, WriteAllText, TextWritten, Crash, Stop, MemoryGoes, InPass
<1> QED
  BY <1>1, <1>2, <1>3, <1>4, <1>5, <1>6, <1>7, <1>8, <1>9, <1>10
     DEF Next, PassStep

-----------------------------------------------------------------------------
(* The inductive invariant, and the theorems. *)

LEMMA InitInv ==
    ASSUME Init PROVE IInv
<1>1. /\ Never \in Record /\ 1 \in 1..Len(BarSizes)
      /\ FirstDay \in FirstDay..LastDay
      /\ 0 \in 0..MaxCrashes /\ FirstDay \in FirstDay..FirstDay
  BY StrategyAssumption, DayAssumption DEF Never, Record
<1>2. IntegrityTypeOK
  BY <1>1 DEF Init, IntegrityTypeOK
<1>3. NowIsMidnight /\ FetchInOrder /\ TornExplained /\ GapsInOrder
  BY DEF Init, NowIsMidnight, FetchInOrder, TornExplained, GapsInOrder, InPass
<1>4. RecordsGood /\ Searched /\ PassRecords /\ NoUnfinishedDay /\ RecordsTogether
  BY DEF Init, RecordsGood, GoodRecord, Searched, PassRecords, NoUnfinishedDay,
         RecordsTogether, InPass
<1>5. RecordAccounted /\ VerifiedDaysAccounted
  BY DEF Init, RecordAccounted, VerifiedDaysAccounted, Range, Never
<1> QED BY <1>2, <1>3, <1>4, <1>5 DEF IInv

(* Every step keeps every part of IInv. *)
LEMMA NextInv ==
    ASSUME IInv, [Next]_vars PROVE IInv'
<1>1. IntegrityTypeOK' /\ NowIsMidnight' /\ RecordsGood' /\ FetchInOrder'
  BY TypesKeep, NowKeeps, RecordsGoodKeeps, FetchKeeps
<1>2. TornExplained' /\ GapsInOrder' /\ RecordAccounted' /\ Searched'
  BY TornKeeps, GapsKeep, RecordAccountedKeeps, SearchedKeeps
<1>3. PassRecords' /\ NoUnfinishedDay' /\ RecordsTogether' /\ VerifiedDaysAccounted'
  BY PassRecordsKeeps, NoUnfinishedDayKeeps, RecordsTogetherKeeps, VerifiedKeeps
<1> QED BY <1>1, <1>2, <1>3 DEF IInv

(* The parts of IInv hold together in every reachable state. *)
THEOREM InvHolds == Spec => []IInv
<1>1. Init => IInv
  BY InitInv
<1>2. IInv /\ [Next]_vars => IInv'
  BY NextInv
<1> QED BY <1>1, <1>2, PTL DEF Spec

(* The variables of the check keep their types, for all symbols and days. *)
THEOREM IntegrityTypesHold == Spec => []IntegrityTypeOK
<1>1. IInv => IntegrityTypeOK
  BY DEF IInv
<1> QED BY <1>1, InvHolds, PTL

(* Whatever crashes and fails, each time of the first bar size in a range  *)
(* that db_integrity.json calls verified is accounted for.                 *)
THEOREM VerifiedDaysHold == Spec => []VerifiedDaysAccounted
<1>1. IInv => VerifiedDaysAccounted
  BY DEF IInv
<1> QED BY <1>1, InvHolds, PTL

(* The JSON that OnStart reads is that of one pass over all symbols. *)
THEOREM RecordsStayTogether == Spec => []RecordsTogether
<1>1. IInv => RecordsTogether
  BY DEF IInv
<1> QED BY <1>1, InvHolds, PTL

(* No CSV file of a day that is not over is ever written. *)
THEOREM NoUnfinishedDayHolds == Spec => []NoUnfinishedDay
<1>1. IInv => NoUnfinishedDay
  BY DEF IInv
<1> QED BY <1>1, InvHolds, PTL

(* A complete CSV file is never written again. *)
THEOREM FullFilesKept == Spec => FullFilesStay
<1>1. IInv /\ [Next]_vars => \A f \in Dated : file[f] = "full" => file'[f] = "full"
  BY FilesGrow
<1> QED BY <1>1, InvHolds, PTL DEF Spec, FullFilesStay

-----------------------------------------------------------------------------
(* What a crash tore.                                                      *)

(* A file that a crash tore is torn for ever: the pass after it takes the  *)
(* file for complete because it exists, and no later one repairs it.       *)
CutFilesStayTorn == \A f \in cut : file[f] = "torn"

CutInv ==
    /\ CutFilesStayTorn
    /\ \A d \in failed : File(d) \notin cut   \* so nothing will write them

(* A day of a torn file is skipped, so it never gets among the failed ones *)
(* that the API writes again.                                              *)
LEMMA CutKeeps ==
    ASSUME IInv, CutInv, [Next]_vars PROVE CutInv'
<1>c. cut \subseteq Dated /\ file \in [Dated -> {"absent", "torn", "full"}]
  BY DEF IInv, IntegrityTypeOK
<1>2. ASSUME file' = file, cut' = cut, failed' = {} PROVE CutInv'
  BY <1>2 DEF CutInv, CutFilesStayTorn
<1>3. ASSUME NEW d \in days, Task(d) PROVE CutInv'
  <2>1. /\ cut' = cut /\ UNCHANGED <<sym, bar>> /\ File(d) \in Dated
    BY <1>3, StateFacts
       DEF Task, TaskSkips, TaskDownloads, TaskFails, TaskEnds, ghost, IInv,
           IntegrityTypeOK
  <2>2. \A e : File(e)' = File(e)
    BY <2>1 DEF File, Size
  <2>3. CASE TaskSkips(d)
    BY <2>1, <2>2, <2>3 DEF TaskSkips, CutInv, CutFilesStayTorn
  <2>4. CASE file[File(d)] = "absent"
    <3>1. File(d) \notin cut
      BY <2>4 DEF CutInv, CutFilesStayTorn
    <3>2. \A f \in Dated : f # File(d) => file'[f] = file[f]
      BY <1>3, <1>c DEF Task, TaskSkips, TaskDownloads, TaskFails
    <3>3. failed' \subseteq failed \cup {d}
      BY <1>3 DEF Task, TaskSkips, TaskDownloads, TaskFails
    <3> QED
      BY <1>c, <2>1, <2>2, <3>1, <3>2, <3>3 DEF CutInv, CutFilesStayTorn
  <2> QED BY <1>3, <2>3, <2>4 DEF Task, TaskDownloads, TaskFails
<1>4. ASSUME NEW d \in failed, Query(d) PROVE CutInv'
  <2>1. /\ cut' = cut /\ UNCHANGED <<sym, bar>> /\ failed' \subseteq failed
    BY <1>4 DEF Query, QueryWritesCSV, QueryFails, QueryEnds
  <2>2. \A e : File(e)' = File(e)
    BY <2>1 DEF File, Size
  <2>3. \A f \in Dated : f # File(d) => file'[f] = file[f]
    BY <1>4, <1>c DEF Query, QueryWritesCSV, QueryFails
  <2>4. File(d) \notin cut
    BY DEF CutInv
  <2> QED BY <1>c, <2>1, <2>2, <2>3, <2>4 DEF CutInv, CutFilesStayTorn
<1>5. CASE Crash
  <2>1. PICK files \in SUBSET {File(d) : d \in days \cup failed} :
          /\ file' = [f \in Dated |-> IF f \in files THEN "torn" ELSE file[f]]
          /\ cut' = cut \cup {f \in {File(d) : d \in days \cup failed} :
                                file'[f] = "torn"}
    BY <1>5, CrashFacts
  <2>2. failed' = {}
    BY <1>5, CrashFacts, MemoryFacts
  <2> QED BY <1>c, <2>1, <2>2 DEF CutInv, CutFilesStayTorn
<1>6. CASE Stop
  BY <1>2, <1>6, MemoryFacts DEF Stop
<1>7. ASSUME NEW s \in Symbols, VerifySymbol(s) PROVE CutInv'
  <2>1. failed' = {} /\ file' = file /\ cut' = cut
    BY <1>7 DEF VerifySymbol, fetch, disk, ghost, IInv, FetchInOrder
  <2> QED BY <1>2, <2>1
<1>8. CASE StrategyDone
  <2>1. failed' = {} /\ file' = file /\ cut' = cut
    BY <1>8 DEF StrategyDone, fetch, disk, ghost, IInv, FetchInOrder
  <2> QED BY <1>2, <2>1
<1>9. ASSUME NEW g \in gaps, APIQueryCandleData(g) PROVE CutInv'
  <2>1. failed' = {} /\ file' = file /\ cut' = cut
    BY <1>9 DEF APIQueryCandleData, disk, ghost
  <2> QED BY <1>2, <2>1
<1>10. ASSUME \/ OnStart \/ ScanEnds \/ DownloadsEnd \/ QueriesEnd \/ WriteAllText
              \/ TextWritten \/ NewDay \/ UNCHANGED vars
              \/ \E c \in rest : ScanCandle(c)
              \/ \E g \in gaps : SkipGap(g)
       PROVE  CutInv'
  <2>1. file' = file /\ cut' = cut /\ failed' = failed /\ UNCHANGED <<sym, bar>>
    BY <1>10
       DEF OnStart, ScanEnds, DownloadsEnd, QueriesEnd, WriteAllText, TextWritten,
           NewDay, vars, ScanCandle, SkipGap, fetch, disk, ghost
  <2> QED BY <2>1 DEF CutInv, CutFilesStayTorn, File, Size
<1> QED
  BY <1>3, <1>4, <1>5, <1>6, <1>7, <1>8, <1>9, <1>10 DEF Next, PassStep

(* What a crash has torn stays torn, whatever passes follow. *)
THEOREM CutForEver == Spec => []CutFilesStayTorn
<1>1. Init => CutInv
  BY DEF Init, CutInv, CutFilesStayTorn
<1>2. IInv /\ CutInv /\ [Next]_vars => CutInv'
  BY CutKeeps
<1>3. CutInv => CutFilesStayTorn
  BY DEF CutInv
<1> QED BY <1>1, <1>2, <1>3, InvHolds, PTL DEF Spec

-----------------------------------------------------------------------------
(* The record from pass to pass.                                           *)

(* What db_integrity.json has vouched for once it vouches for ever: the    *)
(* range of a symbol never loses a time, neither when a pass is cut short  *)
(* nor when a pass follows that began on the same day.                     *)
RangesStay == [][\A s \in Symbols : Range(json[s]) \subseteq Range(json'[s])]_vars

(* No range reaches further than the search of the pass that is under way. *)
JsonBehind == pc # "down" => \A s \in Symbols : json[s].end <= now

(* Later days begin later. *)
LEMMA MidnightsAscend ==
    ASSUME NEW d \in Days, NEW e \in Days, d <= e
    PROVE  Midnight(d) <= Midnight(e)
<1>1. /\ d \in Nat /\ e \in Nat /\ Midnight(d) \in Times /\ Midnight(e) \in Times
      /\ Midnight(d) \in Nat /\ Midnight(e) \in Nat /\ DayOf(Midnight(e)) = e
  BY CalendarFacts
<1>2. ~(Midnight(e) < Midnight(d))
  BY <1>1, MidnightAssumption
<1> QED BY <1>1, <1>2

(* A pass starts at a midnight that no range passes. *)
LEMMA BehindKeeps ==
    ASSUME IInv, JsonBehind, [Next]_vars PROVE JsonBehind'
<1>1. CASE OnStart
  <2>1. now' = Midnight(day) /\ json' = json /\ jsonState \in {"absent", "whole"}
    BY <1>1 DEF OnStart, disk, IInv, IntegrityTypeOK
  <2>2. day \in Days /\ Midnight(day) \in Nat /\ day \in Nat
    BY StateFacts, CalendarFacts
  <2>3. CASE jsonState = "absent"
    BY <2>1, <2>2, <2>3 DEF IInv, RecordsTogether, JsonBehind, Never
  <2>4. CASE jsonState = "whole"
    <3>1. PICK d \in FirstDay..day :
            json = [s \in Symbols |-> [start |-> OnBoard[s], end |-> Midnight(d)]]
      BY <2>4 DEF IInv, RecordsTogether
    <3>2. d \in Days /\ d <= day
      BY <2>2, StateFacts, DayAssumption DEF Days
    <3>3. Midnight(d) <= Midnight(day)
      BY <2>2, <3>2, MidnightsAscend
    <3> QED BY <2>1, <3>1, <3>3 DEF JsonBehind
  <2> QED BY <2>1, <2>3, <2>4
<1>2. CASE TextWritten
  <2>1. json' = [s \in Symbols |-> DoneRecord(s)] /\ now' = now /\ now \in Nat
    BY <1>2 DEF TextWritten, IInv, PassRecords, IntegrityTypeOK
  <2> QED BY <2>1 DEF JsonBehind, DoneRecord
<1>3. CASE Crash \/ Stop
  BY <1>3 DEF Crash, Stop, MemoryGoes, JsonBehind
<1>4. ASSUME json' = json, now' = now, pc # "down" PROVE JsonBehind'
  BY <1>4 DEF JsonBehind
<1>5. ASSUME NEW g \in gaps, SkipGap(g) \/ APIQueryCandleData(g) PROVE JsonBehind'
  BY <1>4, <1>5 DEF SkipGap, APIQueryCandleData, NextGap, disk
<1>6. ASSUME NEW d \in days, Task(d) PROVE JsonBehind'
  BY <1>4, <1>6 DEF Task, TaskSkips, TaskDownloads, TaskFails, TaskEnds
<1>7. ASSUME NEW d \in failed, Query(d) PROVE JsonBehind'
  BY <1>4, <1>7 DEF Query, QueryWritesCSV, QueryFails, QueryEnds
<1>8. ASSUME NEW s \in Symbols, VerifySymbol(s) PROVE JsonBehind'
  BY <1>4, <1>8 DEF VerifySymbol, disk
<1>9. ASSUME NEW c \in rest, ScanCandle(c) PROVE JsonBehind'
  BY <1>4, <1>9 DEF ScanCandle, disk
<1>10. ASSUME ScanEnds \/ DownloadsEnd \/ QueriesEnd \/ StrategyDone \/ WriteAllText
       PROVE  JsonBehind'
  BY <1>4, <1>10
     DEF ScanEnds, DownloadsEnd, QueriesEnd, StrategyDone, WriteAllText, disk
<1>11. ASSUME NewDay \/ UNCHANGED vars PROVE JsonBehind'
  BY <1>11 DEF NewDay, vars, disk, JsonBehind
<1> QED
  BY <1>1, <1>2, <1>3, <1>5, <1>6, <1>7, <1>8, <1>9, <1>10, <1>11
     DEF Next, PassStep

(* Once verified, always verified. *)
THEOREM VerifiedForEver == Spec => RangesStay
<1>1. Init => JsonBehind
  BY DEF Init, JsonBehind
<1>2. IInv /\ JsonBehind /\ [Next]_vars => JsonBehind'
  BY BehindKeeps
<1>3. IInv /\ JsonBehind /\ [Next]_vars
         => [\A s \in Symbols : Range(json[s]) \subseteq Range(json'[s])]_vars
  <2> SUFFICES ASSUME IInv, JsonBehind, [Next]_vars, NEW s \in Symbols
               PROVE  Range(json[s]) \subseteq Range(json'[s])
    OBVIOUS
  <2>1. CASE TextWritten
    <3>1. json'[s] = DoneRecord(s) /\ now \in Nat /\ pc # "down"
      BY <2>1 DEF TextWritten, IInv, PassRecords, IntegrityTypeOK
    <3>2. json[s].end <= now /\ GoodRecord(json[s], s)
      BY <3>1 DEF JsonBehind, IInv, RecordsGood
    <3>3. OnBoard[s] \in Nat
      BY CalendarFacts
    <3>4. CASE json[s] = Never
      BY <3>4 DEF Never, Range
    <3>5. CASE \E d \in Days : json[s] = [start |-> OnBoard[s], end |-> Midnight(d)]
      <4>1. json[s].start = OnBoard[s] /\ json[s].end \in Nat
        BY <3>5, CalendarFacts
      <4> QED BY <3>1, <3>2, <3>3, <4>1 DEF DoneRecord, Range
    <3> QED BY <3>2, <3>4, <3>5 DEF GoodRecord
  <2>2. CASE WriteAllText
    BY <2>2 DEF WriteAllText
  <2> QED BY <2>1, <2>2, JsonSteps
<1> QED BY <1>1, <1>2, <1>3, InvHolds, PTL DEF Spec, RangesStay

(* With a single cache strategy the record keeps what OnStart promises: it *)
(* is the second bar size that the record of the first one hides.          *)
THEOREM OneBarSizeIsKept == Len(BarSizes) = 1 => (Spec => []EveryBarSizeAccounted)
<1> SUFFICES ASSUME Len(BarSizes) = 1 PROVE Spec => []EveryBarSizeAccounted
  OBVIOUS
<1>1. Sizes = {First}
  BY DEF Sizes, First
<1>2. VerifiedDaysAccounted => EveryBarSizeAccounted
  BY <1>1 DEF VerifiedDaysAccounted, EveryBarSizeAccounted
<1> QED BY <1>2, VerifiedDaysHold, PTL

(* A server that is down with a torn JSON. *)
CannotRead == pc = "down" /\ jsonState = "torn"

DownForGood == CannotRead => []CannotRead

(* No restart repairs a JSON that a crash tore, and no new day does: the   *)
(* exception ComesUp makes for it is one for ever.                         *)
THEOREM TornRecordStays == Spec => []DownForGood
<1>1. IInv /\ CannotRead /\ [Next]_vars => CannotRead'
  <2> SUFFICES ASSUME IInv, CannotRead, [Next]_vars PROVE CannotRead'
    OBVIOUS
  <2>1. ~PassStep
    BY DEF CannotRead, PassStep, OnStart, VerifySymbol, ScanCandle, ScanEnds, SkipGap,
           APIQueryCandleData, NextGap, Task, TaskSkips, TaskDownloads, TaskFails,
           TaskEnds, DownloadsEnd, Query, QueryWritesCSV, QueryFails, QueryEnds,
           QueriesEnd, StrategyDone, WriteAllText, TextWritten
  <2> QED BY <2>1 DEF Next, CannotRead, Crash, Stop, NewDay, disk, vars
<1> QED BY <1>1, InvHolds, PTL DEF Spec, DownForGood
=============================================================================
