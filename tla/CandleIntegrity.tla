---------------------------- MODULE CandleIntegrity ----------------------------
(***************************************************************************)
(* The check of the stored candles at every start of the server:           *)
(* AbstractQuoteProviderService.OnStart, VerifySymbol, GetMissingIntervals *)
(* and, of the Binance provider, APIQueryCandleDataImpl, which fetches one *)
(* CSV file per day from the exchange's archive with a task per day, and   *)
(* APIQueryCandleDataAndWriteToCSV, which asks the REST API for the days   *)
(* the archive refused.                                                    *)
(*                                                                         *)
(* The files and quote/db_integrity.json survive a stop or a crash; the    *)
(* record read from the JSON, the intervals and the downloads do not.      *)
(* What the tables hold is only read: the store at line 570 is commented   *)
(* out.  Time is counted in candles of the first cache strategy.           *)
(***************************************************************************)
EXTENDS Integers, Sequences

CONSTANTS
    Symbols,      \* m_Symbols
    BarSizes,     \* the BarSize of each cache strategy, in their order
    Interval,     \* DateTimeExtensions.GetInterval of each of them
    OnBoard,      \* onBoardDateTime of each symbol
    DayOf(_),     \* the date of a time
    Midnight(_),  \* the first moment of a day
    Tables,       \* what the candle tables may hold when the program is installed
    FirstDay, LastDay,  \* the days on which the program may be started
    MaxCrashes    \* bound on the crashes

First == BarSizes[1]
Sizes == {BarSizes[b] : b \in 1..Len(BarSizes)}
Days  == 0..LastDay
Times == 1..Midnight(LastDay)
Dated == Symbols \X Sizes \X Days       \* the CSV files
Record == [start : Nat, end : Nat]      \* PerSymbolIntegrityData
Never == [start |-> 0, end |-> 0]       \* DateTime.MinValue

ASSUME StrategyAssumption ==
    /\ BarSizes \in Seq(Sizes) /\ Len(BarSizes) > 0
    /\ Interval \in [Sizes -> Nat \ {0}] /\ Interval[First] = 1
ASSUME DayAssumption ==
    /\ FirstDay \in Nat /\ LastDay \in Nat /\ FirstDay <= LastDay
    /\ MaxCrashes \in Nat
ASSUME MidnightAssumption ==
    /\ \A d \in Days : Midnight(d) \in Times /\ DayOf(Midnight(d)) = d
    /\ \A t \in Times : DayOf(t) \in Days
    /\ \A t, u \in Times : t <= u => DayOf(t) <= DayOf(u)
    /\ \A t \in Times, d \in Days : t < Midnight(d) => DayOf(t) < d
(* No candle is stored before its time. *)
ASSUME TableAssumption ==
    /\ OnBoard \in [Symbols -> Times]
    /\ Tables \subseteq
         [Symbols -> [Sizes -> SUBSET {t \in Times : DayOf(t) <= FirstDay}]]

VARIABLES
    day,        \* the current date
    table,      \* the times of the candles in each table
    file,       \* the CSV files: "absent", "torn" or "full"
    json,       \* what quote/db_integrity.json holds
    jsonState,  \* "absent", "torn" (truncated, not yet written) or "whole"
    pc,         \* where OnStart is; "down": not running, "up": it has returned
    now,        \* the midnight the pass works up to
    record,     \* m_QuoteDBIntegrityData
    todo,       \* the symbols VerifySymbol has not been called for
    sym, bar,   \* its symbol, and the strategy it is at
    prev, rest, \* GetMissingIntervals: previousTime, and the candles to come
    gaps,       \* missingIntervals that have not been dealt with
    days,       \* download tasks that have not finished
    failed,     \* failedDateTime
    crashes,
    gaveUp,     \* history: files that neither source delivered
    cut         \* history: files torn when a crash left them to a later pass

disk  == <<file, json, jsonState>>
scan  == <<prev, rest>>
fetch == <<days, failed>>
ghost == <<crashes, gaveUp, cut>>
world == <<day, table>>
vars  == <<world, disk, pc, now, record, todo, sym, bar, scan, gaps, fetch,
           ghost>>

Init ==
    /\ day = FirstDay /\ table \in Tables
    /\ file = [f \in Dated |-> "absent"]
    /\ json = [s \in Symbols |-> Never] /\ jsonState = "absent"
    /\ pc = "down" /\ now = 0
    /\ record = [s \in Symbols |-> Never]
    /\ todo = {} /\ sym \in Symbols /\ bar = 1
    /\ prev = 0 /\ rest = {} /\ gaps = {} /\ days = {} /\ failed = {}
    /\ crashes = 0 /\ gaveUp = {} /\ cut = {}

Size == BarSizes[bar]
File(d) == <<sym, Size, d>>

-----------------------------------------------------------------------------
(* Starting. A record that was cut off while it was written cannot be      *)
(* deserialized: OnStart throws, and the server stays down.                *)

(* Mutant of OnStart: a missing record is read like a present one. *)
OnStartReads ==
    /\ pc = "down" /\ jsonState = "whole"
    /\ pc' = "symbols" /\ now' = Midnight(day)
    /\ record' = json /\ todo' = Symbols
    /\ UNCHANGED <<world, disk, sym, bar, scan, gaps, fetch, ghost>>

OnStart ==
    /\ pc = "down" /\ jsonState # "torn"
    /\ pc' = "symbols" /\ now' = Midnight(day)
    /\ record' = json /\ todo' = Symbols
    /\ UNCHANGED <<world, disk, sym, bar, scan, gaps, fetch, ghost>>

(* GetMissingIntervals is called for strategy b of symbol s. *)
Examine(s, b) ==
    LET times == table[s][BarSizes[b]] IN
    /\ bar' = b /\ prev' = OnBoard[s] /\ rest' = times
    /\ IF times = {} THEN gaps' = {<<OnBoard[s], now>>} /\ pc' = "gaps"
                     ELSE gaps' = {} /\ pc' = "scan"

VerifySymbol(s) ==
    /\ pc = "symbols" /\ s \in todo
    /\ sym' = s /\ todo' = todo \ {s}
    /\ Examine(s, 1)
    /\ UNCHANGED <<world, disk, now, record, fetch, ghost>>

(* The interval between the last candle seen and time t, if it misses one. *)
Missing(t) ==
    IF t > prev + Interval[Size] THEN {<<prev + Interval[Size], t>>} ELSE {}

(* The candles are passed in ascending order. *)
ScanCandle(c) ==
    /\ pc = "scan" /\ c \in rest /\ \A other \in rest : c <= other
    /\ gaps' = gaps \cup Missing(c)
    /\ prev' = c /\ rest' = rest \ {c}
    /\ UNCHANGED <<world, disk, pc, now, record, todo, sym, bar, fetch, ghost>>

ScanEnds ==
    /\ pc = "scan" /\ rest = {}
    /\ gaps' = gaps \cup Missing(now)
    /\ pc' = "gaps"
    /\ UNCHANGED <<world, disk, now, record, todo, sym, bar, scan, fetch, ghost>>

-----------------------------------------------------------------------------
(* Filling the gaps, the earliest first. *)

NextGap(g) == pc = "gaps" /\ g \in gaps /\ \A h \in gaps : g[1] <= h[1]

(* The record says that the interval has been dealt with. *)
Verified(g) == record[sym].start <= g[1] /\ g[2] <= record[sym].end

SkipGap(g) ==
    /\ NextGap(g) /\ Verified(g)
    /\ gaps' = gaps \ {g}
    /\ UNCHANGED <<world, disk, pc, now, record, todo, sym, bar, scan, fetch,
                   ghost>>

(* Mutant of DaysBefore: the day of the end is downloaded as well. *)
DaysThrough(g) == DayOf(g[1]) .. DayOf(g[2])

(* Mutant of DaysBefore: the wrong sign in AddDays. *)
DaysBeyond(g) == DayOf(g[1]) .. (DayOf(g[2]) + 1)

(* The archive has a day's file on the next day. *)
DaysBefore(g) == DayOf(g[1]) .. (DayOf(g[2]) - 1)

APIQueryCandleData(g) ==
    /\ NextGap(g) /\ ~Verified(g)
    /\ gaps' = gaps \ {g}
    /\ days' = DaysBefore(g) /\ failed' = {}
    /\ pc' = "download"
    /\ UNCHANGED <<world, disk, now, record, todo, sym, bar, scan, ghost>>

(* The task of a day ends. *)
TaskEnds(d) ==
    /\ pc = "download" /\ d \in days
    /\ days' = days \ {d}
    /\ UNCHANGED <<world, json, jsonState, pc, now, record, todo, sym, bar,
                   scan, gaps, ghost>>

(* The file exists, whatever it holds. *)
TaskSkips(d) ==
    /\ TaskEnds(d)
    /\ file[File(d)] # "absent"
    /\ UNCHANGED <<file, failed>>

TaskDownloads(d) ==
    /\ TaskEnds(d)
    /\ file[File(d)] = "absent"
    /\ file' = [file EXCEPT ![File(d)] = "full"]
    /\ UNCHANGED failed

(* Mutant of TaskFails: the download starts although the file is there. *)
TaskFailsAnyway(d) ==
    /\ TaskEnds(d)
    /\ \E state \in {"absent", "torn"} : file' = [file EXCEPT ![File(d)] = state]
    /\ failed' = failed \cup {d}

(* The archive has no such file, or it is extracted only in part. *)
TaskFails(d) ==
    /\ TaskEnds(d)
    /\ file[File(d)] = "absent"
    /\ \E state \in {"absent", "torn"} : file' = [file EXCEPT ![File(d)] = state]
    /\ failed' = failed \cup {d}

(* Mutant of DownloadsEnd: nobody looks at failedDateTime. *)
DownloadsForget ==
    /\ pc = "download" /\ days = {}
    /\ pc' = "gaps" /\ failed' = {}
    /\ UNCHANGED <<world, disk, now, record, todo, sym, bar, scan, gaps, days,
                   ghost>>

DownloadsEnd ==
    /\ pc = "download" /\ days = {}
    /\ pc' = "fallback"
    /\ UNCHANGED <<world, disk, now, record, todo, sym, bar, scan, gaps, fetch,
                   ghost>>

-----------------------------------------------------------------------------
(* APIQueryCandleDataAndWriteToCSV: an exception is caught day by day. *)

QueryEnds(d) ==
    /\ pc = "fallback" /\ d \in failed
    /\ failed' = failed \ {d}
    /\ UNCHANGED <<world, json, jsonState, pc, now, record, todo, sym, bar,
                   scan, gaps, days, crashes, cut>>

QueryWritesCSV(d) ==
    /\ QueryEnds(d)
    /\ file' = [file EXCEPT ![File(d)] = "full"]
    /\ UNCHANGED gaveUp

(* The query fails before the file is opened, or the writing fails. *)
QueryFails(d) ==
    /\ QueryEnds(d)
    /\ file' \in {file, [file EXCEPT ![File(d)] = "torn"]}
    /\ gaveUp' = gaveUp \cup {File(d)}

QueriesEnd ==
    /\ pc = "fallback" /\ failed = {}
    /\ pc' = "gaps"
    /\ UNCHANGED <<world, disk, now, record, todo, sym, bar, scan, gaps, fetch,
                   ghost>>

-----------------------------------------------------------------------------
(* The record of the symbol is overwritten after each of its strategies,   *)
(* and the JSON once, when all symbols are done.                           *)

NextStrategy ==
    IF bar < Len(BarSizes)
    THEN Examine(sym, bar + 1)
    ELSE pc' = "symbols" /\ UNCHANGED <<bar, scan, gaps>>

(* Mutant of StrategyDone: the record is saved at every step of the pass. *)
StrategySaves ==
    /\ pc = "gaps" /\ gaps = {}
    /\ record' = [record EXCEPT ![sym] = [start |-> OnBoard[sym], end |-> now]]
    /\ json' = record' /\ jsonState' = "whole"
    /\ NextStrategy
    /\ UNCHANGED <<world, file, now, todo, sym, fetch, ghost>>

StrategyDone ==
    /\ pc = "gaps" /\ gaps = {}
    /\ record' = [record EXCEPT ![sym] = [start |-> OnBoard[sym], end |-> now]]
    /\ NextStrategy
    /\ UNCHANGED <<world, disk, now, todo, sym, fetch, ghost>>

WriteAllText ==
    /\ pc = "symbols" /\ todo = {}
    /\ pc' = "write" /\ jsonState' = "torn"
    /\ UNCHANGED <<world, file, json, now, record, todo, sym, bar, scan, gaps,
                   fetch, ghost>>

TextWritten ==
    /\ pc = "write"
    /\ pc' = "up" /\ jsonState' = "whole" /\ json' = record
    /\ UNCHANGED <<world, file, now, record, todo, sym, bar, scan, gaps, fetch,
                   ghost>>

-----------------------------------------------------------------------------
(* The world. *)

(* The process goes, and with it everything that is not on disk. *)
MemoryGoes ==
    /\ pc' = "down" /\ now' = 0
    /\ record' = [s \in Symbols |-> Never]
    /\ todo' = {} /\ bar' = 1 /\ prev' = 0 /\ rest' = {} /\ gaps' = {}
    /\ days' = {} /\ failed' = {}
    /\ UNCHANGED <<world, json, jsonState, sym, gaveUp>>

(* The days whose files a crash may catch half written. *)
InFlight ==
    CASE pc = "download" -> SUBSET {d \in days : file[File(d)] = "absent"}
      [] pc = "fallback" -> {{}} \cup {{d} : d \in failed}
      [] OTHER -> {{}}

(* The process is killed, or an exception nobody catches ends the start. *)
Crash ==
    /\ pc \notin {"down", "up"} /\ crashes < MaxCrashes
    /\ crashes' = crashes + 1
    /\ \E caught \in InFlight :
         LET files == {File(d) : d \in caught} IN
         /\ file' = [f \in Dated |-> IF f \in files THEN "torn" ELSE file[f]]
         /\ cut' = cut \cup {f \in {File(d) : d \in days \cup failed} :
                              file'[f] = "torn"}
    /\ MemoryGoes

Stop ==
    /\ pc = "up"
    /\ MemoryGoes
    /\ UNCHANGED <<file, crashes, cut>>

NewDay ==
    /\ day < LastDay
    /\ day' = day + 1
    /\ UNCHANGED <<table, disk, pc, now, record, todo, sym, bar, scan, gaps,
                   fetch, ghost>>

Task(d) == TaskSkips(d) \/ TaskDownloads(d) \/ TaskFails(d)
Query(d) == QueryWritesCSV(d) \/ QueryFails(d)

PassStep ==
    \/ OnStart
    \/ \E s \in Symbols : VerifySymbol(s)
    \/ \E c \in rest : ScanCandle(c)
    \/ ScanEnds
    \/ \E g \in gaps : SkipGap(g) \/ APIQueryCandleData(g)
    \/ \E d \in days : Task(d)
    \/ DownloadsEnd
    \/ \E d \in failed : Query(d)
    \/ QueriesEnd
    \/ StrategyDone
    \/ WriteAllText
    \/ TextWritten

Next == PassStep \/ Crash \/ Stop \/ NewDay

(* The server is started whenever it is down, and every request returns:   *)
(* HttpClient and the REST client have time-outs.                          *)
Fairness == WF_vars(PassStep)

Spec == Init /\ [][Next]_vars /\ Fairness

-----------------------------------------------------------------------------
(* Properties. *)

(* The types of the variables. *)
IntegrityTypeOK ==
    /\ day \in FirstDay..LastDay /\ table \in Tables
    /\ file \in [Dated -> {"absent", "torn", "full"}]
    /\ json \in [Symbols -> Record] /\ jsonState \in {"absent", "torn", "whole"}
    /\ pc \in {"down", "symbols", "scan", "gaps", "download", "fallback",
               "write", "up"}
    /\ now \in Nat /\ record \in [Symbols -> Record]
    /\ todo \subseteq Symbols /\ sym \in Symbols /\ bar \in 1..Len(BarSizes)
    /\ prev \in Nat /\ rest \subseteq Times /\ gaps \subseteq Times \X Times
    /\ days \subseteq Days /\ failed \subseteq Days
    /\ crashes \in 0..MaxCrashes /\ gaveUp \subseteq Dated /\ cut \subseteq Dated

(* What becomes of a time t of a verified range.  GetMissingIntervals      *)
(* starts one interval after the start, and a gap that a stored candle     *)
(* ends is downloaded up to the day before that candle.                    *)
Stored(s, z, t) == t \in table[s][z]
NotSearched(s, z, t) ==
    t = OnBoard[s] \/ \E c \in table[s][z] : t < c /\ DayOf(c) = DayOf(t)
FileOfDay(s, z, d) ==
    \/ file[<<s, z, d>>] = "full"
    \/ <<s, z, d>> \in gaveUp \cup cut
Accounted(s, z, t) ==
    Stored(s, z, t) \/ NotSearched(s, z, t) \/ FileOfDay(s, z, DayOf(t))

Range(r) == r.start .. (r.end - 1)

(* Across crashes, restarts and failing downloads, a candle of the first   *)
(* bar size in the range that quote/db_integrity.json vouches for is in    *)
(* the table, or in a complete file, or its day was given up by both       *)
(* sources or cut by a crash - or it is one the search does not see.       *)
VerifiedDaysAccounted ==
    jsonState = "whole" =>
        \A s \in Symbols : \A t \in Range(json[s]) : Accounted(s, First, t)

(* What the comment at OnStart promises: integrity means that for every    *)
(* bar size that is cached the data is complete.  It is not: the record of *)
(* a symbol is overwritten after its first bar size, and the missing       *)
(* intervals of the others count as verified.                              *)
EveryBarSizeAccounted ==
    jsonState = "whole" =>
        \A s \in Symbols, z \in Sizes : \A t \in Range(json[s]) :
            Accounted(s, z, t)

(* The JSON speaks of all symbols or of none: a crash in the middle of a   *)
(* pass leaves the record of the pass before.                              *)
RecordsTogether ==
    CASE jsonState = "absent" -> json = [s \in Symbols |-> Never]
      [] jsonState = "whole" ->
           \E d \in FirstDay..day :
               json = [s \in Symbols |->
                          [start |-> OnBoard[s], end |-> Midnight(d)]]
      [] OTHER -> TRUE

(* A file is taken for complete for ever, so it must not be fetched while  *)
(* its day is not over.                                                    *)
NoUnfinishedDay ==
    \A f \in Dated : file[f] # "absent" => f[3] < day

(* A complete file is never written again, neither by a later pass nor by  *)
(* the API after a download that failed.                                   *)
FullFilesStay ==
    [][\A f \in Dated : file[f] = "full" => file'[f] = "full"]_vars

(* The server comes up again after a stop or a crash, however many         *)
(* downloads fail, unless the crash tore the JSON.                         *)
ComesUp == pc = "down" ~> (pc = "up" \/ jsonState = "torn")
=============================================================================
