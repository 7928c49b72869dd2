--------------------------- MODULE MCCandleIntegrity ---------------------------
(***************************************************************************)
(* A small instance: two candles of the first bar size a day, two bar      *)
(* sizes, a symbol listed on day 0 with any part of its candles stored,    *)
(* and one listed on the day of the first start, after midnight.           *)
(***************************************************************************)
EXTENDS CandleIntegrity

CONSTANTS Old, New

MCSymbols   == {Old, New}
MCBarSizes  == <<"1m", "1D">>
MCInterval  == [z \in {"1m", "1D"} |-> IF z = "1m" THEN 1 ELSE 2]
MCOnBoard   == [s \in MCSymbols |-> IF s = Old THEN 2 ELSE 6]
MCDayOf(t)    == (t - 1) \div 2
MCMidnight(d) == 2 * d + 1
MCTables ==
    {[s \in MCSymbols |-> [z \in {"1m", "1D"} |->
         IF s = Old /\ z = "1m" THEN times ELSE {}]] :
      times \in SUBSET {2, 3, 4, 5}}
=============================================================================
