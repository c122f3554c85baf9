------------------------- MODULE MCStockReadThrough -------------------------
\* Two K-line keys of one series that differ in their limit, a key of adjustment
\* factors and one of the calendar.
EXTENDS StockReadThrough, TLC

CONSTANTS r1, r2, r3, short, long, adj, cal

MCRequests3 == {r1, r2, r3}

MCAllKeys   == {short, long, adj, cal}
MCKlineKeys == {short, long}

MCKindOf ==
  [k \in Keys |-> CASE k = adj -> "adjFactor" [] k = cal -> "tradeCal" [] OTHER -> "daily"]

MCSeriesOf == [k \in Keys |-> IF k \in MCKlineKeys THEN short ELSE k]

MCNeed == [k \in Keys |-> IF k \in {long, adj} THEN 2 ELSE 1]

MCSymmetry == Permutations(Requests)

=============================================================================
