------------------------- MODULE MCWatchlistWorker -------------------------
(***************************************************************************)
(* One user and two stocks over three minutes: 22:00 of a trading day, an  *)
(* hourly minute that also refreshes the research reports, and 22:00 of a  *)
(* day without trading.                                                    *)
(***************************************************************************)
EXTENDS WatchlistWorker

CONSTANT u1

MCMinutes   == 0 .. 2
MCHourOf    == [t \in MCMinutes |-> 22]
MCDayOf     == [t \in MCMinutes |-> IF t = 2 THEN 1 ELSE 0]

Watched(hourly, daily, web) ==
  [NoItem EXCEPT !.on = TRUE, !.hourly = hourly, !.daily = daily, !.web = web]

\* One stock for the daily analysis, or two for the synchronisation.
MCWatchlists ==
  { [u \in {u1} |-> [s \in {1, 2} |-> IF s = 1 THEN Watched(FALSE, TRUE, FALSE) ELSE NoItem]],
    [u \in {u1} |-> [s \in {1, 2} |-> Watched(TRUE, FALSE, FALSE)]] }

=============================================================================
