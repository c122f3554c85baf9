------------------------- MODULE MCAnalysisSession -------------------------
(***************************************************************************)
(* Instances of AnalysisSession for TLC.  Requests c1 and c2 reach the API *)
(* process, d1 is a target of the watchlist worker's daily run; w1 and w2  *)
(* are Analysis Workers.  Both keys share one stock, topic, anchor and     *)
(* mode and differ in their trigger.                                       *)
(***************************************************************************)
EXTENDS AnalysisSession, TLC

CONSTANTS c1, c2, d1, w1, w2

MCKeys       == {"plain", "daily"}
MCDailyKeys  == {"daily"}
MCCooldownOf == [k \in MCKeys |-> "stock"]

MCKeyOf ==
  [c \in Callers |-> IF c = d1 THEN "daily" ELSE "plain"]

MCProcs  == {"api", "watchlist", "worker1", "worker2"}
MCProcOf ==
  [a \in Callers \union Workers |->
     CASE a = d1 -> "watchlist"
       [] a = w1 -> "worker1"
       [] a = w2 -> "worker2"
       [] OTHER  -> "api"]

ReportSymmetry == Permutations(ReportIds)

=============================================================================
