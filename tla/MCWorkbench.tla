---------------------------- MODULE MCWorkbench ----------------------------
(* Two stocks: one with two reports from before, one with a single one. *)
EXTENDS Workbench, TLC

CONSTANTS a, b

MCOld == [stock \in {a, b} |-> IF stock = a THEN {1, 2} ELSE {3}]

=============================================================================
