-------------------------- MODULE SessionContract --------------------------
(***************************************************************************)
(* What an analysis session promises to whoever was given its identifier:  *)
(* it is queued once, executed, and ends once, completed with exactly one  *)
(* report or failed with none.  What a client polling                      *)
(* /analysis/sessions/{id} may rely on, without locks, claims or crashes.  *)
(***************************************************************************)
CONSTANTS SessionIds, ReportIds

VARIABLES
  phase,    \* the status each session shows
  reports   \* the reports stored for it

cvars == <<phase, reports>>

Init ==
  /\ phase = [s \in SessionIds |-> "absent"]
  /\ reports = [s \in SessionIds |-> {}]

Becomes(s, from, to) ==
  /\ phase[s] = from
  /\ phase' = [phase EXCEPT ![s] = to]

Enqueue(s) == Becomes(s, "absent", "queued") /\ UNCHANGED reports

Start(s) == Becomes(s, "queued", "running") /\ UNCHANGED reports

Complete(s) ==
  /\ Becomes(s, "running", "completed")
  /\ \E r \in ReportIds : reports' = [reports EXCEPT ![s] = {r}]
  /\ reports[s] = {}

Fail(s) == Becomes(s, "running", "failed") /\ UNCHANGED reports

Next == \E s \in SessionIds : Enqueue(s) \/ Start(s) \/ Complete(s) \/ Fail(s)

Spec == Init /\ [][Next]_cvars

=============================================================================
