-------------------------- MODULE AnalysisSession --------------------------
(***************************************************************************)
(* The life of an analysis generation session: the requests that create or *)
(* reuse one (start_analysis_session), the Analysis Workers that claim it, *)
(* the run that produces its report, the failure path, and the Redis entry *)
(* that names the active session of a key.                                 *)
(*                                                                         *)
(* A "caller" is one call of start_analysis_session: a request of the API  *)
(* process or a target of the watchlist worker's daily run.  A "runner" is *)
(* whoever executes run_analysis_session_by_id: an Analysis Worker, or a   *)
(* caller that asked for inline execution.  Every step between two awaits  *)
(* that reach the database or Redis is one action.                         *)
(***************************************************************************)
EXTENDS Integers, FiniteSets

CONSTANTS
  Callers,          \* calls of start_analysis_session
  Inline,           \* the callers that pass execute_inline=True
  Workers,          \* Analysis Worker processes
  Procs,            \* operating system processes
  ProcOf,           \* the process of each caller and worker
  Keys,             \* analysis keys
  KeyOf,            \* the analysis key of each caller
  CooldownOf,       \* ts_code, topic, anchor and mode: the part of a key a report has
  DailyKeys,        \* the keys whose trigger source is watchlist_daily
  SessionIds,       \* bound: session rows, numbered in creation order
  ReportIds,        \* bound: report rows
  PoolSize,         \* db_pool_size + db_max_overflow of each process
  MaxFaults,        \* bound: crashes and failed recovery writes in a behaviour
  HeartbeatsKeepUp, \* TRUE: a row somebody runs never looks stale
  QueueServedInTtl, \* TRUE: a queued row is claimed within the active-session TTL
  None              \* no caller, no session, no report

Actors == Callers \union Workers

ActiveStatus == {"queued", "running"}
FinalStatus  == {"completed", "failed"}
Statuses     == {"absent"} \union ActiveStatus \union FinalStatus

JobFinal    == {"success", "partial", "failed"}
JobStatuses == {"none", "queued", "running"} \union JobFinal

\* Time since the row was last touched: within the TTL of an active session
\* (300 s), beyond it, or beyond the stale threshold of a running one (900 s).
Ages == {"recent", "lapsed", "stale"}

ASSUME ActorsAssumption ==
  /\ Inline \subseteq Callers
  /\ Callers \intersect Workers = {}
  /\ ProcOf \in [Actors -> Procs]

ASSUME KeysAssumption ==
  /\ KeyOf \in [Callers -> Keys]
  /\ DailyKeys \subseteq Keys
  /\ DOMAIN CooldownOf = Keys

ASSUME BoundsAssumption ==
  /\ SessionIds \subseteq Nat
  /\ PoolSize \in Nat \ {0}
  /\ MaxFaults \in Nat
  /\ HeartbeatsKeepUp \in BOOLEAN
  /\ QueueServedInTtl \in BOOLEAN

ASSUME NoneAssumption ==
  None \notin SessionIds \union ReportIds \union Callers

VARIABLES
  row,      \* analysis_generation_sessions joined with their system_job_runs row
  report,   \* analysis_reports: the session of each row, and is it in the cooldown
  stamped,  \* daily keys whose watchlist rows carry last_daily_analysis_at
  lock,     \* the caller inside session_lock(key), per process
  conns,    \* callers whose database session holds a pooled connection
  call,     \* progress of each caller
  run,      \* progress of each runner, with the ORM copy of the row it loaded
  active,   \* Redis analysis:active:<key>
  faults    \* crashes and failed recovery writes so far

vars == <<row, report, stamped, lock, conns, call, run, active, faults>>

-----------------------------------------------------------------------------
CallPcs == {"idle", "lock", "fresh", "active", "create", "refresh",
            "cacheReused", "cacheNew", "inline", "running", "done", "error"}
RunPcs  == {"idle", "load", "loadJob", "start", "working", "failing",
            "persist", "clearGet", "clearDelete"}

Row == [status : Statuses, job : JobStatuses, key : Keys \union {None},
        age : Ages, report : ReportIds \union {None}]

Run == [pc : RunPcs, sid : SessionIds \union {None},
        status : Statuses, job : JobStatuses]

NoRow     == [status |-> "absent", job |-> "none", key |-> None,
              age |-> "recent", report |-> None]
NoReport  == [session |-> None, fresh |-> FALSE]
NoRun     == [pc |-> "idle", sid |-> None, status |-> "absent", job |-> "none"]
IdleCall  == [pc |-> "idle", sid |-> None]

TypeOK ==
  /\ row \in [SessionIds -> Row]
  /\ report \in [ReportIds -> [session : SessionIds \union {None}, fresh : BOOLEAN]]
  /\ stamped \subseteq DailyKeys
  /\ lock \in [Procs -> [Keys -> Callers \union {None}]]
  /\ conns \subseteq Callers
  /\ call \in [Callers -> [pc : CallPcs, sid : SessionIds \union {None}]]
  /\ run \in [Actors -> Run]
  /\ active \in [Keys -> SessionIds \union {None}]
  /\ faults \in 0 .. MaxFaults

Init ==
  /\ row = [s \in SessionIds |-> NoRow]
  /\ report = [r \in ReportIds |-> NoReport]
  /\ stamped = {}
  /\ lock = [p \in Procs |-> [k \in Keys |-> None]]
  /\ conns = {}
  /\ call = [c \in Callers |-> IdleCall]
  /\ run = [a \in Actors |-> NoRun]
  /\ active = [k \in Keys |-> None]
  /\ faults = 0

-----------------------------------------------------------------------------
(***************************************************************************)
(* start_analysis_session                                                  *)
(***************************************************************************)

ConnectionFree(p) == Cardinality({c \in conns : ProcOf[c] = p}) < PoolSize

CallMoves(c, from, to) ==
  /\ call[c].pc = from
  /\ call' = [call EXCEPT ![c].pc = to]

LeaveLock(c) == lock' = [lock EXCEPT ![ProcOf[c]][KeyOf[c]] = None]

\* The request's first query takes a pooled connection and keeps it: the
\* transaction it opens stays open until the commit or the end of the request.
LookUpStock(c) ==
  /\ ConnectionFree(ProcOf[c])
  /\ CallMoves(c, "idle", "lock")
  /\ conns' = conns \union {c}
  /\ UNCHANGED <<row, report, stamped, lock, run, active, faults>>

\* Unknown stock, or no connection before the pool's timeout.
RejectCall(c) ==
  /\ CallMoves(c, "idle", "error")
  /\ UNCHANGED <<row, report, stamped, lock, conns, run, active, faults>>

\* Mutant: the section is entered whoever is inside.
EnterLock_Unguarded(c) ==
  /\ CallMoves(c, "lock", "fresh")
  /\ lock' = [lock EXCEPT ![ProcOf[c]][KeyOf[c]] = c]
  /\ UNCHANGED <<row, report, stamped, conns, run, active, faults>>

EnterLock(c) ==
  /\ lock[ProcOf[c]][KeyOf[c]] = None
  /\ CallMoves(c, "lock", "fresh")
  /\ lock' = [lock EXCEPT ![ProcOf[c]][KeyOf[c]] = c]
  /\ UNCHANGED <<row, report, stamped, conns, run, active, faults>>

InCooldown(k) ==
  \E r \in ReportIds :
    /\ report[r].fresh
    /\ CooldownOf[row[report[r].session].key] = CooldownOf[k]

LoadFreshReport(c) ==
  \/ /\ InCooldown(KeyOf[c])
     /\ CallMoves(c, "fresh", "done")
     /\ LeaveLock(c)
     /\ conns' = conns \ {c}
     /\ UNCHANGED <<row, report, stamped, run, active, faults>>
  \/ /\ ~InCooldown(KeyOf[c])
     /\ CallMoves(c, "fresh", "active")
     /\ UNCHANGED <<row, report, stamped, lock, conns, run, active, faults>>

\* The rows load_active_session_by_key may return; updated_at ties the newest
\* ones at this resolution, so any of them is the first.
ActiveSessions(k) ==
  {s \in SessionIds : /\ row[s].key = k
                      /\ row[s].status \in ActiveStatus
                      /\ row[s].age = "recent"}

LoadActiveSession(c) ==
  \/ \E s \in ActiveSessions(KeyOf[c]) :
       /\ call[c].pc = "active"
       /\ call' = [call EXCEPT ![c] = [pc |-> "cacheReused", sid |-> s]]
       /\ UNCHANGED <<row, report, stamped, lock, conns, run, active, faults>>
  \/ /\ ActiveSessions(KeyOf[c]) = {}
     /\ CallMoves(c, "active", "create")
     /\ UNCHANGED <<row, report, stamped, lock, conns, run, active, faults>>

NextId(s) ==
  /\ row[s].status = "absent"
  /\ \A t \in SessionIds : t < s => row[t].status # "absent"

\* Job row and session row in one commit, which also gives the connection back.
CreateSession(c) ==
  /\ call[c].pc = "create"
  /\ \E s \in SessionIds :
       /\ NextId(s)
       /\ row' = [row EXCEPT ![s] = [NoRow EXCEPT !.status = "queued", !.job = "queued",
                                                   !.key = KeyOf[c]]]
       /\ call' = [call EXCEPT ![c] = [pc |-> "refresh", sid |-> s]]
  /\ conns' = conns \ {c}
  /\ UNCHANGED <<report, stamped, lock, run, active, faults>>

\* Still inside the lock: the refresh takes a connection again ...
RefreshRow(c) ==
  /\ ConnectionFree(ProcOf[c])
  /\ CallMoves(c, "refresh", "cacheNew")
  /\ conns' = conns \union {c}
  /\ UNCHANGED <<row, report, stamped, lock, run, active, faults>>

\* Mutant: a pool that waits for a connection without a timeout.
RefreshTimesOut_Never(c) ==
  /\ FALSE
  /\ CallMoves(c, "refresh", "error")
  /\ UNCHANGED <<row, report, stamped, lock, conns, run, active, faults>>

\* ... or gives up after the pool's timeout: the request fails, its row stays.
RefreshTimesOut(c) ==
  /\ ~ConnectionFree(ProcOf[c])
  /\ CallMoves(c, "refresh", "error")
  /\ LeaveLock(c)
  /\ UNCHANGED <<row, report, stamped, conns, run, active, faults>>

\* cache_active_session_id swallows Redis errors, so the entry may stay as it was.
CacheActiveSession(c) ==
  /\ call[c].pc \in {"cacheReused", "cacheNew"}
  /\ \/ active' = [active EXCEPT ![KeyOf[c]] = call[c].sid]
     \/ UNCHANGED active
  /\ LeaveLock(c)
  /\ IF call[c].pc = "cacheNew" /\ c \in Inline
       THEN CallMoves(c, "cacheNew", "inline") /\ UNCHANGED conns
       ELSE CallMoves(c, call[c].pc, "done") /\ conns' = conns \ {c}
  /\ UNCHANGED <<row, report, stamped, run, faults>>

\* The run opens a second database session while the caller keeps its own.
RunInline(c) ==
  /\ ConnectionFree(ProcOf[c])
  /\ CallMoves(c, "inline", "running")
  /\ run' = [run EXCEPT ![c] = [NoRun EXCEPT !.pc = "load", !.sid = call[c].sid]]
  /\ UNCHANGED <<row, report, stamped, lock, conns, active, faults>>

InlineTimesOut(c) ==
  /\ ~ConnectionFree(ProcOf[c])
  /\ CallMoves(c, "inline", "error")
  /\ conns' = conns \ {c}
  /\ UNCHANGED <<row, report, stamped, lock, run, active, faults>>

\* run_analysis_session_by_id has returned to the caller that awaited it.
ReturnFromInline(c) ==
  /\ run[c].pc = "idle"
  /\ CallMoves(c, "running", "done")
  /\ conns' = conns \ {c}
  /\ UNCHANGED <<row, report, stamped, lock, run, active, faults>>

-----------------------------------------------------------------------------
(***************************************************************************)
(* run_analysis_worker_iteration: claim, then run                          *)
(***************************************************************************)

Queued == {s \in SessionIds : row[s].status = "queued"}
\* Mutants: the heartbeat is not compared; failed sessions are retried; the
\* wrong status is compared.
Stale_IgnoresHeartbeat == {s \in SessionIds : row[s].status = "running"}
Stale_RetriesFailed ==
  {s \in SessionIds : \/ row[s].status = "running" /\ row[s].age = "stale"
                      \/ row[s].status = "failed"}
Stale_WrongStatus == {s \in SessionIds : row[s].status = "queued" /\ row[s].age = "stale"}

Stale  == {s \in SessionIds : row[s].status = "running" /\ row[s].age = "stale"}

Claim(w, s) ==
  /\ run[w].pc = "idle"
  /\ row' = [row EXCEPT ![s].status = "running", ![s].age = "recent"]
  /\ run' = [run EXCEPT ![w] = [NoRun EXCEPT !.pc = "load", !.sid = s]]
  /\ UNCHANGED <<report, stamped, lock, conns, call, active, faults>>

ClaimQueued(w) ==
  \E s \in Queued : (\A t \in Queued : s <= t) /\ Claim(w, s)

ClaimStale(w) ==
  /\ Queued = {}
  /\ \E s \in Stale : Claim(w, s)

-----------------------------------------------------------------------------
(***************************************************************************)
(* run_analysis_session_by_id.  The ORM keeps the values it loaded         *)
(* (expire_on_commit=False) and an UPDATE carries only the attributes that *)
(* differ from them: a status set to the value already held is not written.*)
(***************************************************************************)

RunMoves(a, from, to) ==
  /\ run[a].pc = from
  /\ run' = [run EXCEPT ![a].pc = to]

LoadRow(a) ==
  /\ run[a].pc = "load"
  /\ run' = [run EXCEPT ![a].pc = "loadJob", ![a].status = row[run[a].sid].status]
  /\ UNCHANGED <<row, report, stamped, lock, conns, call, active, faults>>

LoadJob(a) ==
  /\ run[a].pc = "loadJob"
  /\ run' = [run EXCEPT ![a].pc = "start", ![a].job = row[run[a].sid].job]
  /\ UNCHANGED <<row, report, stamped, lock, conns, call, active, faults>>

\* Both reads are outside the try block: the exception reaches the worker's loop,
\* or the caller that awaits the run.
LoadFails(a) ==
  /\ faults < MaxFaults
  /\ run[a].pc \in {"load", "loadJob"}
  /\ run' = [run EXCEPT ![a] = NoRun]
  /\ call' = [c \in Callers |-> IF c = a THEN [call[c] EXCEPT !.pc = "error"] ELSE call[c]]
  /\ conns' = conns \ {a}
  /\ faults' = faults + 1
  /\ UNCHANGED <<row, report, stamped, lock, active>>

Changed(held, new, stored) == IF held = new THEN stored ELSE new

\* Mutant: the daily stamp is written when the run starts.
StartRun_Stamps(a) ==
  LET s == run[a].sid IN
  /\ run[a].pc = "start"
  /\ row' = [row EXCEPT ![s].status = Changed(run[a].status, "running", @),
                        ![s].job    = Changed(run[a].job, "running", @),
                        ![s].age    = "recent"]
  /\ run' = [run EXCEPT ![a].pc = "working", ![a].status = "running", ![a].job = "running"]
  /\ stamped' = stamped \union ({row[s].key} \intersect DailyKeys)
  /\ UNCHANGED <<report, lock, conns, call, active, faults>>

StartRun(a) ==
  LET s == run[a].sid IN
  /\ run[a].pc = "start"
  /\ row' = [row EXCEPT ![s].status = Changed(run[a].status, "running", @),
                        ![s].job    = Changed(run[a].job, "running", @),
                        ![s].age    = "recent"]
  /\ run' = [run EXCEPT ![a].pc = "working", ![a].status = "running", ![a].job = "running"]
  /\ UNCHANGED <<report, stamped, lock, conns, call, active, faults>>

\* Every stage and every streamed fragment commits progress with a heartbeat.
Progress(a) ==
  /\ run[a].pc = "working"
  /\ row' = [row EXCEPT ![run[a].sid].age = "recent"]
  /\ UNCHANGED <<report, stamped, lock, conns, call, run, active, faults>>

\* The background task, alive from the first commit to the finally block.
Heartbeat(a) ==
  /\ run[a].pc \in {"working", "failing", "persist", "clearGet", "clearDelete"}
  /\ row[run[a].sid].status \in ActiveStatus
  /\ row' = [row EXCEPT ![run[a].sid].age = "recent"]
  /\ UNCHANGED <<report, stamped, lock, conns, call, run, active, faults>>

\* Mutant: report_id is not set on the session.
Complete_DropsReportId(a) ==
  LET s == run[a].sid IN
  /\ RunMoves(a, "working", "clearGet")
  /\ \E r \in ReportIds :
       /\ report[r] = NoReport
       /\ report' = [report EXCEPT ![r] = [session |-> s, fresh |-> TRUE]]
       /\ row' = [row EXCEPT ![s].status = "completed", ![s].job = "success"]
  /\ stamped' = stamped \union ({row[s].key} \intersect DailyKeys)
  /\ UNCHANGED <<lock, conns, call, active, faults>>

\* One commit: the report, the final status, the stamp on the watchlist rows
\* and the job's outcome ("ready" or "partial", by the roles' results).
Complete(a) ==
  LET s == run[a].sid IN
  /\ RunMoves(a, "working", "clearGet")
  /\ \E r \in ReportIds, outcome \in {"success", "partial"} :
       /\ report[r] = NoReport
       /\ report' = [report EXCEPT ![r] = [session |-> s, fresh |-> TRUE]]
       /\ row' = [row EXCEPT ![s].status = "completed", ![s].report = r,
                             ![s].job = outcome, ![s].age = "recent"]
  /\ stamped' = stamped \union ({row[s].key} \intersect DailyKeys)
  /\ UNCHANGED <<lock, conns, call, active, faults>>

\* Any exception after the try: the transaction is rolled back.
Fail(a) ==
  /\ \/ RunMoves(a, "start", "failing")
     \/ RunMoves(a, "working", "failing")
  /\ UNCHANGED <<row, report, stamped, lock, conns, call, active, faults>>

\* _persist_analysis_session_failure: a fresh session loads the row again.
LoadForFailure(a) ==
  /\ run[a].pc = "failing"
  /\ run' = [run EXCEPT ![a].pc = "persist", ![a].status = row[run[a].sid].status]
  /\ UNCHANGED <<row, report, stamped, lock, conns, call, active, faults>>

\* Mutant: the job row is forgotten.
PersistFailure_ForgetsJob(a) ==
  /\ RunMoves(a, "persist", "clearGet")
  /\ row' = [row EXCEPT ![run[a].sid].status = "failed"]
  /\ UNCHANGED <<report, stamped, lock, conns, call, active, faults>>

\* No look at the status it had.  The query for the job flushes the row first, so the job
\* is read and written with the row locked.
PersistFailure(a) ==
  LET s == run[a].sid IN
  /\ RunMoves(a, "persist", "clearGet")
  /\ row' = [row EXCEPT ![s].status = Changed(run[a].status, "failed", @),
                        ![s].job = "failed", ![s].age = "recent"]
  /\ UNCHANGED <<report, stamped, lock, conns, call, active, faults>>

\* The recovery fails too, in its read or its write: only logged, the row stays running.
PersistFailureFails(a) ==
  /\ faults < MaxFaults
  /\ run[a].pc \in {"failing", "persist"}
  /\ run' = [run EXCEPT ![a] = NoRun]
  /\ faults' = faults + 1
  /\ UNCHANGED <<row, report, stamped, lock, conns, call, active>>

\* clear_cached_active_session_id: get, compare, then delete.
ClearGet(a) ==
  LET s == run[a].sid IN
  /\ run[a].pc = "clearGet"
  /\ IF active[row[s].key] \in {None, s}
       THEN run' = [run EXCEPT ![a].pc = "clearDelete"]
       ELSE run' = [run EXCEPT ![a] = NoRun]
  /\ UNCHANGED <<row, report, stamped, lock, conns, call, active, faults>>

ClearDelete(a) ==
  /\ run[a].pc = "clearDelete"
  /\ active' = [active EXCEPT ![row[run[a].sid].key] = None]
  /\ run' = [run EXCEPT ![a] = NoRun]
  /\ UNCHANGED <<row, report, stamped, lock, conns, call, faults>>

\* Redis errors in either call are swallowed and the entry stays.
ClearFails(a) ==
  /\ run[a].pc \in {"clearGet", "clearDelete"}
  /\ run' = [run EXCEPT ![a] = NoRun]
  /\ UNCHANGED <<row, report, stamped, lock, conns, call, active, faults>>

-----------------------------------------------------------------------------
(***************************************************************************)
(* Time and crashes                                                        *)
(***************************************************************************)

Attached(s) == \E a \in Actors : run[a].pc # "idle" /\ run[a].sid = s

RowAges(s) ==
  /\ row[s].status \in ActiveStatus
  /\ row[s].age # "stale"
  /\ HeartbeatsKeepUp => ~Attached(s)
  /\ QueueServedInTtl => row[s].status # "queued"
  /\ row' = [row EXCEPT ![s].age = IF @ = "recent" THEN "lapsed" ELSE "stale"]
  /\ UNCHANGED <<report, stamped, lock, conns, call, run, active, faults>>

ReportLeavesCooldown(r) ==
  /\ report[r].fresh
  /\ report' = [report EXCEPT ![r].fresh = FALSE]
  /\ UNCHANGED <<row, stamped, lock, conns, call, run, active, faults>>

ActiveKeyExpires(k) ==
  /\ active[k] # None
  /\ active' = [active EXCEPT ![k] = None]
  /\ UNCHANGED <<row, report, stamped, lock, conns, call, run, faults>>

\* A process dies and is restarted: its locks, connections and runs are gone,
\* its open requests are lost, the database and Redis stay.
Crash(p) ==
  LET lost(c) == ProcOf[c] = p /\ call[c].pc \notin {"idle", "done", "error"} IN
  /\ faults < MaxFaults
  /\ faults' = faults + 1
  /\ \E a \in Actors : ProcOf[a] = p /\ (run[a].pc # "idle" \/ (a \in Callers /\ lost(a)))
  /\ lock' = [lock EXCEPT ![p] = [k \in Keys |-> None]]
  /\ conns' = {c \in conns : ProcOf[c] # p}
  /\ call' = [c \in Callers |-> IF lost(c) THEN [call[c] EXCEPT !.pc = "error"] ELSE call[c]]
  /\ run' = [a \in Actors |-> IF ProcOf[a] = p THEN NoRun ELSE run[a]]
  /\ UNCHANGED <<row, report, stamped, active>>

-----------------------------------------------------------------------------
CallerStep(c) ==
  \/ LookUpStock(c) \/ EnterLock(c) \/ LoadFreshReport(c) \/ LoadActiveSession(c)
  \/ CreateSession(c) \/ RefreshRow(c) \/ RefreshTimesOut(c) \/ CacheActiveSession(c)
  \/ RunInline(c) \/ InlineTimesOut(c) \/ ReturnFromInline(c)

RunnerStep(a) ==
  \/ LoadRow(a) \/ LoadJob(a) \/ StartRun(a) \/ Complete(a) \/ Fail(a)
  \/ LoadForFailure(a) \/ PersistFailure(a) \/ ClearGet(a) \/ ClearDelete(a) \/ ClearFails(a)

ClaimNext(w) == ClaimQueued(w) \/ ClaimStale(w)

\* Every request has been answered and every session has ended.
Quiet ==
  /\ \A c \in Callers : call[c].pc \in {"done", "error"}
  /\ \A s \in SessionIds : row[s].status \notin ActiveStatus
  /\ \A a \in Actors : run[a].pc = "idle"
  /\ UNCHANGED vars

Next ==
  \/ \E c \in Callers : CallerStep(c) \/ RejectCall(c)
  \/ \E w \in Workers : ClaimNext(w)
  \/ \E a \in Actors : RunnerStep(a) \/ Progress(a) \/ Heartbeat(a)
                         \/ LoadFails(a) \/ PersistFailureFails(a)
  \/ \E s \in SessionIds : RowAges(s)
  \/ \E r \in ReportIds : ReportLeavesCooldown(r)
  \/ \E k \in Keys : ActiveKeyExpires(k)
  \/ \E p \in Procs : Crash(p)
  \/ Quiet

Spec == Init /\ [][Next]_vars

\* The event loop runs every ready coroutine, the pool and the runs have
\* timeouts, the worker polls for ever, and time passes for an untouched row.
Fairness ==
  /\ \A c \in Callers : WF_vars(CallerStep(c))
  /\ \A w \in Workers : WF_vars(ClaimNext(w))
  /\ \A a \in Actors : WF_vars(RunnerStep(a))
  /\ \A s \in SessionIds : WF_vars(RowAges(s))

FairSpec == Spec /\ Fairness

-----------------------------------------------------------------------------
(***************************************************************************)
(* Properties                                                              *)
(***************************************************************************)

\* A session is never executed by two runners at once: claims are atomic, skip
\* what another worker took, and reclaim only rows nobody keeps alive
\* (claim_next_analysis_session_for_worker and the heartbeat).
OneRunnerPerSession ==
  \A a, b \in Actors :
    run[a].pc # "idle" /\ run[b].pc # "idle" /\ run[a].sid = run[b].sid => a = b

\* The job row an administrator sees tells the same story as the session row,
\* although the two are read by separate queries and the claim touches only one.
JobFollowsSession ==
  \A s \in SessionIds :
    /\ row[s].status = "queued"    => row[s].job = "queued"
    /\ row[s].status = "running"   => row[s].job \in {"queued", "running"}
    /\ row[s].status = "completed" => row[s].job \in {"success", "partial"}
    /\ row[s].status = "failed"    => row[s].job = "failed"

\* A stored report belongs to a session that is completed and names that very
\* report: a session yields at most one, and never one it then disowns.
ReportsAreOwned ==
  \A r \in ReportIds :
    report[r].session # None =>
      /\ row[report[r].session].status = "completed"
      /\ row[report[r].session].report = r

\* Whatever runners overlap, a completed session names a report of its own.
CompletedHasReport ==
  \A s \in SessionIds :
    row[s].status = "completed" =>
      row[s].report # None /\ report[row[s].report].session = s

\* last_daily_analysis_at is only ever written together with a report of that
\* key: a daily analysis that was merely queued, or failed, leaves no stamp.
StampedHasReport ==
  \A k \in stamped :
    \E r \in ReportIds : report[r].session # None /\ row[report[r].session].key = k

\* The per-key lock held across the two reads and the insert: of one key at most one
\* session waits in the queue within the active-session TTL, whoever else runs, crashes
\* or gives up.
NoDuplicateQueued ==
  \A s, t \in SessionIds :
    /\ row[s].status = "queued" /\ row[s].age = "recent"
    /\ row[t].status = "queued" /\ row[t].age = "recent"
    /\ row[s].key = row[t].key
    => s = t

\* A queued or orphaned session is always brought to an end, by the worker that
\* claims it or by the one that reclaims it after a crash.
EverySessionEnds ==
  \A s \in SessionIds :
    row[s].status \in ActiveStatus ~> row[s].status \in FinalStatus

\* No request waits for ever on the lock and the connection pool it holds
\* against the others.
EveryCallReturns ==
  \A c \in Callers : call[c].pc # "idle" ~> call[c].pc \in {"done", "error"}

\* The promise of a session, whoever executes it.
Produced(s) == {r \in ReportIds : report[r].session = s}

Contract == INSTANCE SessionContract WITH
  phase   <- [s \in SessionIds |-> row[s].status],
  reports <- [s \in SessionIds |-> Produced(s)]

\* Requests, claims, runs, failures, crashes and reclaims of a session together
\* behave as one atomic analysis: absent, queued, running, then one outcome.
ImplementsContract == Contract!Spec

=============================================================================
