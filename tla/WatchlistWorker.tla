-------------------------- MODULE WatchlistWorker --------------------------
(***************************************************************************)
(* The watchlist worker: a loop that polls the clock, runs the hourly      *)
(* synchronisation and the daily analysis of the watched stocks in their   *)
(* minute, one stock after the other, and records each item as a job row.  *)
(* Users edit their watchlists meanwhile; the process may die and restart, *)
(* which loses the markers it keeps in memory.                             *)
(*                                                                         *)
(* An analysis session is seen from outside: created, executed inline by   *)
(* the worker or by an Analysis Worker, and ended (module AnalysisSession  *)
(* has its inside).  News batches are rows of a slot (module NewsCache).   *)
(***************************************************************************)
EXTENDS CandidateEvidence, Sequences, FiniteSets

CONSTANTS
  Users,
  Stocks,          \* stock codes, numbered in sorted order
  Watchlists,      \* the watchlists the worker may find stored when it starts
  HourlyMinutes,   \* minutes with now.minute = 5
  DailyMinutes,    \* minutes with 22:00
  ResearchMinutes, \* hourly minutes whose hour also refreshes the research reports
  TradeDays,       \* days on which is_trade_day holds
  HourOf, DayOf,   \* the hour and the day of a minute in Hong Kong
  UtcDayOf,        \* the UTC day of a minute, numbered like DayOf
  SessionIds,      \* bound: analysis sessions, numbered in creation order
  MaxEvents        \* bound: faults of the worker and requests of users together

Days  == {DayOf[t] : t \in Minutes} \union {UtcDayOf[t] : t \in Minutes}
Hours == {HourOf[t] : t \in Minutes}

ASSUME ClockAssumption ==
  /\ LastMinute \in Nat
  /\ HourlyMinutes \subseteq Minutes
  /\ DailyMinutes \subseteq Minutes
  /\ HourlyMinutes \intersect DailyMinutes = {}
  /\ DOMAIN HourOf = Minutes
  /\ DOMAIN DayOf = Minutes
  /\ DOMAIN UtcDayOf = Minutes

\* The marker of an hour carries its date, and an hour has one hourly minute.
ASSUME HourAssumption ==
  \A t1, t2 \in HourlyMinutes : HourOf[t1] = HourOf[t2] => t1 = t2

ASSUME NoneAssumption ==
  None \notin Minutes \union Hours \union Days \union Stocks \union SessionIds

ASSUME StocksAssumption == Stocks \subseteq Nat /\ SessionIds \subseteq Nat

ASSUME BoundsAssumption == MaxEvents \in Nat

\* One row of user_watchlist_items; "on" is FALSE when there is none.
Item == [on : BOOLEAN, hourly : BOOLEAN, daily : BOOLEAN, web : BOOLEAN,
         synced : Minutes \union {None}, analyzed : Minutes \union {None}]
NoItem == [on |-> FALSE, hourly |-> FALSE, daily |-> FALSE, web |-> FALSE,
           synced |-> None, analyzed |-> None]

ASSUME WatchlistsAssumption ==
  /\ Watchlists \subseteq [Users -> [Stocks -> Item]]
  /\ \A w \in Watchlists, u \in Users, s \in Stocks :
       w[u][s].synced = None /\ w[u][s].analyzed = None

VARIABLES
  clock,        \* the current minute
  item,         \* user_watchlist_items
  job,          \* system_job_runs of this worker, in creation order
  archived,     \* slots whose news batch and snapshot are committed, per stock
  session,      \* analysis sessions the worker created
  reportDay,    \* UTC day of the newest watchlist_daily report of each stock
  report,       \* newest report of each stock with the daily's mode, and is it within the hour
  worker,       \* progress of the loop
  hourlyMarker, \* markers held in memory by main()
  dailyMarker,
  minute,       \* the worker's share of the current minute
  faults,       \* crashes and iterations cut short
  edits         \* changes of the watchlists and reports users asked for

watchVars == <<clock, item, job, archived, session, reportDay, report, worker,
               hourlyMarker, dailyMarker, minute, faults, edits>>
vars == <<evidenceVars, watchVars>>

-----------------------------------------------------------------------------
Pcs == {"idle", "fetch", "cache", "list", "open", "sync", "mark",
        "check", "start", "inline", "running", "close", "failing"}

\* Where the worker holds an open job row.
WithJob == {"sync", "mark", "check", "start", "inline", "running", "close", "failing"}

\* asleep: the worker slept when the minute began and has not woken yet; polled: it
\* has; late: the worker was busy then, or its iteration was cut short since.
MinuteStates == {"asleep", "polled", "late"}

JobTypes    == {"watchlist_hourly_sync", "watchlist_daily_analysis"}
JobStatuses == {"running", "success", "partial", "failed"}

Job == [type : JobTypes, stock : Stocks, slot : Minutes, status : JobStatuses]

SessionStatuses == {"absent", "queued", "running", "completed", "failed"}
ActiveStatus    == {"queued", "running"}

\* "lapsed" is updated_at older than the TTL of an active session.
Session == [status : SessionStatuses, stock : Stocks \union {None}, web : BOOLEAN,
            made : Minutes \union {None}, lapsed : BOOLEAN]
NoSession == [status |-> "absent", stock |-> None, web |-> FALSE,
              made |-> None, lapsed |-> FALSE]

NoReport  == [at |-> None, fresh |-> FALSE]
NewReport == [at |-> clock, fresh |-> TRUE]

\* "plan" are the targets listed for the slot, "todo" those still ahead, "web" the
\* stocks somebody wanted the web searched for when they were listed.
Worker == [pc : Pcs, slot : Minutes \union {None}, kind : Kinds, rows : BOOLEAN,
           plan : SUBSET Stocks, todo : SUBSET Stocks, web : SUBSET Stocks,
           stock : Stocks \union {None}, job : Nat, sid : SessionIds \union {None}]
Asleep == [pc |-> "idle", slot |-> None, kind |-> HotSearch, rows |-> FALSE,
           plan |-> {}, todo |-> {}, web |-> {}, stock |-> None, job |-> 0, sid |-> None]

TypeOK ==
  /\ EvidenceTypeOK
  /\ clock \in Minutes
  /\ item \in [Users -> [Stocks -> Item]]
  /\ job \in Seq(Job)
  /\ archived \in [Stocks -> SUBSET Minutes]
  /\ session \in [SessionIds -> Session]
  /\ reportDay \in [Stocks -> Days \union {None}]
  /\ report \in [Stocks -> [at : Minutes \union {None}, fresh : BOOLEAN]]
  /\ worker \in Worker
  /\ hourlyMarker \in Hours \union {None}
  /\ dailyMarker \in Days \union {None}
  /\ minute \in MinuteStates
  /\ faults \in 0 .. MaxEvents
  /\ edits \in 0 .. MaxEvents

Init ==
  /\ EvidenceInit
  /\ clock = 0
  /\ item \in Watchlists
  /\ job = <<>>
  /\ archived = [s \in Stocks |-> {}]
  /\ session = [i \in SessionIds |-> NoSession]
  /\ reportDay = [s \in Stocks |-> None]
  /\ report = [s \in Stocks |-> NoReport]
  /\ worker = Asleep
  /\ hourlyMarker = None
  /\ dailyMarker = None
  /\ minute = "late"
  /\ faults = 0
  /\ edits = 0

Disturb == faults + edits < MaxEvents

-----------------------------------------------------------------------------
(***************************************************************************)
(* The users' side: watchlist_service                                      *)
(***************************************************************************)

\* A row that exists already is refused (409), as is an unknown stock (404).  The
\* unique constraint makes the look-up and the insert one step; the switches are the
\* request's defaults.
CreateItem(u, s) ==
  /\ ~item[u][s].on
  /\ item' = [item EXCEPT ![u][s] = [NoItem EXCEPT !.on = TRUE, !.hourly = TRUE, !.daily = TRUE]]

\* A request names one switch; those it does not name are not written.
UpdateItem(u, s) ==
  /\ item[u][s].on
  /\ \/ item' = [item EXCEPT ![u][s].hourly = ~@]
     \/ item' = [item EXCEPT ![u][s].daily = ~@]
     \/ item' = [item EXCEPT ![u][s].web = ~@]

DeleteItem(u, s) ==
  /\ item[u][s].on
  /\ item' = [item EXCEPT ![u][s] = NoItem]

EditWatchlist ==
  /\ Disturb
  /\ edits' = edits + 1
  /\ \E u \in Users, s \in Stocks :
       CreateItem(u, s) \/ UpdateItem(u, s) \/ DeleteItem(u, s)
  /\ UNCHANGED <<evidenceVars, clock, job, archived, session, reportDay, report, worker,
                 hourlyMarker, dailyMarker, minute, faults>>

\* What a user is shown of a watched stock: the stamps and the newest report.
FeedRow(u, s) ==
  [stock |-> s, synced |-> item[u][s].synced, analyzed |-> item[u][s].analyzed,
   report |-> report[s].at]

Feed(u) == {FeedRow(u, s) : s \in {t \in Stocks : item[u][t].on}}

-----------------------------------------------------------------------------
(***************************************************************************)
(* The loop: _run_once and main                                            *)
(***************************************************************************)

HourlyDue == clock \in HourlyMinutes /\ hourlyMarker # HourOf[clock]
DailyDue  == clock \in DailyMinutes /\ dailyMarker # DayOf[clock]

IsTradeDay(t) == DayOf[t] \in TradeDays

\* One wake-up.  The minute is read once and kept for the whole iteration; on a
\* day without trading the daily run is only marked.
Poll ==
  /\ worker.pc = "idle"
  /\ minute' = IF minute = "asleep" THEN "polled" ELSE minute
  /\ \/ /\ HourlyDue
        /\ worker' = [Asleep EXCEPT !.pc = "fetch", !.slot = clock]
        /\ UNCHANGED dailyMarker
     \/ /\ DailyDue
        /\ IsTradeDay(clock)
        /\ worker' = [Asleep EXCEPT !.pc = "list", !.slot = clock]
        /\ UNCHANGED dailyMarker
     \/ /\ DailyDue
        /\ ~IsTradeDay(clock)
        /\ dailyMarker' = DayOf[clock]
        /\ UNCHANGED worker
     \/ /\ ~HourlyDue /\ ~DailyDue
        /\ UNCHANGED <<worker, dailyMarker>>
  /\ UNCHANGED <<evidenceVars, clock, item, job, archived, session, reportDay, report,
                 hourlyMarker, faults, edits>>

Hourly == worker.slot \in HourlyMinutes

\* refresh_candidate_evidence_caches: hot searches, then research reports in
\* their hours; any exception rolls back, and the slot goes on without.
FetchEvidence ==
  /\ worker.pc = "fetch"
  /\ \/ \E rows \in BOOLEAN :
          /\ CommitEvidence(worker.kind, worker.slot, rows)
          /\ worker' = [worker EXCEPT !.pc = "cache", !.rows = rows]
     \/ /\ worker' = [worker EXCEPT !.pc = "list"]
        /\ UNCHANGED evidenceVars
  /\ UNCHANGED <<clock, item, job, archived, session, reportDay, report,
                 hourlyMarker, dailyMarker, minute, faults, edits>>

WriteEvidenceCache ==
  /\ worker.pc = "cache"
  /\ CacheEvidence(worker.kind, worker.slot, worker.rows)
  /\ worker' = IF worker.kind = HotSearch /\ worker.slot \in ResearchMinutes
                 THEN [worker EXCEPT !.pc = "fetch", !.kind = ResearchReport, !.rows = FALSE]
                 ELSE [worker EXCEPT !.pc = "list", !.kind = HotSearch, !.rows = FALSE]
  /\ UNCHANGED <<clock, item, job, archived, session, reportDay, report,
                 hourlyMarker, dailyMarker, minute, faults, edits>>

\* Every stock some user wants, once, whoever asks for it.
Targets ==
  {s \in Stocks : \E u \in Users :
     item[u][s].on /\ (IF Hourly THEN item[u][s].hourly ELSE item[u][s].daily)}

\* Any user's switch turns the web search on for all.
WebWanted(s) == \E u \in Users : item[u][s].on /\ item[u][s].daily /\ item[u][s].web

ListTargets ==
  /\ worker.pc = "list"
  /\ worker' = [worker EXCEPT !.pc = "open", !.plan = Targets, !.todo = Targets,
                               !.web = {s \in Targets : WebWanted(s)}]
  /\ UNCHANGED <<evidenceVars, clock, item, job, archived, session, reportDay, report,
                 hourlyMarker, dailyMarker, minute, faults, edits>>

\* The use_web_search of the item's target.
SearchesWeb == worker.stock \in worker.web

First(S) == CHOOSE s \in S : \A t \in S : s <= t

\* create_job_run and its commit, before the item itself is tried.
OpenJob ==
  /\ worker.pc = "open"
  /\ worker.todo # {}
  /\ LET s == First(worker.todo) IN
       /\ job' = Append(job, [type   |-> IF Hourly THEN "watchlist_hourly_sync"
                                                   ELSE "watchlist_daily_analysis",
                              stock  |-> s,
                              slot   |-> worker.slot,
                              status |-> "running"])
       /\ worker' = [worker EXCEPT !.pc = IF Hourly THEN "sync" ELSE "check",
                                   !.stock = s, !.job = Len(job) + 1,
                                   !.todo = @ \ {s}]
  /\ UNCHANGED <<evidenceVars, clock, item, archived, session, reportDay, report,
                 hourlyMarker, dailyMarker, minute, faults, edits>>

\* Mutant: the daily run also sets the hour's marker.
FinishSlot_BothMarkers ==
  /\ worker.pc = "open"
  /\ worker.todo = {}
  /\ worker' = [worker EXCEPT !.pc = "idle"]
  /\ hourlyMarker' = HourOf[worker.slot]
  /\ dailyMarker' = IF Hourly THEN dailyMarker ELSE DayOf[worker.slot]
  /\ UNCHANGED <<evidenceVars, clock, item, job, archived, session, reportDay, report,
                 minute, faults, edits>>

\* _run_once returns and main() keeps the new marker.
FinishSlot ==
  /\ worker.pc = "open"
  /\ worker.todo = {}
  /\ worker' = [worker EXCEPT !.pc = "idle"]
  /\ IF Hourly
       THEN hourlyMarker' = HourOf[worker.slot] /\ UNCHANGED dailyMarker
       ELSE dailyMarker' = DayOf[worker.slot] /\ UNCHANGED hourlyMarker
  /\ UNCHANGED <<evidenceVars, clock, item, job, archived, session, reportDay, report,
                 minute, faults, edits>>

FinishJob(status) == job' = [job EXCEPT ![worker.job].status = status]

NextItem == worker' = [worker EXCEPT !.pc = "open", !.stock = None, !.job = 0, !.sid = None]

WorkerMoves(from, to) ==
  /\ worker.pc = from
  /\ worker' = [worker EXCEPT !.pc = to]

-----------------------------------------------------------------------------
(***************************************************************************)
(* run_hourly_watchlist_sync, one item                                     *)
(***************************************************************************)

\* sync_stock_watch_context: either provider may fail without an exception; the
\* batch, its rows and the snapshot are committed together, before the item's mark.
SyncContext ==
  /\ WorkerMoves("sync", "mark")
  /\ archived' = [archived EXCEPT ![worker.stock] = @ \union {worker.slot}]
  /\ UNCHANGED <<evidenceVars, clock, item, job, session, reportDay, report,
                 hourlyMarker, dailyMarker, minute, faults, edits>>

\* Only rows whose switch is on when they are read again; same commit as the job.
MarkSynced ==
  /\ worker.pc = "mark"
  /\ item' = [u \in Users |-> [item[u] EXCEPT ![worker.stock].synced =
                IF item[u][worker.stock].hourly THEN worker.slot ELSE @]]
  /\ FinishJob("success")
  /\ NextItem
  /\ UNCHANGED <<evidenceVars, clock, archived, session, reportDay, report,
                 hourlyMarker, dailyMarker, minute, faults, edits>>

-----------------------------------------------------------------------------
(***************************************************************************)
(* run_daily_watchlist_analysis, one item                                  *)
(***************************************************************************)

Analyzed(s, t) ==
  item' = [u \in Users |-> [item[u] EXCEPT ![s].analyzed =
             IF item[u][s].daily THEN t ELSE @]]

\* The day in UTC of the stock's newest daily report is the day of the slot in Hong Kong.
HasDailyReport(s, t) == reportDay[s] = DayOf[t]

CheckReport ==
  /\ worker.pc = "check"
  /\ IF HasDailyReport(worker.stock, worker.slot)
       THEN /\ Analyzed(worker.stock, worker.slot)
            /\ FinishJob("success")
            /\ NextItem
       ELSE /\ WorkerMoves("check", "start")
            /\ UNCHANGED <<item, job>>
  /\ UNCHANGED <<evidenceVars, clock, archived, session, reportDay, report,
                 hourlyMarker, dailyMarker, minute, faults, edits>>

\* start_analysis_session answers with a report of the last hour, whoever asked for it.
UseFreshReport ==
  /\ worker.pc = "start"
  /\ report[worker.stock].fresh
  /\ Analyzed(worker.stock, worker.slot)
  /\ FinishJob("success")
  /\ NextItem
  /\ UNCHANGED <<evidenceVars, clock, archived, session, reportDay, report,
                 hourlyMarker, dailyMarker, minute, faults, edits>>

ActiveSessions(s, web) ==
  {i \in SessionIds : /\ session[i].status \in ActiveStatus
                      /\ session[i].stock = s
                      /\ session[i].web = web
                      /\ ~session[i].lapsed}

\* Mutant: a session that is only attached to counts as a finished analysis.
AttachToSession_Marks ==
  /\ worker.pc = "start"
  /\ ~report[worker.stock].fresh
  /\ ActiveSessions(worker.stock, SearchesWeb) # {}
  /\ Analyzed(worker.stock, worker.slot)
  /\ FinishJob("success")
  /\ NextItem
  /\ UNCHANGED <<evidenceVars, clock, archived, session, reportDay, report,
                 hourlyMarker, dailyMarker, minute, faults, edits>>

\* A session of the same key is under way: attached to, not reported as done.
AttachToSession ==
  /\ worker.pc = "start"
  /\ ~report[worker.stock].fresh
  /\ ActiveSessions(worker.stock, SearchesWeb) # {}
  /\ FinishJob("partial")
  /\ NextItem
  /\ UNCHANGED <<evidenceVars, clock, item, archived, session, reportDay, report,
                 hourlyMarker, dailyMarker, minute, faults, edits>>

NextId(i) ==
  /\ session[i].status = "absent"
  /\ \A k \in SessionIds : k < i => session[k].status # "absent"

NewSession(i) ==
  /\ worker' = [worker EXCEPT !.pc = "inline", !.sid = i]
  /\ session' = [session EXCEPT ![i] =
                   [NoSession EXCEPT !.status = "queued", !.stock = worker.stock,
                                     !.web = SearchesWeb, !.made = clock]]

\* Mutant: the look-up of an active session is skipped.
CreateSession_Always ==
  /\ worker.pc = "start"
  /\ ~report[worker.stock].fresh
  /\ \E i \in SessionIds : NextId(i) /\ NewSession(i)
  /\ UNCHANGED <<evidenceVars, clock, item, job, archived, reportDay, report,
                 hourlyMarker, dailyMarker, minute, faults, edits>>

CreateSession ==
  /\ worker.pc = "start"
  /\ ~report[worker.stock].fresh
  /\ ActiveSessions(worker.stock, SearchesWeb) = {}
  /\ \E i \in SessionIds : NextId(i) /\ NewSession(i)
  /\ UNCHANGED <<evidenceVars, clock, item, job, archived, reportDay, report,
                 hourlyMarker, dailyMarker, minute, faults, edits>>

\* run_analysis_session_by_id takes the row as it is, whatever its status.
RunInline ==
  /\ WorkerMoves("inline", "running")
  /\ session' = [session EXCEPT ![worker.sid].status = "running",
                                ![worker.sid].lapsed = FALSE]
  /\ UNCHANGED <<evidenceVars, clock, item, job, archived, reportDay, report,
                 hourlyMarker, dailyMarker, minute, faults, edits>>

\* The end of a run: report, status and the stamp of the daily items in one commit,
\* or a failure that is persisted and not raised.
EndSession(i) ==
  \/ /\ session' = [session EXCEPT ![i].status = "completed"]
     /\ reportDay' = [reportDay EXCEPT ![session[i].stock] = UtcDayOf[clock]]
     /\ report' = [report EXCEPT ![session[i].stock] = NewReport]
     /\ Analyzed(session[i].stock, clock)
  \/ /\ session' = [session EXCEPT ![i].status = "failed"]
     /\ UNCHANGED <<reportDay, report, item>>

EndInline ==
  /\ WorkerMoves("running", "close")
  /\ EndSession(worker.sid)
  /\ UNCHANGED <<evidenceVars, clock, job, archived, hourlyMarker, dailyMarker,
                 minute, faults, edits>>

\* The answer carries the status the row had before the run: neither completed nor
\* reused, so no stamp is written here and the job counts as done.
CloseDaily ==
  /\ worker.pc = "close"
  /\ FinishJob("success")
  /\ NextItem
  /\ UNCHANGED <<evidenceVars, clock, item, archived, session, reportDay, report,
                 hourlyMarker, dailyMarker, minute, faults, edits>>

-----------------------------------------------------------------------------
(***************************************************************************)
(* Failures                                                                *)
(***************************************************************************)

\* Any exception inside the item's try block.
ItemRaises ==
  /\ \E pc \in {"sync", "mark", "start", "inline", "close"} : WorkerMoves(pc, "failing")
  /\ UNCHANGED <<evidenceVars, clock, item, job, archived, session, reportDay, report,
                 hourlyMarker, dailyMarker, minute, faults, edits>>

\* Mutant: the job row is not closed.
FailItem_LeavesJob ==
  /\ worker.pc = "failing"
  /\ NextItem
  /\ UNCHANGED <<evidenceVars, clock, item, job, archived, session, reportDay, report,
                 hourlyMarker, dailyMarker, minute, faults, edits>>

\* Rolled back, recorded, and on to the next stock.
FailItem ==
  /\ worker.pc = "failing"
  /\ FinishJob("failed")
  /\ NextItem
  /\ UNCHANGED <<evidenceVars, clock, item, archived, session, reportDay, report,
                 hourlyMarker, dailyMarker, minute, faults, edits>>

\* An exception outside the try block ends the iteration: main() logs it, keeps the
\* old markers, and the next wake-up within the same minute starts over.
IterationFails ==
  /\ Disturb
  /\ worker.pc \in {"fetch", "cache", "list", "open", "check", "failing"}
  /\ worker' = Asleep
  /\ minute' = "late"
  /\ faults' = faults + 1
  /\ UNCHANGED <<evidenceVars, clock, item, job, archived, session, reportDay, report,
                 hourlyMarker, dailyMarker, edits>>

\* The process dies and is started again: the markers are gone.
Crash ==
  /\ Disturb
  /\ worker' = Asleep
  /\ hourlyMarker' = None
  /\ dailyMarker' = None
  /\ minute' = "late"
  /\ faults' = faults + 1
  /\ UNCHANGED <<evidenceVars, clock, item, job, archived, session, reportDay, report, edits>>

-----------------------------------------------------------------------------
(***************************************************************************)
(* Time and the other processes                                            *)
(***************************************************************************)

\* The loop sleeps half a minute: a worker asleep when a minute begins wakes in it.
Tick ==
  /\ clock < LastMinute
  /\ minute # "asleep"
  /\ clock' = clock + 1
  /\ minute' = IF worker.pc = "idle" THEN "asleep" ELSE "late"
  /\ UNCHANGED <<evidenceVars, item, job, archived, session, reportDay, report, worker,
                 hourlyMarker, dailyMarker, faults, edits>>

Held(i) == worker.pc \in {"inline", "running"} /\ worker.sid = i

\* An Analysis Worker claims the queued row, or the one nobody keeps alive.
OtherRun(i) ==
  /\ \/ session[i].status = "queued"
     \/ session[i].status = "running" /\ session[i].lapsed
  /\ EndSession(i)
  /\ UNCHANGED <<evidenceVars, clock, job, archived, worker, hourlyMarker, dailyMarker,
                 minute, faults, edits>>

\* Longer than the minute of its creation, with nobody writing to it.
SessionLapses(i) ==
  /\ session[i].status \in ActiveStatus
  /\ ~session[i].lapsed
  /\ ~Held(i)
  /\ session[i].made < clock
  /\ session' = [session EXCEPT ![i].lapsed = TRUE]
  /\ UNCHANGED <<evidenceVars, clock, item, job, archived, reportDay, report, worker,
                 hourlyMarker, dailyMarker, minute, faults, edits>>

\* A report a user asked for, of the same kind; and its hour passing.
ManualReport(s) ==
  /\ Disturb
  /\ edits' = edits + 1
  /\ ~report[s].fresh
  /\ report' = [report EXCEPT ![s] = NewReport]
  /\ UNCHANGED <<evidenceVars, clock, item, job, archived, session, reportDay, worker,
                 hourlyMarker, dailyMarker, minute, faults>>

ReportAges(s) ==
  /\ report[s].fresh
  /\ report[s].at < clock
  /\ report' = [report EXCEPT ![s].fresh = FALSE]
  /\ UNCHANGED <<evidenceVars, clock, item, job, archived, session, reportDay, worker,
                 hourlyMarker, dailyMarker, minute, faults, edits>>

CacheExpires ==
  /\ \E k \in Kinds : EvidenceExpires(k)
  /\ UNCHANGED watchVars

-----------------------------------------------------------------------------
SlotStep ==
  \/ FetchEvidence \/ WriteEvidenceCache \/ ListTargets \/ OpenJob \/ FinishSlot

ItemStep ==
  \/ SyncContext \/ MarkSynced
  \/ CheckReport \/ UseFreshReport \/ AttachToSession \/ CreateSession
  \/ RunInline \/ EndInline \/ CloseDaily
  \/ FailItem

Next ==
  \/ Poll \/ SlotStep \/ ItemStep \/ ItemRaises \/ IterationFails \/ Crash
  \/ EditWatchlist \/ Tick \/ CacheExpires
  \/ \E i \in SessionIds : OtherRun(i) \/ SessionLapses(i)
  \/ \E s \in Stocks : ManualReport(s) \/ ReportAges(s)

Spec == Init /\ [][Next]_vars

-----------------------------------------------------------------------------
(***************************************************************************)
(* Properties                                                              *)
(***************************************************************************)

\* The last_hourly_sync_at of a feed names a slot whose batch and snapshot are in the
\* database, and so does a successful hourly job: a failed item leaves neither.
SyncedIsArchived ==
  /\ \A u \in Users : \A r \in Feed(u) : r.synced # None => r.synced \in archived[r.stock]
  /\ \A j \in DOMAIN job :
       job[j].type = "watchlist_hourly_sync" /\ job[j].status = "success"
         => job[j].slot \in archived[job[j].stock]

\* A feed with a last_daily_analysis_at has a report to show: neither a failed analysis
\* nor one that is merely under way leaves the stamp.
AnalyzedHasReport ==
  \A u \in Users : \A r \in Feed(u) : r.analyzed # None => r.report # None

\* A job row is left running only where an iteration was cut short: every other way
\* out of an item, with its exceptions, closes the row it opened.
JobsAreClosed ==
  Cardinality({j \in DOMAIN job :
                 /\ job[j].status = "running"
                 /\ ~(worker.pc \in WithJob /\ worker.job = j)}) <= faults

\* However many users watch a stock, and whatever fails, it has one job row in a slot;
\* only a slot repeated after a crash or a failed iteration adds another.
OneJobPerItem ==
  \A s \in Stocks, t \in Minutes :
    Cardinality({j \in DOMAIN job : job[j].stock = s /\ job[j].slot = t}) <= 1 + faults

\* Back asleep with the slot's marker in hand, every stock listed for the slot has had
\* its turn and its job is closed, whichever of them failed.
MarkerMeansDone ==
  hourlyMarker # None =>
    /\ worker.slot \in HourlyMinutes /\ HourOf[worker.slot] = hourlyMarker => worker.todo = {}
    /\ worker.pc = "idle" /\ worker.slot \in HourlyMinutes =>
         \A s \in worker.plan : \E j \in DOMAIN job :
           /\ job[j].stock = s
           /\ job[j].slot = worker.slot
           /\ job[j].status \in {"success", "failed"}

\* Jobs and markers account for the slots: nothing is left open, done twice or passed over.
SlotsAreAccounted ==
  /\ JobsAreClosed
  /\ OneJobPerItem
  /\ MarkerMeansDone

\* A slot repeated within its minute, after a crash or a failed iteration, finds the
\* session it left: one stock is not analysed twice at once for the same minute.
OneLiveAnalysis ==
  \A i, k \in SessionIds :
    /\ session[i].status \in {"queued", "running", "completed"}
    /\ session[k].status \in {"queued", "running", "completed"}
    /\ session[i].stock = session[k].stock
    /\ session[i].web = session[k].web
    /\ session[i].made = session[k].made
    => i = k

\* The panel never shows a batch that is not in the database, or older than one shown
\* as the newest: what the entry holds was committed before.
PanelIsBacked ==
  \A shown \in Snapshots, k \in Kinds :
    shown[k] # None => evidence[k] # None /\ shown[k] <= evidence[k]

\* What users and administrators are shown (stamps of an item, jobs, the panel) is backed
\* by rows that were committed before.
ShownIsStored ==
  /\ SyncedIsArchived
  /\ AnalyzedHasReport
  /\ PanelIsBacked

\* A worker asleep when an hourly minute begins, and not cut short in it, has run the
\* slot before the minute is over or is still at it.
SlotIsNotMissed ==
  [][ clock' # clock /\ clock \in HourlyMinutes /\ worker.pc = "idle" /\ minute = "polled"
        => worker.slot = clock ]_vars

=============================================================================
