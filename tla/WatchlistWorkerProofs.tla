----------------------- MODULE WatchlistWorkerProofs -----------------------
(***************************************************************************)
(* Proofs about module WatchlistWorker: whatever the users, the crashes    *)
(* and the other processes do, what is shown is stored, no stock is        *)
(* analysed twice for one minute, and no hourly minute that found the      *)
(* worker asleep goes by without its slot.  The invariant Inv has a part   *)
(* for the evidence, the minutes and markers, the sessions, the jobs and   *)
(* the items; the frame lemmas say which actions touch a variable at all.  *)
(* The ledger LedgerOK, inductive beside Inv, counts the job rows against  *)
(* the slots, the plans and the faults.                                    *)
(***************************************************************************)
EXTENDS WatchlistWorker, WellFoundedInduction, FiniteSetTheorems, TLAPS

-----------------------------------------------------------------------------
(***************************************************************************)
(* Which actions write a variable                                          *)
(***************************************************************************)
LEMMA EvidenceFrame ==
  ASSUME [Next]_vars
  PROVE
    \/ <<evidence, evCache>>' = <<evidence, evCache>>
    \/ FetchEvidence \/ WriteEvidenceCache \/ CacheExpires
  BY DEF Next, SlotStep, ItemStep, vars, watchVars, evidenceVars, Poll, ListTargets,
         OpenJob, FinishSlot, SyncContext, MarkSynced, CheckReport, UseFreshReport,
         AttachToSession, CreateSession, RunInline, EndInline, CloseDaily, FailItem,
         ItemRaises, IterationFails, Crash, EditWatchlist, Tick, OtherRun,
         SessionLapses, ManualReport, ReportAges

LEMMA ClockFrame ==
  ASSUME [Next]_vars
  PROVE
    \/ clock' = clock
    \/ Tick
  BY DEF Next, SlotStep, ItemStep, vars, watchVars, evidenceVars, Poll, FetchEvidence,
         WriteEvidenceCache, ListTargets, OpenJob, FinishSlot, SyncContext,
         MarkSynced, CheckReport, UseFreshReport, AttachToSession, CreateSession,
         RunInline, EndInline, CloseDaily, FailItem, ItemRaises, IterationFails,
         Crash, EditWatchlist, CacheExpires, OtherRun, SessionLapses, ManualReport,
         ReportAges

LEMMA ItemFrame ==
  ASSUME [Next]_vars
  PROVE
    \/ item' = item
    \/ EditWatchlist \/ MarkSynced \/ CheckReport \/ UseFreshReport \/ EndInline
    \/ \E i \in SessionIds : OtherRun(i)
  BY DEF Next, SlotStep, ItemStep, vars, watchVars, evidenceVars, Poll, FetchEvidence,
         WriteEvidenceCache, ListTargets, OpenJob, FinishSlot, SyncContext,
         AttachToSession, CreateSession, RunInline, CloseDaily, FailItem, ItemRaises,
         IterationFails, Crash, Tick, CacheExpires, SessionLapses, ManualReport,
         ReportAges

LEMMA JobFrame ==
  ASSUME [Next]_vars
  PROVE
    \/ job' = job
    \/ OpenJob \/ MarkSynced \/ CheckReport \/ UseFreshReport \/ AttachToSession
    \/ CloseDaily \/ FailItem
  BY DEF Next, SlotStep, ItemStep, vars, watchVars, evidenceVars, Poll, FetchEvidence,
         WriteEvidenceCache, ListTargets, FinishSlot, SyncContext, CreateSession,
         RunInline, EndInline, ItemRaises, IterationFails, Crash, EditWatchlist, Tick,
         CacheExpires, OtherRun, SessionLapses, ManualReport, ReportAges

LEMMA ArchivedFrame ==
  ASSUME [Next]_vars
  PROVE
    \/ archived' = archived
    \/ SyncContext
  BY DEF Next, SlotStep, ItemStep, vars, watchVars, evidenceVars, Poll, FetchEvidence,
         WriteEvidenceCache, ListTargets, OpenJob, FinishSlot, MarkSynced,
         CheckReport, UseFreshReport, AttachToSession, CreateSession, RunInline,
         EndInline, CloseDaily, FailItem, ItemRaises, IterationFails, Crash,
         EditWatchlist, Tick, CacheExpires, OtherRun, SessionLapses, ManualReport,
         ReportAges

LEMMA SessionFrame ==
  ASSUME [Next]_vars
  PROVE
    \/ session' = session
    \/ CreateSession \/ RunInline \/ EndInline
    \/ \E i \in SessionIds : OtherRun(i)
    \/ \E i \in SessionIds : SessionLapses(i)
  BY DEF Next, SlotStep, ItemStep, vars, watchVars, evidenceVars, Poll, FetchEvidence,
         WriteEvidenceCache, ListTargets, OpenJob, FinishSlot, SyncContext,
         MarkSynced, CheckReport, UseFreshReport, AttachToSession, CloseDaily,
         FailItem, ItemRaises, IterationFails, Crash, EditWatchlist, Tick,
         CacheExpires, ManualReport, ReportAges

LEMMA ReportFrame ==
  ASSUME [Next]_vars
  PROVE
    \/ <<reportDay, report>>' = <<reportDay, report>>
    \/ EndInline
    \/ \E i \in SessionIds : OtherRun(i)
    \/ \E s \in Stocks : ManualReport(s)
    \/ \E s \in Stocks : ReportAges(s)
  BY DEF Next, SlotStep, ItemStep, vars, watchVars, evidenceVars, Poll, FetchEvidence,
         WriteEvidenceCache, ListTargets, OpenJob, FinishSlot, SyncContext,
         MarkSynced, CheckReport, UseFreshReport, AttachToSession, CreateSession,
         RunInline, CloseDaily, FailItem, ItemRaises, IterationFails, Crash,
         EditWatchlist, Tick, CacheExpires, SessionLapses

LEMMA WorkerFrame ==
  ASSUME [Next]_vars
  PROVE
    \/ worker' = worker
    \/ Poll \/ FetchEvidence \/ WriteEvidenceCache \/ ListTargets \/ OpenJob \/ FinishSlot
    \/ SyncContext \/ MarkSynced \/ CheckReport \/ UseFreshReport \/ AttachToSession
    \/ CreateSession \/ RunInline \/ EndInline \/ CloseDaily \/ FailItem \/ ItemRaises
    \/ IterationFails \/ Crash
  BY DEF Next, SlotStep, ItemStep, vars, watchVars, evidenceVars, EditWatchlist, Tick,
         CacheExpires, OtherRun, SessionLapses, ManualReport, ReportAges

LEMMA MarkerFrame ==
  ASSUME [Next]_vars
  PROVE
    \/ hourlyMarker' = hourlyMarker
    \/ FinishSlot \/ Crash
  BY DEF Next, SlotStep, ItemStep, vars, watchVars, evidenceVars, Poll, FetchEvidence,
         WriteEvidenceCache, ListTargets, OpenJob, SyncContext, MarkSynced,
         CheckReport, UseFreshReport, AttachToSession, CreateSession, RunInline,
         EndInline, CloseDaily, FailItem, ItemRaises, IterationFails, EditWatchlist,
         Tick, CacheExpires, OtherRun, SessionLapses, ManualReport, ReportAges

LEMMA DailyFrame ==
  ASSUME [Next]_vars
  PROVE
    \/ dailyMarker' = dailyMarker
    \/ Poll \/ FinishSlot \/ Crash
  BY DEF Next, SlotStep, ItemStep, vars, watchVars, evidenceVars, FetchEvidence,
         WriteEvidenceCache, ListTargets, OpenJob, SyncContext, MarkSynced,
         CheckReport, UseFreshReport, AttachToSession, CreateSession, RunInline,
         EndInline, CloseDaily, FailItem, ItemRaises, IterationFails, EditWatchlist,
         Tick, CacheExpires, OtherRun, SessionLapses, ManualReport, ReportAges

LEMMA MinuteFrame ==
  ASSUME [Next]_vars
  PROVE
    \/ minute' = minute
    \/ Poll \/ IterationFails \/ Crash \/ Tick
  BY DEF Next, SlotStep, ItemStep, vars, watchVars, evidenceVars, FetchEvidence,
         WriteEvidenceCache, ListTargets, OpenJob, FinishSlot, SyncContext,
         MarkSynced, CheckReport, UseFreshReport, AttachToSession, CreateSession,
         RunInline, EndInline, CloseDaily, FailItem, ItemRaises, EditWatchlist,
         CacheExpires, OtherRun, SessionLapses, ManualReport, ReportAges

LEMMA CountFrame ==
  ASSUME [Next]_vars
  PROVE
    \/ <<faults, edits>>' = <<faults, edits>>
    \/ IterationFails \/ Crash \/ EditWatchlist
    \/ \E s \in Stocks : ManualReport(s)
  BY DEF Next, SlotStep, ItemStep, vars, watchVars, evidenceVars, Poll, FetchEvidence,
         WriteEvidenceCache, ListTargets, OpenJob, FinishSlot, SyncContext,
         MarkSynced, CheckReport, UseFreshReport, AttachToSession, CreateSession,
         RunInline, EndInline, CloseDaily, FailItem, ItemRaises, Tick, CacheExpires,
         OtherRun, SessionLapses, ReportAges

-----------------------------------------------------------------------------
(***************************************************************************)
(* The worker's record                                                     *)
(***************************************************************************)
LessThan == {p \in Nat \X Nat : p[1] < p[2]}

LEMMA LessThanIs == LessThan = OpToRel(<, Nat)
  BY DEF LessThan, OpToRel

LEMMA InLessThan == ASSUME NEW m \in Nat, NEW n \in Nat, m < n PROVE <<m, n>> \in LessThan
  BY DEF LessThan

LEMMA FirstIsIn ==
  ASSUME NEW S \in SUBSET Stocks, S # {}
  PROVE  First(S) \in S
<1>1. IsWellFoundedOn(LessThan, Nat)
  BY LessThanIs, NatLessThanWellFounded
<1>2. S \subseteq Nat
  BY StocksAssumption
<1>3. PICK m \in S : \A x \in S : ~(<<x, m>> \in LessThan)
  BY <1>1, <1>2, WFMin
<1>4. \A x \in S : m <= x
  <2> SUFFICES ASSUME NEW x \in S PROVE m <= x
    OBVIOUS
  <2>1. x \in Nat /\ m \in Nat /\ (x < m => <<x, m>> \in LessThan)
    BY <1>2, InLessThan
  <2>2. <<x, m>> \notin LessThan
    BY <1>3
  <2> QED
    BY <2>1, <2>2, SMT
<1> QED
  BY <1>4 DEF First

LEMMA KindsAre == HotSearch \in Kinds /\ ResearchReport \in Kinds
  BY DEF Kinds

LEMMA AsleepIs == Asleep \in Worker /\ Asleep.pc = "idle" /\ Asleep.slot = None
  BY KindsAre DEF Asleep, Worker, Pcs

LEMMA NextItemIs ==
  ASSUME worker \in Worker, NextItem
  PROVE  worker' \in [pc : {"open"}, slot : {worker.slot}, kind : {worker.kind},
                      rows : {worker.rows}, plan : {worker.plan}, todo : {worker.todo},
                      web : {worker.web}, stock : {None}, job : {0}, sid : {None}]
  BY DEF NextItem, Worker

LEMMA NextItemType ==
  ASSUME worker \in Worker, NextItem
  PROVE  /\ worker' \in Worker /\ worker'.pc = "open" /\ worker'.slot = worker.slot
         /\ worker'.plan = worker.plan /\ worker'.todo = worker.todo
<1> DEFINE Next9 == [pc : {"open"}, slot : {worker.slot}, kind : {worker.kind},
                     rows : {worker.rows}, plan : {worker.plan}, todo : {worker.todo},
                     web : {worker.web}, stock : {None}, job : {0}, sid : {None}]
<1>1. worker' \in Next9
  BY NextItemIs
<1>2. \A w \in Next9 : /\ w \in Worker /\ w.pc = "open" /\ w.slot = worker.slot
                        /\ w.plan = worker.plan /\ w.todo = worker.todo
  BY DEF Worker, Pcs
<1> QED
  BY <1>1, <1>2

LEMMA MovesType ==
  ASSUME worker \in Worker, NEW from, NEW to \in Pcs, WorkerMoves(from, to)
  PROVE  /\ worker' \in Worker /\ worker'.pc = to
         /\ worker'.slot = worker.slot /\ worker'.stock = worker.stock
         /\ worker'.job = worker.job /\ worker'.sid = worker.sid
         /\ worker'.plan = worker.plan /\ worker'.todo = worker.todo
  BY DEF WorkerMoves, Worker

LEMMA FetchWorker ==
  ASSUME worker \in Worker, FetchEvidence
  PROVE  /\ worker' \in Worker /\ worker'.slot = worker.slot /\ worker'.kind = worker.kind
         /\ worker'.pc \in {"cache", "list"}
         /\ worker'.plan = worker.plan /\ worker'.todo = worker.todo
  BY DEF FetchEvidence, Worker, Pcs

LEMMA WriteWorker ==
  ASSUME worker \in Worker, WriteEvidenceCache
  PROVE  /\ worker' \in Worker /\ worker'.slot = worker.slot /\ worker'.pc \in {"fetch", "list"}
         /\ worker'.plan = worker.plan /\ worker'.todo = worker.todo
<1>1. CASE worker' = [worker EXCEPT !.pc = "fetch", !.kind = ResearchReport, !.rows = FALSE]
  BY <1>1, KindsAre DEF Worker, Pcs
<1>2. CASE worker' = [worker EXCEPT !.pc = "list", !.kind = HotSearch, !.rows = FALSE]
  BY <1>2, KindsAre DEF Worker, Pcs
<1> QED
  BY <1>1, <1>2 DEF WriteEvidenceCache

LEMMA ListWorker ==
  ASSUME worker \in Worker, ListTargets
  PROVE  /\ worker' \in Worker /\ worker'.slot = worker.slot /\ worker'.pc = "open"
         /\ worker'.plan \ worker'.todo = {}
<1>1. Targets \in SUBSET Stocks
  BY DEF Targets
<1> QED
  BY <1>1 DEF ListTargets, Worker, Pcs

LEMMA OpenWorker ==
  ASSUME worker \in Worker, job \in Seq(Job), OpenJob
  PROVE  LET s == First(worker.todo) IN
         /\ s \in worker.todo /\ s \in Stocks
         /\ worker'.plan = worker.plan /\ worker'.todo = worker.todo \ {s}
         /\ worker' \in Worker /\ worker'.slot = worker.slot
         /\ worker'.pc = IF Hourly THEN "sync" ELSE "check"
         /\ worker'.stock = s /\ worker'.job = Len(job) + 1
<1> DEFINE s == First(worker.todo)
<1>1. worker.todo \in SUBSET Stocks /\ worker.todo # {}
  BY DEF OpenJob, Worker
<1>2. s \in worker.todo /\ s \in Stocks
  BY <1>1, FirstIsIn
<1>3. Len(job) + 1 \in Nat /\ worker.todo \ {s} \in SUBSET Stocks
  BY <1>1
<1>4. (IF Hourly THEN "sync" ELSE "check") \in Pcs
  BY DEF Pcs
<1>5. worker' = [worker EXCEPT !.pc = IF Hourly THEN "sync" ELSE "check", !.stock = s,
                               !.job = Len(job) + 1, !.todo = @ \ {s}]
  BY DEF OpenJob
<1>6. ASSUME NEW p \in Pcs, NEW n \in Nat, NEW T \in SUBSET Stocks, NEW x \in Stocks,
             worker' = [worker EXCEPT !.pc = p, !.stock = x, !.job = n, !.todo = T]
      PROVE  worker' \in Worker /\ worker'.slot = worker.slot /\ worker'.pc = p
             /\ worker'.stock = x /\ worker'.job = n
             /\ worker'.plan = worker.plan /\ worker'.todo = T
  <2> DEFINE Next9 == [pc : {p}, slot : {worker.slot}, kind : {worker.kind},
                       rows : {worker.rows}, plan : {worker.plan}, todo : {T},
                       web : {worker.web}, stock : {x}, job : {n}, sid : {worker.sid}]
  <2>1. worker' \in Next9
    BY <1>6 DEF Worker
  <2>2. \A w \in Next9 : w \in Worker /\ w.slot = worker.slot /\ w.pc = p
                         /\ w.stock = x /\ w.job = n
                         /\ w.plan = worker.plan /\ w.todo = T
    BY DEF Worker
  <2> QED
    BY <2>1, <2>2
<1> QED
  BY ZenonT(40), <1>2, <1>3, <1>4, <1>5, <1>6

LEMMA CreateWorker ==
  ASSUME worker \in Worker, NEW i \in SessionIds, NewSession(i)
  PROVE  /\ worker' \in Worker /\ worker'.slot = worker.slot /\ worker'.pc = "inline"
         /\ worker'.stock = worker.stock /\ worker'.job = worker.job /\ worker'.sid = i
         /\ worker'.plan = worker.plan /\ worker'.todo = worker.todo
  BY DEF NewSession, Worker, Pcs

LEMMA PollWorker ==
  ASSUME worker \in Worker, clock \in Minutes, Poll
  PROVE  /\ worker' \in Worker
         /\ \/ worker' = worker
            \/ /\ worker'.slot = clock /\ worker'.pc \in {"fetch", "list"}
               /\ worker'.plan = {} /\ worker'.todo = {}
<1>1. [Asleep EXCEPT !.pc = "fetch", !.slot = clock] \in Worker
  BY AsleepIs DEF Worker, Pcs
<1>2. [Asleep EXCEPT !.pc = "list", !.slot = clock] \in Worker
  BY AsleepIs DEF Worker, Pcs
<1>3. /\ [Asleep EXCEPT !.pc = "fetch", !.slot = clock].slot = clock
      /\ [Asleep EXCEPT !.pc = "list", !.slot = clock].slot = clock
      /\ [Asleep EXCEPT !.pc = "fetch", !.slot = clock].pc = "fetch"
      /\ [Asleep EXCEPT !.pc = "list", !.slot = clock].pc = "list"
      /\ [Asleep EXCEPT !.pc = "fetch", !.slot = clock].plan = {}
      /\ [Asleep EXCEPT !.pc = "list", !.slot = clock].plan = {}
      /\ [Asleep EXCEPT !.pc = "fetch", !.slot = clock].todo = {}
      /\ [Asleep EXCEPT !.pc = "list", !.slot = clock].todo = {}
  BY DEF Asleep
<1> QED
  BY <1>1, <1>2, <1>3 DEF Poll

LEMMA FinishWorker ==
  ASSUME worker \in Worker, FinishSlot
  PROVE  /\ worker' \in Worker /\ worker'.slot = worker.slot /\ worker'.pc = "idle"
         /\ worker'.plan = worker.plan /\ worker'.todo = {}
  BY DEF FinishSlot, Worker, Pcs
-----------------------------------------------------------------------------
(***************************************************************************)
(* The inductive invariant                                                 *)
(***************************************************************************)

\* Inside an iteration the worker has a slot; evidence is no newer than the slot or
\* the clock, and what an entry or the worker holds was committed.
EvidenceOK ==
  /\ worker.pc # "idle" => worker.slot # None
  /\ worker.slot # None => worker.slot <= clock
  /\ \A k \in Kinds : evidence[k] # None =>
       /\ evidence[k] <= clock
       /\ worker.slot # None => evidence[k] <= worker.slot
  /\ worker.pc = "cache" /\ worker.rows => evidence[worker.kind] = worker.slot
  /\ \A k \in Kinds : evCache[k] # NoEntry /\ evCache[k].rows =>
       evidence[k] # None /\ evCache[k].at <= evidence[k]

\* In an hourly minute the worker has woken in, its slot is that minute, and the
\* marker of that hour is there only after it.
MinuteOK ==
  /\ minute = "asleep" => worker.pc = "idle"
  /\ minute = "polled" /\ worker.pc # "idle" => worker.slot = clock
  /\ minute = "polled" /\ clock \in HourlyMinutes => worker.slot = clock
  /\ hourlyMarker # None =>
       \E t \in HourlyMinutes : t <= clock /\ hourlyMarker = HourOf[t]
  /\ clock \in HourlyMinutes /\ hourlyMarker = HourOf[clock] =>
       worker.slot = clock /\ worker.pc = "idle" /\ minute # "asleep"

\* A session counts while it is under way or completed, and while the worker is on it.
Counts(i) == session[i].status \in {"queued", "running", "completed"} \/ Held(i)

SessionOK ==
  /\ \A i \in SessionIds : session[i].status # "absent" =>
       session[i].stock \in Stocks /\ session[i].made \in Minutes /\ session[i].made <= clock
  /\ worker.pc \in {"inline", "running"} =>
       worker.sid \in SessionIds /\ session[worker.sid].status # "absent"
  /\ \A s \in Stocks : reportDay[s] # None \/ report[s].fresh => report[s].at # None
  /\ \A i \in SessionIds :
       /\ session[i].status \in ActiveStatus /\ session[i].lapsed => session[i].made < clock
       /\ session[i].status = "completed" /\ session[i].made = clock =>
            report[session[i].stock] = [at |-> clock, fresh |-> TRUE]
  /\ \A i, k \in SessionIds :
       /\ Counts(i) /\ Counts(k)
       /\ session[i].stock = session[k].stock
       /\ session[i].web = session[k].web
       /\ session[i].made = session[k].made
       => i = k

\* The job the worker holds is the one of its stock and slot.
JobOK ==
  /\ worker.pc \in WithJob =>
       /\ worker.stock \in Stocks
       /\ worker.job \in DOMAIN job
       /\ job[worker.job].stock = worker.stock
       /\ job[worker.job].slot = worker.slot
  /\ worker.pc \in {"check", "start", "inline", "running", "close"} =>
       job[worker.job].type = "watchlist_daily_analysis"
  /\ worker.pc = "mark" => worker.slot \in archived[worker.stock]
  /\ \A j \in DOMAIN job :
       job[j].type = "watchlist_hourly_sync" /\ job[j].status = "success"
         => job[j].slot \in archived[job[j].stock]

ItemOK ==
  \A u \in Users, s \in Stocks :
    /\ item[u][s].synced # None => item[u][s].synced \in archived[s]
    /\ item[u][s].analyzed # None => report[s].at # None

Inv == TypeOK /\ EvidenceOK /\ MinuteOK /\ SessionOK /\ JobOK /\ ItemOK

-----------------------------------------------------------------------------
(***************************************************************************)
(* Initially                                                               *)
(***************************************************************************)
LEMMA InitType ==
  ASSUME Init
  PROVE  TypeOK
<1>1. EvidenceTypeOK
  BY DEF Init, EvidenceInit, EvidenceTypeOK, NoEntry
<1>2. worker \in Worker
  BY AsleepIs DEF Init
<1>3. 0 \in Minutes
  BY ClockAssumption DEF Minutes
<1>4. item \in [Users -> [Stocks -> Item]]
  BY WatchlistsAssumption DEF Init
<1>5. session \in [SessionIds -> Session]
  BY DEF Init, NoSession, Session, SessionStatuses
<1>6. /\ job \in Seq(Job)
      /\ archived \in [Stocks -> SUBSET Minutes]
      /\ reportDay \in [Stocks -> Days \union {None}]
      /\ report \in [Stocks -> [at : Minutes \union {None}, fresh : BOOLEAN]]
  BY DEF Init, NoReport
<1>7. minute \in MinuteStates /\ faults \in 0 .. MaxEvents /\ edits \in 0 .. MaxEvents
  BY BoundsAssumption DEF Init, MinuteStates
<1> QED
  BY <1>1, <1>2, <1>3, <1>4, <1>5, <1>6, <1>7 DEF Init, TypeOK

LEMMA InitInv ==
  ASSUME Init
  PROVE  Inv
<1>1. worker.pc = "idle" /\ worker.slot = None
  BY AsleepIs DEF Init
<1>2. EvidenceOK
  BY <1>1 DEF Init, EvidenceInit, EvidenceOK
<1>3. MinuteOK
  <2>1. hourlyMarker = None /\ minute = "late"
    BY DEF Init
  <2>2. clock \in HourlyMinutes => HourOf[clock] \in Hours
    BY ClockAssumption DEF Hours
  <2> QED
    BY <1>1, <2>1, <2>2, NoneAssumption DEF MinuteOK
<1>4. SessionOK
  <2>1. \A i \in SessionIds : session[i].status = "absent"
    BY DEF Init, NoSession
  <2>2. \A i \in SessionIds : ~Counts(i)
    BY <1>1, <2>1 DEF Counts, Held
  <2>3. \A s \in Stocks : reportDay[s] = None /\ ~report[s].fresh
    BY DEF Init, NoReport
  <2> QED
    BY <1>1, <2>1, <2>2, <2>3 DEF SessionOK, ActiveStatus
<1>5. JobOK
  BY <1>1 DEF Init, JobOK, WithJob
<1>6. ItemOK
  BY WatchlistsAssumption DEF Init, ItemOK
<1> QED
  BY <1>2, <1>3, <1>4, <1>5, <1>6, InitType DEF Inv

-----------------------------------------------------------------------------
(***************************************************************************)
(* The worker and its evidence                                             *)
(***************************************************************************)

DailyPcs == {"check", "start", "inline", "running", "close"}

\* How a step may move the worker.
Starts  == Poll /\ worker'.slot = clock /\ worker'.pc \in {"fetch", "list"}
Goes    == /\ worker.pc # "idle" /\ worker'.slot = worker.slot
           /\ \/ worker'.pc \in {"fetch", "list", "open"}
              \/ worker'.pc = "cache" /\ FetchEvidence
Opens   == /\ OpenJob /\ worker'.slot = worker.slot
           /\ worker'.pc = IF Hourly THEN "sync" ELSE "check"
           /\ worker'.stock = First(worker.todo) /\ worker'.stock \in Stocks
           /\ worker'.job = Len(job) + 1
Handles == /\ worker.pc \in WithJob /\ worker'.pc \in WithJob
           /\ worker'.slot = worker.slot /\ worker'.stock = worker.stock
           /\ worker'.job = worker.job
           /\ worker'.pc = "mark" => SyncContext
           /\ worker'.pc \in DailyPcs => worker.pc \in DailyPcs
           /\ worker'.pc = "inline" => CreateSession
           /\ worker'.pc = "running" => worker.pc = "inline" /\ worker'.sid = worker.sid
Ends    == /\ worker'.pc = "idle"
           /\ \/ worker.pc # "idle" /\ worker'.slot = worker.slot
              \/ worker'.slot = None /\ (IterationFails \/ Crash)

LEMMA WorkerStep ==
  ASSUME Inv, [Next]_vars
  PROVE  /\ worker' \in Worker
         /\ worker' = worker \/ Starts \/ Goes \/ Opens \/ Handles \/ Ends
<1>1. worker \in Worker /\ clock \in Minutes /\ job \in Seq(Job)
  BY DEF Inv, TypeOK
<1> DEFINE Goal == /\ worker' \in Worker
                   /\ worker' = worker \/ Starts \/ Goes \/ Opens \/ Handles \/ Ends
<1>2. CASE worker' = worker
  BY <1>1, <1>2
<1>3. CASE Poll
  BY <1>1, <1>3, PollWorker DEF Starts
<1>4. CASE FetchEvidence
  <2>1. worker.pc = "fetch"
    BY <1>4 DEF FetchEvidence
  <2> QED
    BY <1>1, <1>4, <2>1, FetchWorker DEF Goes
<1>5. CASE WriteEvidenceCache
  BY <1>1, <1>5, WriteWorker DEF WriteEvidenceCache, Goes
<1>6. CASE ListTargets
  BY <1>1, <1>6, ListWorker DEF ListTargets, Goes
<1>7. CASE OpenJob
  <2> DEFINE s == First(worker.todo)
  <2>1. /\ s \in Stocks /\ worker' \in Worker /\ worker'.slot = worker.slot
        /\ worker'.pc = IF Hourly THEN "sync" ELSE "check"
        /\ worker'.stock = s /\ worker'.job = Len(job) + 1
    BY <1>1, <1>7, OpenWorker
  <2>2. Opens
    BY <1>7, <2>1 DEF Opens
  <2> QED
    BY <2>1, <2>2
<1>8. CASE FinishSlot
  BY <1>1, <1>8, FinishWorker DEF FinishSlot, Ends
<1>9. ASSUME NextItem, worker.pc # "idle" PROVE Goal
  BY <1>1, <1>9, NextItemType DEF Goes
<1>10. ASSUME NEW from \in WithJob, NEW to \in WithJob, WorkerMoves(from, to),
              to = "mark" => SyncContext, to \in DailyPcs => from \in DailyPcs,
              to # "inline", to = "running" => from = "inline"
       PROVE  Goal
  <2>1. to \in Pcs /\ worker.pc = from
    BY <1>10 DEF WithJob, Pcs, WorkerMoves
  <2> QED
    BY <1>1, <1>10, <2>1, MovesType DEF Handles
<1>11. CASE SyncContext
  BY <1>11, <1>10 DEF SyncContext, WithJob, DailyPcs
<1>12. CASE MarkSynced
  BY <1>12, <1>9 DEF MarkSynced
<1>13. CASE CheckReport
  <2>1. WorkerMoves("check", "start") \/ (NextItem /\ worker.pc = "check")
    BY <1>13 DEF CheckReport
  <2> QED
    BY <2>1, <1>9, <1>10 DEF WithJob, DailyPcs
<1>14. CASE UseFreshReport \/ AttachToSession
  BY <1>14, <1>9 DEF UseFreshReport, AttachToSession
<1>15. CASE CreateSession
  BY <1>1, <1>15, CreateWorker DEF CreateSession, Handles, WithJob, DailyPcs
<1>16. CASE RunInline
  BY <1>16, <1>10 DEF RunInline, WithJob, DailyPcs
<1>17. CASE EndInline
  BY <1>17, <1>10 DEF EndInline, WithJob, DailyPcs
<1>18. CASE CloseDaily \/ FailItem
  BY <1>18, <1>9 DEF CloseDaily, FailItem
<1>19. CASE ItemRaises
  BY <1>19, <1>10 DEF ItemRaises, WithJob, DailyPcs
<1>20. CASE IterationFails \/ Crash
  BY <1>20, AsleepIs DEF IterationFails, Crash, Ends
<1> QED
  BY <1>2, <1>3, <1>4, <1>5, <1>6, <1>7, <1>8, <1>11, <1>12, <1>13, <1>14, <1>15, <1>16,
     <1>17, <1>18, <1>19, <1>20, WorkerFrame

LEMMA ClockStep ==
  ASSUME Inv, [Next]_vars
  PROVE  /\ clock' \in Minutes /\ clock \in Nat /\ clock' \in Nat
         /\ clock' = clock \/ (clock' = clock + 1 /\ Tick /\ worker' = worker)
<1>1. clock \in Minutes
  BY DEF Inv, TypeOK
<1>2. ASSUME Tick PROVE clock' = clock + 1 /\ clock < LastMinute /\ worker' = worker
  BY <1>2 DEF Tick
<1>3. LastMinute \in Nat
  BY ClockAssumption
<1>4. \/ clock' = clock
      \/ clock' = clock + 1 /\ clock < LastMinute /\ Tick /\ worker' = worker
  BY <1>2, ClockFrame
<1> QED
  BY <1>1, <1>3, <1>4 DEF Minutes

LEMMA SlotsStep ==
  ASSUME Inv, [Next]_vars
  PROVE  /\ worker'.pc # "idle" => worker'.slot # None
         /\ worker'.slot # None => worker'.slot <= clock'
         /\ \A k \in Kinds : evidence[k] # None =>
              evidence[k] <= clock' /\ (worker'.slot # None => evidence[k] <= worker'.slot)
<1>1. /\ clock # None /\ clock \in Nat /\ clock' \in Nat /\ clock <= clock'
      /\ worker.slot \in Minutes \union {None}
      /\ \A k \in Kinds : evidence[k] \in Minutes \union {None}
  BY ClockStep, NoneAssumption DEF Inv, TypeOK, Worker, EvidenceTypeOK
<1>2. Minutes \subseteq Nat
  BY DEF Minutes
<1>3. EvidenceOK
  BY DEF Inv
<1>4. clock' = clock \/ worker' = worker
  BY ClockStep
<1>5. ASSUME worker.slot # None PROVE worker.slot <= clock'
  <2>1. worker.slot \in Nat /\ worker.slot <= clock
    BY <1>1, <1>2, <1>3, <1>5 DEF EvidenceOK
  <2> QED
    BY <1>1, <2>1
<1>6. ASSUME NEW k \in Kinds, evidence[k] # None
      PROVE  /\ evidence[k] <= clock' /\ evidence[k] <= clock
             /\ worker.slot # None => evidence[k] <= worker.slot
  <2>1. /\ evidence[k] \in Nat /\ evidence[k] <= clock
        /\ worker.slot # None => evidence[k] <= worker.slot
    BY <1>1, <1>2, <1>3, <1>6 DEF EvidenceOK
  <2> QED
    BY <1>1, <2>1
<1>7. worker.pc # "idle" => worker.slot # None
  BY <1>3 DEF EvidenceOK
<1>9. CASE (worker'.slot = worker.slot /\ worker.pc # "idle") \/ worker' = worker
  BY <1>5, <1>6, <1>7, <1>9
<1>10. CASE Starts
  <2>1. clock' = clock
    BY <1>10 DEF Starts, Poll
  <2> QED
    BY <1>1, <1>6, <1>10, <2>1 DEF Starts
<1>11. CASE Ends
  BY <1>5, <1>6, <1>11 DEF Ends
<1>8. Opens \/ Handles => worker.pc # "idle" /\ worker'.slot = worker.slot
  BY DEF Opens, Handles, OpenJob, WithJob
<1> QED
  BY <1>8, <1>9, <1>10, <1>11, WorkerStep DEF Goes

LEMMA EvidenceStep ==
  ASSUME Inv, [Next]_vars
  PROVE  EvidenceOK' /\ EvidenceTypeOK'
<1>1. EvidenceTypeOK /\ EvidenceOK /\ worker \in Worker /\ clock \in Minutes
  BY DEF Inv, TypeOK
<1>2. Minutes \subseteq Nat /\ None \notin Minutes
  BY NoneAssumption DEF Minutes
<1> DEFINE Goal == EvidenceOK' /\ EvidenceTypeOK'
<1>0. ASSUME evidence' = evidence, evCache' = evCache,
             worker'.pc = "cache" /\ worker'.rows => evidence[worker'.kind] = worker'.slot
      PROVE  Goal
  <2>1. EvidenceTypeOK'
    BY <1>0, <1>1 DEF EvidenceTypeOK
  <2>2. \A k \in Kinds : evCache'[k] # NoEntry /\ evCache'[k].rows =>
          evidence'[k] # None /\ evCache'[k].at <= evidence'[k]
    BY <1>0, <1>1 DEF EvidenceOK
  <2> QED
    BY <1>0, <2>1, <2>2, SlotsStep DEF EvidenceOK
<1>3. CASE FetchEvidence
  <2>1. worker.pc = "fetch" /\ worker.slot \in Minutes /\ worker.kind \in Kinds
    BY <1>1, <1>3 DEF FetchEvidence, EvidenceOK, Worker
  <2>2. evCache' = evCache /\ clock' = clock /\ worker'.slot = worker.slot
        /\ worker'.kind = worker.kind
    BY <1>1, <1>3, FetchWorker DEF FetchEvidence, CommitEvidence, AppendRows, evidenceVars
  <2>3. \/ evidence' = [evidence EXCEPT ![worker.kind] = worker.slot]
        \/ evidence' = evidence /\ (worker'.pc = "cache" => ~worker'.rows)
    BY <1>1, <1>3 DEF FetchEvidence, CommitEvidence, AppendRows, evidenceVars, Worker, EvidenceTypeOK
  <2>4. EvidenceTypeOK'
    BY <1>1, <2>1, <2>2, <2>3 DEF EvidenceTypeOK
  <2>5. CASE evidence' = evidence /\ (worker'.pc = "cache" => ~worker'.rows)
    BY <1>0, <2>2, <2>5
  <2>6. CASE evidence' = [evidence EXCEPT ![worker.kind] = worker.slot]
    <3>1. /\ evidence'[worker.kind] = worker.slot
          /\ \A k \in Kinds : k # worker.kind => evidence'[k] = evidence[k]
      BY <1>1, <2>1, <2>6 DEF EvidenceTypeOK
    <3>2. \A k \in Kinds : evidence'[k] # None =>
            evidence'[k] <= clock' /\ (worker'.slot # None => evidence'[k] <= worker'.slot)
      BY <1>1, <1>2, <2>1, <2>2, <3>1, SlotsStep DEF EvidenceOK
    <3>3. \A k \in Kinds : evCache[k] # NoEntry /\ evCache[k].rows =>
            evidence'[k] # None /\ evCache[k].at <= evidence'[k]
      <4> SUFFICES ASSUME NEW k \in Kinds, evCache[k] # NoEntry, evCache[k].rows
                   PROVE  evidence'[k] # None /\ evCache[k].at <= evidence'[k]
        OBVIOUS
      <4>1. evidence[k] # None /\ evCache[k].at <= evidence[k] /\ evidence[k] <= worker.slot
        BY <1>1, <1>2, <2>1 DEF EvidenceOK
      <4>2. evCache[k].at \in Nat /\ evidence[k] \in Nat /\ worker.slot \in Nat
        BY <1>1, <1>2, <2>1, <4>1 DEF EvidenceTypeOK, Entry
      <4>3. CASE k = worker.kind
        BY <1>2, <2>1, <3>1, <4>1, <4>2, <4>3
      <4>4. CASE k # worker.kind
        BY <3>1, <4>1, <4>4
      <4> QED
        BY <4>3, <4>4
    <3> QED
      BY <2>2, <2>4, <3>1, <3>2, <3>3, SlotsStep DEF EvidenceOK
  <2> QED
    BY <2>3, <2>4, <2>5, <2>6
<1>4. ~FetchEvidence /\ worker'.pc = "cache" => worker' = worker
  BY WorkerStep DEF Starts, Goes, Opens, Handles, Ends, WithJob
<1>5. CASE WriteEvidenceCache
  <2>1. /\ worker.pc = "cache" /\ worker.slot \in Minutes /\ worker.kind \in Kinds
        /\ worker.rows \in BOOLEAN
    BY <1>1, <1>5 DEF WriteEvidenceCache, EvidenceOK, Worker
  <2>2. evidence' = evidence /\ worker'.pc # "cache"
    BY <1>1, <1>5, WriteWorker DEF WriteEvidenceCache, CacheEvidence
  <2>3. \/ evCache' = [evCache EXCEPT ![worker.kind] = [at |-> worker.slot, rows |-> worker.rows]]
        \/ evCache' = evCache
    BY <1>5 DEF WriteEvidenceCache, CacheEvidence
  <2>4. EvidenceTypeOK'
    BY <1>1, <2>1, <2>2, <2>3 DEF EvidenceTypeOK, Entry
  <2>5. worker.rows => evidence[worker.kind] = worker.slot
    BY <1>1, <2>1 DEF EvidenceOK
  <2>6. \A k \in Kinds : \/ evCache'[k] = evCache[k]
                         \/ k = worker.kind /\ evCache'[k] = [at |-> worker.slot, rows |-> worker.rows]
    BY <1>1, <2>1, <2>3 DEF EvidenceTypeOK
  <2>7. \A k \in Kinds : evCache'[k] # NoEntry /\ evCache'[k].rows =>
          evidence[k] # None /\ evCache'[k].at <= evidence[k]
    BY <1>1, <1>2, <2>1, <2>5, <2>6 DEF EvidenceOK
  <2> QED
    BY <1>1, <2>2, <2>4, <2>7, SlotsStep DEF EvidenceOK
<1>6. CASE CacheExpires
  <2>1. evidence' = evidence /\ worker' = worker
    BY <1>6 DEF CacheExpires, EvidenceExpires, watchVars
  <2>2. PICK k \in Kinds : evCache' = [evCache EXCEPT ![k] = NoEntry]
    BY <1>6 DEF CacheExpires, EvidenceExpires
  <2>3. EvidenceTypeOK'
    BY <1>1, <2>1, <2>2 DEF EvidenceTypeOK
  <2>4. \A x \in Kinds : evCache'[x] = evCache[x] \/ evCache'[x] = NoEntry
    BY <1>1, <2>2 DEF EvidenceTypeOK
  <2> QED
    BY <1>1, <2>1, <2>3, <2>4, SlotsStep DEF EvidenceOK
<1>7. CASE evidence' = evidence /\ evCache' = evCache /\ ~FetchEvidence
  <2>1. worker'.pc = "cache" /\ worker'.rows => evidence[worker'.kind] = worker'.slot
    BY <1>1, <1>4, <1>7 DEF EvidenceOK
  <2> QED
    BY <1>0, <1>7, <2>1
<1> QED
  BY <1>3, <1>5, <1>6, <1>7, EvidenceFrame

-----------------------------------------------------------------------------
(***************************************************************************)
(* Minutes and markers                                                     *)
(***************************************************************************)
LEMMA MarkerStep ==
  ASSUME Inv, [Next]_vars
  PROVE  /\ hourlyMarker' \in Hours \union {None}
         /\ hourlyMarker' # None =>
              \E t \in HourlyMinutes : t <= clock' /\ hourlyMarker' = HourOf[t]
         /\ \/ hourlyMarker' \in {hourlyMarker, None}
            \/ /\ FinishSlot /\ worker.slot \in HourlyMinutes
               /\ hourlyMarker' = HourOf[worker.slot]
<1>1. /\ hourlyMarker \in Hours \union {None}
      /\ hourlyMarker # None => \E t \in HourlyMinutes : t <= clock /\ hourlyMarker = HourOf[t]
      /\ worker.pc # "idle" => worker.slot # None /\ worker.slot <= clock
  BY DEF Inv, TypeOK, MinuteOK, EvidenceOK
<1>2. HourlyMinutes \subseteq Nat /\ (\A t \in HourlyMinutes : HourOf[t] \in Hours)
  BY ClockAssumption DEF Minutes, Hours
<1>3. clock \in Nat /\ clock' \in Nat /\ clock <= clock'
  BY ClockStep
<1>4. hourlyMarker # None => \E t \in HourlyMinutes : t <= clock' /\ hourlyMarker = HourOf[t]
  BY <1>1, <1>2, <1>3
<1>5. CASE hourlyMarker' \in {hourlyMarker, None}
  BY <1>1, <1>4, <1>5
<1>6. CASE FinishSlot /\ hourlyMarker' \notin {hourlyMarker, None}
  <2>1. worker.slot \in HourlyMinutes /\ hourlyMarker' = HourOf[worker.slot]
        /\ worker.pc = "open" /\ clock' = clock
    BY <1>6 DEF FinishSlot, Hourly
  <2> QED
    BY <1>1, <1>2, <1>6, <2>1
<1> QED
  BY <1>5, <1>6, MarkerFrame DEF Crash

LEMMA MinuteStep ==
  ASSUME Inv, [Next]_vars
  PROVE  MinuteOK' /\ minute' \in MinuteStates
<1>1. /\ minute \in MinuteStates /\ MinuteOK /\ worker \in Worker
      /\ clock \in Nat /\ clock \in Minutes
  BY ClockStep DEF Inv, TypeOK
<1>2. /\ hourlyMarker' # None =>
           \E t \in HourlyMinutes : t <= clock' /\ hourlyMarker' = HourOf[t]
      /\ \/ hourlyMarker' \in {hourlyMarker, None}
         \/ /\ FinishSlot /\ worker.slot \in HourlyMinutes
            /\ hourlyMarker' = HourOf[worker.slot]
  BY MarkerStep
<1>3. HourlyMinutes \subseteq Nat /\ (\A t \in HourlyMinutes : HourOf[t] # None)
  BY ClockAssumption, NoneAssumption DEF Minutes, Hours
<1> DEFINE A == minute' = "asleep" => worker'.pc = "idle"
           B == minute' = "polled" /\ worker'.pc # "idle" => worker'.slot = clock'
           C == minute' = "polled" /\ clock' \in HourlyMinutes => worker'.slot = clock'
           D == clock' \in HourlyMinutes /\ hourlyMarker' = HourOf[clock'] =>
                  worker'.slot = clock' /\ worker'.pc = "idle" /\ minute' # "asleep"
           Goal == A /\ B /\ C /\ D /\ minute' \in MinuteStates
<1>4. ASSUME Tick PROVE Goal
  <2>1. clock' = clock + 1 /\ worker' = worker /\ hourlyMarker' = hourlyMarker
        /\ minute' = IF worker.pc = "idle" THEN "asleep" ELSE "late"
    BY <1>4 DEF Tick
  <2>2. ASSUME clock' \in HourlyMinutes, hourlyMarker' = HourOf[clock'] PROVE FALSE
    <3>1. PICK t \in HourlyMinutes : t <= clock /\ hourlyMarker = HourOf[t]
      BY <1>1, <1>3, <2>1, <2>2 DEF MinuteOK
    <3>2. t = clock'
      BY <2>1, <2>2, <3>1, HourAssumption
    <3> QED
      BY <1>1, <1>3, <2>1, <3>1, <3>2
  <2> QED
    BY <2>1, <2>2 DEF MinuteStates
<1>5. ASSUME Poll PROVE Goal
  <2>1. /\ clock' = clock /\ hourlyMarker' = hourlyMarker /\ worker.pc = "idle"
        /\ minute' = IF minute = "asleep" THEN "polled" ELSE minute
    BY <1>5 DEF Poll
  <2>2. minute' \in MinuteStates /\ minute' # "asleep"
    BY <1>1, <2>1 DEF MinuteStates
  <2>3. CASE HourlyDue
    <3>1. hourlyMarker # HourOf[clock] /\ ~DailyDue
      BY <2>3, ClockAssumption DEF HourlyDue, DailyDue
    <3>2. worker' = [Asleep EXCEPT !.pc = "fetch", !.slot = clock]
      BY <1>5, <2>3, <3>1 DEF Poll
    <3>3. worker'.slot = clock /\ worker'.pc = "fetch"
      BY <3>2, AsleepIs DEF Worker
    <3> QED
      BY <2>1, <2>2, <3>1, <3>3
  <2>4. CASE ~HourlyDue
    <3>1. clock \in HourlyMinutes => hourlyMarker = HourOf[clock] /\ ~DailyDue
      BY <2>4, ClockAssumption DEF HourlyDue, DailyDue
    <3>2. clock \in HourlyMinutes => worker' = worker /\ worker.slot = clock
      BY <1>1, <1>5, <2>4, <3>1 DEF Poll, MinuteOK
    <3>3. worker' = worker \/ (worker'.slot = clock /\ worker'.pc # "idle")
      BY <1>1, <1>5, PollWorker
    <3> QED
      BY <2>1, <2>2, <3>1, <3>2, <3>3
  <2> QED
    BY <2>3, <2>4
<1>6. ASSUME IterationFails \/ Crash PROVE Goal
  <2>1. /\ clock' = clock /\ worker'.pc = "idle" /\ minute' = "late"
        /\ hourlyMarker' = None \/ (hourlyMarker' = hourlyMarker /\ worker.pc # "idle")
    BY <1>6, AsleepIs, ClockStep DEF IterationFails, Crash, Tick
  <2> QED
    BY <1>1, <1>3, <2>1 DEF MinuteOK, MinuteStates
<1>7. ASSUME minute' = minute, ~Tick, ~Poll, ~IterationFails, ~Crash PROVE Goal
  <2>1. clock' = clock /\ (worker.pc # "idle" \/ worker' = worker)
        /\ (worker' = worker \/ worker'.slot = worker.slot)
    BY <1>7, ClockStep, WorkerStep DEF Starts, Goes, Opens, Handles, Ends, OpenJob, WithJob
  <2>2. A /\ B /\ C /\ minute' \in MinuteStates
    BY <1>1, <1>7, <2>1 DEF MinuteOK
  <2>3. CASE hourlyMarker' \in {hourlyMarker, None}
    BY <1>1, <1>3, <1>7, <2>1, <2>2, <2>3 DEF MinuteOK
  <2>4. CASE FinishSlot /\ worker.slot \in HourlyMinutes /\ hourlyMarker' = HourOf[worker.slot]
    <3>1. worker'.pc = "idle" /\ worker'.slot = worker.slot /\ worker.pc = "open"
      BY <1>1, <2>4, FinishWorker DEF FinishSlot
    <3> QED
      BY <1>1, <1>7, <2>1, <2>2, <2>4, <3>1, HourAssumption DEF MinuteOK
  <2> QED
    BY <1>2, <2>3, <2>4
<1> QED
  BY <1>1, <1>2, <1>4, <1>5, <1>6, <1>7, MinuteFrame DEF MinuteOK

-----------------------------------------------------------------------------
(***************************************************************************)
(* Jobs and the archive                                                    *)
(***************************************************************************)
LEMMA FinishJobIs ==
  ASSUME job \in Seq(Job), NEW status \in JobStatuses, FinishJob(status)
  PROVE  /\ job' \in Seq(Job) /\ DOMAIN job' = DOMAIN job
         /\ \A j \in DOMAIN job :
              /\ job'[j].type = job[j].type /\ job'[j].stock = job[j].stock
              /\ job'[j].slot = job[j].slot
              /\ job'[j].status = IF j = worker.job THEN status ELSE job[j].status
<1> DEFINE closed(r) == [type |-> r.type, stock |-> r.stock, slot |-> r.slot, status |-> status]
           upd == [j \in DOMAIN job |-> IF j = worker.job THEN closed(job[j]) ELSE job[j]]
<1>1. \A r \in Job : /\ closed(r) \in Job /\ [r EXCEPT !.status = status] = closed(r)
                     /\ closed(r).type = r.type /\ closed(r).stock = r.stock
                     /\ closed(r).slot = r.slot /\ closed(r).status = status
  BY DEF Job
<1> HIDE DEF closed
<1>2. \A j \in DOMAIN job : job[j] \in Job
  OBVIOUS
<1>3. job' = upd
  BY ZenonT(40), <1>1, <1>2 DEF FinishJob
<1>4. DOMAIN job' = DOMAIN job /\ DOMAIN job = 1 .. Len(job) /\ Len(job) \in Nat
  BY <1>3
<1>5. job' \in [1 .. Len(job) -> Job]
  BY <1>1, <1>2, <1>3, <1>4
<1> QED
  BY <1>1, <1>2, <1>3, <1>4, <1>5

LEMMA ArchivedStep ==
  ASSUME Inv, [Next]_vars
  PROVE  /\ archived' \in [Stocks -> SUBSET Minutes]
         /\ \A s \in Stocks : archived[s] \subseteq archived'[s]
         /\ SyncContext => worker.slot \in archived'[worker.stock]
<1>1. archived \in [Stocks -> SUBSET Minutes]
  BY DEF Inv, TypeOK
<1>2. CASE SyncContext
  <2>1. worker.stock \in Stocks /\ worker.slot \in Minutes
    BY <1>2 DEF SyncContext, WorkerMoves, Inv, TypeOK, Worker, EvidenceOK, JobOK, WithJob
  <2>2. archived' = [archived EXCEPT ![worker.stock] = @ \union {worker.slot}]
    BY <1>2 DEF SyncContext
  <2> QED
    BY <1>1, <2>1, <2>2
<1>3. CASE archived' = archived /\ ~SyncContext
  BY <1>1, <1>3
<1> QED
  BY <1>2, <1>3, ArchivedFrame

\* Rows are added running and closed as what they are; a synchronisation counts as
\* done only from "mark".
LEMMA JobsStep ==
  ASSUME Inv, [Next]_vars
  PROVE  /\ job' \in Seq(Job)
         /\ \A j \in DOMAIN job :
              /\ j \in DOMAIN job'
              /\ job'[j].type = job[j].type /\ job'[j].stock = job[j].stock
              /\ job'[j].slot = job[j].slot
         /\ \A j \in DOMAIN job' :
              job'[j].type = "watchlist_hourly_sync" /\ job'[j].status = "success"
                => job'[j].slot \in archived[job'[j].stock]
         /\ OpenJob =>
              /\ Len(job) + 1 \in DOMAIN job'
              /\ job'[Len(job) + 1] =
                   [type |-> IF Hourly THEN "watchlist_hourly_sync"
                                       ELSE "watchlist_daily_analysis",
                    stock |-> First(worker.todo), slot |-> worker.slot, status |-> "running"]
<1> DEFINE Done(jobs) == \A j \in DOMAIN jobs :
             jobs[j].type = "watchlist_hourly_sync" /\ jobs[j].status = "success"
               => jobs[j].slot \in archived[jobs[j].stock]
           Kept == \A j \in DOMAIN job :
             /\ j \in DOMAIN job'
             /\ job'[j].type = job[j].type /\ job'[j].stock = job[j].stock
             /\ job'[j].slot = job[j].slot
           Goal == /\ job' \in Seq(Job) /\ Kept /\ Done(job')
                   /\ OpenJob =>
                        /\ Len(job) + 1 \in DOMAIN job'
                        /\ job'[Len(job) + 1] =
                             [type |-> IF Hourly THEN "watchlist_hourly_sync"
                                                 ELSE "watchlist_daily_analysis",
                              stock |-> First(worker.todo), slot |-> worker.slot,
                              status |-> "running"]
<1>1. job \in Seq(Job) /\ Done(job) /\ JobOK /\ worker \in Worker
  BY DEF Inv, TypeOK, JobOK
<1>2. ASSUME NEW status \in JobStatuses, FinishJob(status), ~OpenJob,
             status = "success" =>
               \/ job[worker.job].type = "watchlist_daily_analysis"
               \/ job[worker.job].slot \in archived[job[worker.job].stock]
      PROVE  Goal
  BY <1>1, <1>2, FinishJobIs
<1>3. CASE OpenJob
  <2> DEFINE new == [type |-> IF Hourly THEN "watchlist_hourly_sync"
                                        ELSE "watchlist_daily_analysis",
                     stock |-> First(worker.todo), slot |-> worker.slot,
                     status |-> "running"]
  <2>1. job' = Append(job, new)
    BY <1>3 DEF OpenJob
  <2>2. worker.slot \in Minutes
    BY <1>1, <1>3 DEF OpenJob, Inv, EvidenceOK, Worker
  <2>3. First(worker.todo) \in Stocks
    BY <1>1, <1>3, OpenWorker
  <2>4. new \in Job /\ new.status = "running"
    BY <2>2, <2>3 DEF Job, JobTypes, JobStatuses
  <2> HIDE DEF new
  <2>5. /\ job' \in Seq(Job) /\ Len(job) + 1 \in DOMAIN job' /\ job'[Len(job) + 1] = new
        /\ \A j \in DOMAIN job : j \in DOMAIN job' /\ job'[j] = job[j]
        /\ \A j \in DOMAIN job' : j \in DOMAIN job \/ j = Len(job) + 1
    BY <1>1, <2>1, <2>4
  <2>6. Kept /\ Done(job')
    BY <1>1, <2>4, <2>5
  <2> QED
    BY <2>5, <2>6 DEF new
<1>4. CASE MarkSynced
  <2>1. worker.pc = "mark" /\ FinishJob("success") /\ ~OpenJob
    BY <1>4 DEF MarkSynced, OpenJob
  <2>2. job[worker.job].slot \in archived[job[worker.job].stock]
    BY <1>1, <2>1 DEF JobOK, WithJob
  <2> QED
    BY <1>2, <2>1, <2>2 DEF JobStatuses
<1>5. CASE job' # job /\ (CheckReport \/ UseFreshReport \/ AttachToSession \/ CloseDaily \/ FailItem)
  <2>1. /\ \/ FinishJob("success") /\ worker.pc \in {"check", "start", "close"}
           \/ FinishJob("partial")
           \/ FinishJob("failed")
        /\ worker.pc # "open"
    BY <1>5 DEF CheckReport, UseFreshReport, AttachToSession, CloseDaily, FailItem
  <2>2. worker.pc \in {"check", "start", "close"} =>
          job[worker.job].type = "watchlist_daily_analysis"
    BY <1>1 DEF JobOK
  <2>3. ~OpenJob
    BY <2>1 DEF OpenJob
  <2> QED
    BY <1>2, <2>1, <2>2, <2>3 DEF JobStatuses
<1>6. CASE job' = job /\ ~OpenJob
  BY <1>1, <1>6
<1> QED
  BY <1>3, <1>4, <1>5, <1>6, JobFrame

LEMMA JobStep ==
  ASSUME Inv, [Next]_vars
  PROVE  JobOK'
<1>1. worker \in Worker /\ JobOK /\ job \in Seq(Job) /\ job' \in Seq(Job)
  BY JobsStep DEF Inv, TypeOK
<1>2. /\ \A j \in DOMAIN job :
           /\ j \in DOMAIN job'
           /\ job'[j].type = job[j].type /\ job'[j].stock = job[j].stock
           /\ job'[j].slot = job[j].slot
      /\ \A s \in Stocks : archived[s] \subseteq archived'[s]
  BY JobsStep, ArchivedStep
<1>3. \A j \in DOMAIN job' :
        job'[j].type = "watchlist_hourly_sync" /\ job'[j].status = "success"
          => job'[j].slot \in archived'[job'[j].stock]
  <2> SUFFICES ASSUME NEW j \in DOMAIN job', job'[j].type = "watchlist_hourly_sync",
                      job'[j].status = "success"
               PROVE  job'[j].slot \in archived'[job'[j].stock]
    OBVIOUS
  <2>1. job'[j] \in Job
    BY <1>1
  <2>2. job'[j].stock \in Stocks
    BY <2>1 DEF Job
  <2>3. job'[j].slot \in archived[job'[j].stock]
    BY JobsStep
  <2> QED
    BY <1>2, <2>2, <2>3
<1> DEFINE Rest == /\ worker'.pc \in WithJob =>
                        /\ worker'.stock \in Stocks
                        /\ worker'.job \in DOMAIN job'
                        /\ job'[worker'.job].stock = worker'.stock
                        /\ job'[worker'.job].slot = worker'.slot
                   /\ worker'.pc \in DailyPcs =>
                        job'[worker'.job].type = "watchlist_daily_analysis"
                   /\ worker'.pc = "mark" => worker'.slot \in archived'[worker'.stock]
<1>4. ASSUME worker' = worker PROVE Rest
  BY <1>1, <1>2, <1>4 DEF JobOK, WithJob, DailyPcs
<1>5. ASSUME Starts \/ Goes \/ Ends PROVE Rest
  BY <1>5 DEF Starts, Goes, Ends, WithJob, DailyPcs
<1>6. ASSUME Opens PROVE Rest
  BY <1>6, JobsStep DEF Opens, WithJob, DailyPcs
<1>7. ASSUME Handles PROVE Rest
  <2>1. /\ worker.pc \in WithJob /\ worker'.stock = worker.stock
        /\ worker'.slot = worker.slot /\ worker'.job = worker.job
        /\ worker'.pc \in DailyPcs => worker.pc \in DailyPcs
        /\ worker'.pc = "mark" => SyncContext
    BY <1>7 DEF Handles
  <2>2. worker'.pc = "mark" => worker'.slot \in archived'[worker'.stock]
    BY <2>1, ArchivedStep
  <2> QED
    BY <1>1, <1>2, <2>1, <2>2 DEF JobOK, DailyPcs
<1>8. Rest
  BY <1>4, <1>5, <1>6, <1>7, WorkerStep
<1> QED
  BY <1>3, <1>8 DEF JobOK, DailyPcs


-----------------------------------------------------------------------------
(***************************************************************************)
(* Reports and sessions                                                    *)
(***************************************************************************)
ReportType == [at : Minutes \union {None}, fresh : BOOLEAN]

LEMMA NewReportIs ==
  ASSUME clock \in Minutes
  PROVE  /\ NewReport \in ReportType /\ NewReport.at # None
         /\ NewReport = [at |-> clock, fresh |-> TRUE]
  BY NoneAssumption DEF NewReport, ReportType

LEMMA EndSessionIs ==
  ASSUME session \in [SessionIds -> Session], NEW i \in SessionIds, EndSession(i)
  PROVE  /\ session' \in [SessionIds -> Session]
         /\ \A k \in SessionIds :
              /\ session'[k].stock = session[k].stock /\ session'[k].web = session[k].web
              /\ session'[k].made = session[k].made
              /\ k # i => session'[k].status = session[k].status
              /\ session'[k].lapsed = session[k].lapsed
         /\ \/ /\ session'[i].status = "completed"
               /\ reportDay' = [reportDay EXCEPT ![session[i].stock] = UtcDayOf[clock]]
               /\ report' = [report EXCEPT ![session[i].stock] = NewReport]
               /\ Analyzed(session[i].stock, clock)
            \/ /\ session'[i].status = "failed"
               /\ reportDay' = reportDay /\ report' = report /\ item' = item
<1>1. ASSUME NEW st \in {"completed", "failed"},
             session' = [session EXCEPT ![i].status = st]
      PROVE  /\ session' \in [SessionIds -> Session]
             /\ \A k \in SessionIds :
                  /\ session'[k].stock = session[k].stock /\ session'[k].web = session[k].web
                  /\ session'[k].made = session[k].made
                  /\ k # i => session'[k].status = session[k].status
                  /\ session'[k].lapsed = session[k].lapsed
             /\ session'[i].status = st
  BY <1>1 DEF Session, SessionStatuses
<1> QED
  BY <1>1 DEF EndSession

\* Who ends a session ends one that has a stock.
LEMMA EndsOwnSession ==
  ASSUME Inv
  PROVE  /\ EndInline => /\ worker.sid \in SessionIds /\ Held(worker.sid)
                         /\ session[worker.sid].status # "absent"
                         /\ session[worker.sid].stock \in Stocks
         /\ \A i \in SessionIds : OtherRun(i) =>
              session[i].status \in {"queued", "running"} /\ session[i].stock \in Stocks
<1>1. SessionOK
  BY DEF Inv
<1>2. EndInline => worker.sid \in SessionIds /\ session[worker.sid].status # "absent" /\ Held(worker.sid)
  BY <1>1 DEF EndInline, WorkerMoves, SessionOK, Held
<1>3. \A i \in SessionIds : OtherRun(i) => session[i].status \in {"queued", "running"}
  BY DEF OtherRun
<1> QED
  BY <1>1, <1>2, <1>3 DEF SessionOK

\* A report stays, and one of this minute stays fresh.
LEMMA ReportStep ==
  ASSUME Inv, [Next]_vars
  PROVE  /\ reportDay' \in [Stocks -> Days \union {None}]
         /\ report' \in [Stocks -> ReportType]
         /\ \A s \in Stocks :
              /\ report[s].at # None => report'[s].at # None
              /\ reportDay'[s] # None \/ report'[s].fresh => report'[s].at # None
              /\ report[s] = [at |-> clock, fresh |-> TRUE] => report'[s] = report[s]
<1> DEFINE Goal == /\ reportDay' \in [Stocks -> Days \union {None}]
                   /\ report' \in [Stocks -> ReportType]
                   /\ \A s \in Stocks :
                        /\ report[s].at # None => report'[s].at # None
                        /\ reportDay'[s] # None \/ report'[s].fresh => report'[s].at # None
                        /\ report[s] = [at |-> clock, fresh |-> TRUE] => report'[s] = report[s]
<1>1. /\ reportDay \in [Stocks -> Days \union {None}]
      /\ report \in [Stocks -> ReportType]
      /\ session \in [SessionIds -> Session]
      /\ clock \in Minutes
      /\ \A s \in Stocks : reportDay[s] # None \/ report[s].fresh => report[s].at # None
  BY DEF Inv, TypeOK, SessionOK, ReportType
<1>2. UtcDayOf[clock] \in Days
  BY <1>1, ClockAssumption DEF Days
<1>3. /\ NewReport \in ReportType /\ NewReport.at # None
      /\ NewReport = [at |-> clock, fresh |-> TRUE]
  BY <1>1, NewReportIs
<1>4. CASE reportDay' = reportDay /\ report' = report
  BY <1>1, <1>4
<1>5. ASSUME NEW s \in Stocks, report' = [report EXCEPT ![s] = NewReport],
             reportDay' \in {reportDay, [reportDay EXCEPT ![s] = UtcDayOf[clock]]}
      PROVE  Goal
  BY <1>1, <1>2, <1>3, <1>5
<1>6. ASSUME NEW i \in SessionIds, EndSession(i), session[i].stock \in Stocks PROVE Goal
  <2>1. \/ /\ reportDay' = [reportDay EXCEPT ![session[i].stock] = UtcDayOf[clock]]
           /\ report' = [report EXCEPT ![session[i].stock] = NewReport]
        \/ reportDay' = reportDay /\ report' = report
    BY <1>1, <1>6, EndSessionIs
  <2> QED
    BY <1>4, <1>5, <1>6, <2>1
<1>7. CASE EndInline
  BY <1>6, <1>7, EndsOwnSession DEF EndInline
<1>8. CASE \E i \in SessionIds : OtherRun(i)
  BY <1>6, <1>8, EndsOwnSession DEF OtherRun
<1>9. CASE \E s \in Stocks : ManualReport(s)
  BY <1>5, <1>9 DEF ManualReport
<1>10. CASE \E s \in Stocks : ReportAges(s)
  <2>1. PICK s \in Stocks : ReportAges(s)
    BY <1>10
  <2>2. /\ report' = [report EXCEPT ![s].fresh = FALSE] /\ reportDay' = reportDay
        /\ report[s].at < clock /\ clock \in Nat
    BY <1>1, <2>1 DEF ReportAges, Minutes
  <2>3. report[s] # [at |-> clock, fresh |-> TRUE]
    BY <2>2
  <2> QED
    BY <1>1, <2>2, <2>3 DEF ReportType
<1> QED
  BY <1>4, <1>7, <1>8, <1>9, <1>10, ReportFrame

\* What the worker holds after a step it held before, or has just created.
LEMMA HeldStep ==
  ASSUME Inv, [Next]_vars, ~CreateSession
  PROVE  worker'.pc \in {"inline", "running"} =>
           worker.pc \in {"inline", "running"} /\ worker'.sid = worker.sid
  BY WorkerStep DEF Starts, Goes, Opens, Handles, Ends

\* Apart from a creation, a step leaves what a session is about and makes none count.
LEMMA SessionMoves ==
  ASSUME Inv, [Next]_vars, ~CreateSession
  PROVE  /\ session' \in [SessionIds -> Session]
         /\ \A i \in SessionIds :
              /\ session'[i].stock = session[i].stock /\ session'[i].web = session[i].web
              /\ session'[i].made = session[i].made
              /\ session'[i].status = "absent" <=> session[i].status = "absent"
              /\ Counts(i)' => Counts(i)
              /\ session'[i].status \in ActiveStatus /\ session'[i].lapsed =>
                   \/ session[i].status \in ActiveStatus /\ session[i].lapsed
                   \/ session[i].made < clock
              /\ session'[i].status = "completed" =>
                   \/ session[i].status = "completed"
                   \/ report'[session[i].stock] = [at |-> clock, fresh |-> TRUE]
<1> DEFINE Same(i) == /\ session'[i].stock = session[i].stock
                      /\ session'[i].web = session[i].web
                      /\ session'[i].made = session[i].made
           Goal == /\ session' \in [SessionIds -> Session]
                   /\ \A i \in SessionIds :
                        /\ Same(i)
                        /\ session'[i].status = "absent" <=> session[i].status = "absent"
                        /\ Counts(i)' => Counts(i)
                        /\ session'[i].status \in ActiveStatus /\ session'[i].lapsed =>
                             \/ session[i].status \in ActiveStatus /\ session[i].lapsed
                             \/ session[i].made < clock
                        /\ session'[i].status = "completed" =>
                             \/ session[i].status = "completed"
                             \/ report'[session[i].stock] = [at |-> clock, fresh |-> TRUE]
<1>1. /\ session \in [SessionIds -> Session] /\ SessionOK
      /\ clock \in Minutes /\ report \in [Stocks -> ReportType]
  BY DEF Inv, TypeOK, ReportType
<1>2. \A i \in SessionIds : Held(i)' => Held(i)
  BY HeldStep DEF Held
<1>3. CASE session' = session
  BY <1>1, <1>2, <1>3 DEF Counts
<1>4. ASSUME NEW i \in SessionIds, EndSession(i), Counts(i), session[i].status # "absent",
             session[i].stock \in Stocks
      PROVE  Goal
  <2>1. /\ session' \in [SessionIds -> Session]
        /\ \A k \in SessionIds :
             /\ Same(k)
             /\ k # i => session'[k].status = session[k].status
             /\ session'[k].lapsed = session[k].lapsed
        /\ \/ /\ session'[i].status = "completed"
              /\ report' = [report EXCEPT ![session[i].stock] = NewReport]
           \/ session'[i].status = "failed"
    BY <1>1, <1>4, EndSessionIs
  <2>2. session'[i].status = "completed" =>
          report'[session[i].stock] = [at |-> clock, fresh |-> TRUE]
    BY <1>1, <1>4, <2>1, NewReportIs
  <2>3. \A k \in SessionIds : Counts(k)' => Counts(k)
    <3> SUFFICES ASSUME NEW k \in SessionIds, Counts(k)' PROVE Counts(k)
      OBVIOUS
    <3>1. CASE k = i
      BY <1>4, <3>1
    <3>2. CASE k # i
      BY <1>2, <2>1, <3>2 DEF Counts
    <3> QED
      BY <3>1, <3>2
  <2>4. session'[i].status \notin ActiveStatus /\ session'[i].status # "absent"
    BY <2>1 DEF ActiveStatus
  <2> QED
    BY <1>4, <2>1, <2>2, <2>3, <2>4
<1>5. CASE EndInline
  BY <1>4, <1>5, EndsOwnSession DEF EndInline, Counts
<1>6. CASE \E i \in SessionIds : OtherRun(i)
  BY <1>4, <1>6, EndsOwnSession DEF OtherRun, Counts
<1>7. CASE RunInline
  <2>1. /\ worker.sid \in SessionIds /\ Held(worker.sid)
        /\ session[worker.sid].status # "absent"
    BY <1>1, <1>7 DEF RunInline, WorkerMoves, SessionOK, Held
  <2>2. session' = [session EXCEPT ![worker.sid].status = "running",
                                   ![worker.sid].lapsed = FALSE]
    BY <1>7 DEF RunInline
  <2>3. /\ session' \in [SessionIds -> Session]
        /\ \A k \in SessionIds :
             /\ Same(k)
             /\ k # worker.sid => session'[k] = session[k]
        /\ session'[worker.sid].status = "running" /\ ~session'[worker.sid].lapsed
    BY <1>1, <2>1, <2>2 DEF Session, SessionStatuses
  <2>4. \A k \in SessionIds : Counts(k)' => Counts(k)
    <3> SUFFICES ASSUME NEW k \in SessionIds, Counts(k)' PROVE Counts(k)
      OBVIOUS
    <3>1. CASE k = worker.sid
      BY <2>1, <3>1 DEF Counts
    <3>2. CASE k # worker.sid
      BY <1>2, <2>3, <3>2 DEF Counts
    <3> QED
      BY <3>1, <3>2
  <2> QED
    BY <2>1, <2>3, <2>4
<1>8. CASE \E i \in SessionIds : SessionLapses(i)
  <2>1. PICK i \in SessionIds : SessionLapses(i)
    BY <1>8
  <2>2. session' = [session EXCEPT ![i].lapsed = TRUE] /\ session[i].made < clock
    BY <2>1 DEF SessionLapses
  <2>3. /\ session' \in [SessionIds -> Session]
        /\ \A k \in SessionIds :
             /\ Same(k) /\ session'[k].status = session[k].status
             /\ k # i => session'[k].lapsed = session[k].lapsed
    BY <1>1, <2>2 DEF Session
  <2>4. \A k \in SessionIds : Counts(k)' => Counts(k)
    BY <1>2, <2>3 DEF Counts
  <2> QED
    BY <2>2, <2>3, <2>4
<1> QED
  BY <1>3, <1>5, <1>6, <1>7, <1>8, SessionFrame

\* A session is created only when none of its key is under way and no report is fresh:
\* none of this minute counts.
LEMMA CreationIsAlone ==
  ASSUME Inv, CreateSession
  PROVE  \E i \in SessionIds :
           /\ session' \in [SessionIds -> Session] /\ clock' = clock
           /\ session'[i] \in [status : {"queued"}, stock : {worker.stock},
                              web : {SearchesWeb}, made : {clock},
                              lapsed : {FALSE}]
           /\ worker.stock \in Stocks /\ worker'.sid = i
           /\ \A k \in SessionIds : k # i =>
                /\ session'[k] = session[k]
                /\ Counts(k)' => Counts(k)
                /\ Counts(k) /\ session[k].stock = worker.stock
                   /\ session[k].web = SearchesWeb => session[k].made # clock
<1>1. /\ session \in [SessionIds -> Session] /\ SessionOK /\ worker \in Worker
      /\ worker.stock \in Stocks /\ worker.pc = "start"
  BY DEF Inv, TypeOK, JobOK, WithJob, CreateSession
<1>2. clock \in Nat /\ clock \in Minutes /\ clock' = clock
  BY DEF Inv, TypeOK, Minutes, CreateSession
<1>3. PICK i \in SessionIds : NextId(i) /\ NewSession(i)
  BY DEF CreateSession
<1>4. worker'.sid = i
  BY <1>1, <1>3, CreateWorker
<1> DEFINE s == worker.stock
           new == [NoSession EXCEPT !.status = "queued", !.stock = s, !.web = SearchesWeb,
                                    !.made = clock]
           Fields == [status : {"queued"}, stock : {s}, web : {SearchesWeb},
                      made : {clock}, lapsed : {FALSE}]
<1>5. SearchesWeb \in BOOLEAN
  BY DEF SearchesWeb
<1>6. new \in Fields
  BY DEF NoSession
<1> HIDE DEF new
<1>7. session' = [session EXCEPT ![i] = new]
  BY <1>3 DEF NewSession, new
<1>8. new \in Session
  BY <1>1, <1>2, <1>5, <1>6 DEF Session, SessionStatuses
<1>9. session' \in [SessionIds -> Session] /\ session'[i] = new
      /\ \A k \in SessionIds : k # i => session'[k] = session[k]
  BY <1>1, <1>7, <1>8
<1>10. ASSUME NEW k \in SessionIds, k # i
       PROVE  /\ Counts(k)' => Counts(k)
              /\ Counts(k) /\ session[k].stock = s /\ session[k].web = SearchesWeb
                   => session[k].made # clock
  <2>1. Counts(k)' => session[k].status \in {"queued", "running", "completed"}
    BY <1>4, <1>9, <1>10 DEF Counts, Held
  <2>2. ASSUME Counts(k), session[k].stock = s, session[k].web = SearchesWeb,
               session[k].made = clock
        PROVE  FALSE
    <3>1. session[k].status \in {"queued", "running", "completed"}
      BY <1>1, <2>2 DEF Counts, Held
    <3>2. session[k].status # "completed"
      BY <1>1, <2>2 DEF SessionOK, CreateSession
    <3>3. session[k].status \in ActiveStatus
      BY <3>1, <3>2 DEF ActiveStatus
    <3>4. ~session[k].lapsed
      BY <1>1, <1>2, <2>2, <3>3 DEF SessionOK
    <3> QED
      BY <2>2, <3>3, <3>4 DEF CreateSession, ActiveSessions
  <2> QED
    BY <2>1, <2>2 DEF Counts
<1> QED
  BY <1>1, <1>2, <1>4, <1>6, <1>9, <1>10

LEMMA SessionStep ==
  ASSUME Inv, [Next]_vars
  PROVE  SessionOK' /\ session' \in [SessionIds -> Session]
<1>1. /\ SessionOK /\ session \in [SessionIds -> Session]
      /\ clock \in Nat /\ clock' \in Nat /\ clock \in Minutes
      /\ clock <= clock'
  BY ClockStep DEF Inv, TypeOK
<1>2. \A i \in SessionIds : session[i].status # "absent" =>
        /\ session[i].stock \in Stocks /\ session[i].made \in Minutes
        /\ session[i].made \in Nat /\ session[i].made <= clock /\ session[i].made <= clock'
  BY <1>1 DEF SessionOK, Minutes
<1>3. \A s \in Stocks :
        /\ reportDay'[s] # None \/ report'[s].fresh => report'[s].at # None
        /\ report[s] = [at |-> clock, fresh |-> TRUE] => report'[s] = report[s]
  BY ReportStep
<1>4. CASE ~CreateSession
  <2>1. /\ session' \in [SessionIds -> Session]
        /\ \A i \in SessionIds :
              /\ session'[i].stock = session[i].stock /\ session'[i].web = session[i].web
              /\ session'[i].made = session[i].made
              /\ session'[i].status = "absent" <=> session[i].status = "absent"
              /\ Counts(i)' => Counts(i)
              /\ session'[i].status \in ActiveStatus /\ session'[i].lapsed =>
                   \/ session[i].status \in ActiveStatus /\ session[i].lapsed
                   \/ session[i].made < clock
              /\ session'[i].status = "completed" =>
                   \/ session[i].status = "completed"
                   \/ report'[session[i].stock] = [at |-> clock, fresh |-> TRUE]
    BY <1>4, SessionMoves
  <2>2. worker'.pc \in {"inline", "running"} =>
          worker'.sid \in SessionIds /\ session'[worker'.sid].status # "absent"
    BY <1>1, <1>4, <2>1, HeldStep DEF SessionOK
  <2>3. \A i \in SessionIds : session'[i].status \in ActiveStatus /\ session'[i].lapsed =>
          session'[i].made < clock'
    <3> SUFFICES ASSUME NEW i \in SessionIds, session'[i].status \in ActiveStatus,
                        session'[i].lapsed
                 PROVE  session'[i].made < clock'
      OBVIOUS
    <3>1. session[i].made < clock
      BY <1>1, <2>1 DEF SessionOK
    <3>2. session[i].status # "absent"
      BY <2>1 DEF ActiveStatus
    <3> QED
      BY <1>1, <1>2, <2>1, <3>1, <3>2
  <2>4. \A i \in SessionIds : session'[i].status = "completed" /\ session'[i].made = clock' =>
          report'[session'[i].stock] = [at |-> clock', fresh |-> TRUE]
    <3> SUFFICES ASSUME NEW i \in SessionIds, session'[i].status = "completed",
                        session'[i].made = clock'
                 PROVE  report'[session'[i].stock] = [at |-> clock', fresh |-> TRUE]
      OBVIOUS
    <3>1. session[i].status # "absent"
      BY <2>1
    <3>2. clock' = clock /\ session[i].stock \in Stocks /\ session[i].made = clock
      BY <1>1, <1>2, <2>1, <3>1
    <3>3. session[i].status = "completed" =>
            report[session[i].stock] = [at |-> clock, fresh |-> TRUE]
      BY <1>1, <3>2 DEF SessionOK
    <3> QED
      BY <1>3, <2>1, <3>2, <3>3
  <2>5. \A i, k \in SessionIds :
          /\ Counts(i)' /\ Counts(k)'
          /\ session'[i].stock = session'[k].stock /\ session'[i].web = session'[k].web
          /\ session'[i].made = session'[k].made
          => i = k
    BY <1>1, <2>1 DEF SessionOK
  <2>6. \A i \in SessionIds : session'[i].status # "absent" =>
          session'[i].stock \in Stocks /\ session'[i].made \in Minutes /\ session'[i].made <= clock'
    BY <1>2, <2>1
  <2> QED
    BY <1>3, <2>1, <2>2, <2>3, <2>4, <2>5, <2>6 DEF SessionOK
<1>5. CASE CreateSession
  <2>1. PICK i \in SessionIds :
           /\ session' \in [SessionIds -> Session] /\ clock' = clock
           /\ session'[i] \in [status : {"queued"}, stock : {worker.stock},
                              web : {SearchesWeb}, made : {clock},
                              lapsed : {FALSE}]
           /\ worker.stock \in Stocks /\ worker'.sid = i
           /\ \A k \in SessionIds : k # i =>
                /\ session'[k] = session[k]
                /\ Counts(k)' => Counts(k)
                /\ Counts(k) /\ session[k].stock = worker.stock
                   /\ session[k].web = SearchesWeb => session[k].made # clock
    BY <1>5, CreationIsAlone
  <2>2. report' = report
    BY <1>5 DEF CreateSession
  <2>3. \A k \in SessionIds : session'[k].status # "absent" =>
          session'[k].stock \in Stocks /\ session'[k].made \in Minutes /\ session'[k].made <= clock'
    BY <1>1, <1>2, <2>1
  <2>4. \A k \in SessionIds :
          /\ session'[k].status \in ActiveStatus /\ session'[k].lapsed => session'[k].made < clock'
          /\ session'[k].status = "completed" /\ session'[k].made = clock' =>
               report'[session'[k].stock] = [at |-> clock', fresh |-> TRUE]
    <3> SUFFICES ASSUME NEW k \in SessionIds
                 PROVE  /\ session'[k].status \in ActiveStatus /\ session'[k].lapsed =>
                             session'[k].made < clock'
                        /\ session'[k].status = "completed" /\ session'[k].made = clock' =>
                             report'[session'[k].stock] = [at |-> clock', fresh |-> TRUE]
      OBVIOUS
    <3>1. CASE k = i
      BY <2>1, <3>1
    <3>2. CASE k # i
      <4>1. session'[k] = session[k] /\ clock' = clock
        BY <2>1, <3>2
      <4>2. /\ session[k].status \in ActiveStatus /\ session[k].lapsed => session[k].made < clock
            /\ session[k].status = "completed" /\ session[k].made = clock =>
                 report[session[k].stock] = [at |-> clock, fresh |-> TRUE]
        BY <1>1 DEF SessionOK
      <4> QED
        BY <2>2, <4>1, <4>2
    <3> QED
      BY <3>1, <3>2
  <2>5. \A j, k \in SessionIds :
          /\ Counts(j)' /\ Counts(k)'
          /\ session'[j].stock = session'[k].stock /\ session'[j].web = session'[k].web
          /\ session'[j].made = session'[k].made
          => j = k
    <3> SUFFICES ASSUME NEW j \in SessionIds, NEW k \in SessionIds, Counts(j)', Counts(k)',
                        session'[j].stock = session'[k].stock,
                        session'[j].web = session'[k].web,
                        session'[j].made = session'[k].made,
                        j # k
                 PROVE  FALSE
      OBVIOUS
    <3>1. CASE j # i /\ k # i
      BY <1>1, <2>1, <3>1 DEF SessionOK
    <3>2. CASE j = i /\ k # i
      BY <2>1, <3>2
    <3>3. CASE j # i /\ k = i
      BY <2>1, <3>3
    <3> QED
      BY <3>1, <3>2, <3>3
  <2>6. worker'.pc \in {"inline", "running"} =>
          worker'.sid \in SessionIds /\ session'[worker'.sid].status # "absent"
    BY <2>1
  <2> QED
    BY <1>3, <2>1, <2>3, <2>4, <2>5, <2>6 DEF SessionOK
<1> QED
  BY <1>4, <1>5

-----------------------------------------------------------------------------
(***************************************************************************)
(* The watchlist items and the rest of the types                           *)
(***************************************************************************)
LEMMA AnalyzedIs ==
  ASSUME item \in [Users -> [Stocks -> Item]], NEW s \in Stocks, NEW t \in Minutes,
         Analyzed(s, t)
  PROVE  /\ item' \in [Users -> [Stocks -> Item]]
         /\ \A u \in Users, x \in Stocks :
              /\ item'[u][x].synced = item[u][x].synced
              /\ item'[u][x].analyzed = item[u][x].analyzed \/ x = s
<1> DEFINE upd(u) == [item[u] EXCEPT ![s].analyzed = IF item[u][s].daily THEN t ELSE @]
<1>1. ASSUME NEW u \in Users
      PROVE  /\ upd(u) \in [Stocks -> Item]
             /\ \A x \in Stocks : /\ upd(u)[x].synced = item[u][x].synced
                                  /\ upd(u)[x].analyzed = item[u][x].analyzed \/ x = s
  <2>1. item[u] \in [Stocks -> Item]
    OBVIOUS
  <2>2. (IF item[u][s].daily THEN t ELSE item[u][s].analyzed) \in Minutes \union {None}
    BY <2>1 DEF Item
  <2>3. [item[u][s] EXCEPT !.analyzed = IF item[u][s].daily THEN t ELSE item[u][s].analyzed]
           \in Item
    BY <2>1, <2>2 DEF Item
  <2>4. [item[u][s] EXCEPT !.analyzed = IF item[u][s].daily THEN t ELSE item[u][s].analyzed].synced
           = item[u][s].synced
    BY <2>1 DEF Item
  <2>5. upd(u) = [item[u] EXCEPT ![s] =
                    [item[u][s] EXCEPT !.analyzed =
                       IF item[u][s].daily THEN t ELSE item[u][s].analyzed]]
    OBVIOUS
  <2> QED
    BY <2>1, <2>3, <2>4, <2>5
<1>2. item' = [u \in Users |-> upd(u)]
  BY DEF Analyzed
<1> HIDE DEF upd
<1> QED
  BY <1>1, <1>2

LEMMA MarkSyncedIs ==
  ASSUME item \in [Users -> [Stocks -> Item]], worker.stock \in Stocks,
         worker.slot \in Minutes, MarkSynced
  PROVE  /\ item' \in [Users -> [Stocks -> Item]]
         /\ \A u \in Users, x \in Stocks :
              /\ item'[u][x].analyzed = item[u][x].analyzed
              /\ \/ item'[u][x].synced = item[u][x].synced
                 \/ x = worker.stock /\ item'[u][x].synced = worker.slot
<1> DEFINE s == worker.stock
           t == worker.slot
           upd(u) == [item[u] EXCEPT ![s].synced = IF item[u][s].hourly THEN t ELSE @]
<1>1. ASSUME NEW u \in Users
      PROVE  /\ upd(u) \in [Stocks -> Item]
             /\ \A x \in Stocks : /\ upd(u)[x].analyzed = item[u][x].analyzed
                                  /\ \/ upd(u)[x].synced = item[u][x].synced
                                     \/ x = s /\ upd(u)[x].synced = t
  <2>1. item[u] \in [Stocks -> Item]
    OBVIOUS
  <2> DEFINE v == IF item[u][s].hourly THEN t ELSE item[u][s].synced
             r == [item[u][s] EXCEPT !.synced = v]
  <2>2. v \in Minutes \union {None} /\ v \in {t, item[u][s].synced}
    BY <2>1 DEF Item
  <2>3. upd(u) = [item[u] EXCEPT ![s] = [item[u][s] EXCEPT !.synced = v]]
    OBVIOUS
  <2> HIDE DEF v
  <2>4. r \in Item /\ r.analyzed = item[u][s].analyzed /\ r.synced = v
    BY <2>1, <2>2 DEF Item
  <2> QED
    BY <2>1, <2>2, <2>3, <2>4
<1>2. item' = [u \in Users |-> upd(u)]
  BY DEF MarkSynced
<1> HIDE DEF upd
<1> QED
  BY <1>1, <1>2

\* A user's change leaves the stamps of a row or removes them.
LEMMA EditIs ==
  ASSUME item \in [Users -> [Stocks -> Item]], EditWatchlist
  PROVE  /\ item' \in [Users -> [Stocks -> Item]]
         /\ \A u \in Users, s \in Stocks :
              /\ item'[u][s].synced \in {item[u][s].synced, None}
              /\ item'[u][s].analyzed \in {item[u][s].analyzed, None}
<1> DEFINE Goal == /\ item' \in [Users -> [Stocks -> Item]]
                   /\ \A u \in Users, s \in Stocks :
                        /\ item'[u][s].synced \in {item[u][s].synced, None}
                        /\ item'[u][s].analyzed \in {item[u][s].analyzed, None}
           Blank(r) == r \in Item /\ r.synced = None /\ r.analyzed = None
<1>1. PICK u \in Users, s \in Stocks : CreateItem(u, s) \/ UpdateItem(u, s) \/ DeleteItem(u, s)
  BY DEF EditWatchlist
<1>2. Blank(NoItem) /\ Blank([NoItem EXCEPT !.on = TRUE, !.hourly = TRUE, !.daily = TRUE])
  BY DEF NoItem, Item
<1>3. ASSUME NEW r, Blank(r), item' = [item EXCEPT ![u][s] = r] PROVE Goal
  BY <1>3
<1>4. CASE CreateItem(u, s)
  BY <1>2, <1>3, <1>4 DEF CreateItem
<1>5. CASE DeleteItem(u, s)
  BY <1>2, <1>3, <1>5 DEF DeleteItem
<1>6. CASE UpdateItem(u, s)
  <2>1. ASSUME NEW r \in Item, r.synced = item[u][s].synced, r.analyzed = item[u][s].analyzed,
               item' = [item EXCEPT ![u][s] = r]
        PROVE  Goal
    BY <2>1
  <2>2. item[u][s] \in Item
    OBVIOUS
  <2>3. CASE item' = [item EXCEPT ![u][s].hourly = ~@]
    BY <2>1, <2>2, <2>3 DEF Item
  <2>4. CASE item' = [item EXCEPT ![u][s].daily = ~@]
    BY <2>1, <2>2, <2>4 DEF Item
  <2>5. CASE item' = [item EXCEPT ![u][s].web = ~@]
    BY <2>1, <2>2, <2>5 DEF Item
  <2> QED
    BY <1>6, <2>3, <2>4, <2>5 DEF UpdateItem
<1> QED
  BY <1>1, <1>4, <1>5, <1>6

LEMMA ItemsStep ==
  ASSUME Inv, [Next]_vars
  PROVE  ItemOK' /\ item' \in [Users -> [Stocks -> Item]]
<1>1. /\ item \in [Users -> [Stocks -> Item]] /\ ItemOK /\ JobOK /\ SessionOK
      /\ worker \in Worker /\ clock \in Minutes
      /\ worker.pc # "idle" => worker.slot \in Minutes
      /\ session \in [SessionIds -> Session] /\ report \in [Stocks -> ReportType]
  BY DEF Inv, TypeOK, EvidenceOK, Worker, ReportType
<1>2. \A s \in Stocks : /\ archived[s] \subseteq archived'[s]
                        /\ report[s].at # None => report'[s].at # None
  BY ArchivedStep, ReportStep
<1>3. worker.pc \in WithJob => worker.stock \in Stocks
  BY <1>1 DEF JobOK
<1> DEFINE Goal == ItemOK' /\ item' \in [Users -> [Stocks -> Item]]
<1>4. ASSUME item' \in [Users -> [Stocks -> Item]],
             \A u \in Users, s \in Stocks :
               /\ item'[u][s].synced # None =>
                    item'[u][s].synced = item[u][s].synced \/ item'[u][s].synced \in archived[s]
               /\ item'[u][s].analyzed # None =>
                    item'[u][s].analyzed = item[u][s].analyzed \/ report'[s].at # None
      PROVE  Goal
  BY <1>1, <1>2, <1>4 DEF ItemOK
<1>5. ASSUME NEW s \in Stocks, NEW t \in Minutes, Analyzed(s, t), report'[s].at # None
      PROVE  Goal
  <2>1. /\ item' \in [Users -> [Stocks -> Item]]
        /\ \A u \in Users, x \in Stocks :
             /\ item'[u][x].synced = item[u][x].synced
             /\ item'[u][x].analyzed = item[u][x].analyzed \/ x = s
    BY <1>1, <1>5, AnalyzedIs
  <2> QED
    BY <1>4, <1>5, <2>1
<1>6. CASE item' = item
  BY <1>1, <1>4, <1>6
<1>7. CASE EditWatchlist
  BY <1>1, <1>4, <1>7, EditIs
<1>8. CASE MarkSynced
  <2>1. worker.stock \in Stocks /\ worker.slot \in Minutes /\ worker.slot \in archived[worker.stock]
    BY <1>1, <1>3, <1>8 DEF MarkSynced, JobOK, WithJob
  <2>2. /\ item' \in [Users -> [Stocks -> Item]]
        /\ \A u \in Users, x \in Stocks :
             /\ item'[u][x].analyzed = item[u][x].analyzed
             /\ \/ item'[u][x].synced = item[u][x].synced
                \/ x = worker.stock /\ item'[u][x].synced = worker.slot
    BY <1>1, <1>8, <2>1, MarkSyncedIs
  <2> QED
    BY <1>4, <2>1, <2>2
<1>9. CASE CheckReport /\ item' # item
  <2>1. /\ worker.pc = "check" /\ reportDay[worker.stock] = DayOf[worker.slot]
        /\ Analyzed(worker.stock, worker.slot)
    BY <1>9 DEF CheckReport, HasDailyReport
  <2>2. worker.stock \in Stocks /\ worker.slot \in Minutes
    BY <1>1, <1>3, <2>1 DEF WithJob
  <2>3. DayOf[worker.slot] # None
    BY <2>2, NoneAssumption DEF Days
  <2>4. report'[worker.stock].at # None
    BY <1>1, <1>2, <2>1, <2>2, <2>3 DEF SessionOK
  <2> QED
    BY <1>5, <2>1, <2>2, <2>4
<1>10. CASE UseFreshReport
  <2>1. /\ worker.pc = "start" /\ report[worker.stock].fresh
        /\ Analyzed(worker.stock, worker.slot)
    BY <1>10 DEF UseFreshReport
  <2>2. worker.stock \in Stocks /\ worker.slot \in Minutes
    BY <1>1, <1>3, <2>1 DEF WithJob
  <2>3. report'[worker.stock].at # None
    BY <1>1, <1>2, <2>1, <2>2 DEF SessionOK
  <2> QED
    BY <1>5, <2>1, <2>2, <2>3
<1>11. ASSUME NEW i \in SessionIds, EndSession(i), session[i].stock \in Stocks PROVE Goal
  <2>1. \/ /\ report' = [report EXCEPT ![session[i].stock] = NewReport]
           /\ Analyzed(session[i].stock, clock)
        \/ item' = item
    BY <1>1, <1>11, EndSessionIs
  <2>2. report' = [report EXCEPT ![session[i].stock] = NewReport] =>
          report'[session[i].stock].at # None
    BY <1>1, <1>11, NewReportIs
  <2> QED
    BY <1>1, <1>5, <1>6, <1>11, <2>1, <2>2
<1>12. CASE EndInline
  BY <1>11, <1>12, EndsOwnSession DEF EndInline
<1>13. CASE \E i \in SessionIds : OtherRun(i)
  BY <1>11, <1>13, EndsOwnSession DEF OtherRun
<1> QED
  BY <1>6, <1>7, <1>8, <1>9, <1>10, <1>12, <1>13, ItemFrame

LEMMA CountsStep ==
  ASSUME Inv, [Next]_vars
  PROVE  /\ dailyMarker' \in Days \union {None}
         /\ faults' \in 0 .. MaxEvents /\ edits' \in 0 .. MaxEvents
<1>1. /\ dailyMarker \in Days \union {None} /\ clock \in Minutes
      /\ faults \in 0 .. MaxEvents /\ edits \in 0 .. MaxEvents
      /\ worker.pc # "idle" => worker.slot \in Minutes
  BY DEF Inv, TypeOK, EvidenceOK, Worker
<1>2. \A t \in Minutes : DayOf[t] \in Days
  BY DEF Days
<1>3. dailyMarker' \in Days \union {None}
  BY <1>1, <1>2, DailyFrame DEF Poll, FinishSlot, Crash
<1>4. Disturb => faults + 1 \in 0 .. MaxEvents /\ edits + 1 \in 0 .. MaxEvents
  BY <1>1, BoundsAssumption DEF Disturb
<1>5. \/ faults' = faults /\ edits' = edits
      \/ Disturb /\ faults' \in {faults, faults + 1} /\ edits' \in {edits, edits + 1}
  BY CountFrame DEF IterationFails, Crash, EditWatchlist, ManualReport
<1> QED
  BY <1>1, <1>3, <1>4, <1>5

-----------------------------------------------------------------------------
LEMMA InvStep ==
  ASSUME Inv, [Next]_vars
  PROVE  Inv'
<1>1. TypeOK'
  BY ClockStep, WorkerStep, EvidenceStep, MarkerStep, MinuteStep, ArchivedStep, JobsStep,
     ReportStep, SessionStep, ItemsStep, CountsStep DEF TypeOK, ReportType
<1> QED
  BY <1>1, EvidenceStep, MinuteStep, SessionStep, JobStep, ItemsStep DEF Inv

LEMMA Invariance == Spec => []Inv
<1>1. Init => Inv
  BY InitInv
<1>2. Inv /\ [Next]_vars => Inv'
  BY InvStep
<1> QED
  BY <1>1, <1>2, PTL DEF Spec

-----------------------------------------------------------------------------
(***************************************************************************)
(* The ledger: job rows against slots, plans and markers                   *)
(***************************************************************************)
RowsOf(jobs, s, t) == {j \in DOMAIN jobs : jobs[j].stock = s /\ jobs[j].slot = t}

\* Rows left running that the worker is not at.
LeftOf(jobs, w) == {j \in DOMAIN jobs : /\ jobs[j].status = "running"
                                        /\ ~(w.pc \in WithJob /\ w.job = j)}

Accounted(jobs, s, t) ==
  \E j \in DOMAIN jobs : /\ jobs[j].stock = s
                         /\ jobs[j].slot = t
                         /\ jobs[j].status \in {"success", "failed"}

\* No row is of a slot to come.  Where a row may still be opened for a stock and a slot,
\* every row these have already is the fault of a crash or a failed iteration.
RowsOK ==
  /\ \A s \in Stocks, t \in Minutes : Cardinality(RowsOf(job, s, t)) <= 1 + faults
  /\ \A j \in DOMAIN job :
       job[j].slot <= clock /\ (worker.pc # "idle" => job[j].slot <= worker.slot)
  /\ worker.pc \in {"fetch", "cache", "list"} =>
       \A s \in Stocks : Cardinality(RowsOf(job, s, worker.slot)) <= faults
  /\ worker.pc # "idle" =>
       \A s \in worker.todo : Cardinality(RowsOf(job, s, worker.slot)) <= faults
  /\ worker.pc = "idle" /\ (HourlyDue \/ DailyDue) =>
       \A s \in Stocks : Cardinality(RowsOf(job, s, clock)) <= faults

LeftOK ==
  /\ worker.pc \in WithJob => job[worker.job].status = "running"
  /\ Cardinality(LeftOf(job, worker)) <= faults

\* In an hourly slot, a stock of the plan that is not ahead any more is the one the worker
\* is at or has a closed row; the marker of the hour comes when none is ahead.
PlanOK ==
  worker.slot \in HourlyMinutes =>
    /\ worker.pc # "idle" => hourlyMarker # HourOf[worker.slot]
    /\ worker.pc = "idle" => worker.todo = {}
    /\ worker.pc \in {"fetch", "cache", "list"} => worker.plan \ worker.todo = {}
    /\ worker.pc \in WithJob => worker.pc \in {"sync", "mark", "failing"}
    /\ \A s \in worker.plan \ worker.todo :
         Accounted(job, s, worker.slot) \/ (worker.pc \in WithJob /\ worker.stock = s)

LedgerOK == RowsOK /\ LeftOK /\ PlanOK

-----------------------------------------------------------------------------
\* What a step does to the rows: it opens one, closes the one at hand, loses it, or
\* leaves all as they are.
Closes ==
  /\ worker.pc \in WithJob \ {"sync"} /\ NextItem
  /\ \E status \in {"success", "partial", "failed"} :
       FinishJob(status) /\ (worker.pc \in {"mark", "failing"} => status # "partial")
  /\ <<clock, hourlyMarker, dailyMarker, faults>>' = <<clock, hourlyMarker, dailyMarker, faults>>
Falls ==
  /\ worker' = Asleep /\ job' = job /\ clock' = clock /\ faults' = faults + 1
Stays ==
  /\ worker' = worker
  /\ \/ clock' = clock /\ hourlyMarker' = hourlyMarker
        /\ (dailyMarker' = dailyMarker \/ (~HourlyDue' /\ ~DailyDue'))
     \/ Tick
Begins ==
  /\ worker.pc = "idle" /\ clock' = clock /\ hourlyMarker' = hourlyMarker
  /\ HourlyDue \/ DailyDue
  /\ clock \in HourlyMinutes => hourlyMarker # HourOf[clock]
  /\ worker'.pc \in {"fetch", "list"} /\ worker'.slot = clock
  /\ worker'.plan = {} /\ worker'.todo = {}
Moves ==
  /\ clock' = clock /\ hourlyMarker' = hourlyMarker
  /\ worker'.slot = worker.slot
  /\ \/ /\ worker.pc \in {"fetch", "cache", "list"}
        /\ worker'.plan \ worker'.todo = worker.plan \ worker.todo \/ worker'.plan \ worker'.todo = {}
        /\ worker'.pc \in {"fetch", "cache", "list", "open"}
     \/ /\ worker.pc \in WithJob /\ worker'.pc \in WithJob
        /\ worker'.job = worker.job /\ worker'.stock = worker.stock
        /\ worker'.plan = worker.plan /\ worker'.todo = worker.todo
        /\ worker.pc \in {"sync", "mark", "failing"} => worker'.pc \in {"sync", "mark", "failing"}
Keeps == job' = job /\ faults' = faults /\ (Stays \/ Begins \/ Moves \/ FinishSlot)

LEMMA RowStep ==
  ASSUME Inv, [Next]_vars
  PROVE  OpenJob \/ Closes \/ Falls \/ Keeps
<1>1. worker \in Worker /\ clock \in Minutes /\ job \in Seq(Job)
  BY DEF Inv, TypeOK
<1>2. CASE MarkSynced
  BY <1>2 DEF MarkSynced, Closes, WithJob
<1>3. CASE UseFreshReport \/ AttachToSession \/ CloseDaily \/ FailItem
  BY <1>3 DEF UseFreshReport, AttachToSession, CloseDaily, FailItem, Closes, WithJob
<1>4. ASSUME NEW from \in WithJob, NEW to \in WithJob, WorkerMoves(from, to),
             from \in {"sync", "mark", "failing"} => to \in {"sync", "mark", "failing"},
             clock' = clock, hourlyMarker' = hourlyMarker, job' = job, faults' = faults
      PROVE  Keeps
  <2>1. to \in Pcs /\ worker.pc = from
    BY <1>4 DEF WithJob, Pcs, WorkerMoves
  <2> QED
    BY <1>1, <1>4, <2>1, MovesType DEF Keeps, Moves
<1>5. CASE CheckReport
  <2>1. CASE HasDailyReport(worker.stock, worker.slot)
    BY <1>5, <2>1 DEF CheckReport, Closes, WithJob
  <2>2. CASE ~HasDailyReport(worker.stock, worker.slot)
    BY <1>4, <1>5, <2>2 DEF CheckReport, WithJob
  <2> QED
    BY <2>1, <2>2
<1>6. CASE SyncContext
  BY <1>4, <1>6 DEF SyncContext, WithJob
<1>7. CASE RunInline
  BY <1>4, <1>7 DEF RunInline, WithJob
<1>8. CASE EndInline
  BY <1>4, <1>8 DEF EndInline, WithJob
<1>9. CASE ItemRaises
  BY <1>4, <1>9 DEF ItemRaises, WithJob
<1>10. CASE CreateSession
  BY <1>1, <1>10, CreateWorker DEF CreateSession, Keeps, Moves, WithJob
<1>11. CASE IterationFails \/ Crash
  BY <1>11 DEF IterationFails, Crash, Falls
<1>12. CASE FetchEvidence
  BY <1>1, <1>12, FetchWorker DEF FetchEvidence, Keeps, Moves
<1>13. CASE WriteEvidenceCache
  BY <1>1, <1>13, WriteWorker DEF WriteEvidenceCache, Keeps, Moves
<1>14. CASE ListTargets
  BY <1>1, <1>14, ListWorker DEF ListTargets, Keeps, Moves
<1>15. CASE FinishSlot
  BY <1>15 DEF FinishSlot, Keeps
<1>16. CASE Poll
  <2>1. job' = job /\ faults' = faults /\ clock' = clock /\ hourlyMarker' = hourlyMarker
        /\ worker.pc = "idle"
    BY <1>16 DEF Poll
  <2>2. CASE HourlyDue \/ (DailyDue /\ IsTradeDay(clock))
    <3>1. /\ clock \in HourlyMinutes => hourlyMarker # HourOf[clock]
          /\ worker' # worker
      BY <1>1, <1>16, <2>1, <2>2, ClockAssumption, AsleepIs DEF Poll, HourlyDue, DailyDue, Worker
    <3> QED
      BY <1>1, <1>16, <2>1, <2>2, <3>1, PollWorker DEF Keeps, Begins
  <2>3. CASE ~HourlyDue /\ ~(DailyDue /\ IsTradeDay(clock))
    <3>1. worker' = worker
      BY <1>16, <2>3 DEF Poll
    <3>2. dailyMarker' = dailyMarker \/ (~HourlyDue' /\ ~DailyDue')
      BY <1>16, <2>1, <2>3 DEF Poll, HourlyDue, DailyDue
    <3> QED
      BY <2>1, <3>1, <3>2 DEF Keeps, Stays
  <2> QED
    BY <2>2, <2>3
<1>17. CASE EditWatchlist \/ Tick \/ CacheExpires \/ UNCHANGED vars
  BY <1>17 DEF EditWatchlist, Tick, CacheExpires, vars, watchVars, Keeps, Stays
<1>18. CASE \E i \in SessionIds : OtherRun(i) \/ SessionLapses(i)
  BY <1>18 DEF OtherRun, SessionLapses, Keeps, Stays
<1>19. CASE \E s \in Stocks : ManualReport(s) \/ ReportAges(s)
  BY <1>19 DEF ManualReport, ReportAges, Keeps, Stays
<1> QED
  BY <1>2, <1>3, <1>5, <1>6, <1>7, <1>8, <1>9, <1>10, <1>11, <1>12, <1>13, <1>14, <1>15,
     <1>16, <1>17, <1>18, <1>19 DEF Next, SlotStep, ItemStep

\* There are finitely many rows.
LEMMA RowsFinite ==
  ASSUME job \in Seq(Job), NEW S \in SUBSET DOMAIN job
  PROVE  IsFiniteSet(S) /\ Cardinality(S) \in Nat
<1>1. DOMAIN job = 1 .. Len(job) /\ Len(job) \in Nat
  OBVIOUS
<1>2. IsFiniteSet(DOMAIN job)
  BY <1>1, FS_Interval
<1> QED
  BY <1>2, FS_Subset, FS_CardinalityType

LEMMA OneMore ==
  ASSUME NEW S, NEW x, NEW T \in SUBSET (S \union {x}), IsFiniteSet(S), NEW n \in Nat,
         Cardinality(S) <= n
  PROVE  IsFiniteSet(T) /\ Cardinality(T) \in Nat /\ Cardinality(T) <= n + 1
<1>1. /\ IsFiniteSet(S \union {x}) /\ Cardinality(S) \in Nat
      /\ Cardinality(S \union {x}) = IF x \in S THEN Cardinality(S) ELSE Cardinality(S) + 1
  BY FS_AddElement, FS_CardinalityType
<1>2. IsFiniteSet(T) /\ Cardinality(T) <= Cardinality(S \union {x})
  BY <1>1, FS_Subset
<1>3. Cardinality(T) \in Nat
  BY <1>2, FS_CardinalityType
<1> QED
  BY <1>1, <1>2, <1>3

\* Opening a row.
LEMMA OpenRows ==
  ASSUME Inv, OpenJob
  PROVE  LET s == First(worker.todo)  n == Len(job) + 1 IN
         /\ DOMAIN job' = DOMAIN job \union {n} /\ n \notin DOMAIN job
         /\ \A j \in DOMAIN job : job'[j] = job[j]
         /\ job'[n].stock = s /\ job'[n].slot = worker.slot /\ job'[n].status = "running"
<1> DEFINE s == First(worker.todo)
           n == Len(job) + 1
           new == [type   |-> IF Hourly THEN "watchlist_hourly_sync"
                                        ELSE "watchlist_daily_analysis",
                   stock  |-> s, slot |-> worker.slot, status |-> "running"]
<1>1. job \in Seq(Job) /\ worker \in Worker /\ worker.slot \in Minutes
  BY DEF Inv, TypeOK, EvidenceOK, OpenJob, Worker
<1>2. s \in Stocks
  BY <1>1, OpenWorker
<1>3. new \in Job
  BY <1>1, <1>2 DEF Job, JobTypes, JobStatuses
<1>4. job' = Append(job, new)
  BY DEF OpenJob
<1>5. new.stock = s /\ new.slot = worker.slot /\ new.status = "running"
  OBVIOUS
<1> HIDE DEF new
<1>6. /\ DOMAIN job' = DOMAIN job \union {n} /\ n \notin DOMAIN job
      /\ \A j \in DOMAIN job : job'[j] = job[j]
      /\ job'[n] = new
  BY <1>1, <1>3, <1>4
<1> QED
  BY <1>5, <1>6

\* Closing one.
LEMMA CloseRows ==
  ASSUME Inv, Closes
  PROVE  /\ worker.job \in DOMAIN job /\ DOMAIN job' = DOMAIN job
         /\ \A j \in DOMAIN job : /\ job'[j].stock = job[j].stock /\ job'[j].slot = job[j].slot
                                  /\ j # worker.job => job'[j].status = job[j].status
         /\ job'[worker.job].status \in {"success", "partial", "failed"}
         /\ worker.pc \in {"mark", "failing"} => job'[worker.job].status # "partial"
         /\ worker'.pc = "open" /\ worker'.slot = worker.slot
         /\ worker'.plan = worker.plan /\ worker'.todo = worker.todo
<1>1. /\ job \in Seq(Job) /\ worker \in Worker /\ worker.job \in DOMAIN job
  BY DEF Inv, TypeOK, JobOK, Closes
<1>2. PICK status \in {"success", "partial", "failed"} :
        FinishJob(status) /\ (worker.pc \in {"mark", "failing"} => status # "partial")
  BY DEF Closes
<1>3. status \in JobStatuses
  BY DEF JobStatuses
<1>4. /\ worker'.pc = "open" /\ worker'.slot = worker.slot
      /\ worker'.plan = worker.plan /\ worker'.todo = worker.todo
  BY <1>1, NextItemType DEF Closes
<1> QED
  BY <1>1, <1>2, <1>3, <1>4, FinishJobIs

-----------------------------------------------------------------------------
LEMMA RowsTypes ==
  ASSUME Inv
  PROVE  /\ job \in Seq(Job) /\ worker \in Worker /\ clock \in Nat /\ clock \in Minutes
         /\ faults \in Nat
         /\ \A j \in DOMAIN job : job[j].slot \in Nat /\ job[j].slot \in Minutes /\ job[j].stock \in Stocks
         /\ worker.slot \in Minutes => worker.slot \in Nat /\ worker.slot <= clock
         /\ worker.pc # "idle" => worker.slot \in Minutes
         /\ worker.todo \in SUBSET Stocks
         /\ \A s, t : IsFiniteSet(RowsOf(job, s, t)) /\ Cardinality(RowsOf(job, s, t)) \in Nat
<1>1. job \in Seq(Job) /\ worker \in Worker /\ clock \in Minutes /\ faults \in 0 .. MaxEvents
  BY DEF Inv, TypeOK
<1>2. Minutes \subseteq Nat /\ None \notin Minutes
  BY NoneAssumption DEF Minutes
<1>3. faults \in Nat
  BY <1>1
<1>4. \A j \in DOMAIN job : job[j] \in Job
  BY <1>1
<1>5. \A j \in DOMAIN job : job[j].slot \in Minutes /\ job[j].stock \in Stocks
  BY <1>4 DEF Job
<1>6. /\ worker.slot \in Minutes => worker.slot <= clock
      /\ worker.pc # "idle" => worker.slot \in Minutes
      /\ worker.todo \in SUBSET Stocks
  BY <1>1, <1>2 DEF Inv, EvidenceOK, Worker
<1>7. \A s, t : RowsOf(job, s, t) \in SUBSET DOMAIN job
  BY DEF RowsOf
<1> QED
  BY <1>1, <1>2, <1>3, <1>5, <1>6, <1>7, RowsFinite

\* Closing a row moves none to another stock or slot.
LEMMA SameRows ==
  ASSUME DOMAIN job' = DOMAIN job,
         \A j \in DOMAIN job : job'[j].stock = job[j].stock /\ job'[j].slot = job[j].slot
  PROVE  \A s, t : RowsOf(job', s, t) = RowsOf(job, s, t)
  BY DEF RowsOf

LEMMA RowsStep ==
  ASSUME Inv, RowsOK, [Next]_vars
  PROVE  RowsOK'
<1>1. /\ job \in Seq(Job) /\ worker \in Worker /\ clock \in Nat /\ clock \in Minutes
      /\ faults \in Nat
      /\ \A j \in DOMAIN job : job[j].slot \in Nat /\ job[j].slot \in Minutes /\ job[j].stock \in Stocks
      /\ worker.slot \in Minutes => worker.slot \in Nat /\ worker.slot <= clock
      /\ worker.pc # "idle" => worker.slot \in Minutes
      /\ worker.todo \in SUBSET Stocks
      /\ \A s, t : IsFiniteSet(RowsOf(job, s, t)) /\ Cardinality(RowsOf(job, s, t)) \in Nat
  BY RowsTypes
<1>2. /\ \A s \in Stocks, t \in Minutes : Cardinality(RowsOf(job, s, t)) <= 1 + faults
      /\ \A j \in DOMAIN job :
           job[j].slot <= clock /\ (worker.pc # "idle" => job[j].slot <= worker.slot)
      /\ worker.pc \in {"fetch", "cache", "list"} =>
           \A s \in Stocks : Cardinality(RowsOf(job, s, worker.slot)) <= faults
      /\ worker.pc # "idle" =>
           \A s \in worker.todo : Cardinality(RowsOf(job, s, worker.slot)) <= faults
      /\ worker.pc = "idle" /\ (HourlyDue \/ DailyDue) =>
           \A s \in Stocks : Cardinality(RowsOf(job, s, clock)) <= faults
  BY DEF RowsOK
<1>3. CASE OpenJob
  <2> DEFINE s0 == First(worker.todo)
             n == Len(job) + 1
  <2>1. /\ s0 \in worker.todo /\ worker'.todo = worker.todo \ {s0} /\ worker'.slot = worker.slot
        /\ worker'.pc \in {"sync", "check"}
    BY <1>1, <1>3, OpenWorker
  <2>2. worker.pc = "open" /\ clock' = clock /\ faults' = faults
    BY <1>3 DEF OpenJob
  <2>3. /\ DOMAIN job' = DOMAIN job \union {n}
        /\ \A j \in DOMAIN job : job'[j] = job[j]
        /\ job'[n].stock = s0 /\ job'[n].slot = worker.slot
    BY <1>3, OpenRows
  <2> HIDE DEF s0, n
  <2>4. ASSUME NEW s, NEW t, s # s0 \/ t # worker.slot
        PROVE  RowsOf(job', s, t) = RowsOf(job, s, t)
    BY <2>3, <2>4 DEF RowsOf
  <2>5. RowsOf(job', s0, worker.slot) \in SUBSET (RowsOf(job, s0, worker.slot) \union {n})
    BY <2>3 DEF RowsOf
  <2>6. Cardinality(RowsOf(job', s0, worker.slot)) <= faults + 1
    BY <1>1, <1>2, <2>1, <2>2, <2>5, OneMore
  <2>7. \A s \in Stocks, t \in Minutes : Cardinality(RowsOf(job', s, t)) <= 1 + faults'
    <3> SUFFICES ASSUME NEW s \in Stocks, NEW t \in Minutes
                 PROVE  Cardinality(RowsOf(job', s, t)) <= 1 + faults'
      OBVIOUS
    <3>1. CASE s = s0 /\ t = worker.slot
      BY <1>1, <2>2, <2>6, <3>1
    <3>2. CASE ~(s = s0 /\ t = worker.slot)
      BY <1>2, <2>2, <2>4, <3>2
    <3> QED
      BY <3>1, <3>2
  <2>8. \A j \in DOMAIN job' : job'[j].slot <= clock' /\ job'[j].slot <= worker'.slot
    BY <1>1, <1>2, <2>1, <2>2, <2>3
  <2>9. \A s \in worker'.todo : Cardinality(RowsOf(job', s, worker'.slot)) <= faults'
    BY <1>2, <2>1, <2>2, <2>4
  <2> QED
    BY <2>1, <2>7, <2>8, <2>9 DEF RowsOK
<1>4. CASE Closes
  <2>1. /\ \A s, t : RowsOf(job', s, t) = RowsOf(job, s, t)
        /\ \A j \in DOMAIN job' : j \in DOMAIN job /\ job'[j].slot = job[j].slot
        /\ worker'.pc = "open" /\ worker'.slot = worker.slot /\ worker'.todo = worker.todo
    BY <1>4, CloseRows, SameRows
  <2>2. clock' = clock /\ faults' = faults /\ worker.pc # "idle"
    BY <1>4 DEF Closes, WithJob
  <2> QED
    BY <1>2, <2>1, <2>2 DEF RowsOK
<1>5. CASE Falls
  <2>1. worker'.pc = "idle" /\ job' = job /\ clock' = clock /\ faults' = faults + 1
    BY <1>5, AsleepIs DEF Falls
  <2>2. \A s \in Stocks, t \in Minutes :
          Cardinality(RowsOf(job', s, t)) <= 1 + faults' /\ Cardinality(RowsOf(job', s, t)) <= faults'
    BY <1>1, <1>2, <2>1
  <2> QED
    BY <1>1, <1>2, <2>1, <2>2 DEF RowsOK
<1>6. CASE Keeps
  <2>1. job' = job /\ faults' = faults
    BY <1>6 DEF Keeps
  <2>2. ASSUME worker' = worker, clock' = clock, hourlyMarker' = hourlyMarker,
               dailyMarker' = dailyMarker \/ (~HourlyDue' /\ ~DailyDue')
        PROVE  RowsOK'
    <3>1. HourlyDue' \/ DailyDue' => HourlyDue \/ DailyDue
      BY <2>2 DEF HourlyDue, DailyDue
    <3> QED
      BY <1>2, <2>1, <2>2, <3>1 DEF RowsOK
  <2>3. CASE Tick
    <3>1. clock' = clock + 1 /\ worker' = worker
      BY <2>3 DEF Tick
    <3>2. \A j \in DOMAIN job : job[j].slot # clock'
      BY <1>1, <1>2, <3>1
    <3>3. \A s : RowsOf(job, s, clock') = {}
      BY <3>2 DEF RowsOf
    <3>4. \A s : Cardinality(RowsOf(job, s, clock')) <= faults
      BY <1>1, <3>3, FS_EmptySet
    <3>5. \A j \in DOMAIN job : job[j].slot <= clock'
      BY <1>1, <1>2, <3>1
    <3> QED
      BY <1>2, <2>1, <3>1, <3>4, <3>5 DEF RowsOK
  <2>4. CASE Begins
    <3>1. /\ worker.pc = "idle" /\ clock' = clock /\ (HourlyDue \/ DailyDue)
          /\ worker'.pc \in {"fetch", "list"} /\ worker'.slot = clock /\ worker'.todo = {}
      BY <2>4 DEF Begins
    <3> QED
      BY <1>2, <2>1, <3>1 DEF RowsOK
  <2>5. CASE Moves
    <3>1. clock' = clock /\ worker'.slot = worker.slot
      BY <2>5 DEF Moves
    <3>2. CASE worker.pc \in {"fetch", "cache", "list"}
      <4>1. worker'.pc \in {"fetch", "cache", "list", "open"} /\ worker'.todo \in SUBSET Stocks
        BY <2>5, <3>2, WorkerStep DEF Moves, WithJob, Worker
      <4> QED
        BY <1>2, <2>1, <3>1, <3>2, <4>1 DEF RowsOK
    <3>3. CASE worker.pc \in WithJob /\ worker'.pc \in WithJob /\ worker'.todo = worker.todo
      BY <1>2, <2>1, <3>1, <3>3 DEF RowsOK, WithJob
    <3> QED
      BY <2>5, <3>2, <3>3 DEF Moves
  <2>6. CASE FinishSlot
    <3>1. /\ worker.pc = "open" /\ worker'.pc = "idle" /\ clock' = clock
          /\ worker'.slot = worker.slot
      BY <1>1, <2>6, FinishWorker DEF FinishSlot
    <3>2. HourlyDue' \/ DailyDue' => worker.slot # clock
      BY <2>6, <3>1, ClockAssumption DEF FinishSlot, Hourly, HourlyDue, DailyDue
    <3>3. ASSUME worker.slot # clock, NEW s PROVE Cardinality(RowsOf(job, s, clock)) <= faults
      <4>1. worker.slot < clock /\ worker.slot \in Nat
        BY <1>1, <3>1, <3>3
      <4>2. \A j \in DOMAIN job : job[j].slot # clock
        BY <1>1, <1>2, <3>1, <4>1
      <4>3. RowsOf(job, s, clock) = {}
        BY <4>2 DEF RowsOf
      <4> QED
        BY <1>1, <4>3, FS_EmptySet
    <3> QED
      BY <1>2, <2>1, <3>1, <3>2, <3>3 DEF RowsOK
  <2> QED
    BY <1>6, <2>2, <2>3, <2>4, <2>5, <2>6 DEF Keeps, Stays
<1> QED
  BY <1>3, <1>4, <1>5, <1>6, RowStep

LEMMA LeftStep ==
  ASSUME Inv, LeftOK, [Next]_vars
  PROVE  LeftOK'
<1>1. /\ job \in Seq(Job) /\ faults \in Nat /\ (worker.job \in DOMAIN job \/ worker.pc \notin WithJob)
  BY RowsTypes DEF Inv, JobOK
<1>2. LeftOf(job, worker) \in SUBSET DOMAIN job
  BY DEF LeftOf
<1>3. IsFiniteSet(LeftOf(job, worker)) /\ Cardinality(LeftOf(job, worker)) \in Nat
  BY <1>1, <1>2, RowsFinite
<1>4. ASSUME LeftOf(job', worker') = LeftOf(job, worker), faults' = faults,
             worker'.pc \in WithJob => job'[worker'.job].status = "running"
      PROVE  LeftOK'
  BY <1>4 DEF LeftOK
<1>5. CASE OpenJob
  <2> DEFINE n == Len(job) + 1
  <2>1. /\ worker'.job = n /\ worker'.pc \in {"sync", "check"} /\ worker.pc = "open"
        /\ faults' = faults
    BY <1>1, <1>5, OpenWorker, RowsTypes DEF OpenJob
  <2>2. /\ DOMAIN job' = DOMAIN job \union {n} /\ n \notin DOMAIN job
        /\ \A j \in DOMAIN job : job'[j] = job[j]
        /\ job'[n].status = "running"
    BY <1>5, OpenRows
  <2> HIDE DEF n
  <2>3. LeftOf(job', worker') = LeftOf(job, worker)
    BY <2>1, <2>2 DEF LeftOf, WithJob
  <2> QED
    BY <1>4, <2>1, <2>2, <2>3
<1>6. CASE Closes
  <2>1. /\ DOMAIN job' = DOMAIN job
        /\ \A j \in DOMAIN job : j # worker.job => job'[j].status = job[j].status
        /\ job'[worker.job].status # "running"
        /\ worker'.pc = "open" /\ worker.pc \in WithJob /\ faults' = faults
    BY <1>6, CloseRows DEF Closes
  <2>2. LeftOf(job', worker') = LeftOf(job, worker)
    BY <2>1 DEF LeftOf, WithJob
  <2> QED
    BY <1>4, <2>1, <2>2 DEF WithJob
<1>7. CASE Falls
  <2>1. worker'.pc = "idle" /\ job' = job /\ faults' = faults + 1
    BY <1>7, AsleepIs DEF Falls
  <2>2. LeftOf(job', worker') \in SUBSET (LeftOf(job, worker) \union {worker.job})
    BY <2>1 DEF LeftOf
  <2>3. Cardinality(LeftOf(job', worker')) <= faults + 1
    BY <1>1, <1>3, <2>2, OneMore DEF LeftOK
  <2> QED
    BY <2>1, <2>3 DEF LeftOK, WithJob
<1>8. CASE Keeps
  <2>1. job' = job /\ faults' = faults
    BY <1>8 DEF Keeps
  <2>2. ASSUME worker.pc \in WithJob <=> worker'.pc \in WithJob,
               worker.pc \in WithJob => worker'.job = worker.job
        PROVE  LeftOK'
    <3>1. LeftOf(job', worker') = LeftOf(job, worker)
      BY <2>1, <2>2 DEF LeftOf
    <3> QED
      BY <1>4, <2>1, <2>2, <3>1 DEF LeftOK
  <2>3. CASE Stays
    BY <2>2, <2>3 DEF Stays
  <2>4. CASE Begins \/ Moves
    BY <2>2, <2>4 DEF Begins, Moves, WithJob
  <2>5. CASE FinishSlot
    BY <2>2, <2>5, FinishWorker, RowsTypes DEF FinishSlot, WithJob
  <2> QED
    BY <1>8, <2>3, <2>4, <2>5 DEF Keeps
<1> QED
  BY <1>5, <1>6, <1>7, <1>8, RowStep

LEMMA PlanStep ==
  ASSUME Inv, PlanOK, [Next]_vars
  PROVE  PlanOK'
<1>1. /\ job \in Seq(Job) /\ worker \in Worker /\ None \notin HourlyMinutes
      /\ worker.pc \in WithJob => worker.job \in DOMAIN job /\ job[worker.job].stock = worker.stock
                                  /\ job[worker.job].slot = worker.slot
  BY RowsTypes, ClockAssumption, NoneAssumption DEF Inv, JobOK
<1>2. worker.slot \in HourlyMinutes =>
        /\ worker.pc # "idle" => hourlyMarker # HourOf[worker.slot]
        /\ worker.pc = "idle" => worker.todo = {}
        /\ worker.pc \in {"fetch", "cache", "list"} => worker.plan \ worker.todo = {}
        /\ worker.pc \in WithJob => worker.pc \in {"sync", "mark", "failing"}
        /\ \A s \in worker.plan \ worker.todo :
             Accounted(job, s, worker.slot) \/ (worker.pc \in WithJob /\ worker.stock = s)
  BY DEF PlanOK
<1>3. CASE OpenJob
  <2> DEFINE s0 == First(worker.todo)
             n == Len(job) + 1
  <2>1. /\ s0 \in worker.todo /\ worker'.plan = worker.plan /\ worker'.todo = worker.todo \ {s0}
        /\ worker'.slot = worker.slot /\ worker'.stock = s0
        /\ worker'.pc = IF Hourly THEN "sync" ELSE "check"
    BY <1>1, <1>3, OpenWorker
  <2>2. worker.pc = "open" /\ hourlyMarker' = hourlyMarker
    BY <1>3 DEF OpenJob
  <2>3. DOMAIN job \subseteq DOMAIN job' /\ \A j \in DOMAIN job : job'[j] = job[j]
    BY <1>3, OpenRows
  <2> HIDE DEF s0, n
  <2>4. \A s, t : Accounted(job, s, t) => Accounted(job', s, t)
    BY <2>3 DEF Accounted
  <2>5. worker.slot \in HourlyMinutes => worker'.pc = "sync"
    BY <2>1 DEF Hourly
  <2> QED
    BY <1>2, <2>1, <2>2, <2>4, <2>5 DEF PlanOK, WithJob
<1>4. CASE Closes
  <2>1. /\ worker.job \in DOMAIN job /\ DOMAIN job' = DOMAIN job
        /\ \A j \in DOMAIN job : /\ job'[j].stock = job[j].stock /\ job'[j].slot = job[j].slot
                                 /\ j # worker.job => job'[j].status = job[j].status
        /\ job'[worker.job].status \in {"success", "partial", "failed"}
        /\ worker.pc \in {"mark", "failing"} => job'[worker.job].status # "partial"
        /\ worker'.pc = "open" /\ worker'.slot = worker.slot
        /\ worker'.plan = worker.plan /\ worker'.todo = worker.todo
        /\ hourlyMarker' = hourlyMarker /\ worker.pc \in WithJob
    BY <1>4, CloseRows DEF Closes
  <2>2. ASSUME worker.slot \in HourlyMinutes
        PROVE  /\ Accounted(job', worker.stock, worker.slot)
               /\ \A s : Accounted(job, s, worker.slot) => Accounted(job', s, worker.slot)
    <3>1. worker.pc \in {"mark", "failing"}
      BY <1>2, <1>4, <2>1, <2>2 DEF Closes
    <3>2. job'[worker.job].status \in {"success", "failed"}
      BY <2>1, <3>1
    <3>3. Accounted(job', worker.stock, worker.slot)
      BY <1>1, <2>1, <3>2 DEF Accounted
    <3>4. ASSUME NEW s, Accounted(job, s, worker.slot) PROVE Accounted(job', s, worker.slot)
      <4>1. PICK j \in DOMAIN job : /\ job[j].stock = s /\ job[j].slot = worker.slot
                                    /\ job[j].status \in {"success", "failed"}
        BY <3>4 DEF Accounted
      <4>2. job'[j].status \in {"success", "failed"}
        BY <2>1, <3>2, <4>1
      <4> QED
        BY <2>1, <4>1, <4>2 DEF Accounted
    <3> QED
      BY <3>3, <3>4
  <2> QED
    BY <1>2, <2>1, <2>2 DEF PlanOK, WithJob
<1>5. CASE Falls
  BY <1>1, <1>5, AsleepIs DEF Falls, PlanOK
<1>6. CASE Keeps
  <2>1. job' = job
    BY <1>6 DEF Keeps
  <2>2. CASE Stays
    <3>1. worker' = worker /\ hourlyMarker' = hourlyMarker
      BY <2>2 DEF Stays, Tick
    <3> QED
      BY <1>2, <2>1, <3>1 DEF PlanOK
  <2>3. CASE Begins
    BY <2>1, <2>3 DEF Begins, PlanOK, WithJob
  <2>4. CASE Moves
    BY <1>2, <2>1, <2>4 DEF Moves, PlanOK, WithJob
  <2>5. CASE FinishSlot
    <3>1. /\ worker.pc = "open" /\ worker'.pc = "idle" /\ worker.todo = {}
          /\ worker'.slot = worker.slot /\ worker'.plan = worker.plan /\ worker'.todo = {}
      BY <1>1, <2>5, FinishWorker DEF FinishSlot
    <3> QED
      BY <1>2, <2>1, <3>1 DEF PlanOK, WithJob
  <2> QED
    BY <1>6, <2>2, <2>3, <2>4, <2>5 DEF Keeps
<1> QED
  BY <1>3, <1>4, <1>5, <1>6, RowStep

LEMMA InitLedger ==
  ASSUME Init
  PROVE  LedgerOK
<1>1. /\ worker.pc = "idle" /\ worker.slot \notin HourlyMinutes /\ faults = 0 /\ job = << >>
  BY AsleepIs, ClockAssumption, NoneAssumption DEF Init
<1>2. DOMAIN job = {}
  BY <1>1
<1>3. /\ \A s, t : RowsOf(job, s, t) = {}
      /\ LeftOf(job, worker) = {}
  BY <1>2 DEF RowsOf, LeftOf
<1>4. /\ \A s, t : Cardinality(RowsOf(job, s, t)) = 0
      /\ Cardinality(LeftOf(job, worker)) = 0
  BY <1>3, FS_EmptySet
<1>0. faults \in Nat /\ 0 <= faults /\ 0 <= 1 + faults
  BY <1>1
<1>5. RowsOK
  BY <1>0, <1>1, <1>2, <1>4 DEF RowsOK
<1>6. LeftOK
  BY <1>0, <1>1, <1>4 DEF LeftOK, WithJob
<1>7. PlanOK
  BY <1>1 DEF PlanOK
<1> QED
  BY <1>5, <1>6, <1>7 DEF LedgerOK

-----------------------------------------------------------------------------
(***************************************************************************)
(* The theorems                                                            *)
(***************************************************************************)
\* Every variable keeps its type, whatever the users, the clock and the crashes do.
THEOREM TypeCorrect == Spec => []TypeOK
<1>1. Inv => TypeOK
  BY DEF Inv
<1> QED
  BY <1>1, Invariance, PTL

\* For every number of users and stocks: a stamp of an item, a successful
\* synchronisation and what the panel shows have their rows in the database.
THEOREM ShownStored == Spec => []ShownIsStored
<1>1. Inv => ShownIsStored
  <2> SUFFICES ASSUME Inv PROVE ShownIsStored
    OBVIOUS
  <2>1. SyncedIsArchived
    BY DEF Inv, JobOK, ItemOK, SyncedIsArchived, Feed, FeedRow
  <2>2. AnalyzedHasReport
    BY DEF Inv, ItemOK, AnalyzedHasReport, Feed, FeedRow
  <2>3. PanelIsBacked
    <3> SUFFICES ASSUME NEW k \in Kinds, Panel(k) # None
                 PROVE  evidence[k] # None /\ Panel(k) <= evidence[k]
      BY DEF PanelIsBacked, Snapshots
    <3>1. evidence[k] \in Nat \union {None}
      BY DEF Inv, TypeOK, EvidenceTypeOK, Minutes
    <3>2. CASE evCache[k] # NoEntry
      BY <3>2 DEF Inv, EvidenceOK, Panel
    <3>3. CASE evCache[k] = NoEntry
      BY <3>1, <3>3 DEF Panel, StoredBatch
    <3> QED
      BY <3>2, <3>3
  <2> QED
    BY <2>1, <2>2, <2>3 DEF ShownIsStored
<1> QED
  BY <1>1, Invariance, PTL

\* However often a slot is repeated within its minute, and whoever ends the sessions it
\* left, two sessions of one stock and mode made for the same minute are never both
\* under way or completed.
THEOREM LiveOnce == Spec => []OneLiveAnalysis
<1>1. Inv => OneLiveAnalysis
  BY DEF Inv, SessionOK, Counts, OneLiveAnalysis
<1> QED
  BY <1>1, Invariance, PTL

\* An hourly minute that finds the worker asleep and lets it run is never left without
\* its slot, whatever the markers were before.
THEOREM NotMissed == Spec => SlotIsNotMissed
<1>1. Inv => (clock \in HourlyMinutes /\ minute = "polled" => worker.slot = clock)
  BY DEF Inv, MinuteOK
<1>2. Inv /\ [Next]_vars =>
        [clock' # clock /\ clock \in HourlyMinutes /\ worker.pc = "idle" /\ minute = "polled"
           => worker.slot = clock]_vars
  BY <1>1
<1> QED
  BY <1>2, Invariance, PTL DEF SlotIsNotMissed, Spec

\* Whatever cuts an iteration short: a row is left running, or added for a stock and slot
\* that had one, only once per fault; and the marker of an hour is kept only when every
\* stock of its plan has a closed row.
THEOREM SlotsAccounted == Spec => []SlotsAreAccounted
<1>1. Init => LedgerOK
  BY InitLedger
<1>2. Inv /\ LedgerOK /\ [Next]_vars => LedgerOK'
  BY RowsStep, LeftStep, PlanStep DEF LedgerOK
<1>3. Inv /\ LedgerOK => SlotsAreAccounted
  <2> SUFFICES ASSUME Inv, LedgerOK PROVE SlotsAreAccounted
    OBVIOUS
  <2>1. JobsAreClosed
    BY DEF LedgerOK, LeftOK, LeftOf, JobsAreClosed
  <2>2. OneJobPerItem
    BY DEF LedgerOK, RowsOK, RowsOf, OneJobPerItem
  <2>3. MarkerMeansDone
    BY DEF LedgerOK, PlanOK, Accounted, MarkerMeansDone, WithJob
  <2> QED
    BY <2>1, <2>2, <2>3 DEF SlotsAreAccounted
<1> QED
  BY <1>1, <1>2, <1>3, Invariance, PTL DEF Spec

=============================================================================
