# StockProject: TLA+ models, checks and proofs

StockProject is a FastAPI backend with a Vue frontend. It shows stock prices, news
and policy documents and lets a language model write analysis reports about a stock.
This directory models the parts where several actors share state: analysis sessions
from the queue to the report, the stream a browser watches them by, the worker that
keeps watchlists up to date, the per-key locks and read-through caches, the policy
documents, the sign-in, and the analysis page of the browser.

`PROJECT.json` lists the components, the TLC runs, the mutants that show what each
property depends on, the source lines behind every definition, the hazards, and the
theorems.

## 1. The system

Four processes (`docs/architecture/runtime-topology.md`, `docker-compose.yml`, all
`restart: unless-stopped`) share PostgreSQL and Redis:

| process | entry point | concurrency |
|---|---|---|
| Backend API | `backend/app/main.py`, one uvicorn worker | coroutines of one event loop |
| Analysis Worker | `scripts/run_analysis_worker.py` | a loop that polls every 5 s; several may run |
| Watchlist Worker | `scripts/run_watchlist_worker.py` | a loop that polls every 30 s |
| Frontend | `frontend/` | browsers, polling, and one event stream per session |

Locks are in-process objects: nothing in Redis or PostgreSQL excludes two processes
except row locks (`SELECT ... FOR UPDATE SKIP LOCKED`, unique keys). Each process has a
connection pool of `db_pool_size + db_max_overflow`, by default **one** connection,
and a request keeps its connection from its first query to its commit or its end.

### Components

*Analysis session lifecycle* (`analysis_service.py`, `analysis_repository.py`,
`analysis_runtime_service.py`, `run_analysis_worker.py`). State: rows of
`analysis_generation_sessions` with their `system_job_runs` row, `analysis_reports`,
`last_daily_analysis_at` of the watchlist, the Redis entry `analysis:active:<key>`, the
lock registry. Operations: start (cooldown, reuse, create, optional inline run), claim,
run with heartbeats, complete, fail, clear. Hard: claims against reclaims, heartbeats
that stall, crashes in every step, lock against pool. Correct when a session has one
runner and one outcome, when rows that tell the same story agree, and when every session
ends.

*Inside a run* (`analysis_service.py`, `analysis_event_selection_service.py`,
`analysis_orchestrator_service.py`, `llm_client_service.py`, `routes/analysis.py`). State:
the row's stage, progress and preview, the report, a thread that reads the model's stream
and the queue it fills, the subscribers of the event bus. Operations: select and link
events, ask the roles, stream the decision, finalise, store, publish, persist a failure;
open a stream, subscribe, forward, poll. Hard: a broken stream, a refused web search, a
thread that outlives its reader, a worker in another process whose events nobody hears.
Correct when a ready report has all of the model's text, but for lines the single mode
drops on purpose, no thread is left behind, and what a browser is told is what the row
says, in the end.

*Watchlist worker* (`watchlist_worker_service.py`, `run_watchlist_worker.py`,
`watchlist_service.py`, `candidate_evidence_service.py`). State: slot markers in memory,
watchlist items with two stamps, job rows, batches of candidate evidence with a Redis
entry. Operations: the hourly slot (refresh evidence, synchronise each stock), the daily
slot (a report for each stock), both in one loop. Hard: a long iteration, an exception in
one item, a restart in the slot, users who edit meanwhile. Correct when stamps and panel
show only what is stored, jobs and markers account for the slots, a repeated slot finds
the session it left, and no hour is passed over.

*Singleflight lock registry* (`stock_cache_service.py` and the same algorithm in
`analysis_runtime_service.py`). State: a table from key to a reference-counted
`asyncio.Lock`. Hard: the last user drops an object that another has just looked up.
Correct when it behaves as one fair queue per key and keeps no object of an unused key.

*Stock read-through* (`stock_daily_service.py`, `stock_reference_data_service.py`,
`stock_repository.py`, `routes/stocks.py`). State: Redis entries with a TTL, table rows,
locks, pooled connections. Operations: the K-line, adjustment-factor and calendar
requests: cache, database, lock, fetch, upsert, commit, read back, cache, fall back.
Hard: rows shared by keys with different locks, a connection needed inside the lock, a
failure after the commit. Correct when the cache never shows what the database lacks and
no answer falls behind what was read.

*News cache* (`news_cache_service.py`, `news_cache_version_service.py`,
`news_fetch_batch_service.py`, `news_repository.py`, `routes/news.py`). State: batches
with a status, their events, a version key and entries named by it. Operations:
`get_news_rows` with the closures of three pages, the hourly sync as a second writer.
Hard: version read at one time and rows at another; failed, partial and empty fetches;
one lock per key over a shared version. Correct when only completed batches are shown,
or rows from before there were any, and the version names a completed one and does not go
back.

*Policy synchronisation* (`policy_sync_service.py`, `policy_dedup_service.py`,
`policy_projection_service.py`, `policy_repository.py`). State: documents and events, job
rows, row locks. Operations: fetch each provider, remove duplicates, upsert in one
transaction; project the documents to events. Hard: one provider of several fails, a
chain of duplicates, two transactions that write the same rows in different orders.
Correct when documents, jobs and events agree and no transaction leaves a write behind.

*Authentication* (`routes/auth.py`, `auth_service.py`, `auth_risk_service.py`,
`cache/redis.py`, `stores/auth.ts`, `api/http.ts`). State: refresh tokens and their index
per user, counters and blocks with expiry, mailed codes and cooldowns, the pair in
localStorage. Operations: sign in, rotate, sign out, change or reset the password, ask
for a code, use it. Hard: several Redis commands per operation, each of which may fail;
two tabs with one stored pair; sends that overtake each other. Correct when a rotated
token is dead, a finished revocation leaves none of the tokens before it, counters expire,
and a code that one request at a time has checked works once.

*Analysis page of the browser* (`AnalysisWorkbenchView.vue`). State: what is displayed,
a version per load, a token per poll, a cache of evidence. Hard: answers in any order,
after the page has moved on. Correct when the page shows what belongs to its route,
evidence belongs to the report displayed, and the wait for an analysis ends.

*Not state machines*: report export, serializers, prompts, web source metadata, market
themes, impact map, health, evaluation, settings, logging. *Adapters*: Tushare, AkShare,
policy providers, SMTP; they appear as nondeterministic answers. *Stock synchronisation*
upserts in one transaction on an administrator's request; its cursor is written and
never read.

How they meet: requests and the watchlist worker create rows that Analysis Workers take
from the table; the page asks for a session and polls or streams its row; the watchlist
worker writes news batches the pages read; analyses and the news page project the policy
documents a synchronisation stores.

## 2. Modules

| module | role |
|---|---|
| `AnalysisSession` | start, claim, run, fail and clear of analysis sessions, with crashes |
| `SessionContract` | abstract: what whoever holds a session's identifier may rely on |
| `ReportRun` | one run from inside, with the model's stream and the browser's |
| `EventSelection` | a run's events, from the stored ones to the chosen, and what is promised |
| `WatchlistWorker` | the loop, its slots, items, jobs and markers |
| `CandidateEvidence` | batches of candidate evidence and their cache, part of the loop |
| `SingleflightLock`, `KeyedQueue` | the lock registry of one process; abstract: one fair queue per key |
| `StockReadThrough` | read path of K-lines and reference data |
| `NewsCache` | read path of the news pages |
| `PolicySync`, `PolicyDedup` | transactions on policy documents and events; the removal of duplicates |
| `AuthTokens` | refresh tokens, passwords and the tabs of a browser |
| `AuthThrottle` | counters, blocks, cooldowns and mailed codes |
| `Workbench` | the analysis page and the answers it gets |
| `AnalysisSessionProofs`, `WatchlistWorkerProofs`, `SingleflightLockProofs`, `StockReadThroughProofs`, `NewsCacheProofs`, `PolicySyncProofs` | theorems about the module of that name |
| `ReportProofs` | theorems about `ReportRun` and `Workbench` |
| `AuthProofs` | theorems about `AuthTokens` and `AuthThrottle` |
| `MC...` | values for TLC: model values, keys, documents and endpoints of each run |

**How code becomes an action.** Between two awaits that reach Redis, PostgreSQL or an
upstream, a coroutine runs alone; each such stretch is one action with the guards, early
returns and assignments of the code, and its name follows the function or the line it
stands for. The program counter `pc` of a call, run or request names the await it is in.
`PROJECT.json` gives the lines of every definition.

### AnalysisSession

`row` joins a session row with its job row, with the age of its last update in three
classes: within the active-session TTL (300 s), beyond it, and beyond the stale limit of a
claim (900 s). `call` is one call of `start_analysis_session`, by the API or by the
Watchlist Worker (`Inline`); `run` is one execution of `run_analysis_session_by_id`, with
the statuses its ORM object loaded, because an update writes only attributes that differ
from the loaded ones (`Changed`). `conns` are the callers that hold a pooled connection:
`LookUpStock` takes it, `CreateSession` gives it back at the commit, `RefreshRow` needs
one again *inside the lock*, `RunInline` a second one. The connections of Analysis Workers
are left out: a worker runs one session at a time. `Claim` is one step because the code
has one statement, an `UPDATE` whose sub-select locks its row (`FOR UPDATE SKIP LOCKED`):
that two claims exclude each other is the database's promise, assumed here and not shown.
The failure handler loads the row (`LoadForFailure`) and writes it later, again only what
differs. `LoadRow` and `LoadJob` are two reads before the `try`, so `LoadFails` leaves the
row as it is. `Heartbeat` is the background task, which refreshes a row whose status is
active whoever owns it. `Crash` loses a process's locks, calls and runs; rows, reports and
Redis stay.

### ReportRun and EventSelection

What `AnalysisSession` calls a run, opened: the same contract holds of both. `run.pc` is
the stage, `thread` the thread `_run_stream` runs in and `queue` what it has handed over,
one item each for a piece, a final response, a refusal and the end. A text is the
sequence of its pieces, so whether the report has all of it is a length; `cut` is an answer
that lost lines to the single mode's filter. A feed is what is
stored of events, with the session's topic and anchor. `Candidates` is the query of the
repository: what the session may see, the latest of each group, newest first, cut at the
pool's limit, with the anchor in front. `Ranked` and `SelectEvents` order and choose.
`Sound` says what the choice promises of the candidates and `Drawn` what it promises of the
stored events, both without saying how. The keys of an event are two: `raw` as the database
groups, `key` with texts trimmed as Python compares. A browser's
stream (`viewer`) hears `Publish` only if the run shares its process (`inline`);
otherwise `PollRow` ends it. `unsaved` remembers that a failure could not be written.
`Restart` is a reclaim after a crash, which leaves progress and preview as they are.

### WatchlistWorker and CandidateEvidence

`worker` is the loop: asleep, refreshing evidence, listing, or in an item. The clock is
the minute; `minute` says whether a worker that sleeps half a minute has woken in this
one, so `Tick` cannot skip a sleeping worker and does not wait for a busy one. A slot is
the minute it was started in, and a news batch is named by its slot. Sessions are seen
from outside: the item finds a fresh report, an active session, or creates one and runs it
inline, while an Analysis Worker may take the same row (`OtherRun`). `item.synced` and
`item.analyzed` are the two stamps. `EditWatchlist` is the users' page, at any time.
`AppendRows` is what a refresh adds to the rows of a kind, `StoredBatch` the newest batch
among them, `Snapshots` what a panel may show of both kinds, `Feed` the rows of the page.

### SingleflightLock

The guard around the table is never held across a suspension, so lookup, count and the
fast path of `asyncio.Lock` are one step (`AskNew`, `Ask`), and so are release,
discount and drop (`Leave`); a woken waiter continues in a later step (`Resume`).
Objects are recycled only when nobody refers to them (`Unreferenced`). The other modules
use a lock as the variable `lock`, the holder of each key. That is the abstraction
`SingleflightLock` is shown to implement, in `KeyedQueue`; they give up its order and keep
its exclusion.

### StockReadThrough

Rows are counted: a key needs a number of them (`Need`), an upsert never removes one,
an upstream may return fewer. The K-line keys of one stock differ in `limit` and share
a series. The two code paths are in one module because they are the same function
twice, with differences that matter: only K-lines look into the cache again inside the
lock (`Recheck`), only reference data read the rows back after the commit (`Reload`).

### NewsCache

A list of rows is the number of the batch it comes from; rows stored without a batch are
one of status "unbatched", which counts while no batch is completed. `Topical`,
`RaisesWhenEmpty` and `Worker` select the page: hot (topics; nothing usable is an error),
policy (one key; nothing usable answers with the batch before), stock (the same, and
another process writes batches). Look-up in cache and database happens twice, outside and
inside the lock, by the same functions, and therefore by the same actions. `cache` is
indexed by key and version; without a version the entry is the legacy one.

### PolicySync and PolicyDedup

PostgreSQL at READ COMMITTED: a statement sees what is committed and what its transaction
wrote, a write waits for the writer of its row (`docLock`, `eventLock`) or of a key it may
collide with (`Contested`), a key that another row has is refused (`Clashing`), and of
transactions that wait for each other one is aborted (`Deadlocked`).

A synchronisation stores one merged document after the other. It looks for a row by source
and identifier (`LookUpById`), then by source and URL (`LookUpByUrl`), and overwrites what
it finds, the URL and the identifier included: a row may be moved, or be taken over by a
later document of the same identifier. The columns are those the two unique keys, the
projection and the job row need; titles and texts of a row are left out. The session holds
a row as it loaded it once (`seen`) and writes only the columns that differ. A projection
loads the rows once and writes a mark only if the row it loaded had none.

`PolicyDedup` is the loop over the documents with its index, places and merges;
`DedupIsSound` says what must come out. A document without an address does not get there:
`normalize_policy_seed` raises.

### AuthTokens and AuthThrottle

One Redis command, or one MULTI block, is one action, and each may fail (`RedisFails`),
which answers 503 and undoes nothing. A token pair is its number in the order of issue, and
remembers which revocation had finished when it was written (`since`), and whether another was
between its two calls (`swept`). The tabs share `storage`.
In `AuthThrottle` keys expire at any time. Cooldown, code and mail counter are per scene (to
register, to change a password, to reset it); the block of an address and the counter of
failed sign-ins are shared. A code is known by its number; `mail` remembers of each scene
which code left last, what became of the mail its cooldown stands for, and whether some send
outlived its cooldown or failed after its mail had left (`unsure`). A request that has a code
checks it, looks its account up, commits, and consumes the code last; `used` remembers the
codes that changed something once and twice, and those that two requests held at a time.

### Workbench

`calls` are the requests under way, each with the version or token its answer is compared
with (`Outdated`); any of them may be answered next, or fail. The order in which the
answers of one load arrive is open, as is what the user does meanwhile. A watcher looks for
the evidence when another object is displayed or an answer has replaced one
(`SyncIfChanged`): a change of route clears the evidence and may leave the old report
without it until the new answers are there. `quiet` counts the
polls without a new heartbeat.

## 3. Runs

All bounds are constants of the cfg: numbers of actors, keys, rows, reports, batches,
minutes, tokens, codes and acts, and `MaxFaults`, the crashes, failing calls and failed
recovery writes of one behaviour. Where a system stops once everything has ended, either
`Quiet` is its stuttering or the cfg says `CHECK_DEADLOCK FALSE` (`policy`,
`analysis_run`, `workbench`: transactions, a run and a page that come to their end).

| run | instance | question |
|---|---|---|
| `session_exclusive` | two requests of one key, two workers, two rows, pool of two, two faults, heartbeats that keep up | one fresh row of the key in the queue, one runner per session, job row agrees with session row, refinement of `SessionContract` |
| `session_overlap` | an inline run beside a worker, one row, three reports, two faults, heartbeats may stall | with runners that overlap, a completed session still names its own report, a daily stamp is backed by one, and every session ends |
| `session_live` | two requests and an inline call, a worker, three rows, pool of one, no faults | every call returns, though lock and connection are held against each other |
| `analysis_run` | one session, both modes, eleven feeds of up to four events, a pool of three and a limit of two, one role, two pieces, two faults, a browser | the selection keeps its promise, a ready report is what the model said but for dropped lines, no thread is left, browsers are told the truth and their streams end, refinement of `SessionContract` |
| `watchlist` | two stocks, a daily, an hourly and a second daily minute, the last on a day without trading, one fault or edit | stamps and panel are backed, jobs and markers account for the slots, one live analysis, no hour passed over |
| `lock` | three clients that keep coming, two keys, three objects | no idle object, refinement of `KeyedQueue`, whoever waits gets in |
| `reads` | three requests; two K-line keys of one series, adjustment factors, calendar; two connections, one fault | one fetch per key at a time, cache backed by rows, no answer with less than was read, K-line waiters find what was cached before them, requests that block each other go on |
| `news_stock` | two requests of one stock, the Watchlist Worker writing beside, three batches, failing Redis, one restart | no rows of a failed or unfinished batch, version committed and monotone |
| `policy` | two synchronisations and two projections, three documents of two sites, four rows, one fault | documents, jobs, marks and events agree, every merged document has left a row; no transaction leaves a lock; every list of up to four documents is merged soundly |
| `auth_tokens` | two tabs, three token pairs, two changes of the password, one fault | rotated tokens are dead; a finished revocation leaves none of the tokens before it |
| `auth_throttle` | two requests, a scene of two in each behaviour, two codes, a captcha after two failures, a block after one mail, one failing command | counters expire, the newest mail counts, a code works once unless two requests checked it together |
| `workbench` | two stocks with reports from before, one report without its evidence, two acts, one session, two faults, patience of one poll | page and evidence belong together, a choice made after the default stays, the wait ends |

All of them hold.

Why the bounds are enough. Every race of the session model is between two runners of a row
or two calls of a key. Two faults allow a crash of the runner and a failure of the one
that took over; two rows let the second request make a session while the first is in the
worker's queue. In `session_live` one call holds the lock and wants a connection, one
holds the connection and wants the lock, and a third wants its second connection: more
callers repeat one of these positions. In `analysis_run` the roles are alike and follow
one another, so one role has a call that succeeds, one that is repeated and one that is
filled in; two pieces are the one shown and the one lost; the feeds have a group that was
fetched twice, a key shared by two groups, a scope without quota, an anchor of no scope,
of another stock, behind the pool's limit and not stored at all, and no event. `watchlist`
has each kind of minute and a second daily one after it; two stocks are the one that fails
and the one that must have its turn; the fault may fall into any step. In the lock
registry three clients are a holder, a waiter and a newcomer, on two keys so that objects
move between keys. In the read paths three requests are one inside the lock, one behind it
and one that still reads; row counts 0 to 2 are none, too few and enough. In the news
model two batches are the one a reader holds and the one that replaces it, and a third
lets it go wrong again; a window of no tick has fresh and stale batches within two ticks.
Two policies of a site and a poorer copy of the first on another site, which has the
identifier of the second: the merged document adopts it, so two documents claim one row,
move its URL, and meet rows that have it. Three documents written in two orders by two
transactions are a deadlock as well. More than four rows are never needed.
Synchronisations are alike, and so are projections (symmetry); the run has no liveness
property. The scenes of `auth_throttle` share no key but the block of the address, so each
behaviour uses one (`OneScene`); the theorems are about all of them at once. Two tabs and
three pairs are a pair, its successor and a rival; two codes are a used one and the next.
Two changes of the password are a revocation that has ended before one that a request
overlaps. Two stocks are the route left and the route entered; two acts and two failing
requests for a plan begin a second analysis, beside the first or after it; the report without
its evidence is one the user chooses, so that another choice, a reload or a route overtakes it.
Counts of the code that are larger only repeat a step: five roles, 45 quiet seconds, ten mails a minute.

Mutants. For every property `PROJECT.json` names a changed definition with which TLC finds
the property violated: a claim that ignores the heartbeat, a failure handler that forgets
the job row, a cache written before the commit, a thread that is not awaited, a marker
set by the other slot, a revocation that only wipes the index, an answer that is taken
whatever the page shows by now. They stand next to the definitions they change.

**Where code and words differ.** The models follow the code; these are places where a
comment, a test's name or a reader's expectation says more than the code does, and where a
property is therefore as narrow as it is.

* The cooldown of a report is by stock, topic, anchor and mode, its lock by a finer key
  that also has the trigger and web search: requests that differ in these each get a
  report (`analysis_service.py:861`).
* The TTL of an active session runs while the row waits in the queue, so a second row of a
  key may be created beside it; hence `recent` in `NoDuplicateQueued`.
* An inline run leaves its row queued until it starts, so a worker may run it too; hence
  `session_overlap`.
* Requests for adjustment factors and calendars that missed together fetch one after the
  other: nothing is read again inside the lock. K-line keys of one series have two locks,
  and a conflict of their upserts ends the request, not the fallback.
* An empty answer of an upstream is cached like any other.
* The version is read again when rows are written, so an entry may hold the batch before
  its version; one lock per topic over one version lets two topics fetch at once, and the
  version may then go back. The lock's key also carries the topic and the limit of the
  request, so two requests of one stock with different limits have two locks as well
  (`VersionNeverRegresses` is for one key of a version: one limit asked for).
* The Redis entry of an active session is read, compared and deleted in two calls and may
  take another session's entry along; the application never reads it.
* Two projections in different processes may both add an event of a document; the next
  look-up then raises (`TwoEventsFound`).
* A document looked up by source and identifier overwrites the row it finds, URL and text
  included. Merged documents may adopt an identifier from another source
  (`policy_dedup_service.py:125`), so one policy can take over the row of another. If the
  URL it brings belongs to a third row, the statement fails and the whole synchronisation is
  rolled back with its job row, each time that list comes again. `StoresAgree` therefore says
  that a document has left a row with its attachments, not that the row is its own.
* Of two documents merged only the keys of the result are remembered: a later one that
  shares an address, a title or an identifier with just the one merged away may stay alone.
* A changed password is to stop the sessions before it (`auth_service.py:155`). Its
  revocation reaches the tokens written before it ends, but for those written between its two
  calls, which are live and in no index (`swept`). A sign-in or a rotation that was admitted
  before the change may write its token after the revocation has ended, and that session
  goes on. If Redis fails after the commit, the request answers 503 with the password changed
  and no token revoked; `revoked` moves only with a revocation that has finished.
* A mailed code is to be used once (`routes/auth.py:156`, `:395`, `:587`;
  `cache/redis.py:248`). It is checked and deleted by different calls: two resets or changes
  that have checked it before either deleted it both succeed, and if the deletion fails after
  the commit, the code works until it expires. `CodeWorksOnce` says that this is all.
* A send that fails after the server took the mail, by a timeout of its answer, counts as not
  sent: the cooldown is released, and the code in the mail is never stored
  (`smtp_email_sender.py:98`). `NewestMailCounts` leaves the scene out from then on.
* If the gateway refuses web search after the first pieces, the report of the roles keeps
  these pieces and drops the second answer; it is `ready` all the same.
* In single mode lines that look like an agent's own account are dropped from the answer
  (`llm_analysis_service.py:61-77`, `:220`), and the report is `ready` all the same, unless
  nothing is left. `ReadyIsWhole` lets that text through.
* A comment of `load_recent_news_events` says that the other events of the anchor's cluster
  come first (`analysis_repository.py:122`). The loop that adds them adds none: their key is the
  cluster (unless it is blank), and the anchor has already used it.
* On the analysis page the answers to a plan, a toggle and a new session are taken
  wherever the page is by then; only the loads, the evidence and the polls are compared
  with the route.
* The default for web search is to be taken once, so that no refresh overwrites the user's
  choice (`AnalysisWorkbenchView.vue:843-844`). A choice made before the first answer of the
  watchlist is overwritten by it, and so is one made while every answer so far has failed.
  `ChoiceStays` speaks of the time after the default was taken.

## 4. Fairness

Only the liveness properties use it.

* `AnalysisSession`: weak fairness of each call's step, of each worker's claim, of
  each run's step and of the ageing of a row. The event loop runs every ready
  coroutine; database, Redis and upstream calls have timeouts, so a step ends or
  fails; the worker polls for ever and its exceptions are caught in its loop; time
  passes. `Progress`, `Heartbeat`, faults and crashes are not fair: nothing depends on
  them. `CallerStep` includes the pool's timeouts, which is what releases a lock held
  against the pool.
* `ReportRun`: weak fairness of the claim and the reclaim, of the run's stages, of the
  consumer of the queue, of the thread, which ends with its HTTP response, and of each
  event stream, which has a timer of fifteen seconds. Failures and crashes are not fair;
  after a crash in a worker a stream still ends, because somebody reclaims the row.
* `SingleflightLock`: weak fairness of `Resume` and `Leave`: a woken waiter runs and
  every section ends. Newcomers are not constrained; the order is what makes waiting
  finite.
* `Workbench`: every request is answered or fails, a timer fires, and a runner ends the
  session it keeps alive. Nobody has to reclaim the session of a dead runner: the page
  gives up by itself. The fairness is of *some* answer at a time, so the property does not
  depend on their order.
* `StockReadThrough` states no fairness: `RequestsGoOn` says that only the lock keeps a
  request waiting and never all of them, and every step takes a request further.

## 5. Proofs

Checked by TLAPS for all values of the constants under the named assumptions of the
modules: types of the constants, disjointness, a finite set of clients for the registry, of
stocks and reports for the page, and for the watchlist that an hour has one hourly minute.

* **Types**: a theorem for every module with a state. In `ReportRun` it takes the selection
  (`PickedOK`): the events a run counts are the rows it was given, at most its limit of
  them. On the page the newest of the reports must exist to be displayed: that a finite set
  of naturals has a greatest element (`FiniteHasGreatest`) is well-founded descent on
  cardinalities.
* **Session, without assumptions.** `CompletedNamesOwnReport`, `StampsAreBacked`.
  Runners may overlap without limit here. The invariant `ReportInv` adds that a report
  once stored keeps its session and that `report` of a row, once set, names a report of
  that row: no step removes or moves a report.
* **Session, with `HeartbeatsKeepUp` and `Inline = {}`** (API and Analysis Worker
  deployments with live runners): `OneRunner`, `JobsFollow`, `ReportsOwned`,
  `SessionImplementsContract`. `OneRunnerPerSession` is not inductive: a claim of a
  stale row would break it. `ExclusiveInv` says what a run knows at each `pc`: its row
  is running and not stale until it ends, the statuses it loaded are those of the row,
  and a report of its session exists only once the row is completed. The proof goes
  through ten kinds of step (`ClaimStep`, `CompleteStep`, ...): one lemma maps every
  action to its kind, and each conjunct is proved per kind.
* **One waiting session per key**: `OneWaitingPerKey`, with `Inline = {}` and the calls
  of a key in one process (`KeysAreLocal`). `LockInv` ties holder and program counter,
  `CreateInv` says what a call between its look-up and its insert knows of the table,
  `RunsNotQueued` that a row somebody works on has left the queue. With two API processes
  the lock would not exclude their calls.
* **Recursion.** Selection and removal of duplicates are recursive functions over the places
  of a list. What they compute for every list is proved by induction on the place, stated
  of a set of places instead of a predicate (`NatSetInduction`, from the least element of a
  set of naturals), after it is shown that the recursive equation has a solution at all.
* **Selection**: `SelectionKeepsPromise`, for feeds of any length with one row per number.
  `Picks` and `Leads` say of a filtered list and of the first events of each key what they
  hold and in which order; `Descending` enumerates a finite set with nothing below what
  follows it. From these come the limit, the anchor in front, one event of each key, the
  quotas, and that nothing was left out for an event of its scope ranked below it
  (`SelectionSound`); and that of the stored events only the anchor and the latest of each
  group the session may see are selected, a stored anchor always (`SelectionDraws`).
* **Inside a run**: `ReadyReportIsWhole`, `ThreadsAreAwaited`, `StreamsTellTheTruth`,
  `RunImplementsContract`. The property speaks of the report at the end, the invariant of
  the queue on the way: `Shape` says that the pieces taken and the pieces still queued are
  the pieces sent, followed by how the stream ended, and that of an end only a final
  response may be gone before "done". What a role or the decision left behind is whole or
  counts as partial, and a partial one never becomes a ready report; only the single mode's
own filter (`cut`) makes a ready report of less. `ViewOK` follows a
  message through row, inbox and stream. The same contract is implemented by the session
  seen from outside.
* **Watchlist worker**: `ShownStored`, `LiveOnce`, `NotMissed`. `Inv` has a part for each
  piece of state. `SessionOK` carries `OneLiveAnalysis`: it must also count a failed
  session the worker still runs inline, since its end would bring it back, and it needs
  that a session completed in this minute left a report that is still fresh, which is why
  the repeated slot creates no other. `MinuteOK` carries `SlotIsNotMissed`: the marker of
  an hour appears only in its own minute, after its slot. The frame lemmas at the
  beginning say which actions write a variable at all, so each part is proved only for
  those.
* **Slots and job rows**: `SlotsAccounted`. `LedgerOK` stands beside `Inv`. `RowsOK` and
  `LeftOK` count: where a row may still be opened for a stock and a slot, those it has are
  at most the faults, and so are the rows left running that the worker is not at. `PlanOK`
  follows an hourly slot: a stock of its plan is still ahead, or at hand, or has a closed
  row. A step opens a row, closes the one at hand, loses it to a fault, or leaves all as
  they are, and the parts are proved for these kinds.
* **Lock registry**: `Exclusive`, `NothingIdle`, `WaitersAreServed`,
  `RegistryImplementsQueue`. `LockInv`
  says that a listed object's count is the number of clients that hold it, that held
  objects are listed under their key, and that whoever waits does so once. An object
  is therefore dropped only by its last user. `InLine` adds that whoever waits stands in
  the queue, so that no wake-up is lost: somebody inside will release the object, or the
  first of its queue may resume. This is the safety half of `EveryoneEnters`.
* **Read-through**: `CachedRowsAreStored`, `SingleFlight`, `AnswersKeepStored`, `NotAllWait`,
  `NobodyGoesBack`.
  `ReadInv` says of each request where the rows it carries come from. `KlineOnce` adds
  `FillsInv`: a K-line key without an entry has not been filled since the entry went,
  and a request on its way to a fetch has seen it so, or its look failed and is counted.
  `LockIsHeld` is the converse of what `ReadInv` says of the lock: a lock taken has its
  holder inside, on every way out; so not all requests in flight wait for one another, and
  whoever goes on gets to a later place (`Place`), so that a request ends after finitely
  many of its steps.
* **News**: `ShownIsCompleted` and `VersionCommitted` follow from `NewsInv`, for every
  page: a batch once completed stays as it is, the rows a request carries come from a
  completed batch or belong to none, and its own batch is completed before it publishes a
  version. That a set of batches has a newest is well-founded induction on a set of
  naturals. `HistoryInv` relates versions to the times of batches.
  `VersionMovesForward` needs one key: the lock of the key keeps the next batch out
  until the version is published, and the locks of two topics do not.
  `FreshBatchSparesFetch` is for the pages without topics; with topics a batch counts only
  for those that returned something.
* **Policy documents**: `DocumentsAgree`, `LocksAreOfTheLiving`, `WritersAreAlone`. The
  invariant says of each transaction in flight what it has flushed and holds. A
  synchronisation holds exactly the rows it wrote, each with its own job; what it merged is
  left to store or went to such a row, and the row has its attachments, whatever was
  written over it since (`WriteFacts`). Rows are never removed and lose no attachment, so
  what a committed job left stays (`RowsStay`). A projection holds exactly the rows it
  marked, and each has an event already or gets one with the commit (`ProjFacts`). That is
  why a commit or an abort, whichever a deadlock picks, leaves documents, jobs and events in
  agreement, and why no lock outlives its transaction.
* **Duplicates of documents**: `DedupSound`, for lists of any length. Two facts are carried
  through the loop. `Sane`: whatever is at a place is found there under its title, number
  and address; an identifier is no such key, because it may be adopted by a primary
  document of another source. Since a document only takes over titles, numbers and
  addresses from places it was matched to, the keys of the others stay theirs. `Accounts`:
  every document so far has one live place, and what is there says all that the documents
  of that place say (`SaysAll`).
* **Tokens**: `LiveTokensAreIndexed`, `OldTokensDie`, `RotationKills`. A revocation is two
  calls. The invariant says of one between them that every live token is in what it read
  or has been written since, and is then marked as swept; when it ends, what is still live
  is exactly that, and what is written later has seen it end. A pair's parent is revoked
  before the pair is issued and nothing revives a number.
* **Counters, mails and codes**: `WindowsEnd`, `NewestMailWins`, `WorksOnce`, for any
  number of clients, scenes, codes and failing commands, of behaviours without failures.
  `MailOK` says of a scene in which every send ended in time, and none failed after its mail,
  that one send at a time holds it, and that before a code is stored it is the last one
  mailed. `CodesOK` says that a code belongs to one scene, that one about to be stored is
  stored nowhere yet and was never checked, and of a code held by one request at a time
  (`OnceOK`): if it has worked, its holder is about to consume it, or nobody holds it and it
  is neither stored nor on its way.
* **The page**: `PageShowsItsRoute`, `EvidenceIsOfReport`, `ChoiceIsKept`. What is shown
  becomes inductive with one more part: a request of the load that counts is for the route
  (`LoadsAreOfRoute`). Every action begins a load, or stays in it and may take an answer
  (`PageStep`), and whatever changes the report displayed runs `SyncEvidence` in the same
  step; where the watcher is not called, what is listed belongs to the report still shown
  (`SyncIfChangedIs`).

Only model-checked: liveness, which is out of the prover's reach (`EverySessionEnds`,
`EveryCallReturns`, `EveryoneEnters`, `ViewersEnd`, `StreamingEnds`), and the half of
`RequestsGoOn` that is about `ENABLED`: that a request not kept by a lock has a step. The
other half, that there is such a request, is `NotAllWait`.

## 6. Not modelled

Section 1 and `PROJECT.json` name the parts without a module and why. Inside the modelled
parts: the content of reports, rows and prompts, scores and weights of events, the
research plan; quotes, stock lists and searches; a request cancelled while it waits for a
lock, which is counted and never leaves (`SingleflightLock` has none, and requests are
cancelled only at shutdown, when the registry goes too); clocks that differ between
processes; the pools of the workers, and the connection an event stream holds while it is
open; Redis entries that cannot be decoded (deleted and treated as missing, as
`EntryExpires` does); the captcha itself, and the mail counter of the day, which works
like that of the minute; the pages of the browser that show one answer each.

## 7. Plan

Done: the modules of section 2, and theorems for every safety property of section 3 but
those named at the end of section 5. What would come next, in this order:

1. The event stream against the pool: with one connection an open stream keeps every other
   request waiting until the pool's timeout. `ReportRun` would get the connections of
   `AnalysisSession`.
2. What a row says: two synchronisations that overwrite it column by column may leave the
   title of one list and the text of the other, because the session writes only what differs
   from what it loaded.
