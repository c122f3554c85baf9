----------------------------- MODULE NewsCache -----------------------------
(***************************************************************************)
(* The news of one scope and variant (hot, policy, or one stock), read by  *)
(* get_news_rows of news_cache_service through the closures of             *)
(* routes/news.py and routes/stocks.py: a Redis entry named by the cache   *)
(* key and the current version, then the latest completed fetch batch in   *)
(* PostgreSQL, then the upstream sources under a singleflight lock.        *)
(*                                                                         *)
(* A list of rows is the number of the batch it was read from, 0 when no   *)
(* batch was there: what a key shows of a batch is a function of both.     *)
(* Ticks are the seconds a version string resolves.  Rows stored without a *)
(* batch, which no code writes any more, count as one of status            *)
(* "unbatched".                                                            *)
(***************************************************************************)
EXTENDS Integers, Sequences

CONSTANTS
  Requests,         \* requests of the API process
  Keys,             \* cache keys of the variant: topic and limit
  Topical,          \* TRUE: a key filters by topic, a batch may hold nothing for it (hot)
  RaisesWhenEmpty,  \* TRUE: an upstream without usable rows is an error (hot)
  Worker,           \* TRUE: the watchlist worker also writes batches (stock)
  Window,           \* refresh_window_seconds
  LegacyWindow,     \* news_cache_version_legacy_fallback_seconds
  RedisReliable,    \* TRUE: no Redis call fails
  MaxClock,         \* bound: seconds
  MaxBatches,       \* bound: fetch batches
  MaxFaults,        \* bound: restarts of the API process or of Redis
  None

Ticks == 0 .. MaxClock
Versions == Ticks \union {None}

ASSUME BoundsAssumption ==
  /\ {Topical, RaisesWhenEmpty, Worker, RedisReliable} \subseteq BOOLEAN
  /\ {Window, LegacyWindow, MaxClock, MaxBatches, MaxFaults} \subseteq Nat

ASSUME NoneAssumption == None \notin Nat \union Requests \union Keys

VARIABLES
  clock,
  batches,  \* news_fetch_batches with their news_events; a running one is not committed
  version,  \* Redis: the version key
  cache,    \* Redis: the rows under each key and version; version None is the legacy key
  lock,     \* the request inside the singleflight lock of each key
  req,      \* progress of each request
  faults

vars == <<clock, batches, version, cache, lock, req, faults>>

Statuses == {"running", "completed", "failed", "unbatched"}
Batch == [at : Ticks, status : Statuses, topics : SUBSET Keys]

Pcs == {"idle", "version", "entry", "rows", "fetchAt", "wait", "fetch", "remote", "bump",
        "reload", "writeVersion", "write", "fallback", "done", "error"}

\* now: resolved_now; got: the rows of the last look into the database; rows: the answer.
Numbers == 0 .. Len(batches)
Request == [pc : Pcs, key : Keys \union {None}, now : Ticks, ver : Versions,
            got : Numbers, batch : Numbers, rows : Numbers]

Idle == [pc |-> "idle", key |-> None, now |-> 0, ver |-> None,
         got |-> 0, batch |-> 0, rows |-> 0]

TypeOK ==
  /\ clock \in Ticks
  /\ batches \in Seq(Batch)
  /\ version \in Versions
  /\ cache \in [Keys \X Versions -> Numbers \union {None}]
  /\ lock \in [Keys -> Requests \union {None}]
  /\ req \in [Requests -> Request]
  /\ faults \in 0 .. MaxFaults

TopicSets == IF Topical THEN SUBSET Keys ELSE {Keys}

\* Nothing was fetched yet, or a batch of some earlier time is stored, or rows are that
\* belong to none.
Init ==
  /\ clock = 0
  /\ batches \in {<<>>} \union
       {<<[at |-> 0, status |-> s, topics |-> t]>> :
          s \in {"completed", "unbatched"}, t \in TopicSets}
  /\ version = None
  /\ cache = [e \in Keys \X Versions |-> None]
  /\ lock = [k \in Keys |-> None]
  /\ req = [r \in Requests |-> Idle]
  /\ faults = 0

-----------------------------------------------------------------------------
KeyOf(r)  == req[r].key
Entry(r)  == <<KeyOf(r), req[r].ver>>
Holds(r)  == lock[KeyOf(r)] = r

\* success and partial batches
Completed == {b \in DOMAIN batches : batches[b].status = "completed"}
Unbatched == {b \in DOMAIN batches : batches[b].status = "unbatched"}

\* By fetched_at; batches of one second are numbered in the order they started.
NotOlder(b, c) ==
  \/ batches[b].at > batches[c].at
  \/ batches[b].at = batches[c].at /\ b >= c

Newest(some) == CHOOSE b \in some : \A c \in some : NotOlder(b, c)

\* Rows without a batch count as long as there is no completed one.
Latest ==
  IF Completed # {} THEN Newest(Completed)
  ELSE IF Unbatched # {} THEN Newest(Unbatched) ELSE 0

Shows(b, k) == b # 0 /\ k \in batches[b].topics

Fresh(b, t) == b # 0 /\ t - batches[b].at <= Window

LegacyAllowed == Latest = 0 \/ clock - batches[Latest].at <= LegacyWindow

\* A version read that fails counts as no version.
VersionSeen == {version} \union (IF RedisReliable THEN {} ELSE {None})

Goes(r, from, to) ==
  /\ req[r].pc = from
  /\ req' = [req EXCEPT ![r].pc = to]

Ends(r, pc, rows) ==
  /\ req' = [req EXCEPT ![r].pc = pc, ![r].rows = rows]
  /\ lock' = IF Holds(r) THEN [lock EXCEPT ![KeyOf(r)] = None] ELSE lock

Ask(r, k) ==
  /\ req[r].pc = "idle"
  /\ req' = [req EXCEPT ![r].pc = "version", ![r].key = k, ![r].now = clock]
  /\ UNCHANGED <<clock, batches, version, cache, lock, faults>>

\* 404, 422, or no connection before the pool's timeout.
Reject(r) ==
  /\ Goes(r, "idle", "error")
  /\ UNCHANGED <<clock, batches, version, cache, lock, faults>>

\* The version names the entry to look up.  Without one it is the legacy entry,
\* unless the last fetch (read from the database just before) is too long ago.
ReadVersion(r) ==
  /\ req[r].pc = "version"
  /\ \E v \in VersionSeen :
       req' = [req EXCEPT ![r].ver = v,
                          ![r].pc = IF v = None /\ ~LegacyAllowed THEN "rows" ELSE "entry"]
  /\ UNCHANGED <<clock, batches, version, cache, lock, faults>>

ReadEntry(r) ==
  \/ /\ req[r].pc = "entry"
     /\ cache[Entry(r)] # None
     /\ Ends(r, "done", cache[Entry(r)])
     /\ UNCHANGED <<clock, batches, version, cache, faults>>
  \/ /\ Goes(r, "entry", "rows")
     /\ cache[Entry(r)] = None \/ ~RedisReliable
     /\ UNCHANGED <<clock, batches, version, cache, lock, faults>>

LoadRows(r) ==
  /\ req[r].pc = "rows"
  /\ req' = [req EXCEPT ![r].pc = "fetchAt", ![r].got = Latest]
  /\ UNCHANGED <<clock, batches, version, cache, lock, faults>>

\* A second query.  Rows within the window are cached and answered.
LoadFetchAt(r) ==
  /\ req[r].pc = "fetchAt"
  /\ IF Shows(req[r].got, KeyOf(r)) /\ Fresh(Latest, req[r].now)
     THEN req' = [req EXCEPT ![r].pc = "writeVersion", ![r].rows = req[r].got]
     ELSE Goes(r, "fetchAt", IF Holds(r) THEN "fetch" ELSE "wait")
  /\ UNCHANGED <<clock, batches, version, cache, lock, faults>>

\* Mutant: the lock is not taken.
EnterLock_Unguarded(r) ==
  /\ Goes(r, "wait", "version")
  /\ lock' = [lock EXCEPT ![KeyOf(r)] = r]
  /\ UNCHANGED <<clock, batches, version, cache, faults>>

\* Inside the lock, entry and database are looked up once more.
EnterLock(r) ==
  /\ Goes(r, "wait", "version")
  /\ lock[KeyOf(r)] = None
  /\ lock' = [lock EXCEPT ![KeyOf(r)] = r]
  /\ UNCHANGED <<clock, batches, version, cache, faults>>

NewBatch(at, status, topics) ==
  /\ Len(batches) < MaxBatches
  /\ batches' = Append(batches, [at |-> at, status |-> status, topics |-> topics])

\* Mutant: the version is published when the fetch starts.
StartFetch_Publishes(r) ==
  /\ req[r].pc = "fetch"
  /\ NewBatch(clock, "running", {})
  /\ version' = clock
  /\ req' = [req EXCEPT ![r].pc = "remote", ![r].batch = Len(batches) + 1]
  /\ UNCHANGED <<clock, cache, lock, faults>>

StartFetch(r) ==
  /\ req[r].pc = "fetch"
  /\ NewBatch(clock, "running", {})
  /\ req' = [req EXCEPT ![r].pc = "remote", ![r].batch = Len(batches) + 1]
  /\ UNCHANGED <<clock, version, cache, lock, faults>>

Commits(r, status, topics) ==
  batches' = [batches EXCEPT ![req[r].batch].status = status,
                             ![req[r].batch].topics = topics]

\* The upstream fails (hot: or has nothing usable), or the transaction does.
FetchFails(r) ==
  /\ Goes(r, "remote", "fallback")
  /\ Commits(r, "failed", {})
  /\ UNCHANGED <<clock, version, cache, lock, faults>>

\* policy, stock: nothing usable is a failed batch, answered with the batch before it.
FetchEmpty(r) ==
  /\ ~RaisesWhenEmpty
  /\ Goes(r, "remote", "reload")
  /\ Commits(r, "failed", {})
  /\ UNCHANGED <<clock, version, cache, lock, faults>>

\* Mutant: the rows are read back and cached although the batch is never finalized.
FetchReturns_Uncommitted(r) ==
  /\ req[r].pc = "remote"
  /\ req' = [req EXCEPT ![r].pc = "writeVersion", ![r].rows = req[r].batch]
  /\ UNCHANGED <<clock, batches, version, cache, lock, faults>>

FetchReturns(r) ==
  /\ Goes(r, "remote", "bump")
  /\ \E t \in TopicSets : Commits(r, "completed", t)
  /\ UNCHANGED <<clock, version, cache, lock, faults>>

\* After the commit; a failed write is swallowed.
BumpVersion(r) ==
  /\ Goes(r, "bump", "reload")
  /\ \/ version' = batches[req[r].batch].at
     \/ ~RedisReliable /\ UNCHANGED version
  /\ UNCHANGED <<clock, batches, cache, lock, faults>>

Reload(r) ==
  /\ req[r].pc = "reload"
  /\ req' = [req EXCEPT ![r].pc = "writeVersion", ![r].rows = Latest]
  /\ UNCHANGED <<clock, batches, version, cache, lock, faults>>

\* No connection: the same as a failed fetch.
ReloadFails(r) ==
  /\ Goes(r, "reload", "fallback")
  /\ UNCHANGED <<clock, batches, version, cache, lock, faults>>

\* Rows are stored under whatever the version is by now.
ReadVersionToWrite(r) ==
  /\ req[r].pc = "writeVersion"
  /\ \E v \in VersionSeen : req' = [req EXCEPT ![r].pc = "write", ![r].ver = v]
  /\ UNCHANGED <<clock, batches, version, cache, lock, faults>>

WriteEntry(r) ==
  /\ req[r].pc = "write"
  /\ \/ cache' = [cache EXCEPT ![Entry(r)] = req[r].rows]
     \/ ~RedisReliable /\ UNCHANGED cache
  /\ Ends(r, "done", req[r].rows)
  /\ UNCHANGED <<clock, batches, version, faults>>

\* A failed fetch is answered with the rows in the database, if there are any.
Fallback(r) ==
  /\ req[r].pc = "fallback"
  /\ IF Shows(req[r].got, KeyOf(r)) THEN Ends(r, "done", req[r].got) ELSE Ends(r, "error", 0)
  /\ UNCHANGED <<clock, batches, version, cache, faults>>

\* Another process: fetched_at is the minute its sync began, and it knows no version.
WorkerSync ==
  /\ Worker
  /\ \E at \in 0 .. clock, t \in TopicSets : NewBatch(at, "completed", t)
  /\ UNCHANGED <<clock, version, cache, lock, req, faults>>

Tick ==
  /\ clock < MaxClock
  /\ clock' = clock + 1
  /\ UNCHANGED <<batches, version, cache, lock, req, faults>>

\* The version has no expiry, entries do.
EntryExpires(e) ==
  /\ cache[e] # None
  /\ cache' = [cache EXCEPT ![e] = None]
  /\ UNCHANGED <<clock, batches, version, lock, req, faults>>

RedisRestarts ==
  /\ faults < MaxFaults
  /\ faults' = faults + 1
  /\ version' = None
  /\ cache' = [e \in Keys \X Versions |-> None]
  /\ UNCHANGED <<clock, batches, lock, req>>

\* Open requests are lost and their transactions rolled back.
Crash ==
  LET lost(r) == req[r].pc \notin {"idle", "done", "error"} IN
  /\ faults < MaxFaults
  /\ faults' = faults + 1
  /\ \E r \in Requests : lost(r)
  /\ req' = [r \in Requests |-> IF lost(r) THEN [req[r] EXCEPT !.pc = "error"] ELSE req[r]]
  /\ lock' = [k \in Keys |-> None]
  /\ UNCHANGED <<clock, batches, version, cache>>

-----------------------------------------------------------------------------
Step(r) ==
  \/ ReadVersion(r) \/ ReadEntry(r) \/ LoadRows(r) \/ LoadFetchAt(r) \/ EnterLock(r)
  \/ StartFetch(r) \/ FetchFails(r) \/ FetchEmpty(r) \/ FetchReturns(r) \/ BumpVersion(r)
  \/ Reload(r) \/ ReloadFails(r) \/ ReadVersionToWrite(r) \/ WriteEntry(r) \/ Fallback(r)

\* Every request has ended, or wants a batch beyond MaxBatches or the lock of one that does.
Quiet ==
  /\ \A r \in Requests :
       \/ req[r].pc \in {"done", "error"}
       \/ req[r].pc = "fetch" /\ Len(batches) = MaxBatches
       \/ req[r].pc = "wait" /\ lock[KeyOf(r)] # None /\ req[lock[KeyOf(r)]].pc = "fetch"
  /\ UNCHANGED vars

Next ==
  \/ \E r \in Requests : Step(r) \/ Reject(r) \/ \E k \in Keys : Ask(r, k)
  \/ \E e \in Keys \X Versions : EntryExpires(e)
  \/ WorkerSync \/ Tick \/ RedisRestarts \/ Crash \/ Quiet

Spec == Init /\ [][Next]_vars

-----------------------------------------------------------------------------
\* What a reader can see, in an entry or an answer, is the rows of a completed batch, or
\* those stored before there were batches: never of one that failed, is still fetched or
\* was lost in a crash.
OnlyCompletedShown ==
  LET shown == Completed \union Unbatched \union {0} IN
  /\ \A e \in DOMAIN cache : cache[e] \in shown \union {None}
  /\ \A r \in Requests : req[r].pc = "done" => req[r].rows \in shown

\* The version is written after the commit: it is the second of a completed batch.
VersionIsCommitted == version # None => \E b \in Completed : batches[b].at = version

\* Where one key shares the version, it moves forward, whatever Redis drops: the lock
\* keeps the next fetch out until it is published.  (The code's keys also have a topic or
\* a limit; the locks of two keys do not do so.)
VersionNeverRegresses ==
  [][version # None /\ version' # None => version' >= version]_vars

\* The comment on the refresh window: a request that finds a batch within it, before or
\* while it holds the lock, leaves the sources alone.
NoFetchWhileFresh ==
  [][\A r \in Requests :
       req[r].pc = "fetch" /\ req'[r].pc = "remote" => ~Fresh(req[r].got, req[r].now)]_vars

=============================================================================
