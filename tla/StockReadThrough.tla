-------------------------- MODULE StockReadThrough --------------------------
(***************************************************************************)
(* The read path of K-lines, adjustment factors and the trade calendar:    *)
(* Redis, then PostgreSQL, then Tushare under a singleflight lock, with    *)
(* the rows written back to both (get_stock_daily_rows, get_adj_factor_-   *)
(* rows, get_trade_calendar_rows and the closures of routes/stocks.py).    *)
(*                                                                         *)
(* A request is one coroutine of the API process.  Rows are abstracted to  *)
(* how many there are: 0 is none, and a key says how many are enough.      *)
(* An upsert never removes a row.                                          *)
(***************************************************************************)
EXTENDS Integers, FiniteSets

CONSTANTS
  Requests,       \* requests of the API process
  Keys,           \* Redis keys: endpoint, series and parameters
  KindOf,         \* the endpoint of each key
  SeriesOf,       \* the table rows a key reads: keys that differ in limit share them
  Need,           \* how many rows are enough for a key
  MaxRows,        \* bound: row counts
  PoolSize,       \* db_pool_size + db_max_overflow
  MaxFaults,      \* bound: failing Redis calls and restarts of the API process
  None

Kinds == {"daily", "weekly", "adjFactor", "tradeCal"}
Rows  == 0 .. MaxRows
Series == {SeriesOf[k] : k \in Keys}

ASSUME KeysAssumption ==
  /\ KindOf \in [Keys -> Kinds]
  /\ Need \in [Keys -> Nat \ {0}]
  /\ DOMAIN SeriesOf = Keys

ASSUME BoundsAssumption ==
  /\ MaxRows \in Nat
  /\ PoolSize \in Nat \ {0}
  /\ MaxFaults \in Nat

ASSUME NoneAssumption == None \notin Rows \union Requests \union Keys

VARIABLES
  cache,   \* Redis: the rows cached under each key
  db,      \* PostgreSQL: the rows of each series
  lock,    \* the request inside singleflight_lock(key)
  conns,   \* requests whose database session holds a pooled connection
  req,     \* progress of each request
  fills,   \* history: fetches stored under a key since its entry expired
  faults

vars == <<cache, db, lock, conns, req, fills, faults>>

Pcs == {"idle", "cache", "db", "writeDb", "wait", "recheck", "remote", "upsert", "commit",
        "reload", "write", "fallback", "done", "error"}

\* got: db_rows; seen: the rows the upsert found; rows: what was fetched, then the answer.
Request == [pc : Pcs, key : Keys \union {None}, got : Rows, seen : Rows, rows : Rows,
            broken : BOOLEAN]

Idle == [pc |-> "idle", key |-> None, got |-> 0, seen |-> 0, rows |-> 0, broken |-> FALSE]

TypeOK ==
  /\ cache \in [Keys -> Rows \union {None}]
  /\ db \in [Series -> Rows]
  /\ lock \in [Keys -> Requests \union {None}]
  /\ conns \subseteq Requests
  /\ req \in [Requests -> Request]
  /\ fills \in [Keys -> Nat]
  /\ faults \in 0 .. MaxFaults

Init ==
  /\ cache = [k \in Keys |-> None]
  /\ db \in [Series -> Rows]
  /\ lock = [k \in Keys |-> None]
  /\ conns = {}
  /\ req = [r \in Requests |-> Idle]
  /\ fills = [k \in Keys |-> 0]
  /\ faults = 0

-----------------------------------------------------------------------------
KeyOf(r)    == req[r].key
StoredOf(r) == db[SeriesOf[KeyOf(r)]]
Kline(k)    == KindOf[k] \in {"daily", "weekly"}
Free        == Cardinality(conns) < PoolSize
Larger(m, n) == IF m > n THEN m ELSE n

Goes(r, from, to) ==
  /\ req[r].pc = from
  /\ req' = [req EXCEPT ![r].pc = to]

\* The answer is on its way: the request's database session is closed.
Answers(r, n) ==
  /\ req' = [req EXCEPT ![r].pc = "done", ![r].rows = n]
  /\ conns' = conns \ {r}

Unlock(r) == lock' = [lock EXCEPT ![KeyOf(r)] = None]

RedisFails == faults < MaxFaults /\ faults' = faults + 1

\* Every endpoint but the calendar first looks the stock up, which takes a
\* connection that stays with the request.
FindStock(r, k) ==
  /\ req[r].pc = "idle"
  /\ req' = [req EXCEPT ![r].pc = "cache", ![r].key = k]
  /\ IF KindOf[k] = "tradeCal" THEN UNCHANGED conns
                               ELSE Free /\ conns' = conns \union {r}
  /\ UNCHANGED <<cache, db, lock, fills, faults>>

\* 404, 422, or no connection before the pool's timeout.
Reject(r) ==
  /\ Goes(r, "idle", "error")
  /\ UNCHANGED <<cache, db, lock, conns, fills, faults>>

\* A failed read or an undecodable entry counts as a miss.
ReadCache(r) ==
  \/ /\ req[r].pc = "cache"
     /\ cache[KeyOf(r)] # None
     /\ Answers(r, cache[KeyOf(r)])
     /\ UNCHANGED <<cache, db, lock, fills, faults>>
  \/ /\ Goes(r, "cache", "db")
     /\ (cache[KeyOf(r)] = None /\ UNCHANGED faults) \/ RedisFails
     /\ UNCHANGED <<cache, db, lock, conns, fills>>

ReadDb(r) ==
  /\ req[r].pc = "db"
  /\ r \in conns \/ Free
  /\ conns' = conns \union {r}
  /\ req' = [req EXCEPT ![r].got = StoredOf(r),
                        ![r].pc = IF StoredOf(r) >= Need[KeyOf(r)] THEN "writeDb" ELSE "wait"]
  /\ UNCHANGED <<cache, db, lock, fills, faults>>

ReadDbTimesOut(r) ==
  /\ r \notin conns
  /\ ~Free
  /\ Goes(r, "db", "error")
  /\ UNCHANGED <<cache, db, lock, conns, fills, faults>>

\* Enough rows in the database: cached without the lock, errors swallowed.
WriteDbRows(r) ==
  /\ req[r].pc = "writeDb"
  /\ \/ cache' = [cache EXCEPT ![KeyOf(r)] = req[r].got] /\ UNCHANGED faults
     \/ RedisFails /\ UNCHANGED cache
  /\ Answers(r, req[r].got)
  /\ UNCHANGED <<db, lock, fills>>

\* Mutant: the lock is not taken.
EnterLock_Unguarded(r) ==
  /\ req[r].pc = "wait"
  /\ lock' = [lock EXCEPT ![KeyOf(r)] = r]
  /\ Goes(r, "wait", IF Kline(KeyOf(r)) THEN "recheck" ELSE "remote")
  /\ UNCHANGED <<cache, db, conns, fills, faults>>

\* Only the K-line path looks into the cache again.
EnterLock(r) ==
  /\ req[r].pc = "wait"
  /\ lock[KeyOf(r)] = None
  /\ lock' = [lock EXCEPT ![KeyOf(r)] = r]
  /\ Goes(r, "wait", IF Kline(KeyOf(r)) THEN "recheck" ELSE "remote")
  /\ UNCHANGED <<cache, db, conns, fills, faults>>

\* Mutant: the second look is left out.
Recheck_Skipped(r) ==
  /\ Goes(r, "recheck", "remote")
  /\ UNCHANGED <<cache, db, lock, conns, fills, faults>>

Recheck(r) ==
  \/ /\ req[r].pc = "recheck"
     /\ cache[KeyOf(r)] # None
     /\ Answers(r, cache[KeyOf(r)])
     /\ Unlock(r)
     /\ UNCHANGED <<cache, db, fills, faults>>
  \/ /\ Goes(r, "recheck", "remote")
     /\ (cache[KeyOf(r)] = None /\ UNCHANGED faults) \/ RedisFails
     /\ UNCHANGED <<cache, db, lock, conns, fills>>

RemoteFails(r) ==
  /\ Goes(r, "remote", "fallback")
  /\ UNCHANGED <<cache, db, lock, conns, fills, faults>>

RemoteReturns(r) ==
  /\ req[r].pc = "remote"
  /\ \E m \in Rows : req' = [req EXCEPT ![r].pc = "upsert", ![r].rows = m]
  /\ UNCHANGED <<cache, db, lock, conns, fills, faults>>

\* upsert_*_rows looks every row up and adds those it does not find ...
Upsert(r) ==
  /\ req[r].pc = "upsert"
  /\ req' = [req EXCEPT ![r].pc = "commit", ![r].seen = StoredOf(r)]
  /\ UNCHANGED <<cache, db, lock, conns, fills, faults>>

\* ... so a row another request has added meanwhile violates the primary key.
Conflict(r) == req[r].rows > req[r].seen /\ StoredOf(r) > req[r].seen

\* Mutant: the rows are cached before they are committed.
Commit_AfterCaching(r) ==
  /\ req[r].pc = "commit"
  /\ ~Conflict(r)
  /\ cache' = [cache EXCEPT ![KeyOf(r)] = req[r].rows]
  /\ conns' = conns \ {r}
  /\ req' = [req EXCEPT ![r].pc = IF Kline(KeyOf(r)) THEN "write" ELSE "reload"]
  /\ UNCHANGED <<db, lock, fills, faults>>

Commit(r) ==
  /\ req[r].pc = "commit"
  /\ ~Conflict(r)
  /\ db' = [db EXCEPT ![SeriesOf[KeyOf(r)]] = Larger(@, req[r].rows)]
  /\ conns' = conns \ {r}
  /\ req' = [req EXCEPT ![r].pc = IF Kline(KeyOf(r)) THEN "write" ELSE "reload"]
  /\ UNCHANGED <<cache, lock, fills, faults>>

\* The flush fails and nobody rolls the session back: it accepts no further query.
CommitConflicts(r) ==
  /\ req[r].pc = "commit"
  /\ Conflict(r)
  /\ req' = [req EXCEPT ![r].pc = "fallback", ![r].broken = TRUE]
  /\ UNCHANGED <<cache, db, lock, conns, fills, faults>>

\* Still inside the lock, adjustment factors and the calendar are read back:
\* a connection is needed again ...
Reload(r) ==
  /\ req[r].pc = "reload"
  /\ Free
  /\ conns' = conns \union {r}
  /\ req' = [req EXCEPT ![r].pc = "write", ![r].rows = StoredOf(r)]
  /\ UNCHANGED <<cache, db, lock, fills, faults>>

\* Mutant: a pool that waits without a timeout.
ReloadTimesOut_Never(r) ==
  /\ FALSE
  /\ Goes(r, "reload", "fallback")
  /\ UNCHANGED <<cache, db, lock, conns, fills, faults>>

\* ... and its timeout is taken for a failed fetch.
ReloadTimesOut(r) ==
  /\ ~Free
  /\ Goes(r, "reload", "fallback")
  /\ UNCHANGED <<cache, db, lock, conns, fills, faults>>

WriteRows(r) ==
  /\ req[r].pc = "write"
  /\ \/ /\ cache' = [cache EXCEPT ![KeyOf(r)] = req[r].rows]
        /\ fills' = [fills EXCEPT ![KeyOf(r)] = @ + 1]
        /\ UNCHANGED faults
     \/ /\ RedisFails
        /\ UNCHANGED <<cache, fills>>
  /\ Answers(r, req[r].rows)
  /\ Unlock(r)
  /\ UNCHANGED db

\* Mutant: a failed fetch answers with what it fetched, whatever the database has.
Fallback_Forgets(r) ==
  /\ req[r].pc = "fallback"
  /\ Unlock(r)
  /\ Answers(r, 0)
  /\ UNCHANGED <<cache, db, fills, faults>>

\* db_rows; without any, the daily K-line falls back to the snapshots, a query.
Fallback(r) ==
  /\ req[r].pc = "fallback"
  /\ Unlock(r)
  /\ \/ /\ req[r].got > 0 \/ KindOf[KeyOf(r)] # "daily"
        /\ Answers(r, req[r].got)
     \/ /\ req[r].got = 0 /\ KindOf[KeyOf(r)] = "daily"
        /\ ~req[r].broken
        /\ \E n \in Rows : Answers(r, n)
     \/ /\ req[r].got = 0 /\ KindOf[KeyOf(r)] = "daily"
        /\ req[r].broken
        /\ Goes(r, "fallback", "error")
        /\ conns' = conns \ {r}
  /\ UNCHANGED <<cache, db, fills, faults>>

CacheExpires(k) ==
  /\ cache[k] # None
  /\ cache' = [cache EXCEPT ![k] = None]
  /\ fills' = [fills EXCEPT ![k] = 0]
  /\ UNCHANGED <<db, lock, conns, req, faults>>

\* The API process is restarted: open requests are lost, the stores stay.
Crash ==
  LET lost(r) == req[r].pc \notin {"idle", "done", "error"} IN
  /\ faults < MaxFaults
  /\ faults' = faults + 1
  /\ \E r \in Requests : lost(r)
  /\ req' = [r \in Requests |-> IF lost(r) THEN [req[r] EXCEPT !.pc = "error"] ELSE req[r]]
  /\ lock' = [k \in Keys |-> None]
  /\ conns' = {}
  /\ UNCHANGED <<cache, db, fills>>

-----------------------------------------------------------------------------
Step(r) ==
  \/ ReadCache(r) \/ ReadDb(r) \/ ReadDbTimesOut(r) \/ WriteDbRows(r)
  \/ EnterLock(r) \/ Recheck(r)
  \/ RemoteFails(r) \/ RemoteReturns(r) \/ Upsert(r) \/ Commit(r) \/ CommitConflicts(r)
  \/ Reload(r) \/ ReloadTimesOut(r) \/ WriteRows(r) \/ Fallback(r)

Quiet ==
  /\ \A r \in Requests : req[r].pc \in {"done", "error"}
  /\ UNCHANGED vars

Next ==
  \/ \E r \in Requests : Step(r) \/ Reject(r) \/ \E k \in Keys : FindStock(r, k)
  \/ \E k \in Keys : CacheExpires(k)
  \/ Crash
  \/ Quiet

Spec == Init /\ [][Next]_vars

-----------------------------------------------------------------------------
Fetching == {"remote", "upsert", "commit", "reload", "write"}

\* The comment on singleflight_lock: one key is never fetched by two requests at once.
OneFetchAtATime ==
  \A r, q \in Requests :
    req[r].pc \in Fetching /\ req[q].pc \in Fetching /\ KeyOf(r) = KeyOf(q) => r = q

\* Rows are committed before they are cached, and rows are never removed: what an
\* entry shows is in the database, even after a crash between the two writes.
CacheIsBacked ==
  \A k \in Keys : cache[k] # None => cache[k] <= db[SeriesOf[k]]

\* Requests that waited for the lock find the rows of the one they waited for: while
\* an entry lives, one K-line fetch has filled it, and one more for each failing call.
KlineFetchedOnce == \A k \in Keys : Kline(k) => fills[k] <= 1 + faults

\* An adjustment factor or calendar request never answers with fewer rows than it
\* found in the database, whichever step failed after that.
AnswerKeepsStored ==
  \A r \in Requests :
    req[r].pc = "done" /\ ~Kline(KeyOf(r)) => req[r].rows >= req[r].got

InFlight == {r \in Requests : req[r].pc \notin {"idle", "done", "error"}}

\* The only wait without a timeout is the one for the lock.
WaitsForLock(r) == req[r].pc = "wait" /\ lock[KeyOf(r)] # None

\* Requests inside the lock wait for connections held by requests that wait for the lock.
\* They do not all wait for one another: whoever is not kept by the lock of its key can go
\* on, and while requests are in flight there is one.  Every step takes a request further,
\* so all of them end.
SomeoneIsFree == InFlight # {} => \E r \in InFlight : ~WaitsForLock(r)

RequestsGoOn ==
  /\ SomeoneIsFree
  /\ \A r \in InFlight : WaitsForLock(r) \/ ENABLED Step(r)

=============================================================================
