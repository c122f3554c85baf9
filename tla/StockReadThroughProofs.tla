----------------------- MODULE StockReadThroughProofs -----------------------
(***************************************************************************)
(* The safety of the read path for every set of requests and keys, every   *)
(* pool size and with Redis failing at will: one fetch per key at a time,  *)
(* cached rows are stored rows, and no answer falls behind the database.   *)
(*                                                                         *)
(* The inductive invariant says of each request where its rows come from   *)
(* (Sound).  A step changes one request, only adds rows to the database    *)
(* and takes no lock away from another request: StepKeeps draws the        *)
(* conclusion once for all steps.                                          *)
(***************************************************************************)
EXTENDS StockReadThrough, TLAPS

InsideLock == Fetching \union {"recheck", "fallback"}

Sound(r) ==
  /\ req[r].pc \notin {"idle", "error"} => req[r].key \in Keys /\ req[r].got <= StoredOf(r)
  /\ req[r].pc = "cache" => req[r].got = 0
  /\ req[r].pc = "idle" => req[r].got = 0
  /\ req[r].pc = "write" => req[r].rows <= StoredOf(r)
  /\ req[r].pc = "recheck" => Kline(req[r].key)
  /\ req[r].pc \in InsideLock => lock[req[r].key] = r
  /\ req[r].pc \in {"write", "done"} /\ ~Kline(req[r].key) => req[r].rows >= req[r].got

ReadInv ==
  /\ TypeOK
  /\ CacheIsBacked
  /\ \A r \in Requests : Sound(r)

-----------------------------------------------------------------------------
LEMMA InitReadInv == Init => ReadInv
<1> SUFFICES ASSUME Init PROVE ReadInv
  OBVIOUS
<1>1. TypeOK
  <2>1. 0 \in Rows
    BY BoundsAssumption DEF Rows
  <2>2. Idle \in Request
    BY <2>1 DEF Idle, Request, Pcs
  <2>3. req \in [Requests -> Request]
    BY <2>2 DEF Init
  <2> QED
    BY <2>3, BoundsAssumption DEF Init, TypeOK
<1>2. CacheIsBacked
  BY DEF Init, CacheIsBacked
<1>3. ASSUME NEW r \in Requests PROVE Sound(r)
  BY DEF Init, Idle, Sound, InsideLock, Fetching
<1> QED
  BY <1>1, <1>2, <1>3 DEF ReadInv

\* Where a step leaves the other requests, the stores and the locks alone.
LEMMA StepKeeps ==
  ASSUME ReadInv, TypeOK', NEW r,
         \A q \in Requests : q # r => req'[q] = req[q],
         \A s \in Series : db'[s] >= db[s],
         \A k \in Keys : lock'[k] = lock[k] \/ lock[k] = None \/ lock[k] = r,
         r \in Requests => Sound(r)',
         \A k \in Keys : \/ cache'[k] = cache[k]
                         \/ cache'[k] = None
                         \/ cache'[k] <= db'[SeriesOf[k]]
  PROVE  ReadInv'
<1>1. \A s \in Series : db[s] \in Nat /\ db'[s] \in Nat
  BY BoundsAssumption DEF ReadInv, TypeOK, Rows
<1>2. \A k \in Keys : SeriesOf[k] \in Series
  BY DEF Series
<1>3. CacheIsBacked'
  <2> SUFFICES ASSUME NEW k \in Keys, cache'[k] # None
               PROVE  cache'[k] <= db'[SeriesOf[k]]
    BY DEF CacheIsBacked
  <2>1. CASE cache'[k] = cache[k]
    <3>1. cache[k] \in Nat /\ cache[k] <= db[SeriesOf[k]]
      BY <2>1, BoundsAssumption DEF ReadInv, CacheIsBacked, TypeOK, Rows
    <3> QED
      BY <2>1, <3>1, <1>1, <1>2
  <2> QED
    BY <2>1
<1>4. ASSUME NEW q \in Requests, q # r PROVE Sound(q)'
  <2>1. Sound(q) /\ req'[q] = req[q]
    BY <1>4 DEF ReadInv
  <2>2. req[q] \in Request
    BY DEF ReadInv, TypeOK
  <2>3. req[q].got \in Nat /\ req[q].rows \in Nat
    BY <2>2, BoundsAssumption DEF Request, Rows
  <2>4. ASSUME req[q].pc \notin {"idle", "error"}
        PROVE  /\ req[q].key \in Keys
               /\ req[q].got <= db'[SeriesOf[req[q].key]]
               /\ req[q].pc = "write" => req[q].rows <= db'[SeriesOf[req[q].key]]
    BY <2>1, <2>3, <2>4, <1>1, <1>2 DEF Sound, StoredOf, KeyOf
  <2>5. ASSUME req[q].pc \in InsideLock PROVE lock'[req[q].key] = q
    <3>1. q # None
      BY <1>4, NoneAssumption
    <3> QED
      BY <2>1, <2>4, <2>5, <1>4, <3>1 DEF Sound, InsideLock, Fetching
  <2> QED
    BY <2>1, <2>4, <2>5 DEF Sound, StoredOf, KeyOf, Kline, InsideLock
<1> QED
  BY <1>3, <1>4 DEF ReadInv

-----------------------------------------------------------------------------
\* What is known of a request in progress.
LEMMA RequestFacts ==
  ASSUME ReadInv, NEW r \in Requests
  PROVE  /\ req \in [Requests -> Request]
         /\ req[r] \in Request
         /\ req[r].got \in Rows /\ req[r].rows \in Rows /\ req[r].seen \in Rows
         /\ req[r].pc \notin {"idle", "error"} => /\ req[r].key \in Keys
                                                 /\ SeriesOf[req[r].key] \in Series
                                                 /\ StoredOf(r) \in Rows
                                                 /\ req[r].got <= StoredOf(r)
         /\ r # None
<1>1. req \in [Requests -> Request] /\ req[r] \in Request /\ Sound(r)
  BY DEF ReadInv, TypeOK
<1>2. req[r].got \in Rows /\ req[r].rows \in Rows /\ req[r].seen \in Rows
  BY <1>1 DEF Request
<1>3. ASSUME req[r].pc \notin {"idle", "error"}
      PROVE  /\ req[r].key \in Keys
             /\ SeriesOf[req[r].key] \in Series
             /\ StoredOf(r) \in Rows
             /\ req[r].got <= StoredOf(r)
  BY <1>1, <1>3 DEF Sound, Series, StoredOf, KeyOf, ReadInv, TypeOK
<1> QED
  BY <1>1, <1>2, <1>3, NoneAssumption

\* A failing Redis call is counted up to the bound.
LEMMA FaultsTyped ==
  ASSUME ReadInv, RedisFails \/ UNCHANGED faults
  PROVE  faults' \in 0 .. MaxFaults
  BY BoundsAssumption DEF RedisFails, ReadInv, TypeOK

\* A new request has read nothing yet.
LEMMA FindStockKeeps ==
  ASSUME ReadInv, NEW r \in Requests, NEW k \in Keys, FindStock(r, k)
  PROVE  ReadInv'
<1>1. \A q \in Requests : q # r => req'[q] = req[q]
  BY RequestFacts DEF FindStock
<1>2. TypeOK'
  <2>1. req' \in [Requests -> Request]
    BY RequestFacts DEF FindStock, Request, Pcs
  <2>2. /\ cache' \in [Keys -> Rows \union {None}]
        /\ lock' \in [Keys -> Requests \union {None}]
        /\ conns' \subseteq Requests
    BY RequestFacts DEF FindStock, ReadInv, TypeOK
  <2>3. /\ db' \in [Series -> Rows]
        /\ fills' \in [Keys -> Nat]
        /\ faults' \in 0 .. MaxFaults
    BY RequestFacts DEF FindStock, ReadInv, TypeOK
  <2> QED
    BY <2>1, <2>2, <2>3 DEF TypeOK
<1>3. Sound(r)'
  <2>1. req[r].pc = "idle" /\ req'[r].pc = "cache" /\ req'[r].key = k /\ req'[r].got = req[r].got
    BY RequestFacts DEF FindStock
  <2>2. req[r].got = 0
    BY <2>1 DEF ReadInv, Sound
  <2>3. db'[SeriesOf[k]] \in Nat
    BY BoundsAssumption DEF FindStock, ReadInv, TypeOK, Series, Rows
  <2> QED
    BY <2>1, <2>2, <2>3 DEF Sound, StoredOf, KeyOf, InsideLock, Fetching
<1>4. \A s \in Series : db'[s] >= db[s]
  BY BoundsAssumption DEF FindStock, ReadInv, TypeOK, Rows
<1>5. \A j \in Keys : lock'[j] = lock[j] \/ lock[j] = None \/ lock[j] = r
  BY DEF FindStock, KeyOf, ReadInv, Sound, InsideLock, Fetching, TypeOK
<1>6. \A j \in Keys : cache'[j] = cache[j] \/ cache'[j] = None \/ cache'[j] <= db'[SeriesOf[j]]
  BY RequestFacts DEF FindStock, KeyOf, StoredOf, ReadInv, TypeOK, Sound
<1> QED
  BY <1>1, <1>2, <1>3, <1>4, <1>5, <1>6, StepKeeps

\* A rejected request holds nothing.
LEMMA RejectKeeps ==
  ASSUME ReadInv, NEW r \in Requests, Reject(r)
  PROVE  ReadInv'
<1>1. \A q \in Requests : q # r => req'[q] = req[q]
  BY RequestFacts DEF Reject, Goes
<1>2. TypeOK'
  BY RequestFacts, BoundsAssumption DEF Reject, Goes, ReadInv, TypeOK, Request, Pcs, Rows, Series
<1>3. Sound(r)'
  BY RequestFacts, BoundsAssumption DEF Reject, Goes, KeyOf, StoredOf, ReadInv, TypeOK, Sound,
     InsideLock, Fetching, Kline, Rows, CacheIsBacked
<1>4. \A s \in Series : db'[s] >= db[s]
  BY BoundsAssumption DEF Reject, ReadInv, TypeOK, Rows
<1>5. \A j \in Keys : lock'[j] = lock[j] \/ lock[j] = None \/ lock[j] = r
  BY DEF Reject, KeyOf, ReadInv, Sound, InsideLock, Fetching, TypeOK
<1>6. \A j \in Keys : cache'[j] = cache[j] \/ cache'[j] = None \/ cache'[j] <= db'[SeriesOf[j]]
  BY RequestFacts DEF Reject, KeyOf, StoredOf, ReadInv, TypeOK, Sound
<1> QED
  BY <1>1, <1>2, <1>3, <1>4, <1>5, <1>6, StepKeeps

\* A cache hit is answered before the database was read.
LEMMA ReadCacheKeeps ==
  ASSUME ReadInv, NEW r \in Requests, ReadCache(r)
  PROVE  ReadInv'
<1>1. \A q \in Requests : q # r => req'[q] = req[q]
  BY RequestFacts DEF ReadCache, Goes, Answers
<1>2. TypeOK'
  <2>1. req' \in [Requests -> Request]
    BY RequestFacts DEF ReadCache, Goes, Answers, Request, Pcs, KeyOf, ReadInv, TypeOK
  <2>2. faults' \in 0 .. MaxFaults
    BY FaultsTyped DEF ReadCache
  <2>3. /\ cache' = cache /\ db' = db /\ lock' = lock /\ fills' = fills
        /\ conns' \subseteq Requests
    BY DEF ReadCache, Answers, ReadInv, TypeOK
  <2> QED
    BY <2>1, <2>2, <2>3 DEF ReadInv, TypeOK
<1>3. Sound(r)'
  <2>1. \/ /\ req[r].pc = "cache"
           /\ cache[req[r].key] # None
           /\ req' = [req EXCEPT ![r].pc = "done", ![r].rows = cache[req[r].key]]
        \/ /\ req[r].pc = "cache"
           /\ req' = [req EXCEPT ![r].pc = "db"]
           /\ lock' = lock
    BY DEF ReadCache, Goes, Answers, KeyOf
  <2>2. db' = db
    BY DEF ReadCache
  <2>3. Sound(r) /\ req[r].key \in Keys
    BY <2>1, RequestFacts DEF ReadInv
  <2>4. cache[req[r].key] # None => cache[req[r].key] >= 0
    BY <2>3, BoundsAssumption DEF ReadInv, TypeOK, Rows
  <2>5. CASE /\ req[r].pc = "cache"
             /\ cache[req[r].key] # None
             /\ req' = [req EXCEPT ![r].pc = "done", ![r].rows = cache[req[r].key]]
    <3>1. /\ req'[r].pc = "done"
          /\ req'[r].rows = cache[req[r].key]
          /\ req'[r].got = req[r].got
          /\ req'[r].key = req[r].key
      BY <2>5, RequestFacts DEF Request
    <3> QED
      BY <2>2, <2>3, <2>4, <2>5, <3>1 DEF Sound, StoredOf, KeyOf, Kline, InsideLock, Fetching
  <2>6. CASE req[r].pc = "cache" /\ req' = [req EXCEPT ![r].pc = "db"] /\ lock' = lock
    <3>1. /\ req'[r].pc = "db"
          /\ req'[r].got = req[r].got
          /\ req'[r].key = req[r].key
      BY <2>6, RequestFacts DEF Request
    <3> QED
      BY <2>2, <2>3, <2>6, <3>1 DEF Sound, StoredOf, KeyOf, Kline, InsideLock, Fetching
  <2> QED
    BY <2>1, <2>5, <2>6
<1>4. \A s \in Series : db'[s] >= db[s]
  BY BoundsAssumption DEF ReadCache, ReadInv, TypeOK, Rows
<1>5. \A j \in Keys : lock'[j] = lock[j] \/ lock[j] = None \/ lock[j] = r
  BY DEF ReadCache, KeyOf, ReadInv, Sound, InsideLock, Fetching, TypeOK
<1>6. \A j \in Keys : cache'[j] = cache[j] \/ cache'[j] = None \/ cache'[j] <= db'[SeriesOf[j]]
  BY RequestFacts DEF ReadCache, KeyOf, StoredOf, ReadInv, TypeOK, Sound
<1> QED
  BY <1>1, <1>2, <1>3, <1>4, <1>5, <1>6, StepKeeps

\* What the database returns is what it stores.
LEMMA ReadDbKeeps ==
  ASSUME ReadInv, NEW r \in Requests, ReadDb(r)
  PROVE  ReadInv'
<1>1. \A q \in Requests : q # r => req'[q] = req[q]
  BY RequestFacts DEF ReadDb
<1>2. TypeOK'
  BY SMTT(30), RequestFacts, BoundsAssumption DEF ReadDb, KeyOf, StoredOf, ReadInv, TypeOK, Request, Pcs,
     Rows, Series
<1>3. Sound(r)'
  BY SMTT(30), RequestFacts, BoundsAssumption DEF ReadDb, KeyOf, StoredOf, ReadInv, TypeOK, Sound,
     InsideLock, Fetching, Kline, Rows, CacheIsBacked
<1>4. \A s \in Series : db'[s] >= db[s]
  BY BoundsAssumption DEF ReadDb, ReadInv, TypeOK, Rows
<1>5. \A j \in Keys : lock'[j] = lock[j] \/ lock[j] = None \/ lock[j] = r
  BY DEF ReadDb, KeyOf, ReadInv, Sound, InsideLock, Fetching, TypeOK
<1>6. \A j \in Keys : cache'[j] = cache[j] \/ cache'[j] = None \/ cache'[j] <= db'[SeriesOf[j]]
  BY RequestFacts DEF ReadDb, KeyOf, StoredOf, ReadInv, TypeOK, Sound
<1> QED
  BY <1>1, <1>2, <1>3, <1>4, <1>5, <1>6, StepKeeps

\* A request without a connection is given up.
LEMMA ReadDbTimesOutKeeps ==
  ASSUME ReadInv, NEW r \in Requests, ReadDbTimesOut(r)
  PROVE  ReadInv'
<1>1. \A q \in Requests : q # r => req'[q] = req[q]
  BY RequestFacts DEF ReadDbTimesOut, Goes
<1>2. TypeOK'
  BY RequestFacts, BoundsAssumption DEF ReadDbTimesOut, Goes, ReadInv, TypeOK, Request, Pcs, Rows,
     Series
<1>3. Sound(r)'
  BY RequestFacts, BoundsAssumption DEF ReadDbTimesOut, Goes, KeyOf, StoredOf, ReadInv, TypeOK,
     Sound, InsideLock, Fetching, Kline, Rows, CacheIsBacked
<1>4. \A s \in Series : db'[s] >= db[s]
  BY BoundsAssumption DEF ReadDbTimesOut, ReadInv, TypeOK, Rows
<1>5. \A j \in Keys : lock'[j] = lock[j] \/ lock[j] = None \/ lock[j] = r
  BY DEF ReadDbTimesOut, KeyOf, ReadInv, Sound, InsideLock, Fetching, TypeOK
<1>6. \A j \in Keys : cache'[j] = cache[j] \/ cache'[j] = None \/ cache'[j] <= db'[SeriesOf[j]]
  BY RequestFacts DEF ReadDbTimesOut, KeyOf, StoredOf, ReadInv, TypeOK, Sound
<1> QED
  BY <1>1, <1>2, <1>3, <1>4, <1>5, <1>6, StepKeeps

\* Rows read from the database may be cached: rows are never removed.
LEMMA WriteDbRowsKeeps ==
  ASSUME ReadInv, NEW r \in Requests, WriteDbRows(r)
  PROVE  ReadInv'
<1>1. \A q \in Requests : q # r => req'[q] = req[q]
  BY RequestFacts DEF WriteDbRows, Answers
<1>2. TypeOK'
  <2>1. req' \in [Requests -> Request]
    BY RequestFacts DEF WriteDbRows, Answers, Request, Pcs, KeyOf
  <2>2. /\ cache' \in [Keys -> Rows \union {None}]
        /\ lock' \in [Keys -> Requests \union {None}]
        /\ conns' \subseteq Requests
    BY RequestFacts DEF WriteDbRows, Answers, KeyOf, ReadInv, TypeOK
  <2>3. /\ db' \in [Series -> Rows]
        /\ fills' \in [Keys -> Nat]
    BY RequestFacts DEF WriteDbRows, KeyOf, ReadInv, TypeOK
  <2>4. faults' \in 0 .. MaxFaults
    BY FaultsTyped DEF WriteDbRows
  <2> QED
    BY <2>1, <2>2, <2>3, <2>4 DEF TypeOK
<1>3. Sound(r)'
  BY RequestFacts, BoundsAssumption DEF WriteDbRows, Answers, KeyOf, StoredOf, ReadInv, TypeOK,
     Sound, InsideLock, Fetching, Kline, Rows, CacheIsBacked
<1>4. \A s \in Series : db'[s] >= db[s]
  BY BoundsAssumption DEF WriteDbRows, ReadInv, TypeOK, Rows
<1>5. \A j \in Keys : lock'[j] = lock[j] \/ lock[j] = None \/ lock[j] = r
  BY DEF WriteDbRows, KeyOf, ReadInv, Sound, InsideLock, Fetching, TypeOK
<1>6. \A j \in Keys : cache'[j] = cache[j] \/ cache'[j] = None \/ cache'[j] <= db'[SeriesOf[j]]
  BY RequestFacts DEF WriteDbRows, KeyOf, StoredOf, ReadInv, TypeOK, Sound
<1> QED
  BY <1>1, <1>2, <1>3, <1>4, <1>5, <1>6, StepKeeps

\* The lock is only taken when it is free.
LEMMA EnterLockKeeps ==
  ASSUME ReadInv, NEW r \in Requests, EnterLock(r)
  PROVE  ReadInv'
<1>1. \A q \in Requests : q # r => req'[q] = req[q]
  BY RequestFacts DEF EnterLock, Goes
<1>2. TypeOK'
  BY RequestFacts, BoundsAssumption DEF EnterLock, Goes, KeyOf, ReadInv, TypeOK, Request, Pcs,
     Rows, Series
<1>3. Sound(r)'
  BY RequestFacts, BoundsAssumption DEF EnterLock, Goes, KeyOf, StoredOf, ReadInv, TypeOK, Sound,
     InsideLock, Fetching, Kline, Rows, CacheIsBacked
<1>4. \A s \in Series : db'[s] >= db[s]
  BY BoundsAssumption DEF EnterLock, ReadInv, TypeOK, Rows
<1>5. \A j \in Keys : lock'[j] = lock[j] \/ lock[j] = None \/ lock[j] = r
  BY DEF EnterLock, KeyOf, ReadInv, Sound, InsideLock, Fetching, TypeOK
<1>6. \A j \in Keys : cache'[j] = cache[j] \/ cache'[j] = None \/ cache'[j] <= db'[SeriesOf[j]]
  BY RequestFacts DEF EnterLock, KeyOf, StoredOf, ReadInv, TypeOK, Sound
<1> QED
  BY <1>1, <1>2, <1>3, <1>4, <1>5, <1>6, StepKeeps

\* Only K-line requests look into the cache again.
LEMMA RecheckKeeps ==
  ASSUME ReadInv, NEW r \in Requests, Recheck(r)
  PROVE  ReadInv'
<1>1. \A q \in Requests : q # r => req'[q] = req[q]
  BY RequestFacts DEF Recheck, Goes, Answers
<1>2. TypeOK'
  <2>1. req' \in [Requests -> Request]
    BY RequestFacts DEF Recheck, Goes, Answers, Request, Pcs, KeyOf
  <2>2. /\ cache' \in [Keys -> Rows \union {None}]
        /\ lock' \in [Keys -> Requests \union {None}]
        /\ conns' \subseteq Requests
    BY RequestFacts DEF Recheck, Goes, Answers, Unlock, KeyOf, ReadInv, TypeOK
  <2>3. /\ db' \in [Series -> Rows]
        /\ fills' \in [Keys -> Nat]
    BY RequestFacts DEF Recheck, KeyOf, ReadInv, TypeOK
  <2>4. faults' \in 0 .. MaxFaults
    BY FaultsTyped DEF Recheck
  <2> QED
    BY <2>1, <2>2, <2>3, <2>4 DEF TypeOK
<1>3. Sound(r)'
  <2>1. \/ /\ req[r].pc = "recheck"
           /\ cache[req[r].key] # None
           /\ req' = [req EXCEPT ![r].pc = "done", ![r].rows = cache[req[r].key]]
        \/ /\ req[r].pc = "recheck"
           /\ req' = [req EXCEPT ![r].pc = "remote"]
           /\ lock' = lock
    BY DEF Recheck, Goes, Answers, KeyOf
  <2>2. db' = db
    BY DEF Recheck
  <2>3. Sound(r) /\ req[r].key \in Keys
    BY <2>1, RequestFacts DEF ReadInv
  <2>4. cache[req[r].key] # None => cache[req[r].key] >= 0
    BY <2>3, BoundsAssumption DEF ReadInv, TypeOK, Rows
  <2>5. CASE /\ req[r].pc = "recheck"
             /\ cache[req[r].key] # None
             /\ req' = [req EXCEPT ![r].pc = "done", ![r].rows = cache[req[r].key]]
    <3>1. /\ req'[r].pc = "done"
          /\ req'[r].rows = cache[req[r].key]
          /\ req'[r].got = req[r].got
          /\ req'[r].key = req[r].key
      BY <2>5, RequestFacts DEF Request
    <3> QED
      BY <2>2, <2>3, <2>4, <2>5, <3>1 DEF Sound, StoredOf, KeyOf, Kline, InsideLock, Fetching
  <2>6. CASE req[r].pc = "recheck" /\ req' = [req EXCEPT ![r].pc = "remote"] /\ lock' = lock
    <3>1. /\ req'[r].pc = "remote"
          /\ req'[r].got = req[r].got
          /\ req'[r].key = req[r].key
      BY <2>6, RequestFacts DEF Request
    <3> QED
      BY <2>2, <2>3, <2>6, <3>1 DEF Sound, StoredOf, KeyOf, Kline, InsideLock, Fetching
  <2> QED
    BY <2>1, <2>5, <2>6
<1>4. \A s \in Series : db'[s] >= db[s]
  BY BoundsAssumption DEF Recheck, ReadInv, TypeOK, Rows
<1>5. \A j \in Keys : lock'[j] = lock[j] \/ lock[j] = None \/ lock[j] = r
  BY DEF Recheck, Unlock, KeyOf, ReadInv, Sound, InsideLock, Fetching, TypeOK
<1>6. \A j \in Keys : cache'[j] = cache[j] \/ cache'[j] = None \/ cache'[j] <= db'[SeriesOf[j]]
  BY RequestFacts DEF Recheck, KeyOf, StoredOf, ReadInv, TypeOK, Sound
<1> QED
  BY <1>1, <1>2, <1>3, <1>4, <1>5, <1>6, StepKeeps

\* A failed fetch changes nothing.
LEMMA RemoteFailsKeeps ==
  ASSUME ReadInv, NEW r \in Requests, RemoteFails(r)
  PROVE  ReadInv'
<1>1. \A q \in Requests : q # r => req'[q] = req[q]
  BY RequestFacts DEF RemoteFails, Goes
<1>2. TypeOK'
  BY RequestFacts, BoundsAssumption DEF RemoteFails, Goes, ReadInv, TypeOK, Request, Pcs, Rows,
     Series
<1>3. Sound(r)'
  BY RequestFacts, BoundsAssumption DEF RemoteFails, Goes, KeyOf, StoredOf, ReadInv, TypeOK,
     Sound, InsideLock, Fetching, Kline, Rows, CacheIsBacked
<1>4. \A s \in Series : db'[s] >= db[s]
  BY BoundsAssumption DEF RemoteFails, ReadInv, TypeOK, Rows
<1>5. \A j \in Keys : lock'[j] = lock[j] \/ lock[j] = None \/ lock[j] = r
  BY DEF RemoteFails, KeyOf, ReadInv, Sound, InsideLock, Fetching, TypeOK
<1>6. \A j \in Keys : cache'[j] = cache[j] \/ cache'[j] = None \/ cache'[j] <= db'[SeriesOf[j]]
  BY RequestFacts DEF RemoteFails, KeyOf, StoredOf, ReadInv, TypeOK, Sound
<1> QED
  BY <1>1, <1>2, <1>3, <1>4, <1>5, <1>6, StepKeeps

\* Fetched rows are not trusted before they are stored.
LEMMA RemoteReturnsKeeps ==
  ASSUME ReadInv, NEW r \in Requests, RemoteReturns(r)
  PROVE  ReadInv'
<1>1. \A q \in Requests : q # r => req'[q] = req[q]
  BY RequestFacts DEF RemoteReturns
<1>2. TypeOK'
  <2>1. req' \in [Requests -> Request]
    BY RequestFacts DEF RemoteReturns, Request, Pcs
  <2>2. /\ cache' \in [Keys -> Rows \union {None}]
        /\ lock' \in [Keys -> Requests \union {None}]
        /\ conns' \subseteq Requests
    BY RequestFacts DEF RemoteReturns, ReadInv, TypeOK
  <2>3. /\ db' \in [Series -> Rows]
        /\ fills' \in [Keys -> Nat]
        /\ faults' \in 0 .. MaxFaults
    BY RequestFacts DEF RemoteReturns, ReadInv, TypeOK
  <2> QED
    BY <2>1, <2>2, <2>3 DEF TypeOK
<1>3. Sound(r)'
  BY RequestFacts, BoundsAssumption DEF RemoteReturns, KeyOf, StoredOf, ReadInv, TypeOK, Sound,
     InsideLock, Fetching, Kline, Rows, CacheIsBacked
<1>4. \A s \in Series : db'[s] >= db[s]
  BY BoundsAssumption DEF RemoteReturns, ReadInv, TypeOK, Rows
<1>5. \A j \in Keys : lock'[j] = lock[j] \/ lock[j] = None \/ lock[j] = r
  BY DEF RemoteReturns, KeyOf, ReadInv, Sound, InsideLock, Fetching, TypeOK
<1>6. \A j \in Keys : cache'[j] = cache[j] \/ cache'[j] = None \/ cache'[j] <= db'[SeriesOf[j]]
  BY RequestFacts DEF RemoteReturns, KeyOf, StoredOf, ReadInv, TypeOK, Sound
<1> QED
  BY <1>1, <1>2, <1>3, <1>4, <1>5, <1>6, StepKeeps

\* The upsert's lookups change nothing.
LEMMA UpsertKeeps ==
  ASSUME ReadInv, NEW r \in Requests, Upsert(r)
  PROVE  ReadInv'
<1>1. \A q \in Requests : q # r => req'[q] = req[q]
  BY RequestFacts DEF Upsert
<1>2. TypeOK'
  <2>1. req' \in [Requests -> Request]
    BY RequestFacts DEF Upsert, Request, Pcs, KeyOf, StoredOf
  <2>2. /\ cache' \in [Keys -> Rows \union {None}]
        /\ lock' \in [Keys -> Requests \union {None}]
        /\ conns' \subseteq Requests
    BY RequestFacts DEF Upsert, KeyOf, ReadInv, TypeOK
  <2>3. /\ db' \in [Series -> Rows]
        /\ fills' \in [Keys -> Nat]
        /\ faults' \in 0 .. MaxFaults
    BY RequestFacts DEF Upsert, KeyOf, ReadInv, TypeOK
  <2> QED
    BY <2>1, <2>2, <2>3 DEF TypeOK
<1>3. Sound(r)'
  BY RequestFacts, BoundsAssumption DEF Upsert, KeyOf, StoredOf, ReadInv, TypeOK, Sound,
     InsideLock, Fetching, Kline, Rows, CacheIsBacked
<1>4. \A s \in Series : db'[s] >= db[s]
  BY BoundsAssumption DEF Upsert, ReadInv, TypeOK, Rows
<1>5. \A j \in Keys : lock'[j] = lock[j] \/ lock[j] = None \/ lock[j] = r
  BY DEF Upsert, KeyOf, ReadInv, Sound, InsideLock, Fetching, TypeOK
<1>6. \A j \in Keys : cache'[j] = cache[j] \/ cache'[j] = None \/ cache'[j] <= db'[SeriesOf[j]]
  BY RequestFacts DEF Upsert, KeyOf, StoredOf, ReadInv, TypeOK, Sound
<1> QED
  BY <1>1, <1>2, <1>3, <1>4, <1>5, <1>6, StepKeeps

\* Rows are only added, and stored before they are cached.
LEMMA CommitKeeps ==
  ASSUME ReadInv, NEW r \in Requests, Commit(r)
  PROVE  ReadInv'
<1>1. \A q \in Requests : q # r => req'[q] = req[q]
  BY RequestFacts DEF Commit
<1>2. TypeOK'
  BY RequestFacts, BoundsAssumption DEF Commit, KeyOf, ReadInv, TypeOK, Request, Pcs, Rows,
     Larger, Series
<1>3. Sound(r)'
  BY RequestFacts, BoundsAssumption DEF Commit, KeyOf, StoredOf, ReadInv, TypeOK, Sound,
     InsideLock, Fetching, Kline, Rows, Larger, CacheIsBacked
<1>4. \A s \in Series : db'[s] >= db[s]
  <2>1. /\ db' = [db EXCEPT ![SeriesOf[req[r].key]] = Larger(@, req[r].rows)]
        /\ req[r].rows \in Nat
    BY RequestFacts, BoundsAssumption DEF Commit, KeyOf, Rows
  <2>2. ASSUME NEW s \in Series
        PROVE  db[s] \in Nat /\ (db'[s] = db[s] \/ db'[s] = Larger(db[s], req[r].rows))
    BY <2>1, BoundsAssumption DEF ReadInv, TypeOK, Rows
  <2> QED
    BY <2>1, <2>2 DEF Larger
<1>5. \A j \in Keys : lock'[j] = lock[j] \/ lock[j] = None \/ lock[j] = r
  BY DEF Commit, KeyOf, ReadInv, Sound, InsideLock, Fetching, TypeOK
<1>6. \A j \in Keys : cache'[j] = cache[j] \/ cache'[j] = None \/ cache'[j] <= db'[SeriesOf[j]]
  BY RequestFacts DEF Commit, KeyOf, StoredOf, ReadInv, TypeOK, Sound
<1> QED
  BY <1>1, <1>2, <1>3, <1>4, <1>5, <1>6, StepKeeps

\* A conflict changes nothing in the database.
LEMMA CommitConflictsKeeps ==
  ASSUME ReadInv, NEW r \in Requests, CommitConflicts(r)
  PROVE  ReadInv'
<1>1. \A q \in Requests : q # r => req'[q] = req[q]
  BY RequestFacts DEF CommitConflicts
<1>2. TypeOK'
  <2>1. req' \in [Requests -> Request]
    <3>1. [req[r] EXCEPT !.pc = "fallback", !.broken = TRUE] \in Request
      BY ZenonT(40), RequestFacts DEF Request, Pcs
    <3> QED
      BY <3>1, RequestFacts DEF CommitConflicts
  <2>2. /\ cache' \in [Keys -> Rows \union {None}]
        /\ lock' \in [Keys -> Requests \union {None}]
        /\ conns' \subseteq Requests
    BY RequestFacts DEF CommitConflicts, ReadInv, TypeOK
  <2>3. /\ db' \in [Series -> Rows]
        /\ fills' \in [Keys -> Nat]
        /\ faults' \in 0 .. MaxFaults
    BY RequestFacts DEF CommitConflicts, ReadInv, TypeOK
  <2> QED
    BY <2>1, <2>2, <2>3 DEF TypeOK
<1>3. Sound(r)'
  BY RequestFacts, BoundsAssumption DEF CommitConflicts, KeyOf, StoredOf, ReadInv, TypeOK, Sound,
     InsideLock, Fetching, Kline, Rows, CacheIsBacked
<1>4. \A s \in Series : db'[s] >= db[s]
  BY BoundsAssumption DEF CommitConflicts, ReadInv, TypeOK, Rows
<1>5. \A j \in Keys : lock'[j] = lock[j] \/ lock[j] = None \/ lock[j] = r
  BY DEF CommitConflicts, KeyOf, ReadInv, Sound, InsideLock, Fetching, TypeOK
<1>6. \A j \in Keys : cache'[j] = cache[j] \/ cache'[j] = None \/ cache'[j] <= db'[SeriesOf[j]]
  BY RequestFacts DEF CommitConflicts, KeyOf, StoredOf, ReadInv, TypeOK, Sound
<1> QED
  BY <1>1, <1>2, <1>3, <1>4, <1>5, <1>6, StepKeeps

\* The rows read back are at least those of the first read.
LEMMA ReloadKeeps ==
  ASSUME ReadInv, NEW r \in Requests, Reload(r)
  PROVE  ReadInv'
<1>1. \A q \in Requests : q # r => req'[q] = req[q]
  BY RequestFacts DEF Reload
<1>2. TypeOK'
  <2>1. req' \in [Requests -> Request]
    BY RequestFacts DEF Reload, Request, Pcs, KeyOf, StoredOf
  <2>2. /\ cache' \in [Keys -> Rows \union {None}]
        /\ lock' \in [Keys -> Requests \union {None}]
        /\ conns' \subseteq Requests
    BY RequestFacts DEF Reload, KeyOf, ReadInv, TypeOK
  <2>3. /\ db' \in [Series -> Rows]
        /\ fills' \in [Keys -> Nat]
        /\ faults' \in 0 .. MaxFaults
    BY RequestFacts DEF Reload, KeyOf, ReadInv, TypeOK
  <2> QED
    BY <2>1, <2>2, <2>3 DEF TypeOK
<1>3. Sound(r)'
  BY RequestFacts, BoundsAssumption DEF Reload, KeyOf, StoredOf, ReadInv, TypeOK, Sound,
     InsideLock, Fetching, Kline, Rows, CacheIsBacked
<1>4. \A s \in Series : db'[s] >= db[s]
  BY BoundsAssumption DEF Reload, ReadInv, TypeOK, Rows
<1>5. \A j \in Keys : lock'[j] = lock[j] \/ lock[j] = None \/ lock[j] = r
  BY DEF Reload, KeyOf, ReadInv, Sound, InsideLock, Fetching, TypeOK
<1>6. \A j \in Keys : cache'[j] = cache[j] \/ cache'[j] = None \/ cache'[j] <= db'[SeriesOf[j]]
  BY RequestFacts DEF Reload, KeyOf, StoredOf, ReadInv, TypeOK, Sound
<1> QED
  BY <1>1, <1>2, <1>3, <1>4, <1>5, <1>6, StepKeeps

\* Without a connection the rows of the first read remain.
LEMMA ReloadTimesOutKeeps ==
  ASSUME ReadInv, NEW r \in Requests, ReloadTimesOut(r)
  PROVE  ReadInv'
<1>1. \A q \in Requests : q # r => req'[q] = req[q]
  BY RequestFacts DEF ReloadTimesOut, Goes
<1>2. TypeOK'
  BY RequestFacts, BoundsAssumption DEF ReloadTimesOut, Goes, ReadInv, TypeOK, Request, Pcs, Rows,
     Series
<1>3. Sound(r)'
  BY RequestFacts, BoundsAssumption DEF ReloadTimesOut, Goes, KeyOf, StoredOf, ReadInv, TypeOK,
     Sound, InsideLock, Fetching, Kline, Rows, CacheIsBacked
<1>4. \A s \in Series : db'[s] >= db[s]
  BY BoundsAssumption DEF ReloadTimesOut, ReadInv, TypeOK, Rows
<1>5. \A j \in Keys : lock'[j] = lock[j] \/ lock[j] = None \/ lock[j] = r
  BY DEF ReloadTimesOut, KeyOf, ReadInv, Sound, InsideLock, Fetching, TypeOK
<1>6. \A j \in Keys : cache'[j] = cache[j] \/ cache'[j] = None \/ cache'[j] <= db'[SeriesOf[j]]
  BY RequestFacts DEF ReloadTimesOut, KeyOf, StoredOf, ReadInv, TypeOK, Sound
<1> QED
  BY <1>1, <1>2, <1>3, <1>4, <1>5, <1>6, StepKeeps

\* The rows cached are stored rows.
LEMMA WriteRowsKeeps ==
  ASSUME ReadInv, NEW r \in Requests, WriteRows(r)
  PROVE  ReadInv'
<1>1. \A q \in Requests : q # r => req'[q] = req[q]
  BY RequestFacts DEF WriteRows, Answers
<1>2. TypeOK'
  <2>1. req' \in [Requests -> Request]
    BY RequestFacts DEF WriteRows, Answers, Request, Pcs, KeyOf
  <2>2. /\ cache' \in [Keys -> Rows \union {None}]
        /\ lock' \in [Keys -> Requests \union {None}]
        /\ conns' \subseteq Requests
    BY RequestFacts DEF WriteRows, Answers, Unlock, KeyOf, ReadInv, TypeOK
  <2>3. /\ db' \in [Series -> Rows]
        /\ fills' \in [Keys -> Nat]
    BY RequestFacts DEF WriteRows, KeyOf, ReadInv, TypeOK
  <2>4. faults' \in 0 .. MaxFaults
    BY FaultsTyped DEF WriteRows
  <2> QED
    BY <2>1, <2>2, <2>3, <2>4 DEF TypeOK
<1>3. Sound(r)'
  BY RequestFacts, BoundsAssumption DEF WriteRows, Answers, Unlock, KeyOf, StoredOf, ReadInv,
     TypeOK, Sound, InsideLock, Fetching, Kline, Rows, CacheIsBacked
<1>4. \A s \in Series : db'[s] >= db[s]
  BY BoundsAssumption DEF WriteRows, ReadInv, TypeOK, Rows
<1>5. \A j \in Keys : lock'[j] = lock[j] \/ lock[j] = None \/ lock[j] = r
  BY DEF WriteRows, Unlock, KeyOf, ReadInv, Sound, InsideLock, Fetching, TypeOK
<1>6. \A j \in Keys : cache'[j] = cache[j] \/ cache'[j] = None \/ cache'[j] <= db'[SeriesOf[j]]
  BY RequestFacts DEF WriteRows, KeyOf, StoredOf, ReadInv, TypeOK, Sound
<1> QED
  BY <1>1, <1>2, <1>3, <1>4, <1>5, <1>6, StepKeeps

\* Reference data falls back to the rows of the first read.
LEMMA FallbackKeeps ==
  ASSUME ReadInv, NEW r \in Requests, Fallback(r)
  PROVE  ReadInv'
<1>1. \A q \in Requests : q # r => req'[q] = req[q]
  BY RequestFacts DEF Fallback, Goes, Answers
<1>2. TypeOK'
  <2>1. req[r] \in Request /\ req[r].got \in Rows
    BY RequestFacts DEF Request
  <2>2. req' \in [Requests -> Request]
    <3>1. \/ \E n \in Rows : req' = [req EXCEPT ![r].pc = "done", ![r].rows = n]
          \/ req' = [req EXCEPT ![r].pc = "error"]
      BY <2>1 DEF Fallback, Goes, Answers
    <3> QED
      BY <2>1, <3>1 DEF ReadInv, TypeOK, Request, Pcs
  <2>3. /\ lock' \in [Keys -> Requests \union {None}]
        /\ conns' \subseteq Requests
    BY RequestFacts DEF Fallback, Answers, Unlock, KeyOf, ReadInv, TypeOK
  <2>4. UNCHANGED <<cache, db, fills, faults>>
    BY DEF Fallback
  <2> QED
    BY <2>2, <2>3, <2>4 DEF ReadInv, TypeOK
<1>3. Sound(r)'
  <2>1. /\ req[r].pc = "fallback"
        /\ \/ req' = [req EXCEPT ![r].pc = "done", ![r].rows = req[r].got]
           \/ /\ KindOf[req[r].key] = "daily"
              /\ \E n \in Rows : req' = [req EXCEPT ![r].pc = "done", ![r].rows = n]
           \/ req' = [req EXCEPT ![r].pc = "error"]
    BY DEF Fallback, Goes, Answers, KeyOf
  <2>2. /\ req'[r].got = req[r].got
        /\ req'[r].key = req[r].key
        /\ \/ req'[r].pc = "done" /\ req'[r].rows = req[r].got
           \/ req'[r].pc = "done" /\ KindOf[req[r].key] = "daily"
           \/ req'[r].pc = "error"
    BY <2>1, RequestFacts DEF Request
  <2>3. db' = db
    BY DEF Fallback
  <2>4. Sound(r) /\ req[r].got \in Nat
    BY RequestFacts, BoundsAssumption DEF ReadInv, Rows
  <2> QED
    BY <2>1, <2>2, <2>3, <2>4 DEF Sound, StoredOf, KeyOf, Kline, InsideLock, Fetching
<1>4. \A s \in Series : db'[s] >= db[s]
  BY BoundsAssumption DEF Fallback, ReadInv, TypeOK, Rows
<1>5. \A j \in Keys : lock'[j] = lock[j] \/ lock[j] = None \/ lock[j] = r
  BY DEF Fallback, Unlock, KeyOf, ReadInv, Sound, InsideLock, Fetching, TypeOK
<1>6. \A j \in Keys : cache'[j] = cache[j] \/ cache'[j] = None \/ cache'[j] <= db'[SeriesOf[j]]
  BY RequestFacts DEF Fallback, KeyOf, StoredOf, ReadInv, TypeOK, Sound
<1> QED
  BY <1>1, <1>2, <1>3, <1>4, <1>5, <1>6, StepKeeps

\* An entry that is gone shows nothing.
LEMMA CacheExpiresKeeps ==
  ASSUME ReadInv, NEW k \in Keys, CacheExpires(k)
  PROVE  ReadInv'
<1>1. TypeOK'
  BY DEF CacheExpires, ReadInv, TypeOK
<1>2. CacheIsBacked'
  BY DEF CacheExpires, ReadInv, TypeOK, CacheIsBacked
<1>3. ASSUME NEW r \in Requests PROVE Sound(r)'
  BY DEF CacheExpires, ReadInv, Sound, StoredOf, KeyOf, Kline
<1> QED
  BY <1>1, <1>2, <1>3 DEF ReadInv

\* After a restart every request in progress is lost, and with it what it held.
LEMMA CrashKeeps ==
  ASSUME ReadInv, Crash
  PROVE  ReadInv'
<1>1. ASSUME NEW r \in Requests
      PROVE  /\ req'[r] \in Request
             /\ req'[r].pc \in {"idle", "done", "error"}
             /\ req'[r].pc \in {"idle", "done"} => req'[r] = req[r]
  BY RequestFacts DEF Crash, Request, Pcs
<1>2. TypeOK'
  <2>1. req' \in [Requests -> Request]
    BY <1>1 DEF Crash
  <2> QED
    BY <2>1, BoundsAssumption DEF Crash, ReadInv, TypeOK
<1>3. CacheIsBacked'
  BY DEF Crash, ReadInv, CacheIsBacked
<1>4. ASSUME NEW r \in Requests PROVE Sound(r)'
  BY <1>1 DEF Crash, ReadInv, Sound, StoredOf, KeyOf, Kline, InsideLock, Fetching
<1> QED
  BY <1>2, <1>3, <1>4 DEF ReadInv

LEMMA ReadInvInductive == ReadInv /\ [Next]_vars => ReadInv'
<1> SUFFICES ASSUME ReadInv, [Next]_vars PROVE ReadInv'
  OBVIOUS
<1>1. ASSUME NEW r \in Requests, Step(r) PROVE ReadInv'
  BY <1>1, ReadCacheKeeps, ReadDbKeeps, ReadDbTimesOutKeeps, WriteDbRowsKeeps, EnterLockKeeps,
     RecheckKeeps, RemoteFailsKeeps, RemoteReturnsKeeps, UpsertKeeps, CommitKeeps,
     CommitConflictsKeeps, ReloadKeeps, ReloadTimesOutKeeps, WriteRowsKeeps, FallbackKeeps
     DEF Step
<1>2. ASSUME NEW r \in Requests, Reject(r) PROVE ReadInv'
  BY <1>2, RejectKeeps
<1>3. ASSUME NEW r \in Requests, NEW k \in Keys, FindStock(r, k) PROVE ReadInv'
  BY <1>3, FindStockKeeps
<1>4. ASSUME NEW k \in Keys, CacheExpires(k) PROVE ReadInv'
  BY <1>4, CacheExpiresKeeps
<1>5. ASSUME Crash PROVE ReadInv'
  BY <1>5, CrashKeeps
<1>6. ASSUME UNCHANGED vars PROVE ReadInv'
  BY <1>6 DEF vars, ReadInv, TypeOK, CacheIsBacked, Sound, StoredOf, KeyOf, Kline
<1> QED
  BY <1>1, <1>2, <1>3, <1>4, <1>5, <1>6 DEF Next, Quiet

LEMMA ReadInvHolds == Spec => []ReadInv
<1> QED
  BY InitReadInv, ReadInvInductive, PTL DEF Spec

\* Every variable keeps to its type.
THEOREM TypeCorrect == Spec => []TypeOK
<1>1. ReadInv => TypeOK
  BY DEF ReadInv
<1> QED
  BY <1>1, ReadInvHolds, PTL

\* What Redis shows is in the database, across failures and restarts.
THEOREM CachedRowsAreStored == Spec => []CacheIsBacked
<1>1. ReadInv => CacheIsBacked
  BY DEF ReadInv
<1> QED
  BY <1>1, ReadInvHolds, PTL

\* A key is fetched by one request at a time.
THEOREM SingleFlight == Spec => []OneFetchAtATime
<1>1. ReadInv => OneFetchAtATime
  BY DEF ReadInv, Sound, InsideLock, OneFetchAtATime, KeyOf
<1> QED
  BY <1>1, ReadInvHolds, PTL

\* No failure after the first read makes a reference-data answer poorer than that read.
THEOREM AnswersKeepStored == Spec => []AnswerKeepsStored
<1>1. ReadInv => AnswerKeepsStored
  BY DEF ReadInv, Sound, AnswerKeepsStored, KeyOf
<1> QED
  BY <1>1, ReadInvHolds, PTL

-----------------------------------------------------------------------------
(***************************************************************************)
(* How often a K-line key is fetched while its entry lives.  A fetch goes  *)
(* on from the second look into the cache only if the entry is missing, in *)
(* which case nothing was filled, or if that look failed, which is counted.*)
(***************************************************************************)

FillsInv ==
  \A k \in Keys : Kline(k) =>
    /\ fills[k] <= 1 + faults
    /\ cache[k] = None => fills[k] = 0
    /\ \A r \in Requests : req[r].pc \in Fetching /\ req[r].key = k => fills[k] <= faults

LEMMA InitFills == Init => FillsInv
BY DEF Init, FillsInv, Idle, Fetching

LEMMA CountsTyped ==
  ASSUME ReadInv
  PROVE  faults \in Nat /\ \A k \in Keys : fills[k] \in Nat
BY BoundsAssumption DEF ReadInv, TypeOK

\* Where nothing is filled, no entry goes and a request that starts to fetch may.
LEMMA FillsStep ==
  ASSUME ReadInv, FillsInv, UNCHANGED fills, faults' \in {faults, faults + 1},
         \A k \in Keys : cache'[k] = None => cache[k] = None,
         \A r \in Requests : req'[r].pc \in Fetching /\ Kline(req'[r].key) =>
           \/ req[r].pc \in Fetching /\ req'[r].key = req[r].key
           \/ fills[req'[r].key] <= faults'
  PROVE  FillsInv'
<1>1. faults \in Nat /\ \A k \in Keys : fills[k] \in Nat
  BY CountsTyped
<1>2. ASSUME NEW k \in Keys, Kline(k)
      PROVE  /\ fills'[k] <= 1 + faults'
             /\ cache'[k] = None => fills'[k] = 0
  BY <1>1, <1>2 DEF FillsInv
<1>3. ASSUME NEW k \in Keys, Kline(k), NEW r \in Requests, req'[r].pc \in Fetching, req'[r].key = k
      PROVE  fills'[k] <= faults'
  <2>1. CASE req[r].pc \in Fetching /\ req[r].key = k
    BY <1>1, <1>3, <2>1 DEF FillsInv
  <2> QED
    BY <1>3, <2>1
<1> QED
  BY <1>2, <1>3 DEF FillsInv, Kline

\* A request changes alone, and keeps its key unless it is new.
LEMMA StepsAlone ==
  ASSUME ReadInv, NEW r \in Requests, Step(r)
  PROVE  \A q \in Requests : q # r => req'[q] = req[q]
<1>1. req \in [Requests -> Request]
  BY DEF ReadInv, TypeOK
<1>2. \E n : req' = [req EXCEPT ![r] = n]
  <2>1. CASE ReadCache(r) \/ ReadDb(r) \/ ReadDbTimesOut(r) \/ WriteDbRows(r)
    BY <2>1, <1>1 DEF ReadCache, ReadDb, ReadDbTimesOut, WriteDbRows, Goes, Answers
  <2>2. CASE EnterLock(r) \/ Recheck(r) \/ RemoteFails(r) \/ RemoteReturns(r) \/ Upsert(r)
    BY <2>2, <1>1 DEF EnterLock, Recheck, RemoteFails, RemoteReturns, Upsert, Goes, Answers
  <2>3. CASE Commit(r) \/ CommitConflicts(r) \/ Reload(r) \/ ReloadTimesOut(r) \/ WriteRows(r)
    BY <2>3, <1>1 DEF Commit, CommitConflicts, Reload, ReloadTimesOut, WriteRows, Goes, Answers
  <2>4. CASE Fallback(r)
    BY <2>4, <1>1 DEF Fallback, Goes, Answers
  <2> QED
    BY <2>1, <2>2, <2>3, <2>4 DEF Step
<1> QED
  BY <1>1, <1>2

\* The steps before and after a fetch, and the fetch itself up to the write.
LEMMA QuietFills ==
  ASSUME ReadInv, FillsInv, NEW r \in Requests,
         \/ ReadCache(r) \/ ReadDb(r) \/ ReadDbTimesOut(r) \/ WriteDbRows(r) \/ EnterLock(r)
         \/ RemoteFails(r) \/ RemoteReturns(r) \/ Upsert(r) \/ Commit(r) \/ CommitConflicts(r)
         \/ Reload(r) \/ ReloadTimesOut(r) \/ Fallback(r)
  PROVE  FillsInv'
<1>1. /\ req[r] \in Request /\ req \in [Requests -> Request]
      /\ req[r].got \in Rows /\ None \notin Rows
  BY RequestFacts, NoneAssumption
<1>2. \A q \in Requests : q # r => req'[q] = req[q]
  BY StepsAlone DEF Step
<1>3. UNCHANGED fills /\ faults' \in {faults, faults + 1}
  BY DEF ReadCache, ReadDb, ReadDbTimesOut, WriteDbRows, EnterLock, RemoteFails, RemoteReturns,
     Upsert, Commit, CommitConflicts, Reload, ReloadTimesOut, Fallback, RedisFails
<1>4. \A k \in Keys : cache'[k] = None => cache[k] = None
  <2>1. CASE WriteDbRows(r)
    BY <2>1, <1>1 DEF WriteDbRows, ReadInv, TypeOK
  <2> QED
    BY <2>1 DEF ReadCache, ReadDb, ReadDbTimesOut, EnterLock, RemoteFails, RemoteReturns,
       Upsert, Commit, CommitConflicts, Reload, ReloadTimesOut, Fallback
<1>5. ASSUME req'[r].pc \in Fetching, Kline(req'[r].key)
      PROVE  req[r].pc \in Fetching /\ req'[r].key = req[r].key
  <2>1. CASE ReadCache(r) \/ ReadDb(r) \/ ReadDbTimesOut(r) \/ WriteDbRows(r)
    BY <2>1, <1>1, <1>5 DEF ReadCache, ReadDb, ReadDbTimesOut, WriteDbRows, Goes, Answers,
       Request, Fetching
  <2>2. CASE EnterLock(r)
    BY <2>2, <1>1, <1>5 DEF EnterLock, Goes, Request, Fetching, KeyOf
  <2>3. CASE RemoteFails(r) \/ RemoteReturns(r) \/ Upsert(r) \/ Commit(r) \/ CommitConflicts(r)
    BY <2>3, <1>1, <1>5 DEF RemoteFails, RemoteReturns, Upsert, Commit, CommitConflicts, Goes,
       Request, Fetching
  <2>4. CASE Reload(r) \/ ReloadTimesOut(r) \/ Fallback(r)
    BY <2>4, <1>1, <1>5 DEF Reload, ReloadTimesOut, Fallback, Goes, Answers, Request, Fetching
  <2> QED
    BY <2>1, <2>2, <2>3, <2>4
<1> QED
  BY <1>2, <1>3, <1>4, <1>5, FillsStep

\* The second look: an entry is missing, or the look failed.
LEMMA RecheckFills ==
  ASSUME ReadInv, FillsInv, NEW r \in Requests, Recheck(r)
  PROVE  FillsInv'
<1>1. /\ req[r] \in Request /\ req \in [Requests -> Request]
      /\ req[r].pc = "recheck" => req[r].key \in Keys
  BY RequestFacts
<1>2. \A q \in Requests : q # r => req'[q] = req[q]
  BY StepsAlone DEF Step
<1>3. UNCHANGED <<fills, cache>> /\ faults' \in {faults, faults + 1}
  BY DEF Recheck, RedisFails
<1>4. ASSUME req'[r].pc \in Fetching, Kline(req'[r].key)
      PROVE  fills[req'[r].key] <= faults'
  <2>1. /\ Goes(r, "recheck", "remote")
        /\ (cache[KeyOf(r)] = None /\ UNCHANGED faults) \/ RedisFails
    BY <1>1, <1>4 DEF Recheck, Answers, Request, Fetching
  <2>2. req'[r].key = req[r].key /\ req[r].key \in Keys
    BY <1>1, <2>1 DEF Goes, Request
  <2>3. faults \in Nat /\ fills[req[r].key] \in Nat
    BY <2>2, CountsTyped
  <2>4. /\ fills[req[r].key] <= 1 + faults
        /\ cache[req[r].key] = None => fills[req[r].key] = 0
    BY <1>4, <2>2 DEF FillsInv
  <2> QED
    BY <2>1, <2>2, <2>3, <2>4 DEF RedisFails, KeyOf
<1> QED
  BY <1>2, <1>3, <1>4, FillsStep

\* The write counts one fill more, and whoever else fetches has another key.
LEMMA WriteRowsFills ==
  ASSUME ReadInv, FillsInv, NEW r \in Requests, WriteRows(r)
  PROVE  FillsInv'
<1>1. /\ req[r].pc = "write"
      /\ req[r] \in Request /\ req \in [Requests -> Request]
      /\ req[r].key \in Keys /\ req[r].rows \in Rows /\ None \notin Rows
  BY RequestFacts, NoneAssumption DEF WriteRows
<1>2. /\ req'[r].pc = "done"
      /\ \A q \in Requests : q # r => req'[q] = req[q]
  BY <1>1 DEF WriteRows, Answers, Request
<1>3. CASE RedisFails /\ UNCHANGED <<cache, fills>>
  <2>1. faults' \in {faults, faults + 1}
    BY <1>3 DEF RedisFails
  <2>2. \A q \in Requests : req'[q].pc \in Fetching =>
          req[q].pc \in Fetching /\ req'[q].key = req[q].key
    BY <1>2 DEF Fetching
  <2> QED
    BY <1>3, <2>1, <2>2, FillsStep
<1>4. CASE /\ cache' = [cache EXCEPT ![KeyOf(r)] = req[r].rows]
           /\ fills' = [fills EXCEPT ![KeyOf(r)] = @ + 1]
           /\ UNCHANGED faults
  <2>1. faults \in Nat /\ \A k \in Keys : fills[k] \in Nat
    BY CountsTyped
  <2>2. /\ cache \in [Keys -> Rows \union {None}]
        /\ fills \in [Keys -> Nat]
    BY DEF ReadInv, TypeOK
  <2>3. ASSUME NEW k \in Keys, Kline(k), k # req[r].key
        PROVE  /\ fills'[k] <= 1 + faults'
               /\ cache'[k] = None => fills'[k] = 0
               /\ \A q \in Requests : req'[q].pc \in Fetching /\ req'[q].key = k
                                        => fills'[k] <= faults'
    <3>1. fills'[k] = fills[k] /\ cache'[k] = cache[k]
      BY <1>4, <2>2, <2>3 DEF KeyOf
    <3>2. \A q \in Requests : req'[q].pc \in Fetching => req'[q] = req[q]
      BY <1>2 DEF Fetching
    <3> QED
      BY <1>4, <2>3, <3>1, <3>2 DEF FillsInv
  <2>4. ASSUME Kline(req[r].key)
        PROVE  /\ fills'[req[r].key] <= 1 + faults'
               /\ cache'[req[r].key] # None
               /\ \A q \in Requests : req'[q].pc \in Fetching => req'[q].key # req[r].key
    <3>1. /\ fills'[req[r].key] = fills[req[r].key] + 1
          /\ cache'[req[r].key] = req[r].rows
      BY <1>1, <1>4, <2>2 DEF KeyOf
    <3>2. fills[req[r].key] <= faults
      BY <1>1, <2>4 DEF FillsInv, Fetching
    <3>3. ASSUME NEW q \in Requests, req'[q].pc \in Fetching
          PROVE  req'[q].key # req[r].key
      <4>1. q # r /\ req'[q] = req[q]
        BY <1>2, <3>3 DEF Fetching
      <4>2. Sound(q) /\ Sound(r)
        BY DEF ReadInv
      <4> QED
        BY <1>1, <3>3, <4>1, <4>2 DEF Sound, InsideLock, Fetching
    <3> QED
      BY <1>1, <1>4, <2>1, <3>1, <3>2, <3>3
  <2> QED
    BY <2>3, <2>4 DEF FillsInv, Kline
<1> QED
  BY <1>3, <1>4 DEF WriteRows

LEMMA FillsInductive == ReadInv /\ FillsInv /\ [Next]_vars => FillsInv'
<1> SUFFICES ASSUME ReadInv, FillsInv, [Next]_vars PROVE FillsInv'
  OBVIOUS
<1>1. ASSUME NEW r \in Requests, Step(r) PROVE FillsInv'
  BY <1>1, QuietFills, RecheckFills, WriteRowsFills DEF Step
<1>2. ASSUME NEW r \in Requests, Reject(r) \/ \E k \in Keys : FindStock(r, k) PROVE FillsInv'
  <2>1. req \in [Requests -> Request]
    BY DEF ReadInv, TypeOK
  <2>2. UNCHANGED <<fills, faults, cache>>
    BY <1>2 DEF Reject, FindStock
  <2>3. \A q \in Requests : req'[q].pc \in Fetching => req'[q] = req[q]
    <3>1. CASE Reject(r)
      BY <3>1, <2>1 DEF Reject, Goes, Request, Fetching
    <3>2. ASSUME NEW k \in Keys, FindStock(r, k)
          PROVE  \A q \in Requests : req'[q].pc \in Fetching => req'[q] = req[q]
      BY <3>2, <2>1 DEF FindStock, Request, Fetching
    <3> QED
      BY <1>2, <3>1, <3>2
  <2> QED
    BY <2>2, <2>3, FillsStep
<1>3. ASSUME NEW k \in Keys, CacheExpires(k) PROVE FillsInv'
  <2>1. faults \in Nat /\ \A j \in Keys : fills[j] \in Nat
    BY CountsTyped
  <2>2. /\ cache \in [Keys -> Rows \union {None}]
        /\ fills \in [Keys -> Nat]
        /\ UNCHANGED <<faults, req>>
    BY <1>3 DEF CacheExpires, ReadInv, TypeOK
  <2>3. \A j \in Keys : \/ fills'[j] = 0
                        \/ fills'[j] = fills[j] /\ cache'[j] = cache[j]
    BY <1>3, <2>2 DEF CacheExpires
  <2> QED
    BY <2>1, <2>2, <2>3 DEF FillsInv, Kline
<1>4. ASSUME Crash PROVE FillsInv'
  <2>1. UNCHANGED <<fills, cache>> /\ faults' \in {faults, faults + 1}
    BY <1>4 DEF Crash
  <2>2. \A q \in Requests : req'[q].pc \notin Fetching
    BY <1>4 DEF Crash, ReadInv, TypeOK, Request, Fetching
  <2> QED
    BY <2>1, <2>2, FillsStep
<1>5. ASSUME UNCHANGED vars PROVE FillsInv'
  BY <1>5, FillsStep DEF vars
<1> QED
  BY <1>1, <1>2, <1>3, <1>4, <1>5 DEF Next, Quiet

\* While an entry lives its K-line key is fetched once, and once more for each Redis call
\* that failed: those who waited for the lock find what the holder stored.
THEOREM KlineOnce == Spec => []KlineFetchedOnce
<1>1. Init => ReadInv /\ FillsInv
  BY InitReadInv, InitFills
<1>2. ReadInv /\ FillsInv /\ [Next]_vars => ReadInv' /\ FillsInv'
  BY ReadInvInductive, FillsInductive
<1>3. FillsInv => KlineFetchedOnce
  BY DEF FillsInv, KlineFetchedOnce
<1> QED
  BY <1>1, <1>2, <1>3, PTL DEF Spec

-----------------------------------------------------------------------------
(***************************************************************************)
(* Who waits for whom.  The other half of Sound: not only has whoever is   *)
(* inside the lock got it, a lock that is taken has somebody inside, on    *)
(* every way out of it.                                                    *)
(***************************************************************************)

LockIsHeld == \A k \in Keys : lock[k] # None => req[lock[k]].pc \in InsideLock /\ KeyOf(lock[k]) = k

\* A step outside the lock, or from one place inside it to another, leaves the lock alone.
LEMMA MoveHeld ==
  ASSUME ReadInv, LockIsHeld, UNCHANGED lock,
         \A r \in Requests : req[r].pc \in InsideLock =>
            req'[r].pc \in InsideLock /\ req'[r].key = req[r].key
  PROVE  LockIsHeld'
<1> SUFFICES ASSUME NEW k \in Keys, lock'[k] # None
             PROVE  req'[lock'[k]].pc \in InsideLock /\ req'[lock'[k]].key = k
  BY DEF LockIsHeld, KeyOf
<1> QED
  BY DEF LockIsHeld, KeyOf, ReadInv, TypeOK

\* A request that leaves gives back the one lock it holds.
LEMMA LeaveHeld ==
  ASSUME ReadInv, LockIsHeld, NEW r \in Requests, req[r].pc \in InsideLock, Unlock(r),
         \A q \in Requests \ {r} : req'[q] = req[q]
  PROVE  LockIsHeld'
<1> SUFFICES ASSUME NEW k \in Keys, lock'[k] # None
             PROVE  req'[lock'[k]].pc \in InsideLock /\ req'[lock'[k]].key = k
  BY DEF LockIsHeld, KeyOf
<1>1. lock \in [Keys -> Requests \union {None}]
  BY DEF ReadInv, TypeOK
<1>2. k # KeyOf(r) /\ lock'[k] = lock[k]
  BY <1>1 DEF Unlock
<1>3. lock[k] \in Requests /\ lock[k] # r
  BY <1>1, <1>2 DEF LockIsHeld
<1> QED
  BY <1>2, <1>3 DEF LockIsHeld, KeyOf

LEMMA StepHeld ==
  ASSUME ReadInv, LockIsHeld, NEW r \in Requests, Step(r)
  PROVE  LockIsHeld'
<1>1. req \in [Requests -> Request]
  BY DEF ReadInv, TypeOK
<1>2. CASE ReadCache(r)
  BY <1>1, <1>2, MoveHeld DEF ReadCache, Goes, Answers, InsideLock, Fetching
<1>3. CASE ReadDb(r)
  BY <1>1, <1>3, MoveHeld DEF ReadDb, InsideLock, Fetching
<1>4. CASE ReadDbTimesOut(r)
  BY <1>1, <1>4, MoveHeld DEF ReadDbTimesOut, Goes, InsideLock, Fetching
<1>5. CASE WriteDbRows(r)
  BY <1>1, <1>5, MoveHeld DEF WriteDbRows, Answers, InsideLock, Fetching
<1>6. CASE EnterLock(r)
  <2>1. lock \in [Keys -> Requests \union {None}] /\ None \notin Requests
    BY NoneAssumption DEF ReadInv, TypeOK
  <2>2. /\ req'[r].pc \in InsideLock /\ req'[r].key = req[r].key
        /\ \A q \in Requests \ {r} : req'[q] = req[q]
    BY <1>1, <1>6 DEF EnterLock, Goes, InsideLock, Fetching, Request
  <2>3. \A k \in Keys : lock[k] # r
    BY <1>6, NoneAssumption DEF EnterLock, LockIsHeld, InsideLock, Fetching
  <2>4. lock' = [lock EXCEPT ![KeyOf(r)] = r]
    BY <1>6 DEF EnterLock
  <2> SUFFICES ASSUME NEW k \in Keys, lock'[k] # None
               PROVE  req'[lock'[k]].pc \in InsideLock /\ req'[lock'[k]].key = k
    BY DEF LockIsHeld, KeyOf
  <2>5. CASE k = KeyOf(r)
    BY <2>1, <2>2, <2>4, <2>5 DEF KeyOf
  <2>6. CASE k # KeyOf(r)
    BY <2>1, <2>2, <2>3, <2>4, <2>6 DEF KeyOf, LockIsHeld
  <2> QED
    BY <2>5, <2>6
<1>7. CASE Recheck(r)
  <2>1. CASE Goes(r, "recheck", "remote") /\ UNCHANGED lock
    BY <1>1, <2>1, MoveHeld DEF Goes, InsideLock, Fetching
  <2>2. CASE req[r].pc = "recheck" /\ Answers(r, cache[KeyOf(r)]) /\ Unlock(r)
    BY <1>1, <2>2, LeaveHeld DEF Answers, InsideLock
  <2> QED
    BY <1>7, <2>1, <2>2 DEF Recheck
<1>8. CASE RemoteFails(r) \/ RemoteReturns(r) \/ Upsert(r)
  BY <1>1, <1>8, MoveHeld DEF RemoteFails, RemoteReturns, Upsert, Goes, InsideLock, Fetching, Request
<1>9. CASE Commit(r) \/ CommitConflicts(r)
  BY <1>1, <1>9, MoveHeld DEF Commit, CommitConflicts, InsideLock, Fetching, Request
<1>10. CASE Reload(r) \/ ReloadTimesOut(r)
  BY <1>1, <1>10, MoveHeld DEF Reload, ReloadTimesOut, Goes, InsideLock, Fetching, Request
<1>11. CASE WriteRows(r)
  BY <1>1, <1>11, LeaveHeld DEF WriteRows, Answers, InsideLock, Fetching, Request
<1>12. CASE Fallback(r)
  BY <1>1, <1>12, LeaveHeld DEF Fallback, Answers, Goes, InsideLock, Fetching
<1> QED
  BY <1>2, <1>3, <1>4, <1>5, <1>6, <1>7, <1>8, <1>9, <1>10, <1>11, <1>12 DEF Step

LEMMA LockIsHeldInductive == ReadInv /\ LockIsHeld /\ [Next]_vars => LockIsHeld'
<1> SUFFICES ASSUME ReadInv, LockIsHeld, [Next]_vars
             PROVE  LockIsHeld'
  OBVIOUS
<1>1. req \in [Requests -> Request]
  BY DEF ReadInv, TypeOK
<1>2. ASSUME NEW r \in Requests, Step(r)
      PROVE  LockIsHeld'
  BY <1>2, StepHeld
<1>3. ASSUME NEW r \in Requests, Reject(r)
      PROVE  LockIsHeld'
  BY <1>1, <1>3, MoveHeld DEF Reject, Goes, InsideLock, Fetching
<1>4. ASSUME NEW r \in Requests, NEW k \in Keys, FindStock(r, k)
      PROVE  LockIsHeld'
  BY <1>1, <1>4, MoveHeld DEF FindStock, InsideLock, Fetching
<1>5. ASSUME NEW k \in Keys, CacheExpires(k)
      PROVE  LockIsHeld'
  BY <1>5, MoveHeld DEF CacheExpires
<1>6. CASE Crash
  BY <1>6 DEF Crash, LockIsHeld
<1>7. CASE UNCHANGED vars
  BY <1>7, MoveHeld DEF vars
<1> QED
  BY <1>2, <1>3, <1>4, <1>5, <1>6, <1>7 DEF Next, Quiet

\* Of the requests in flight not all wait for a lock: a lock is held by a request in
\* flight, which is past waiting, until that request leaves or the process ends.
THEOREM NotAllWait == Spec => []SomeoneIsFree
<1>1. Init => LockIsHeld
  BY DEF Init, LockIsHeld
<1>2. Spec => []LockIsHeld
  BY <1>1, ReadInvHolds, LockIsHeldInductive, PTL DEF Spec
<1>3. ReadInv /\ LockIsHeld => SomeoneIsFree
  <2> SUFFICES ASSUME ReadInv, LockIsHeld, NEW r \in InFlight, WaitsForLock(r)
               PROVE  \E q \in InFlight : ~WaitsForLock(q)
    BY DEF SomeoneIsFree
  <2>1. KeyOf(r) \in Keys
    BY DEF ReadInv, Sound, InFlight, KeyOf
  <2>2. lock[KeyOf(r)] \in Requests
    BY <2>1 DEF WaitsForLock, ReadInv, TypeOK
  <2>3. req[lock[KeyOf(r)]].pc \in InsideLock
    BY <2>1 DEF WaitsForLock, LockIsHeld
  <2>4. lock[KeyOf(r)] \in InFlight /\ ~WaitsForLock(lock[KeyOf(r)])
    BY <2>2, <2>3 DEF InFlight, InsideLock, Fetching, WaitsForLock
  <2> QED
    BY <2>4
<1> QED
  BY <1>2, <1>3, ReadInvHolds, PTL

\* The places of a request in the order it passes them.
Place == [pc \in Pcs |->
  CASE pc = "idle" -> 0 [] pc = "cache" -> 1 [] pc = "db" -> 2 [] pc \in {"writeDb", "wait"} -> 3
    [] pc = "recheck" -> 4 [] pc = "remote" -> 5 [] pc = "upsert" -> 6 [] pc = "commit" -> 7
    [] pc = "reload" -> 8 [] pc = "write" -> 9 [] pc = "fallback" -> 10
    [] pc \in {"done", "error"} -> 11]

GoesOn(r) == req'[r] # req[r] => Place[req[r].pc] < Place[req'[r].pc]

LEMMA PlaceIs ==
  /\ Place["idle"] = 0 /\ Place["cache"] = 1 /\ Place["db"] = 2 /\ Place["writeDb"] = 3
  /\ Place["wait"] = 3 /\ Place["recheck"] = 4 /\ Place["remote"] = 5 /\ Place["upsert"] = 6
  /\ Place["commit"] = 7 /\ Place["reload"] = 8 /\ Place["write"] = 9 /\ Place["fallback"] = 10
  /\ Place["done"] = 11 /\ Place["error"] = 11
BY DEF Place, Pcs

LEMMA StepGoesOn ==
  ASSUME TypeOK, NEW r \in Requests, Step(r)
  PROVE  /\ Place[req[r].pc] < Place[req'[r].pc]
         /\ \A q \in Requests \ {r} : req'[q] = req[q]
<1>1. req \in [Requests -> Request]
  BY DEF TypeOK
<1>2. CASE ReadCache(r)
  BY <1>1, <1>2, PlaceIs DEF ReadCache, Goes, Answers, Request
<1>3. CASE ReadDb(r)
  BY <1>1, <1>3, PlaceIs DEF ReadDb, Request
<1>4. CASE ReadDbTimesOut(r)
  BY <1>1, <1>4, PlaceIs DEF ReadDbTimesOut, Goes, Request
<1>5. CASE WriteDbRows(r)
  BY <1>1, <1>5, PlaceIs DEF WriteDbRows, Answers, Request
<1>6. CASE EnterLock(r)
  BY <1>1, <1>6, PlaceIs DEF EnterLock, Goes, Request
<1>7. CASE Recheck(r)
  BY <1>1, <1>7, PlaceIs DEF Recheck, Goes, Answers, Request
<1>8. CASE RemoteFails(r) \/ RemoteReturns(r) \/ Upsert(r)
  BY <1>1, <1>8, PlaceIs DEF RemoteFails, RemoteReturns, Upsert, Goes, Request
<1>9. CASE Commit(r) \/ CommitConflicts(r)
  BY <1>1, <1>9, PlaceIs DEF Commit, CommitConflicts, Request
<1>10. CASE Reload(r) \/ ReloadTimesOut(r)
  BY <1>1, <1>10, PlaceIs DEF Reload, ReloadTimesOut, Goes, Request
<1>11. CASE WriteRows(r)
  BY <1>1, <1>11, PlaceIs DEF WriteRows, Answers, Request
<1>12. CASE Fallback(r)
  BY <1>1, <1>12, PlaceIs DEF Fallback, Answers, Goes, Request
<1> QED
  BY <1>2, <1>3, <1>4, <1>5, <1>6, <1>7, <1>8, <1>9, <1>10, <1>11, <1>12 DEF Step

\* No request ever goes back: it moves only to a later place, whatever fails and whoever
\* restarts.  A request therefore ends after at most eleven steps of its own, and by
\* NotAllWait one of those in flight always has the next.
THEOREM NobodyGoesBack == Spec => [][\A r \in Requests : GoesOn(r)]_vars
<1>1. ASSUME TypeOK, [Next]_vars
      PROVE  [\A r \in Requests : GoesOn(r)]_vars
  <2>1. req \in [Requests -> Request]
    BY <1>1 DEF TypeOK
  <2>2. ASSUME NEW r \in Requests, Step(r) PROVE \A q \in Requests : GoesOn(q)
    BY <1>1, <2>2, StepGoesOn DEF GoesOn
  <2>3. ASSUME NEW r \in Requests, Reject(r) PROVE \A q \in Requests : GoesOn(q)
    BY <2>1, <2>3, PlaceIs DEF Reject, Goes, GoesOn, Request
  <2>4. ASSUME NEW r \in Requests, NEW k \in Keys, FindStock(r, k)
        PROVE  \A q \in Requests : GoesOn(q)
    BY <2>1, <2>4, PlaceIs DEF FindStock, GoesOn, Request
  <2>5. ASSUME NEW k \in Keys, CacheExpires(k) PROVE \A q \in Requests : GoesOn(q)
    BY <2>5 DEF CacheExpires, GoesOn
  <2>6. CASE Crash
    <3> SUFFICES ASSUME NEW q \in Requests, req'[q] # req[q]
                 PROVE  Place[req[q].pc] < Place[req'[q].pc]
      BY DEF GoesOn
    <3>1. req[q].pc \notin {"idle", "done", "error"} /\ req'[q] = [req[q] EXCEPT !.pc = "error"]
      BY <2>6 DEF Crash
    <3>2. req'[q].pc = "error" /\ req[q].pc \in Pcs
      BY <2>1, <3>1 DEF Request
    <3> QED
      BY <3>1, <3>2, PlaceIs DEF Pcs
  <2> QED
    BY <1>1, <2>2, <2>3, <2>4, <2>5, <2>6 DEF Next, Quiet
<1> QED
  BY <1>1, TypeCorrect, PTL DEF Spec

=============================================================================
