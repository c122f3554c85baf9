-------------------------- MODULE NewsCacheProofs --------------------------
(***************************************************************************)
(* What readers of the news cache can see, for every set of requests and   *)
(* keys, every window, with Redis failing at will and the watchlist worker *)
(* writing batches of its own: only rows of completed batches, under a     *)
(* version that names one; and, one key at a time, a version that never    *)
(* moves back.                                                             *)
(*                                                                         *)
(* The inductive invariant says of each request where its rows and its     *)
(* batch come from (Sound).  Batches are appended and a running one is     *)
(* finalized by the request that started it, so what is completed stays    *)
(* completed (Grown): StepKeeps draws the conclusion once for all steps.   *)
(***************************************************************************)
EXTENDS NewsCache, SequenceTheorems, WellFoundedInduction, TLAPS

\* The rows a reader may see: of a completed batch, or from before there were batches.
Stored == Completed \union Unbatched
Shown  == Stored \union {0}

Holding == {"fetch", "remote", "bump", "reload", "fallback"}

RunningBatch(r) ==
  /\ req[r].batch \in DOMAIN batches
  /\ batches[req[r].batch].status = "running"
  /\ \A q \in Requests : req[q].pc = "remote" /\ q # r => req[q].batch # req[r].batch

Sound(r) ==
  /\ req[r].pc \notin {"idle", "error"} => req[r].key \in Keys
  /\ req[r].got \in Shown
  /\ req[r].pc \in {"writeVersion", "write", "done"} => req[r].rows \in Shown
  /\ req[r].pc \in Holding => lock[req[r].key] = r
  /\ req[r].pc = "remote" => RunningBatch(r)
  /\ req[r].pc = "bump" => req[r].batch \in Completed

NewsInv ==
  /\ TypeOK
  /\ \A e \in Keys \X Versions : cache[e] \in Shown \union {None}
  /\ VersionIsCommitted
  /\ \A r \in Requests : Sound(r)

-----------------------------------------------------------------------------
(***************************************************************************)
(* The latest batch of a status exists: a set of naturals has a least        *)
(* element, first of the ages, then of the distances to the last number.   *)
(***************************************************************************)

Less == {p \in Nat \X Nat : p[1] < p[2]}

LEMMA LessIs == Less = OpToRel(<, Nat)
  BY DEF Less, OpToRel

LEMMA InLess == ASSUME NEW m \in Nat, NEW n \in Nat, m < n PROVE <<m, n>> \in Less
  BY DEF Less

LEMMA LeastNat ==
  ASSUME NEW T, T \subseteq Nat, T # {}
  PROVE  \E x \in T : \A y \in T : x <= y
<1>1. IsWellFoundedOn(Less, Nat)
  BY LessIs, NatLessThanWellFounded
<1>2. PICK x \in T : \A y \in T : ~(<<y, x>> \in Less)
  BY <1>1, WFMin
<1>3. ASSUME NEW y \in T PROVE x <= y
  <2>1. x \in Nat /\ y \in Nat /\ (y < x => <<y, x>> \in Less)
    BY InLess
  <2>2. <<y, x>> \notin Less
    BY <1>2
  <2> QED
    BY <2>1, <2>2, SMT
<1> QED
  BY <1>3

LEMMA BatchFacts ==
  ASSUME TypeOK
  PROVE  /\ Len(batches) \in Nat
         /\ DOMAIN batches = 1 .. Len(batches)
         /\ \A b \in DOMAIN batches : batches[b] \in Batch /\ batches[b].at \in 0 .. MaxClock
         /\ \A b \in Stored : b \in DOMAIN batches /\ b # 0
         /\ \A b \in Completed : b \in DOMAIN batches /\ b # 0
         /\ MaxClock \in Nat
<1>1. MaxClock \in Nat
  BY BoundsAssumption
<1>2. batches \in Seq(Batch)
  BY DEF TypeOK
<1>3. Len(batches) \in Nat /\ DOMAIN batches = 1 .. Len(batches)
  BY <1>2
<1>4. ASSUME NEW b \in DOMAIN batches
      PROVE  batches[b] \in Batch /\ batches[b].at \in 0 .. MaxClock
  <2>1. batches[b] \in Batch
    BY <1>2, <1>3
  <2> QED
    BY <2>1 DEF Batch, Ticks
<1>5. /\ \A b \in Stored : b \in DOMAIN batches /\ b # 0
      /\ \A b \in Completed : b \in DOMAIN batches /\ b # 0
  BY <1>3 DEF Stored, Completed, Unbatched
<1> QED
  BY <1>1, <1>3, <1>4, <1>5

LEMMA NewestExists ==
  ASSUME TypeOK, NEW some \in SUBSET DOMAIN batches, some # {}
  PROVE  Newest(some) \in some /\ \A c \in some : NotOlder(Newest(some), c)
<1> DEFINE ages == {MaxClock - batches[b].at : b \in some}
<1>1. \E x \in ages : \A y \in ages : x <= y
  <2>1. ages \subseteq Nat /\ ages # {}
    BY BatchFacts
  <2> QED
    BY <2>1, LeastNat
<1>2. PICK m \in some : \A c \in some : batches[m].at >= batches[c].at
  <2>1. PICK m \in some :
          \A c \in some : MaxClock - batches[m].at <= MaxClock - batches[c].at
    BY <1>1
  <2>2. ASSUME NEW c \in some PROVE batches[m].at >= batches[c].at
    BY <2>1, BatchFacts
  <2> QED
    BY <2>2
<1> DEFINE newest == {b \in some : batches[b].at = batches[m].at}
           gaps == {Len(batches) - b : b \in newest}
<1>3. \E x \in gaps : \A y \in gaps : x <= y
  <2>1. gaps \subseteq Nat /\ gaps # {}
    BY BatchFacts, <1>2
  <2> QED
    BY <2>1, LeastNat
<1>4. PICK n \in newest : \A c \in newest : n >= c
  <2>1. PICK n \in newest : \A c \in newest : Len(batches) - n <= Len(batches) - c
    BY <1>3
  <2>2. ASSUME NEW c \in newest PROVE n >= c
    BY <2>1, BatchFacts
  <2> QED
    BY <2>2
<1>5. ASSUME NEW c \in some PROVE NotOlder(n, c)
  <2>1. batches[n].at = batches[m].at /\ batches[m].at >= batches[c].at
    BY <1>2
  <2>2. batches[n].at = batches[c].at => c \in newest
    BY <2>1
  <2> QED
    BY <2>1, <2>2, <1>4, BatchFacts DEF NotOlder
<1> QED
  BY <1>4, <1>5 DEF Newest

\* load_cached_news_rows returns rows of a completed batch or of none, or no rows.
LEMMA LatestShown == TypeOK => Latest \in Shown
<1> SUFFICES ASSUME TypeOK PROVE Latest \in Shown
  OBVIOUS
<1>1. Completed \subseteq DOMAIN batches /\ Unbatched \subseteq DOMAIN batches
  BY DEF Completed, Unbatched
<1> QED
  BY <1>1, NewestExists DEF Latest, Shown, Stored

-----------------------------------------------------------------------------
LEMMA InitNewsInv == Init => NewsInv
<1> SUFFICES ASSUME Init PROVE NewsInv
  OBVIOUS
<1>1. batches \in Seq(Batch)
  <2>1. 0 \in Ticks
    BY BoundsAssumption DEF Ticks
  <2>2. ASSUME NEW t \in TopicSets, NEW u \in {"completed", "unbatched"}
        PROVE  [at |-> 0, status |-> u, topics |-> t] \in Batch
    BY <2>1 DEF TopicSets, Batch, Statuses
  <2>3. ASSUME NEW b \in Batch PROVE <<b>> \in Seq(Batch)
    OBVIOUS
  <2>4. <<>> \in Seq(Batch)
    OBVIOUS
  <2>5. \/ batches = <<>>
        \/ \E t \in TopicSets, u \in {"completed", "unbatched"} :
             batches = <<[at |-> 0, status |-> u, topics |-> t]>>
    BY DEF Init
  <2> QED
    BY <2>2, <2>3, <2>4, <2>5
<1>2. 0 \in Numbers /\ 0 \in Ticks
  BY <1>1, BoundsAssumption DEF Numbers, Ticks
<1>3. Idle \in Request
  BY <1>2 DEF Idle, Request, Pcs, Versions
<1>4. TypeOK
  <2>1. /\ clock \in Ticks
        /\ version \in Versions
        /\ faults \in 0 .. MaxFaults
        /\ lock \in [Keys -> Requests \union {None}]
        /\ cache \in [Keys \X Versions -> Numbers \union {None}]
    BY <1>2, BoundsAssumption DEF Init, Versions
  <2>2. req \in [Requests -> Request]
    BY <1>3 DEF Init
  <2> QED
    BY <1>1, <2>1, <2>2 DEF TypeOK
<1>5. \A e \in Keys \X Versions : cache[e] \in Shown \union {None}
  BY DEF Init
<1>6. VersionIsCommitted
  BY DEF Init, VersionIsCommitted
<1>7. ASSUME NEW r \in Requests PROVE Sound(r)
  BY DEF Init, Idle, Sound, Shown, Holding
<1> QED
  BY <1>4, <1>5, <1>6, <1>7 DEF NewsInv

-----------------------------------------------------------------------------
\* Batches are appended, keep their time, and stay completed once they are.
Grown ==
  /\ batches' \in Seq(Batch)
  /\ Len(batches') >= Len(batches)
  /\ \A b \in DOMAIN batches : /\ b \in DOMAIN batches'
                               /\ batches'[b].at = batches[b].at
                               /\ b \in Completed => b \in Completed'
                               /\ b \in Unbatched => b \in Unbatched'

\* Nobody else's running batch is touched.
KeepsRunning(r) ==
  \A b \in DOMAIN batches :
    /\ batches[b].status = "running"
    /\ r \in Requests => ~(req[r].pc = "remote" /\ req[r].batch = b)
    => batches'[b].status = "running"

LEMMA Unchanged_Grown ==
  ASSUME TypeOK, UNCHANGED batches
  PROVE  Grown /\ \A r : KeepsRunning(r)
<1>1. Len(batches) \in Nat /\ batches \in Seq(Batch)
  BY BatchFacts DEF TypeOK
<1> QED
  BY <1>1 DEF Grown, KeepsRunning, Completed, Unbatched

LEMMA NewBatch_Grown ==
  ASSUME TypeOK, NEW at \in Ticks, NEW status \in Statuses, NEW topics \in SUBSET Keys,
         NewBatch(at, status, topics)
  PROVE  /\ Grown
         /\ \A r : KeepsRunning(r)
         /\ Len(batches') = Len(batches) + 1
         /\ batches'[Len(batches) + 1] = [at |-> at, status |-> status, topics |-> topics]
         /\ \A b \in DOMAIN batches' :
               b # Len(batches) + 1 => b \in DOMAIN batches /\ batches'[b] = batches[b]
<1> DEFINE new == [at |-> at, status |-> status, topics |-> topics]
<1>1. new \in Batch
  BY DEF Batch
<1>2. batches \in Seq(Batch) /\ batches' = Append(batches, new)
  BY DEF TypeOK, NewBatch
<1> HIDE DEF new
<1>3. /\ batches' \in Seq(Batch)
      /\ Len(batches') = Len(batches) + 1
      /\ batches'[Len(batches) + 1] = new
      /\ \A b \in 1 .. Len(batches) : batches'[b] = batches[b]
  BY <1>1, <1>2
<1>4. DOMAIN batches = 1 .. Len(batches) /\ DOMAIN batches' = 1 .. Len(batches')
      /\ Len(batches) \in Nat
  BY <1>2, <1>3
<1>5. \A b \in DOMAIN batches : b \in DOMAIN batches' /\ batches'[b] = batches[b]
  BY <1>3, <1>4
<1>6. Len(batches') >= Len(batches)
  BY <1>3, <1>4
<1>7. Grown
  BY <1>3, <1>5, <1>6 DEF Grown, Completed, Unbatched
<1>8. \A r : KeepsRunning(r)
  BY <1>5 DEF KeepsRunning
<1>9. \A b \in DOMAIN batches' :
         b # Len(batches) + 1 => b \in DOMAIN batches /\ batches'[b] = batches[b]
  BY <1>3, <1>4
<1>10. batches'[Len(batches) + 1] = [at |-> at, status |-> status, topics |-> topics]
  BY <1>3 DEF new
<1> QED
  BY <1>3, <1>7, <1>8, <1>9, <1>10

LEMMA Commits_Grown ==
  ASSUME NewsInv, NEW r \in Requests, req[r].pc = "remote",
         NEW status \in Statuses, NEW topics \in SUBSET Keys, Commits(r, status, topics)
  PROVE  /\ Grown
         /\ KeepsRunning(r)
         /\ req[r].batch \in DOMAIN batches'
         /\ batches'[req[r].batch].status = status
         /\ batches'[req[r].batch].topics = topics
         /\ \A b \in DOMAIN batches' :
               b # req[r].batch => b \in DOMAIN batches /\ batches'[b] = batches[b]
         /\ DOMAIN batches' = DOMAIN batches
<1>1. TypeOK /\ req[r].batch \in DOMAIN batches /\ batches[req[r].batch].status = "running"
  BY DEF NewsInv, Sound, RunningBatch
<1>2. /\ batches \in Seq(Batch)
      /\ Len(batches) \in Nat
      /\ DOMAIN batches = 1 .. Len(batches)
      /\ batches[req[r].batch] \in Batch
  BY <1>1, BatchFacts DEF TypeOK
<1> DEFINE new == [batches[req[r].batch] EXCEPT !.status = status, !.topics = topics]
<1>3. /\ new \in Batch
      /\ new.at = batches[req[r].batch].at
      /\ new.status = status
      /\ new.topics = topics
  BY <1>2 DEF Batch
<1>4. batches' = [batches EXCEPT ![req[r].batch] = new]
  BY <1>1, <1>2 DEF Commits, Batch
<1> HIDE DEF new
<1>5. /\ batches' \in Seq(Batch)
      /\ Len(batches') = Len(batches)
      /\ DOMAIN batches' = DOMAIN batches
  BY <1>1, <1>2, <1>3, <1>4, ExceptSeq
<1>6. /\ batches'[req[r].batch] = new
      /\ \A b \in DOMAIN batches : b # req[r].batch => batches'[b] = batches[b]
  BY <1>1, <1>4
<1>7. Grown
  BY <1>1, <1>2, <1>3, <1>5, <1>6 DEF Grown, Completed, Unbatched
<1>8. KeepsRunning(r)
  BY <1>6 DEF KeepsRunning
<1>9. /\ req[r].batch \in DOMAIN batches'
      /\ batches'[req[r].batch].status = status
      /\ batches'[req[r].batch].topics = topics
  BY <1>1, <1>3, <1>5, <1>6
<1>10. \A b \in DOMAIN batches' :
          b # req[r].batch => b \in DOMAIN batches /\ batches'[b] = batches[b]
  BY <1>5, <1>6
<1> QED
  BY <1>5, <1>7, <1>8, <1>9, <1>10

-----------------------------------------------------------------------------
\* Batch numbers only gain meaning.
LEMMA NumbersGrow ==
  ASSUME NewsInv, Grown
  PROVE  /\ Shown \subseteq Shown'
         /\ Shown' \subseteq Numbers'
         /\ Numbers \subseteq Numbers'
         /\ \A n \in Request : n \in Request'
<1>1. TypeOK /\ Len(batches) \in Nat /\ DOMAIN batches = 1 .. Len(batches)
  BY BatchFacts DEF NewsInv
<1>2. /\ Len(batches') \in Nat
      /\ DOMAIN batches' = 1 .. Len(batches')
      /\ Len(batches') >= Len(batches)
  BY DEF Grown
<1>3. Shown \subseteq Shown'
  BY DEF Shown, Stored, Grown, Completed, Unbatched
<1>4. Shown' \subseteq Numbers'
  BY <1>2 DEF Shown, Stored, Numbers, Completed, Unbatched
<1>5. Numbers \subseteq Numbers'
  BY <1>1, <1>2 DEF Numbers
<1>6. \A n \in Request : n \in Request'
  BY <1>5 DEF Request
<1> QED
  BY <1>3, <1>4, <1>5, <1>6

\* Where a step leaves the other requests and what is completed alone.
LEMMA StepKeeps ==
  ASSUME NewsInv, NEW r, Grown, KeepsRunning(r),
         clock' \in Ticks, faults' \in 0 .. MaxFaults,
         \/ version' \in {version, None}
         \/ \E b \in Completed' : batches'[b].at = version',
         cache' \in [Keys \X Versions -> Shown' \union {None}],
         lock' \in [Keys -> Requests \union {None}],
         \A k \in Keys : lock'[k] = lock[k] \/ lock[k] = None \/ lock[k] = r,
         req' \in [Requests -> Request'],
         \A q \in Requests : q # r => req'[q] = req[q],
         r \in Requests => Sound(r)'
  PROVE  NewsInv'
<1>1. /\ TypeOK
      /\ VersionIsCommitted
      /\ \A q \in Requests : Sound(q)
  BY DEF NewsInv
<1>2. /\ \A b \in DOMAIN batches : b \in DOMAIN batches' /\ batches'[b].at = batches[b].at
      /\ Completed \subseteq Completed'
      /\ Completed \subseteq DOMAIN batches
  BY DEF Grown, Completed, Unbatched
<1>3. VersionIsCommitted'
  BY <1>1, <1>2 DEF VersionIsCommitted
<1>4. version' \in Versions
  <2>1. ASSUME NEW b \in Completed' PROVE batches'[b].at \in Ticks
    <3>1. batches' \in Seq(Batch) /\ b \in DOMAIN batches'
      BY DEF Grown, Completed, Unbatched
    <3>2. batches'[b] \in Batch
      BY <3>1
    <3> QED
      BY <3>2 DEF Batch
  <2> QED
    BY <1>1, <2>1 DEF TypeOK, Versions
<1>5. TypeOK'
  <2>1. batches' \in Seq(Batch)
    BY DEF Grown
  <2>2. cache' \in [Keys \X Versions -> Numbers' \union {None}]
    BY NumbersGrow
  <2> QED
    BY <1>4, <2>1, <2>2 DEF TypeOK
<1>6. ASSUME NEW q \in Requests, q # r PROVE Sound(q)'
  <2>1. Sound(q) /\ req'[q] = req[q]
    BY <1>1, <1>6
  <2>2. req[q].got \in Shown' /\ (req[q].rows \in Shown => req[q].rows \in Shown')
    BY <2>1, NumbersGrow DEF Sound
  <2>3. ASSUME req[q].pc \in Holding PROVE lock'[req[q].key] = q
    <3>1. q # None /\ req[q].key \in Keys /\ lock[req[q].key] = q
      BY <2>1, <2>3, NoneAssumption DEF Sound, Holding
    <3> QED
      BY <3>1, <1>6
  <2>4. ASSUME req[q].pc = "remote" PROVE RunningBatch(q)'
    <3>1. /\ req[q].batch \in DOMAIN batches
          /\ batches[req[q].batch].status = "running"
          /\ \A p \in Requests : req[p].pc = "remote" /\ p # q => req[p].batch # req[q].batch
      BY <2>1, <2>4 DEF Sound, RunningBatch
    <3>2. batches'[req[q].batch].status = "running" /\ req[q].batch \in DOMAIN batches'
      BY <3>1, <1>2, <1>6 DEF KeepsRunning
    <3>3. ASSUME NEW p \in Requests, req'[p].pc = "remote", p # q
          PROVE  req'[p].batch # req'[q].batch
      <4>1. ASSUME p = r PROVE req'[r].batch # req'[q].batch
        BY <4>1, <3>3, <2>1, <2>4, <1>6 DEF Sound, RunningBatch
      <4>2. ASSUME p # r PROVE req'[p].batch # req'[q].batch
        BY <4>2, <3>1, <3>3, <2>1
      <4> QED
        BY <4>1, <4>2
    <3> QED
      BY <2>1, <3>2, <3>3 DEF RunningBatch
  <2>5. req[q].pc = "bump" => req[q].batch \in Completed'
    BY <2>1, <1>2 DEF Sound
  <2> QED
    BY <2>1, <2>2, <2>3, <2>4, <2>5 DEF Sound
<1>7. \A q \in Requests : Sound(q)'
  BY <1>6
<1> QED
  BY <1>3, <1>5, <1>7 DEF NewsInv

\* Most steps of a request touch nothing but the request and its lock.
LEMMA QuietStepKeeps ==
  ASSUME NewsInv, NEW r \in Requests,
         UNCHANGED <<clock, batches, version, cache, faults>>,
         lock' \in [Keys -> Requests \union {None}],
         \A k \in Keys : lock'[k] = lock[k] \/ lock[k] = None \/ lock[k] = r,
         req' \in [Requests -> Request],
         \A q \in Requests : q # r => req'[q] = req[q],
         Sound(r)'
  PROVE  NewsInv'
<1>1. TypeOK
  BY DEF NewsInv
<1>2. Grown /\ KeepsRunning(r)
  BY <1>1, Unchanged_Grown
<1>3. req' \in [Requests -> Request']
  BY <1>2, NumbersGrow
<1>4. cache' \in [Keys \X Versions -> Shown' \union {None}]
  <2>1. cache \in [Keys \X Versions -> Shown \union {None}]
    BY <1>1 DEF NewsInv, TypeOK
  <2> QED
    BY <2>1, <1>2, NumbersGrow
<1>5. clock' \in Ticks /\ faults' \in 0 .. MaxFaults
  BY <1>1 DEF TypeOK
<1> QED
  BY <1>2, <1>3, <1>4, <1>5, StepKeeps

-----------------------------------------------------------------------------
\* What is known of a request in progress.
LEMMA RequestFacts ==
  ASSUME NewsInv, NEW r \in Requests
  PROVE  /\ TypeOK
         /\ req \in [Requests -> Request]
         /\ req[r] \in Request
         /\ Sound(r)
         /\ lock \in [Keys -> Requests \union {None}]
         /\ r # None
BY NoneAssumption DEF NewsInv, TypeOK

\* A new request has seen nothing yet.
LEMMA AskKeeps ==
  ASSUME NewsInv, NEW r \in Requests, NEW k \in Keys, Ask(r, k)
  PROVE  NewsInv'
<1>1. req' \in [Requests -> Request] /\ \A q \in Requests : q # r => req'[q] = req[q]
  BY SMTT(30), RequestFacts DEF Ask, Request, Pcs, TypeOK
<1>2. Sound(r)'
  BY RequestFacts DEF Ask, Sound, Holding, Request, Shown, Stored, Completed, Unbatched
<1> QED
  BY <1>1, <1>2, RequestFacts, QuietStepKeeps DEF Ask

LEMMA RejectKeeps ==
  ASSUME NewsInv, NEW r \in Requests, Reject(r)
  PROVE  NewsInv'
<1>1. req' \in [Requests -> Request] /\ \A q \in Requests : q # r => req'[q] = req[q]
  BY RequestFacts DEF Reject, Goes, Request, Pcs
<1>2. Sound(r)'
  BY RequestFacts DEF Reject, Goes, Sound, Holding, Request, Shown, Stored, Completed, Unbatched
<1> QED
  BY <1>1, <1>2, RequestFacts, QuietStepKeeps DEF Reject

LEMMA ReadVersionKeeps ==
  ASSUME NewsInv, NEW r \in Requests, ReadVersion(r)
  PROVE  NewsInv'
<1>1. VersionSeen \subseteq Versions
  BY RequestFacts DEF VersionSeen, TypeOK, Versions
<1>2. req' \in [Requests -> Request] /\ \A q \in Requests : q # r => req'[q] = req[q]
  BY <1>1, RequestFacts DEF ReadVersion, Request, Pcs
<1>3. Sound(r)'
  BY RequestFacts DEF ReadVersion, Sound, Holding, Request, Shown, Stored, Completed, Unbatched
<1> QED
  BY <1>2, <1>3, RequestFacts, QuietStepKeeps DEF ReadVersion

\* A hit answers what the entry holds.
LEMMA ReadEntryKeeps ==
  ASSUME NewsInv, NEW r \in Requests, ReadEntry(r)
  PROVE  NewsInv'
<1>1. Shown \subseteq Numbers
  BY RequestFacts, BatchFacts DEF Shown, Stored, Numbers, Completed, Unbatched
<1>2. CASE /\ req[r].pc = "entry"
           /\ cache[Entry(r)] # None
           /\ Ends(r, "done", cache[Entry(r)])
           /\ UNCHANGED <<clock, batches, version, cache, faults>>
  <2>1. Entry(r) \in Keys \X Versions
    BY <1>2, RequestFacts DEF Entry, KeyOf, Sound, Request
  <2>2. cache[Entry(r)] \in Shown
    BY <1>2, <2>1 DEF NewsInv
  <2>3. req' \in [Requests -> Request] /\ \A q \in Requests : q # r => req'[q] = req[q]
    BY <1>1, <1>2, <2>2, RequestFacts DEF Ends, Request, Pcs
  <2>4. /\ lock' \in [Keys -> Requests \union {None}]
        /\ \A k \in Keys : lock'[k] = lock[k] \/ lock[k] = None \/ lock[k] = r
    BY <1>2, RequestFacts DEF Ends, Holds, KeyOf
  <2>5. Sound(r)'
    BY <1>2, <2>2, RequestFacts DEF Ends, Sound, Holding, Request, Shown, Stored, Completed, Unbatched
  <2> QED
    BY <1>2, <2>3, <2>4, <2>5, QuietStepKeeps
<1>3. CASE /\ Goes(r, "entry", "rows")
           /\ UNCHANGED <<clock, batches, version, cache, lock, faults>>
  <2>1. req' \in [Requests -> Request] /\ \A q \in Requests : q # r => req'[q] = req[q]
    BY <1>3, RequestFacts DEF Goes, Request, Pcs
  <2>2. Sound(r)'
    BY <1>3, RequestFacts DEF Goes, Sound, Holding, Request, Shown, Stored, Completed, Unbatched
  <2> QED
    BY <1>3, <2>1, <2>2, RequestFacts, QuietStepKeeps
<1> QED
  BY <1>2, <1>3 DEF ReadEntry

\* The database returns the latest completed batch.
LEMMA LoadRowsKeeps ==
  ASSUME NewsInv, NEW r \in Requests, LoadRows(r)
  PROVE  NewsInv'
<1>1. Latest \in Shown /\ Shown \subseteq Numbers
  BY RequestFacts, BatchFacts, LatestShown DEF Shown, Stored, Numbers, Completed, Unbatched
<1>2. req' \in [Requests -> Request] /\ \A q \in Requests : q # r => req'[q] = req[q]
  BY <1>1, RequestFacts DEF LoadRows, Request, Pcs
<1>3. Sound(r)'
  BY <1>1, RequestFacts DEF LoadRows, Sound, Holding, Request, Shown, Stored, Completed, Unbatched
<1> QED
  BY <1>2, <1>3, RequestFacts, QuietStepKeeps DEF LoadRows

\* Rows within the window are those of the first query; only a holder goes on to fetch.
LEMMA LoadFetchAtKeeps ==
  ASSUME NewsInv, NEW r \in Requests, LoadFetchAt(r)
  PROVE  NewsInv'
<1>1. \/ req' = [req EXCEPT ![r].pc = "writeVersion", ![r].rows = req[r].got]
      \/ req' = [req EXCEPT ![r].pc = "wait"]
      \/ req' = [req EXCEPT ![r].pc = "fetch"] /\ lock[req[r].key] = r
  BY DEF LoadFetchAt, Goes, Holds, KeyOf
<1>2. req' \in [Requests -> Request] /\ \A q \in Requests : q # r => req'[q] = req[q]
  BY <1>1, RequestFacts DEF Request, Pcs
<1>3. req[r].pc = "fetchAt" /\ UNCHANGED <<clock, batches, version, cache, lock, faults>>
  BY DEF LoadFetchAt, Goes
<1>4. Sound(r)'
  BY <1>1, <1>3, RequestFacts DEF Sound, Holding, Request, Shown, Stored, Completed, Unbatched
<1> QED
  BY <1>2, <1>3, <1>4, RequestFacts, QuietStepKeeps

LEMMA EnterLockKeeps ==
  ASSUME NewsInv, NEW r \in Requests, EnterLock(r)
  PROVE  NewsInv'
<1>1. req' \in [Requests -> Request] /\ \A q \in Requests : q # r => req'[q] = req[q]
  BY RequestFacts DEF EnterLock, Goes, Request, Pcs
<1>2. /\ lock' \in [Keys -> Requests \union {None}]
      /\ \A k \in Keys : lock'[k] = lock[k] \/ lock[k] = None \/ lock[k] = r
  BY RequestFacts DEF EnterLock, KeyOf
<1>3. Sound(r)'
  BY RequestFacts DEF EnterLock, Goes, Sound, Holding, Request, Shown, Stored, Completed, Unbatched
<1> QED
  BY <1>1, <1>2, <1>3, QuietStepKeeps DEF EnterLock

LEMMA ReloadKeeps ==
  ASSUME NewsInv, NEW r \in Requests, Reload(r)
  PROVE  NewsInv'
<1>1. Latest \in Shown /\ Shown \subseteq Numbers
  BY RequestFacts, BatchFacts, LatestShown DEF Shown, Stored, Numbers, Completed, Unbatched
<1>2. req' \in [Requests -> Request] /\ \A q \in Requests : q # r => req'[q] = req[q]
  BY <1>1, RequestFacts DEF Reload, Request, Pcs
<1>3. Sound(r)'
  BY <1>1, RequestFacts DEF Reload, Sound, Holding, Request, Shown, Stored, Completed, Unbatched
<1> QED
  BY <1>2, <1>3, RequestFacts, QuietStepKeeps DEF Reload

LEMMA ReloadFailsKeeps ==
  ASSUME NewsInv, NEW r \in Requests, ReloadFails(r)
  PROVE  NewsInv'
<1>1. req' \in [Requests -> Request] /\ \A q \in Requests : q # r => req'[q] = req[q]
  BY RequestFacts DEF ReloadFails, Goes, Request, Pcs
<1>2. Sound(r)'
  BY RequestFacts DEF ReloadFails, Goes, Sound, Holding, Request, Shown, Stored, Completed, Unbatched
<1> QED
  BY <1>1, <1>2, RequestFacts, QuietStepKeeps DEF ReloadFails

LEMMA ReadVersionToWriteKeeps ==
  ASSUME NewsInv, NEW r \in Requests, ReadVersionToWrite(r)
  PROVE  NewsInv'
<1>1. VersionSeen \subseteq Versions
  BY RequestFacts DEF VersionSeen, TypeOK, Versions
<1>2. req' \in [Requests -> Request] /\ \A q \in Requests : q # r => req'[q] = req[q]
  BY <1>1, RequestFacts DEF ReadVersionToWrite, Request, Pcs
<1>3. Sound(r)'
  BY RequestFacts DEF ReadVersionToWrite, Sound, Holding, Request, Shown, Stored, Completed, Unbatched
<1> QED
  BY <1>2, <1>3, RequestFacts, QuietStepKeeps DEF ReadVersionToWrite

\* A failed fetch is answered with the rows of the last look, or not at all.
LEMMA FallbackKeeps ==
  ASSUME NewsInv, NEW r \in Requests, Fallback(r)
  PROVE  NewsInv'
<1>1. \/ req' = [req EXCEPT ![r].pc = "done", ![r].rows = req[r].got]
      \/ req' = [req EXCEPT ![r].pc = "error", ![r].rows = 0]
  BY DEF Fallback, Ends
<1>2. /\ req[r].pc = "fallback"
      /\ lock' = (IF Holds(r) THEN [lock EXCEPT ![KeyOf(r)] = None] ELSE lock)
      /\ UNCHANGED <<clock, batches, version, cache, faults>>
  BY DEF Fallback, Ends
<1>3. 0 \in Numbers
  BY RequestFacts, BatchFacts DEF Numbers
<1>4. req' \in [Requests -> Request] /\ \A q \in Requests : q # r => req'[q] = req[q]
  BY <1>1, <1>3, RequestFacts DEF Request, Pcs
<1>5. /\ lock' \in [Keys -> Requests \union {None}]
      /\ \A k \in Keys : lock'[k] = lock[k] \/ lock[k] = None \/ lock[k] = r
  BY <1>2, RequestFacts DEF Holds, KeyOf
<1>6. Sound(r)'
  BY <1>1, <1>2, RequestFacts DEF Sound, Holding, Request, Shown, Stored, Completed, Unbatched
<1> QED
  BY <1>2, <1>4, <1>5, <1>6, QuietStepKeeps

\* What a step that keeps cache and lock needs of StepKeeps.
LEMMA KeptStores ==
  ASSUME NewsInv, Grown, UNCHANGED <<cache, lock, clock, faults>>
  PROVE  /\ cache' \in [Keys \X Versions -> Shown' \union {None}]
         /\ lock' \in [Keys -> Requests \union {None}]
         /\ clock' \in Ticks
         /\ faults' \in 0 .. MaxFaults
<1>1. cache \in [Keys \X Versions -> Shown \union {None}]
  BY DEF NewsInv, TypeOK
<1>2. cache' \in [Keys \X Versions -> Shown' \union {None}]
  BY <1>1, NumbersGrow
<1> QED
  BY <1>2 DEF NewsInv, TypeOK

\* The new batch is numbered like no other.
LEMMA StartFetchKeeps ==
  ASSUME NewsInv, NEW r \in Requests, StartFetch(r)
  PROVE  NewsInv'
<1>1. /\ req[r].pc = "fetch"
      /\ NewBatch(clock, "running", {})
      /\ req' = [req EXCEPT ![r].pc = "remote", ![r].batch = Len(batches) + 1]
      /\ UNCHANGED <<clock, version, cache, lock, faults>>
  BY DEF StartFetch
<1>2. /\ Grown
      /\ KeepsRunning(r)
      /\ Len(batches') = Len(batches) + 1
      /\ batches'[Len(batches) + 1].status = "running"
  <2>1. clock \in Ticks /\ "running" \in Statuses /\ {} \in SUBSET Keys
    BY RequestFacts DEF TypeOK, Statuses
  <2>2. /\ Grown
        /\ KeepsRunning(r)
        /\ Len(batches') = Len(batches) + 1
        /\ batches'[Len(batches) + 1] = [at |-> clock, status |-> "running", topics |-> {}]
    <3>1. TypeOK
      BY RequestFacts
    <3> QED
      BY <1>1, <2>1, <3>1, NewBatch_Grown
  <2> QED
    BY <2>2
<1>3. /\ Len(batches) \in Nat
      /\ DOMAIN batches = 1 .. Len(batches)
      /\ DOMAIN batches' = 1 .. Len(batches')
  BY <1>2, RequestFacts, BatchFacts DEF Grown
<1>4. req' \in [Requests -> Request']
  <2>1. Len(batches) + 1 \in Numbers'
    BY <1>2, <1>3 DEF Numbers
  <2>2. req \in [Requests -> Request']
    BY <1>2, RequestFacts, NumbersGrow
  <2> DEFINE new == [req[r] EXCEPT !.pc = "remote", !.batch = Len(batches) + 1]
  <2>3. new \in Request'
    <3>1. req[r] \in Request'
      BY <2>2
    <3> QED
      BY <2>1, <3>1 DEF Request, Pcs
  <2>4. req' = [req EXCEPT ![r] = new]
    BY <1>1, RequestFacts DEF Request
  <2> HIDE DEF new
  <2> QED
    BY <2>2, <2>3, <2>4
<1>5. \A q \in Requests : q # r => req'[q] = req[q]
  BY <1>1, RequestFacts
<1>6. Sound(r)'
  <2>1. /\ req'[r].pc = "remote"
        /\ req'[r].batch = Len(batches) + 1
        /\ req'[r].key = req[r].key
        /\ req'[r].got = req[r].got
    BY <1>1, RequestFacts DEF Request
  <2>2. req[r].key \in Keys /\ lock[req[r].key] = r /\ req[r].got \in Shown'
    BY <1>1, <1>2, RequestFacts, NumbersGrow DEF Sound, Holding
  <2>3. ASSUME NEW q \in Requests, req'[q].pc = "remote", q # r
        PROVE  req'[q].batch # req'[r].batch
    <3>1. req'[q] = req[q] /\ Sound(q)
      BY <2>3, <1>5 DEF NewsInv
    <3>2. req[q].batch \in DOMAIN batches
      BY <3>1, <2>3 DEF Sound, RunningBatch
    <3> QED
      BY <3>1, <3>2, <2>1, <1>3
  <2>4. RunningBatch(r)'
    BY <2>1, <2>3, <1>2, <1>3 DEF RunningBatch
  <2> QED
    BY <2>1, <2>2, <2>4, <1>1 DEF Sound, Holding
<1>7. \A k \in Keys : lock'[k] = lock[k]
  BY <1>1
<1> QED
  BY <1>1, <1>2, <1>4, <1>5, <1>6, <1>7, KeptStores, StepKeeps

\* A fetch ends by finalizing the batch that this request started.
LEMMA FetchEnds ==
  ASSUME NewsInv, NEW r \in Requests, req[r].pc = "remote",
         NEW status \in Statuses, NEW topics \in SUBSET Keys, Commits(r, status, topics),
         NEW pc \in {"fallback", "reload", "bump"}, pc = "bump" => status = "completed",
         req' = [req EXCEPT ![r].pc = pc],
         UNCHANGED <<clock, version, cache, lock, faults>>
  PROVE  NewsInv'
<1>1. /\ Grown
      /\ KeepsRunning(r)
      /\ req[r].batch \in DOMAIN batches'
      /\ batches'[req[r].batch].status = status
  BY Commits_Grown
<1>2. req' \in [Requests -> Request']
  <2>1. req \in [Requests -> Request']
    BY <1>1, RequestFacts, NumbersGrow
  <2> QED
    BY <2>1 DEF Request, Pcs
<1>3. \A q \in Requests : q # r => req'[q] = req[q]
  BY RequestFacts
<1>4. Sound(r)'
  <2>1. /\ req'[r].pc = pc
        /\ req'[r].batch = req[r].batch
        /\ req'[r].key = req[r].key
        /\ req'[r].got = req[r].got
    BY RequestFacts DEF Request
  <2>2. req[r].key \in Keys /\ lock[req[r].key] = r /\ req[r].got \in Shown'
    BY <1>1, RequestFacts, NumbersGrow DEF Sound, Holding
  <2>3. pc = "bump" => req'[r].batch \in Completed'
    BY <1>1, <2>1 DEF Completed
  <2> QED
    BY <2>1, <2>2, <2>3 DEF Sound, Holding
<1>5. \A k \in Keys : lock'[k] = lock[k]
  OBVIOUS
<1> QED
  BY <1>1, <1>2, <1>3, <1>4, <1>5, KeptStores, StepKeeps

LEMMA FetchFailsKeeps ==
  ASSUME NewsInv, NEW r \in Requests, FetchFails(r)
  PROVE  NewsInv'
<1>1. /\ req[r].pc = "remote"
      /\ Commits(r, "failed", {})
      /\ req' = [req EXCEPT ![r].pc = "fallback"]
      /\ UNCHANGED <<clock, version, cache, lock, faults>>
  BY DEF FetchFails, Goes
<1>2. "failed" \in Statuses /\ {} \in SUBSET Keys
  BY DEF Statuses
<1> QED
  BY <1>1, <1>2, FetchEnds

LEMMA FetchEmptyKeeps ==
  ASSUME NewsInv, NEW r \in Requests, FetchEmpty(r)
  PROVE  NewsInv'
<1>1. /\ req[r].pc = "remote"
      /\ Commits(r, "failed", {})
      /\ req' = [req EXCEPT ![r].pc = "reload"]
      /\ UNCHANGED <<clock, version, cache, lock, faults>>
  BY DEF FetchEmpty, Goes
<1>2. "failed" \in Statuses /\ {} \in SUBSET Keys
  BY DEF Statuses
<1> QED
  BY <1>1, <1>2, FetchEnds

LEMMA FetchReturnsKeeps ==
  ASSUME NewsInv, NEW r \in Requests, FetchReturns(r)
  PROVE  NewsInv'
<1>1. PICK t \in TopicSets : Commits(r, "completed", t)
  BY DEF FetchReturns
<1>2. t \in SUBSET Keys
  BY DEF TopicSets
<1> QED
  BY <1>1, <1>2, FetchEnds DEF FetchReturns, Goes, Statuses

\* The version becomes the time of the batch just completed, or stays.
LEMMA BumpVersionKeeps ==
  ASSUME NewsInv, NEW r \in Requests, BumpVersion(r)
  PROVE  NewsInv'
<1>1. /\ req[r].pc = "bump"
      /\ req' = [req EXCEPT ![r].pc = "reload"]
      /\ version' = batches[req[r].batch].at \/ version' = version
      /\ UNCHANGED <<clock, batches, cache, lock, faults>>
  BY DEF BumpVersion, Goes
<1>2. Grown /\ KeepsRunning(r)
  BY <1>1, RequestFacts, Unchanged_Grown
<1>3. req' \in [Requests -> Request']
  <2>1. req' \in [Requests -> Request]
    BY <1>1, RequestFacts DEF Request, Pcs
  <2> QED
    BY <2>1, <1>2, NumbersGrow
<1>4. \A q \in Requests : q # r => req'[q] = req[q]
  BY <1>1, RequestFacts
<1>5. version' \in {version, None} \/ \E b \in Completed' : batches'[b].at = version'
  <2>1. req[r].batch \in Completed /\ Completed' = Completed
    BY <1>1, RequestFacts DEF Sound, Completed
  <2> QED
    BY <2>1, <1>1
<1>6. Sound(r)'
  BY <1>1, RequestFacts DEF Sound, Holding, Request, Shown, Stored, Completed, Unbatched
<1>7. \A k \in Keys : lock'[k] = lock[k]
  BY <1>1
<1> QED
  BY <1>1, <1>2, <1>3, <1>4, <1>5, <1>6, <1>7, KeptStores, StepKeeps

\* What is written is what is answered.
LEMMA WriteEntryKeeps ==
  ASSUME NewsInv, NEW r \in Requests, WriteEntry(r)
  PROVE  NewsInv'
<1>1. /\ req[r].pc = "write"
      /\ cache' = [cache EXCEPT ![Entry(r)] = req[r].rows] \/ cache' = cache
      /\ req' = [req EXCEPT ![r].pc = "done", ![r].rows = req[r].rows]
      /\ lock' = (IF Holds(r) THEN [lock EXCEPT ![KeyOf(r)] = None] ELSE lock)
      /\ UNCHANGED <<clock, batches, version, faults>>
  BY DEF WriteEntry, Ends
<1>2. Grown /\ KeepsRunning(r)
  BY <1>1, RequestFacts, Unchanged_Grown
<1>3. req' \in [Requests -> Request']
  <2>1. req' \in [Requests -> Request]
    BY <1>1, RequestFacts DEF Request, Pcs
  <2> QED
    BY <2>1, <1>2, NumbersGrow
<1>4. \A q \in Requests : q # r => req'[q] = req[q]
  BY <1>1, RequestFacts
<1>5. cache' \in [Keys \X Versions -> Shown' \union {None}]
  <2>1. cache \in [Keys \X Versions -> Shown \union {None}]
    BY DEF NewsInv, TypeOK
  <2>2. req[r].rows \in Shown
    BY <1>1, RequestFacts DEF Sound
  <2>3. cache' \in [Keys \X Versions -> Shown \union {None}]
    BY <1>1, <2>1, <2>2
  <2> QED
    BY <2>3, <1>2, NumbersGrow
<1>6. /\ lock' \in [Keys -> Requests \union {None}]
      /\ \A k \in Keys : lock'[k] = lock[k] \/ lock[k] = None \/ lock[k] = r
  BY <1>1, RequestFacts DEF Holds, KeyOf
<1>7. Sound(r)'
  BY <1>1, RequestFacts DEF Sound, Holding, Request, Shown, Stored, Completed, Unbatched
<1>8. clock' \in Ticks /\ faults' \in 0 .. MaxFaults
  BY <1>1, RequestFacts DEF TypeOK
<1> QED
  BY <1>1, <1>2, <1>3, <1>4, <1>5, <1>6, <1>7, <1>8, StepKeeps

\* Steps of nobody's request.
LEMMA KeptRequests ==
  ASSUME NewsInv, Grown, UNCHANGED req
  PROVE  req' \in [Requests -> Request']
<1>1. req \in [Requests -> Request]
  BY DEF NewsInv, TypeOK
<1> QED
  BY <1>1, NumbersGrow

LEMMA WorkerSyncKeeps ==
  ASSUME NewsInv, WorkerSync
  PROVE  NewsInv'
<1>1. PICK at \in 0 .. clock, t \in TopicSets : NewBatch(at, "completed", t)
  BY DEF WorkerSync
<1>2. UNCHANGED <<clock, version, cache, lock, req, faults>>
  BY DEF WorkerSync
<1>3. Grown /\ KeepsRunning(None)
  <2>1. TypeOK
    BY DEF NewsInv
  <2>2. at \in Ticks /\ "completed" \in Statuses /\ t \in SUBSET Keys
    BY <2>1, BatchFacts DEF TypeOK, Ticks, TopicSets, Statuses
  <2> QED
    BY <1>1, <2>1, <2>2, NewBatch_Grown
<1>4. None \notin Requests
  BY NoneAssumption
<1>5. req' \in [Requests -> Request']
  BY <1>2, <1>3, KeptRequests
<1> QED
  BY <1>2, <1>3, <1>4, <1>5, KeptStores, StepKeeps

LEMMA StoresChangeKeeps ==
  ASSUME NewsInv, UNCHANGED <<batches, lock, req>>,
         clock' \in Ticks, faults' \in 0 .. MaxFaults, version' \in {version, None},
         cache' \in [Keys \X Versions -> Shown \union {None}]
  PROVE  NewsInv'
<1>1. Grown /\ KeepsRunning(None)
  BY Unchanged_Grown DEF NewsInv
<1>2. None \notin Requests
  BY NoneAssumption
<1>3. req' \in [Requests -> Request']
  BY <1>1, KeptRequests
<1>4. cache' \in [Keys \X Versions -> Shown' \union {None}]
  BY <1>1, NumbersGrow
<1>5. lock' \in [Keys -> Requests \union {None}]
  BY DEF NewsInv, TypeOK
<1> QED
  BY <1>1, <1>2, <1>3, <1>4, <1>5, StepKeeps

LEMMA CacheShown ==
  NewsInv => cache \in [Keys \X Versions -> Shown \union {None}]
BY DEF NewsInv, TypeOK

LEMMA TickKeeps ==
  ASSUME NewsInv, Tick
  PROVE  NewsInv'
<1>1. clock' \in Ticks
  BY BoundsAssumption DEF Tick, NewsInv, TypeOK, Ticks
<1>2. faults' \in 0 .. MaxFaults
  BY DEF Tick, NewsInv, TypeOK
<1> QED
  BY <1>1, <1>2, CacheShown, StoresChangeKeeps DEF Tick

LEMMA EntryExpiresKeeps ==
  ASSUME NewsInv, NEW e \in Keys \X Versions, EntryExpires(e)
  PROVE  NewsInv'
<1>1. clock' \in Ticks /\ faults' \in 0 .. MaxFaults
  BY DEF EntryExpires, NewsInv, TypeOK
<1>2. cache' \in [Keys \X Versions -> Shown \union {None}]
  BY CacheShown DEF EntryExpires
<1> QED
  BY <1>1, <1>2, StoresChangeKeeps DEF EntryExpires

LEMMA RedisRestartsKeeps ==
  ASSUME NewsInv, RedisRestarts
  PROVE  NewsInv'
<1>1. clock' \in Ticks
  BY DEF RedisRestarts, NewsInv, TypeOK
<1>2. faults' \in 0 .. MaxFaults
  BY BoundsAssumption DEF RedisRestarts, NewsInv, TypeOK
<1>3. cache' \in [Keys \X Versions -> Shown \union {None}]
  BY DEF RedisRestarts
<1> QED
  BY <1>1, <1>2, <1>3, StoresChangeKeeps DEF RedisRestarts

\* Open requests are given up; the locks they held are gone with them.
LEMMA CrashKeeps ==
  ASSUME NewsInv, Crash
  PROVE  NewsInv'
<1>1. /\ UNCHANGED <<clock, batches, version, cache>>
      /\ faults' = faults + 1 /\ faults < MaxFaults
      /\ lock' = [k \in Keys |-> None]
  BY DEF Crash
<1>2. req' = [r \in Requests |-> IF req[r].pc \notin {"idle", "done", "error"}
                                 THEN [req[r] EXCEPT !.pc = "error"] ELSE req[r]]
  BY DEF Crash
<1>3. TypeOK /\ Shown' = Shown /\ Numbers' = Numbers
  BY <1>1 DEF NewsInv, Shown, Stored, Completed, Unbatched, Numbers
<1>4. req' \in [Requests -> Request]
  <2>1. ASSUME NEW r \in Requests
        PROVE  req[r] \in Request /\ [req[r] EXCEPT !.pc = "error"] \in Request
    BY <1>3 DEF TypeOK, Request, Pcs
  <2> QED
    BY <1>2, <2>1
<1>5. TypeOK'
  <2>1. faults' \in 0 .. MaxFaults
    BY <1>1, <1>3, BoundsAssumption DEF TypeOK
  <2>2. req' \in [Requests -> Request']
    BY <1>3, <1>4 DEF Request
  <2>3. cache' \in [Keys \X Versions -> Numbers' \union {None}]
    BY <1>1, <1>3 DEF TypeOK
  <2> QED
    BY <1>1, <1>3, <2>1, <2>2, <2>3 DEF TypeOK
<1>6. ASSUME NEW r \in Requests PROVE Sound(r)'
  <2>1. /\ req'[r].pc \in {"idle", "done", "error"}
        /\ req'[r].key = req[r].key
        /\ req'[r].got = req[r].got
        /\ req'[r].rows = req[r].rows
        /\ req'[r].pc = "done" => req[r].pc = "done"
    BY <1>2, <1>3 DEF TypeOK, Request
  <2>2. Sound(r)
    BY DEF NewsInv
  <2> QED
    BY <1>3, <2>1, <2>2 DEF Sound, Holding
<1>7. VersionIsCommitted' /\ \A e \in Keys \X Versions : cache'[e] \in Shown' \union {None}
  BY <1>1, <1>3 DEF NewsInv, VersionIsCommitted, Completed
<1> QED
  BY <1>5, <1>6, <1>7 DEF NewsInv

-----------------------------------------------------------------------------
LEMMA NewsInvInductive == NewsInv /\ [Next]_vars => NewsInv'
<1> SUFFICES ASSUME NewsInv, [Next]_vars PROVE NewsInv'
  OBVIOUS
<1>1. ASSUME NEW r \in Requests, Step(r) PROVE NewsInv'
  BY <1>1, ReadVersionKeeps, ReadEntryKeeps, LoadRowsKeeps, LoadFetchAtKeeps, EnterLockKeeps,
     StartFetchKeeps, FetchFailsKeeps, FetchEmptyKeeps, FetchReturnsKeeps, BumpVersionKeeps,
     ReloadKeeps, ReloadFailsKeeps, ReadVersionToWriteKeeps, WriteEntryKeeps, FallbackKeeps
     DEF Step
<1>2. ASSUME NEW r \in Requests, Reject(r) PROVE NewsInv'
  BY <1>2, RejectKeeps
<1>3. ASSUME NEW r \in Requests, NEW k \in Keys, Ask(r, k) PROVE NewsInv'
  BY <1>3, AskKeeps
<1>4. ASSUME NEW e \in Keys \X Versions, EntryExpires(e) PROVE NewsInv'
  BY <1>4, EntryExpiresKeeps
<1>5. ASSUME WorkerSync \/ Tick \/ RedisRestarts \/ Crash PROVE NewsInv'
  BY <1>5, WorkerSyncKeeps, TickKeeps, RedisRestartsKeeps, CrashKeeps
<1>6. ASSUME UNCHANGED vars PROVE NewsInv'
  <2>1. /\ clock' \in Ticks
        /\ faults' \in 0 .. MaxFaults
        /\ cache' \in [Keys \X Versions -> Shown \union {None}]
    BY <1>6, CacheShown DEF vars, NewsInv, TypeOK
  <2> QED
    BY <1>6, <2>1, StoresChangeKeeps DEF vars
<1> QED
  BY <1>1, <1>2, <1>3, <1>4, <1>5, <1>6 DEF Next, Quiet

LEMMA NewsInvHolds == Spec => []NewsInv
<1> QED
  BY InitNewsInv, NewsInvInductive, PTL DEF Spec

\* Every variable keeps to its type, and every batch a request names exists.
THEOREM TypeCorrect == Spec => []TypeOK
<1>1. NewsInv => TypeOK
  BY DEF NewsInv
<1> QED
  BY <1>1, NewsInvHolds, PTL

\* Entries and answers show rows of completed batches, whatever fails or crashes.
THEOREM ShownIsCompleted == Spec => []OnlyCompletedShown
<1>1. NewsInv => OnlyCompletedShown
  BY DEF NewsInv, TypeOK, OnlyCompletedShown, Sound, Shown, Stored
<1> QED
  BY <1>1, NewsInvHolds, PTL

\* The version key names the time of a batch that is committed and completed.
THEOREM VersionCommitted == Spec => []VersionIsCommitted
<1>1. NewsInv => VersionIsCommitted
  BY DEF NewsInv
<1> QED
  BY <1>1, NewsInvHolds, PTL

-----------------------------------------------------------------------------
(***************************************************************************)
(* The order of versions and the refresh window.  No batch is of the       *)
(* future; with one key a fetch excludes every other, so the version does  *)
(* not overtake the batch it is about to publish; and a request that goes  *)
(* on to fetch has seen no batch within the window.                        *)
(***************************************************************************)

OneKey == \E k : Keys = {k}

HistoryInv ==
  /\ \A b \in DOMAIN batches : batches[b].at <= clock
  /\ \A b \in Unbatched : batches[b].at = 0
  /\ \A r \in Requests :
       OneKey /\ req[r].pc \in {"remote", "bump"} /\ version # None
         => version <= batches[req[r].batch].at
  /\ ~Topical => \A b \in Stored : batches[b].topics = Keys
  /\ ~Topical => \A r \in Requests : req[r].pc = "fetch" => ~Fresh(req[r].got, req[r].now)

LEMMA InitHistory == Init => HistoryInv
<1> SUFFICES ASSUME Init PROVE HistoryInv
  OBVIOUS
<1>1. ASSUME NEW b \in DOMAIN batches
      PROVE  batches[b].at = 0 /\ (~Topical => batches[b].topics = Keys)
  <2>1. PICK t \in TopicSets, u \in {"completed", "unbatched"} :
          batches = <<[at |-> 0, status |-> u, topics |-> t]>>
    BY DEF Init
  <2>2. batches[b] = [at |-> 0, status |-> u, topics |-> t]
    BY <2>1
  <2> QED
    BY <2>2 DEF TopicSets
<1>2. clock = 0 /\ version = None /\ \A r \in Requests : req[r].pc = "idle"
  BY DEF Init, Idle
<1> QED
  BY <1>1, <1>2 DEF HistoryInv, Stored, Completed, Unbatched

\* A request with a batch under way holds the lock, so with one key it is alone.
LEMMA AloneAtRemote ==
  ASSUME NewsInv, OneKey, NEW r \in Requests, NEW q \in Requests,
         req[r].pc \in Holding, req[q].pc \in Holding
  PROVE  r = q
<1>1. Sound(r) /\ Sound(q)
  BY DEF NewsInv
<1>2. req[r].key \in Keys /\ req[q].key \in Keys
  BY <1>1 DEF Sound, Holding
<1>3. req[r].key = req[q].key
  BY <1>2 DEF OneKey
<1> QED
  BY <1>1, <1>3 DEF Sound

\* A batch number at remote or bump names a batch.
LEMMA BatchNamed ==
  ASSUME NewsInv, NEW r \in Requests, req[r].pc \in {"remote", "bump"}
  PROVE  req[r].batch \in DOMAIN batches
BY DEF NewsInv, Sound, RunningBatch, Completed

LEMMA VersionTyped ==
  ASSUME NewsInv
  PROVE  version # None => version \in Nat
BY DEF NewsInv, TypeOK, Versions, Ticks

\* Where a step publishes no version.
LEMMA HistoryStep ==
  ASSUME NewsInv, HistoryInv, Grown, clock' \in Ticks, clock' >= clock,
         version' \in {version, None},
         \A b \in DOMAIN batches' : b \in DOMAIN batches \/ batches'[b].at <= clock',
         Unbatched' \subseteq Unbatched,
         \A b \in Stored' : (b \in Stored /\ batches'[b] = batches[b])
                            \/ (~Topical => batches'[b].topics = Keys),
         \A r \in Requests : req'[r].pc \in {"remote", "bump"} =>
           \/ req[r].pc \in {"remote", "bump"} /\ req'[r].batch = req[r].batch
           \/ version' # None => version' <= batches'[req'[r].batch].at,
         \A r \in Requests : req'[r].pc = "fetch" =>
           \/ req[r].pc = "fetch" /\ req'[r].got = req[r].got /\ req'[r].now = req[r].now
           \/ ~Topical => ~Fresh(req[r].got, req[r].now) /\ req'[r].got = req[r].got
                                                        /\ req'[r].now = req[r].now
  PROVE  HistoryInv'
<1>1. TypeOK /\ \A b \in DOMAIN batches : batches[b].at \in Nat
  BY BatchFacts DEF NewsInv
<1>2. clock \in Nat /\ clock' \in Nat
  BY <1>1, BoundsAssumption DEF TypeOK, Ticks
<1>3. ASSUME NEW b \in DOMAIN batches' PROVE batches'[b].at <= clock'
  <2>1. CASE b \in DOMAIN batches
    BY <2>1, <1>1, <1>2 DEF HistoryInv, Grown
  <2> QED
    BY <2>1
<1>4. ASSUME NEW r \in Requests, OneKey, req'[r].pc \in {"remote", "bump"}, version' # None
      PROVE  version' <= batches'[req'[r].batch].at
  <2>1. CASE req[r].pc \in {"remote", "bump"} /\ req'[r].batch = req[r].batch
    <3>1. version' = version /\ version <= batches[req[r].batch].at
      BY <1>4, <2>1 DEF HistoryInv
    <3>2. batches'[req[r].batch].at = batches[req[r].batch].at
      BY <2>1, BatchNamed DEF Grown
    <3> QED
      BY <2>1, <3>1, <3>2
  <2> QED
    BY <1>4, <2>1
<1>5. ASSUME ~Topical, NEW b \in Stored' PROVE batches'[b].topics = Keys
  BY <1>5 DEF HistoryInv
<1>8. \A b \in Unbatched' : batches'[b].at = 0
  BY DEF HistoryInv, Grown, Unbatched
<1>6. ASSUME ~Topical, NEW r \in Requests, req'[r].pc = "fetch"
      PROVE  ~Fresh(req[r].got, req[r].now)'
  <2>1. /\ ~Fresh(req[r].got, req[r].now)
        /\ req'[r].got = req[r].got
        /\ req'[r].now = req[r].now
    BY <1>6 DEF HistoryInv
  <2>2. req[r].got \in Shown
    BY DEF NewsInv, Sound
  <2>3. req[r].got # 0 => batches'[req[r].got].at = batches[req[r].got].at
    BY <2>2 DEF Grown, Shown, Stored, Completed, Unbatched
  <2> QED
    BY <2>1, <2>3 DEF Fresh
<1>7. OneKey' = OneKey
  BY DEF OneKey
<1> QED
  BY <1>3, <1>4, <1>5, <1>6, <1>7, <1>8 DEF HistoryInv

\* Steps that leave batches and version alone, and start no fetch.
LEMMA QuietHistory ==
  ASSUME NewsInv, HistoryInv, UNCHANGED batches, clock' \in Ticks, clock' >= clock,
         version' \in {version, None},
         \A r \in Requests : req'[r].pc \in {"remote", "bump", "fetch"} => req'[r] = req[r]
  PROVE  HistoryInv'
<1>1. Grown
  BY Unchanged_Grown DEF NewsInv
<1>2. /\ \A b \in Stored' : b \in Stored /\ batches'[b] = batches[b]
      /\ Unbatched' \subseteq Unbatched
  BY DEF Stored, Completed, Unbatched
<1> QED
  BY <1>1, <1>2, HistoryStep

\* The other requests stay where they are.
LEMMA OthersStay ==
  ASSUME NewsInv, NEW r \in Requests, NEW n, req' = [req EXCEPT ![r] = n]
  PROVE  req'[r] = n /\ \A q \in Requests : q # r => req'[q] = req[q]
BY DEF NewsInv, TypeOK

LEMMA ClockStays ==
  ASSUME NewsInv, UNCHANGED clock
  PROVE  clock' \in Ticks /\ clock' >= clock
BY BoundsAssumption DEF NewsInv, TypeOK, Ticks

\* The fetch of a request that found nothing within the window.
LEMMA LoadFetchAtHistory ==
  ASSUME NewsInv, HistoryInv, NEW r \in Requests, LoadFetchAt(r)
  PROVE  HistoryInv'
<1>1. /\ req[r].pc = "fetchAt"
      /\ UNCHANGED <<clock, batches, version, cache, lock, faults>>
      /\ \/ req' = [req EXCEPT ![r].pc = "writeVersion", ![r].rows = req[r].got]
         \/ req' = [req EXCEPT ![r].pc = "wait"]
         \/ /\ req' = [req EXCEPT ![r].pc = "fetch"]
            /\ ~(Shows(req[r].got, KeyOf(r)) /\ Fresh(Latest, req[r].now))
  BY DEF LoadFetchAt, Goes
<1>2. Grown /\ TypeOK
  BY <1>1, Unchanged_Grown DEF NewsInv
<1>3. req[r] \in Request /\ req \in [Requests -> Request]
  BY <1>2 DEF TypeOK
<1>4. \A q \in Requests : q # r => req'[q] = req[q]
  BY <1>1, <1>3
<1>5. ASSUME ~Topical, req'[r].pc = "fetch"
      PROVE  /\ ~Fresh(req[r].got, req[r].now)
             /\ req'[r].got = req[r].got
             /\ req'[r].now = req[r].now
  <2>1. /\ req' = [req EXCEPT ![r].pc = "fetch"]
        /\ ~(Shows(req[r].got, KeyOf(r)) /\ Fresh(Latest, req[r].now))
    BY <1>1, <1>3, <1>5 DEF Request
  <2>2. req'[r].got = req[r].got /\ req'[r].now = req[r].now
    BY <2>1, <1>3
  <2>3. ASSUME Fresh(req[r].got, req[r].now) PROVE FALSE
    <3>1. req[r].got \in Stored /\ req[r].key \in Keys
      BY <2>3, <1>1 DEF NewsInv, Sound, Shown, Fresh
    <3>2. Shows(req[r].got, KeyOf(r))
      BY <3>1, <1>5, <1>2, BatchFacts DEF Shows, KeyOf, HistoryInv
    <3>3. /\ Latest \in Stored
          /\ NotOlder(Latest, req[r].got) \/ batches[req[r].got].at = 0
      <4>1. Completed \subseteq DOMAIN batches /\ Unbatched \subseteq DOMAIN batches
        BY DEF Completed, Unbatched
      <4>2. CASE Completed # {}
        BY <4>1, <4>2, <3>1, <1>2, NewestExists DEF Latest, Stored, HistoryInv
      <4>3. CASE Completed = {}
        BY <4>1, <4>3, <3>1, <1>2, NewestExists DEF Latest, Stored
      <4> QED
        BY <4>2, <4>3
    <3>4. /\ batches[Latest].at \in Nat /\ batches[req[r].got].at \in Nat
          /\ batches[Latest].at >= batches[req[r].got].at
          /\ Latest # 0
      BY <3>1, <3>3, <1>2, BatchFacts DEF NotOlder
    <3>5. req[r].now \in Nat /\ Window \in Nat
      BY <1>3, BoundsAssumption DEF Request, Ticks
    <3> QED
      BY <2>1, <2>3, <3>2, <3>4, <3>5 DEF Fresh
  <2> QED
    BY <2>2, <2>3
<1>6. \A q \in Requests : req'[q].pc \in {"remote", "bump"} => req'[q] = req[q]
  BY <1>1, <1>3, <1>4 DEF Request
<1>7. /\ \A b \in Stored' : b \in Stored /\ batches'[b] = batches[b]
      /\ Unbatched' \subseteq Unbatched
  BY <1>1 DEF Stored, Completed, Unbatched
<1>8. \A q \in Requests : req'[q].pc = "fetch" =>
        \/ req[q].pc = "fetch" /\ req'[q].got = req[q].got /\ req'[q].now = req[q].now
        \/ ~Topical => ~Fresh(req[q].got, req[q].now) /\ req'[q].got = req[q].got
                                                     /\ req'[q].now = req[q].now
  BY <1>4, <1>5
<1> QED
  BY <1>1, <1>2, <1>6, <1>7, <1>8, ClockStays, HistoryStep

\* The new batch is of now: no version is later.
LEMMA StartFetchHistory ==
  ASSUME NewsInv, HistoryInv, NEW r \in Requests, StartFetch(r)
  PROVE  HistoryInv'
<1>1. /\ NewBatch(clock, "running", {})
      /\ req' = [req EXCEPT ![r].pc = "remote", ![r].batch = Len(batches) + 1]
      /\ UNCHANGED <<clock, version, cache, lock, faults>>
  BY DEF StartFetch
<1>2. /\ TypeOK
      /\ req[r] \in Request /\ req \in [Requests -> Request]
      /\ clock \in Ticks /\ clock \in Nat
  BY BoundsAssumption DEF NewsInv, TypeOK, Ticks
<1>3. /\ Grown
      /\ batches'[Len(batches) + 1] = [at |-> clock, status |-> "running", topics |-> {}]
      /\ \A b \in DOMAIN batches' :
            b # Len(batches) + 1 => b \in DOMAIN batches /\ batches'[b] = batches[b]
  <2>1. "running" \in Statuses /\ {} \in SUBSET Keys
    BY DEF Statuses
  <2> QED
    BY <1>1, <1>2, <2>1, NewBatch_Grown
<1>4. /\ req'[r].pc = "remote" /\ req'[r].batch = Len(batches) + 1
      /\ \A q \in Requests : q # r => req'[q] = req[q]
  BY <1>1, <1>2 DEF Request
<1>5. version # None => version <= clock
  <2>1. \A b \in Completed : batches[b].at <= clock
    BY DEF HistoryInv, Completed
  <2> QED
    BY <2>1 DEF NewsInv, VersionIsCommitted
<1>6. \A b \in DOMAIN batches' : b \in DOMAIN batches \/ batches'[b].at <= clock'
  BY <1>1, <1>2, <1>3
<1>7. /\ \A b \in Stored' : b \in Stored /\ batches'[b] = batches[b]
      /\ Unbatched' \subseteq Unbatched
  BY <1>3 DEF Stored, Completed, Unbatched
<1>8. \A q \in Requests : req'[q].pc \in {"remote", "bump"} =>
        \/ req[q].pc \in {"remote", "bump"} /\ req'[q].batch = req[q].batch
        \/ version' # None => version' <= batches'[req'[q].batch].at
  <2>1. version' # None => version' <= batches'[req'[r].batch].at
    BY <1>1, <1>3, <1>4, <1>5
  <2> QED
    BY <1>4, <2>1
<1>9. \A q \in Requests : req'[q].pc = "fetch" => req'[q] = req[q]
  BY <1>4
<1> QED
  BY <1>1, <1>3, <1>6, <1>7, <1>8, <1>9, ClockStays, HistoryStep

\* A completed batch shows every key unless the variant has topics.
LEMMA FetchEndsHistory ==
  ASSUME NewsInv, HistoryInv, NEW r \in Requests, req[r].pc = "remote",
         NEW status \in {"failed", "completed"}, NEW topics \in SUBSET Keys, Commits(r, status, topics),
         status = "completed" => topics \in TopicSets,
         NEW pc \in {"fallback", "reload", "bump"},
         req' = [req EXCEPT ![r].pc = pc],
         UNCHANGED <<clock, version, cache, lock, faults>>
  PROVE  HistoryInv'
<1>1. /\ Grown
      /\ batches'[req[r].batch].status = status
      /\ batches'[req[r].batch].topics = topics
      /\ \A b \in DOMAIN batches' :
            b # req[r].batch => b \in DOMAIN batches /\ batches'[b] = batches[b]
      /\ DOMAIN batches' = DOMAIN batches
  <2>1. status \in Statuses
    BY DEF Statuses
  <2> QED
    BY <2>1, Commits_Grown
<1>2. /\ req'[r].pc = pc /\ req'[r].batch = req[r].batch
      /\ \A q \in Requests : q # r => req'[q] = req[q]
  BY DEF NewsInv, TypeOK, Request
<1>3. /\ \A b \in Stored' : \/ b \in Stored /\ batches'[b] = batches[b]
                            \/ ~Topical => batches'[b].topics = Keys
      /\ Unbatched' \subseteq Unbatched
  BY <1>1 DEF Stored, Completed, Unbatched, TopicSets
<1>4. \A b \in DOMAIN batches' : b \in DOMAIN batches \/ batches'[b].at <= clock'
  BY <1>1
<1>5. \A q \in Requests : req'[q].pc \in {"remote", "bump"} =>
        req[q].pc \in {"remote", "bump"} /\ req'[q].batch = req[q].batch
  BY <1>2
<1>6. \A q \in Requests : req'[q].pc = "fetch" => req'[q] = req[q]
  BY <1>2
<1> QED
  BY <1>1, <1>3, <1>4, <1>5, <1>6, ClockStays, HistoryStep

LEMMA FetchHistory ==
  ASSUME NewsInv, HistoryInv, NEW r \in Requests,
         FetchFails(r) \/ FetchEmpty(r) \/ FetchReturns(r)
  PROVE  HistoryInv'
<1>1. "failed" \in Statuses /\ "completed" \in Statuses /\ "failed" # "completed"
      /\ {} \in SUBSET Keys
  BY DEF Statuses
<1>2. CASE FetchFails(r)
  <2>1. /\ req[r].pc = "remote"
        /\ Commits(r, "failed", {})
        /\ req' = [req EXCEPT ![r].pc = "fallback"]
        /\ UNCHANGED <<clock, version, cache, lock, faults>>
    BY <1>2 DEF FetchFails, Goes
  <2> QED
    BY <1>1, <2>1, FetchEndsHistory
<1>3. CASE FetchEmpty(r)
  <2>1. /\ req[r].pc = "remote"
        /\ Commits(r, "failed", {})
        /\ req' = [req EXCEPT ![r].pc = "reload"]
        /\ UNCHANGED <<clock, version, cache, lock, faults>>
    BY <1>3 DEF FetchEmpty, Goes
  <2> QED
    BY <1>1, <2>1, FetchEndsHistory
<1>4. CASE FetchReturns(r)
  <2>1. PICK t \in TopicSets : Commits(r, "completed", t)
    BY <1>4 DEF FetchReturns
  <2>2. t \in SUBSET Keys
    BY DEF TopicSets
  <2>3. /\ req[r].pc = "remote"
        /\ req' = [req EXCEPT ![r].pc = "bump"]
        /\ UNCHANGED <<clock, version, cache, lock, faults>>
    BY <1>4 DEF FetchReturns, Goes
  <2> QED
    BY <1>1, <2>1, <2>2, <2>3, FetchEndsHistory
<1> QED
  BY <1>2, <1>3, <1>4

\* Whoever publishes a version is alone, and the version moves forward.
LEMMA BumpVersionHistory ==
  ASSUME NewsInv, HistoryInv, NEW r \in Requests, BumpVersion(r)
  PROVE  /\ HistoryInv'
         /\ OneKey /\ version # None /\ version' # None => version' >= version
<1>1. /\ req[r].pc = "bump"
      /\ req' = [req EXCEPT ![r].pc = "reload"]
      /\ version' = batches[req[r].batch].at \/ version' = version
      /\ UNCHANGED <<clock, batches, cache, lock, faults>>
  BY DEF BumpVersion, Goes
<1>2. /\ req'[r].pc = "reload"
      /\ \A q \in Requests : q # r => req'[q] = req[q]
  BY <1>1 DEF NewsInv, TypeOK, Request
<1>3. ASSUME OneKey, version # None, version' # None PROVE version' >= version
  <2>1. version \in Nat /\ version <= batches[req[r].batch].at
    BY <1>1, <1>3, VersionTyped DEF HistoryInv
  <2>2. batches[req[r].batch].at \in Nat
    BY <1>1, BatchNamed, BatchFacts DEF NewsInv
  <2> QED
    BY <1>1, <2>1, <2>2
<1>4. ASSUME NEW q \in Requests, OneKey, req'[q].pc \in {"remote", "bump"} PROVE FALSE
  <2>1. q # r /\ req[q].pc \in {"remote", "bump"}
    BY <1>2, <1>4
  <2> QED
    BY <1>1, <1>4, <2>1, AloneAtRemote DEF Holding
<1>5. \A q \in Requests : req'[q].pc = "fetch" => req'[q] = req[q]
  BY <1>2
<1>6. Stored' = Stored /\ Unbatched' = Unbatched /\ OneKey' = OneKey
  BY <1>1 DEF Stored, Completed, Unbatched, OneKey
<1>7. HistoryInv'
  <2>1. \A b \in DOMAIN batches' : batches'[b].at <= clock'
    BY <1>1 DEF HistoryInv
  <2>2. /\ ~Topical => \A b \in Stored' : batches'[b].topics = Keys
        /\ \A b \in Unbatched' : batches'[b].at = 0
    BY <1>1, <1>6 DEF HistoryInv
  <2>3. ~Topical => \A q \in Requests :
                      req'[q].pc = "fetch" => ~Fresh(req[q].got, req[q].now)'
    BY <1>1, <1>5 DEF HistoryInv, Fresh
  <2> QED
    BY <1>4, <1>6, <2>1, <2>2, <2>3 DEF HistoryInv
<1> QED
  BY <1>3, <1>7

LEMMA WorkerSyncHistory ==
  ASSUME NewsInv, HistoryInv, WorkerSync
  PROVE  HistoryInv'
<1>1. PICK at \in 0 .. clock, t \in TopicSets : NewBatch(at, "completed", t)
  BY DEF WorkerSync
<1>2. UNCHANGED <<clock, version, cache, lock, req, faults>>
  BY DEF WorkerSync
<1>3. TypeOK /\ clock \in Nat
  BY BoundsAssumption DEF NewsInv, TypeOK, Ticks
<1>4. /\ Grown
      /\ batches'[Len(batches) + 1] = [at |-> at, status |-> "completed", topics |-> t]
      /\ \A b \in DOMAIN batches' :
            b # Len(batches) + 1 => b \in DOMAIN batches /\ batches'[b] = batches[b]
  <2>1. at \in Ticks /\ "completed" \in Statuses /\ t \in SUBSET Keys
    BY <1>3, BatchFacts DEF TypeOK, Ticks, TopicSets, Statuses
  <2> QED
    BY <1>1, <1>3, <2>1, NewBatch_Grown
<1>5. \A b \in DOMAIN batches' : b \in DOMAIN batches \/ batches'[b].at <= clock'
  BY <1>2, <1>3, <1>4
<1>6. /\ \A b \in Stored' : \/ b \in Stored /\ batches'[b] = batches[b]
                            \/ ~Topical => batches'[b].topics = Keys
      /\ Unbatched' \subseteq Unbatched
  BY <1>4 DEF Stored, Completed, Unbatched, TopicSets
<1> QED
  BY <1>2, <1>4, <1>5, <1>6, ClockStays, HistoryStep

\* The steps that publish no version, and what they leave alone.
LEMMA OtherStepsHistory ==
  ASSUME NewsInv, HistoryInv, NEW r \in Requests,
         \/ ReadVersion(r) \/ ReadEntry(r) \/ LoadRows(r) \/ EnterLock(r) \/ Reload(r)
         \/ ReloadFails(r) \/ ReadVersionToWrite(r) \/ WriteEntry(r) \/ Fallback(r)
         \/ Reject(r) \/ \E k \in Keys : Ask(r, k)
  PROVE  HistoryInv'
<1>1. req \in [Requests -> Request]
  BY DEF NewsInv, TypeOK
<1>2. UNCHANGED <<clock, batches, version>>
  BY DEF ReadVersion, ReadEntry, LoadRows, EnterLock, Reload, ReloadFails, ReadVersionToWrite,
     WriteEntry, Fallback, Reject, Ask
<1>3. \A q \in Requests : q # r => req'[q] = req[q]
  BY <1>1 DEF ReadVersion, ReadEntry, LoadRows, EnterLock, Reload, ReloadFails,
     ReadVersionToWrite, WriteEntry, Fallback, Reject, Ask, Goes, Ends
<1>4. req'[r].pc \notin {"remote", "bump", "fetch"}
  <2>1. CASE ReadVersion(r) \/ ReadVersionToWrite(r)
    BY ZenonT(40), <2>1, <1>1 DEF ReadVersion, ReadVersionToWrite, Request
  <2>2. CASE ReadEntry(r) \/ Fallback(r) \/ WriteEntry(r)
    BY <2>2, <1>1 DEF ReadEntry, Fallback, WriteEntry, Goes, Ends, Request
  <2>3. CASE LoadRows(r) \/ Reload(r)
    BY <2>3, <1>1 DEF LoadRows, Reload, Request
  <2>4. CASE EnterLock(r) \/ ReloadFails(r) \/ Reject(r)
    BY <2>4, <1>1 DEF EnterLock, ReloadFails, Reject, Goes, Request
  <2>5. CASE \E k \in Keys : Ask(r, k)
    <3>1. PICK k \in Keys : Ask(r, k)
      BY <2>5
    <3>2. req' = [req EXCEPT ![r].pc = "version", ![r].key = k, ![r].now = clock]
      BY <3>1 DEF Ask
    <3>3. req'[r].pc = "version"
      BY <3>2, <1>1 DEF Request
    <3> QED
      BY <3>3
  <2> QED
    BY <2>1, <2>2, <2>3, <2>4, <2>5
<1>5. \A q \in Requests : req'[q].pc \in {"remote", "bump", "fetch"} => req'[q] = req[q]
  BY <1>3, <1>4
<1> QED
  BY <1>2, <1>5, ClockStays, QuietHistory

\* Every step keeps the history, and only a bump publishes a version.
LEMMA HistoryInductive ==
  ASSUME NewsInv, HistoryInv, [Next]_vars
  PROVE  /\ HistoryInv'
         /\ OneKey /\ version # None /\ version' # None => version' >= version
<1>1. version # None => version \in Nat
  BY VersionTyped
<1>2. ASSUME HistoryInv', version' \in {version, None}
      PROVE  /\ HistoryInv'
             /\ OneKey /\ version # None /\ version' # None => version' >= version
  BY <1>1, <1>2
<1>3. ASSUME NEW r \in Requests, BumpVersion(r)
      PROVE  /\ HistoryInv'
             /\ OneKey /\ version # None /\ version' # None => version' >= version
  BY <1>3, BumpVersionHistory
<1>4. ASSUME NEW r \in Requests,
             \/ ReadVersion(r) \/ ReadEntry(r) \/ LoadRows(r) \/ EnterLock(r) \/ Reload(r)
             \/ ReloadFails(r) \/ ReadVersionToWrite(r) \/ WriteEntry(r) \/ Fallback(r)
             \/ Reject(r) \/ \E k \in Keys : Ask(r, k)
      PROVE  HistoryInv' /\ version' \in {version, None}
  <2>1. HistoryInv'
    BY <1>4, OtherStepsHistory
  <2>2. version' = version
    BY <1>4 DEF ReadVersion, ReadEntry, LoadRows, EnterLock, Reload, ReloadFails,
       ReadVersionToWrite, WriteEntry, Fallback, Reject, Ask
  <2> QED
    BY <2>1, <2>2
<1>5. ASSUME NEW r \in Requests,
             \/ LoadFetchAt(r) \/ StartFetch(r)
             \/ FetchFails(r) \/ FetchEmpty(r) \/ FetchReturns(r)
      PROVE  HistoryInv' /\ version' \in {version, None}
  <2>1. HistoryInv'
    BY <1>5, LoadFetchAtHistory, StartFetchHistory, FetchHistory
  <2>2. version' = version
    BY <1>5 DEF LoadFetchAt, StartFetch, FetchFails, FetchEmpty, FetchReturns
  <2> QED
    BY <2>1, <2>2
<1>6. ASSUME WorkerSync PROVE HistoryInv' /\ version' \in {version, None}
  BY <1>6, WorkerSyncHistory DEF WorkerSync
<1>7. ASSUME \/ Tick \/ RedisRestarts \/ \E e \in Keys \X Versions : EntryExpires(e)
             \/ UNCHANGED vars
      PROVE  HistoryInv' /\ version' \in {version, None}
  <2>1. UNCHANGED <<batches, req>> /\ version' \in {version, None}
    BY <1>7 DEF Tick, RedisRestarts, EntryExpires, vars
  <2>2. clock' \in Ticks /\ clock' >= clock
    BY <1>7, BoundsAssumption DEF Tick, RedisRestarts, EntryExpires, vars, NewsInv, TypeOK, Ticks
  <2> QED
    BY <2>1, <2>2, QuietHistory
<1>8. ASSUME Crash PROVE HistoryInv' /\ version' \in {version, None}
  <2>1. UNCHANGED <<clock, batches, version>>
    BY <1>8 DEF Crash
  <2>2. \A r \in Requests : req'[r].pc \in {"idle", "done", "error"}
    BY <1>8 DEF Crash, NewsInv, TypeOK, Request
  <2> QED
    BY <2>1, <2>2, ClockStays, QuietHistory
<1>9. CASE \E r \in Requests : Step(r) \/ Reject(r) \/ \E k \in Keys : Ask(r, k)
  BY <1>2, <1>3, <1>4, <1>5, <1>9 DEF Step
<1>10. CASE \/ \E e \in Keys \X Versions : EntryExpires(e)
            \/ WorkerSync \/ Tick \/ RedisRestarts \/ Crash \/ Quiet \/ UNCHANGED vars
  BY <1>2, <1>6, <1>7, <1>8, <1>10 DEF Quiet
<1> QED
  BY <1>9, <1>10 DEF Next

HistoryHolds == NewsInv /\ HistoryInv

LEMMA HistoryInvHolds == Spec => []HistoryHolds
<1>1. Init => HistoryHolds
  BY InitNewsInv, InitHistory DEF HistoryHolds
<1>2. HistoryHolds /\ [Next]_vars => HistoryHolds'
  BY NewsInvInductive, HistoryInductive DEF HistoryHolds
<1> QED
  BY <1>1, <1>2, PTL DEF Spec

\* With one key the version moves forward, whatever the worker stores and Redis drops:
\* a fetch excludes the others of its key up to the bump of its version.
THEOREM VersionMovesForward ==
  ASSUME OneKey
  PROVE  Spec => VersionNeverRegresses
<1>1. HistoryHolds /\ [Next]_vars
        => [version # None /\ version' # None => version' >= version]_vars
  BY HistoryInductive DEF HistoryHolds
<1> QED
  BY <1>1, HistoryInvHolds, PTL DEF Spec, VersionNeverRegresses

\* Where a batch serves every key, a request that finds one within the window fetches
\* nothing, although it compares the window with a second, later query.
THEOREM FreshBatchSparesFetch ==
  ASSUME ~Topical
  PROVE  Spec => NoFetchWhileFresh
<1>1. HistoryHolds /\ [Next]_vars
        => [\A r \in Requests :
              req[r].pc = "fetch" /\ req'[r].pc = "remote" => ~Fresh(req[r].got, req[r].now)]_vars
  BY DEF HistoryHolds, HistoryInv
<1> QED
  BY <1>1, HistoryInvHolds, PTL DEF Spec, NoFetchWhileFresh

=============================================================================
