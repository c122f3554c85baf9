-------------------------- MODULE SingleflightLock --------------------------
(***************************************************************************)
(* The registry of per-key locks of one process: get_singleflight_lock and *)
(* _SingleflightLockState of stock_cache_service, and the same algorithm   *)
(* in AnalysisSessionLockRegistry.  A lock object is created by the first  *)
(* client of a key, shared by those that come while it is in use, and      *)
(* dropped from the table by the last one that leaves.                     *)
(*                                                                         *)
(* The guard around the table is never held across a suspension, so        *)
(* acquiring it does not suspend either: looking the object up, counting   *)
(* the user and the fast path of asyncio.Lock are one step of the event    *)
(* loop, and so are the release, the count and the drop.  A waiter that    *)
(* the release woke runs in a later step.                                  *)
(***************************************************************************)
EXTENDS Integers, FiniteSets, Sequences

CONSTANTS
  Clients,  \* coroutines that use a lock
  Keys,     \* cache keys or analysis keys
  Locks,    \* bound: lock objects; an object nobody refers to is allocated anew
  None      \* no lock object

ASSUME ClientsAssumption == IsFiniteSet(Clients)
ASSUME NoneAssumption == None \notin Locks

VARIABLES
  table,     \* _singleflight_locks: the lock object of each key in use
  cache_key, \* of each lock object: its key,
  users,     \* ... _user_count,
  locked,    \* ... whether its asyncio.Lock is taken,
  waiters,   \* ... and the waiters of its asyncio.Lock
  held,      \* the lock object each client has entered or waits for
  pc

vars == <<table, cache_key, users, locked, waiters, held, pc>>

TypeOK ==
  /\ table \in [Keys -> Locks \union {None}]
  /\ cache_key \in [Locks -> Keys]
  /\ users \in [Locks -> Nat]
  /\ locked \in [Locks -> BOOLEAN]
  /\ waiters \in [Locks -> Seq(Clients)]
  /\ held \in [Clients -> Locks \union {None}]
  /\ pc \in [Clients -> {"out", "wait", "in"}]

Init ==
  /\ table = [k \in Keys |-> None]
  /\ cache_key \in [Locks -> Keys]
  /\ users = [o \in Locks |-> 0]
  /\ locked = [o \in Locks |-> FALSE]
  /\ waiters = [o \in Locks |-> <<>>]
  /\ held = [c \in Clients |-> None]
  /\ pc = [c \in Clients |-> "out"]

Moves(c, from, to) == pc[c] = from /\ pc' = [pc EXCEPT ![c] = to]

Unreferenced(o) == (\A k \in Keys : table[k] # o) /\ (\A c \in Clients : held[c] # o)

\* The key has no lock object: a new one, which its creator enters at once.
AskNew(c, k) ==
  /\ table[k] = None
  /\ Moves(c, "out", "in")
  /\ \E o \in Locks :
       /\ Unreferenced(o)
       /\ table' = [table EXCEPT ![k] = o]
       /\ cache_key' = [cache_key EXCEPT ![o] = k]
       /\ users' = [users EXCEPT ![o] = 1]
       /\ locked' = [locked EXCEPT ![o] = TRUE]
       /\ waiters' = [waiters EXCEPT ![o] = <<>>]
       /\ held' = [held EXCEPT ![c] = o]

\* Mutant: the object found in the table is used without counting its user.
Ask_Uncounted(c, k) ==
  LET o == table[k] IN
  /\ o # None
  /\ IF locked[o] \/ waiters[o] # <<>>
       THEN /\ Moves(c, "out", "wait")
            /\ waiters' = [waiters EXCEPT ![o] = Append(@, c)]
            /\ UNCHANGED locked
       ELSE /\ Moves(c, "out", "in")
            /\ locked' = [locked EXCEPT ![o] = TRUE]
            /\ UNCHANGED waiters
  /\ held' = [held EXCEPT ![c] = o]
  /\ UNCHANGED <<table, cache_key, users>>

\* Mutant: a lock that a newcomer may take before the waiters.
Ask_Barges(c, k) ==
  LET o == table[k] IN
  /\ o # None
  /\ users' = [users EXCEPT ![o] = @ + 1]
  /\ IF locked[o]
       THEN /\ Moves(c, "out", "wait")
            /\ waiters' = [waiters EXCEPT ![o] = Append(@, c)]
            /\ UNCHANGED locked
       ELSE /\ Moves(c, "out", "in")
            /\ locked' = [locked EXCEPT ![o] = TRUE]
            /\ UNCHANGED waiters
  /\ held' = [held EXCEPT ![c] = o]
  /\ UNCHANGED <<table, cache_key>>

Ask(c, k) ==
  LET o == table[k] IN
  /\ o # None
  /\ users' = [users EXCEPT ![o] = @ + 1]
  /\ IF locked[o] \/ waiters[o] # <<>>
       THEN /\ Moves(c, "out", "wait")
            /\ waiters' = [waiters EXCEPT ![o] = Append(@, c)]
            /\ UNCHANGED locked
       ELSE /\ Moves(c, "out", "in")
            /\ locked' = [locked EXCEPT ![o] = TRUE]
            /\ UNCHANGED waiters
  /\ held' = [held EXCEPT ![c] = o]
  /\ UNCHANGED <<table, cache_key>>

\* The first waiter of a released asyncio.Lock resumes.
Resume(c) ==
  LET o == held[c] IN
  /\ Moves(c, "wait", "in")
  /\ ~locked[o]
  /\ waiters[o] # <<>>
  /\ Head(waiters[o]) = c
  /\ locked' = [locked EXCEPT ![o] = TRUE]
  /\ waiters' = [waiters EXCEPT ![o] = Tail(@)]
  /\ UNCHANGED <<table, cache_key, users, held>>

\* Mutant: the object is never dropped.
Leave_NeverDrops(c) ==
  LET o == held[c] IN
  /\ Moves(c, "in", "out")
  /\ locked' = [locked EXCEPT ![o] = FALSE]
  /\ users' = [users EXCEPT ![o] = @ - 1]
  /\ held' = [held EXCEPT ![c] = None]
  /\ UNCHANGED <<table, cache_key, waiters>>

Leave(c) ==
  LET o == held[c] IN
  /\ Moves(c, "in", "out")
  /\ locked' = [locked EXCEPT ![o] = FALSE]
  /\ users' = [users EXCEPT ![o] = @ - 1]
  /\ table' = [table EXCEPT ![cache_key[o]] = IF users[o] = 1 /\ @ = o THEN None ELSE @]
  /\ held' = [held EXCEPT ![c] = None]
  /\ UNCHANGED <<cache_key, waiters>>

Next ==
  \E c \in Clients :
    \/ \E k \in Keys : AskNew(c, k) \/ Ask(c, k)
    \/ Resume(c)
    \/ Leave(c)

Spec == Init /\ [][Next]_vars

\* The event loop runs a woken waiter, and every section ends.
FairSpec == Spec /\ \A c \in Clients : WF_vars(Resume(c)) /\ WF_vars(Leave(c))

-----------------------------------------------------------------------------
Uses(c, k) == held[c] # None /\ cache_key[held[c]] = k
Inside(k)  == {c \in Clients : pc[c] = "in" /\ Uses(c, k)}

\* Two lock objects of one key would let two clients in at once: an object may be
\* dropped from the table only when nobody uses it any more (the user count).
MutualExclusion ==
  \A k \in Keys : \A c, d \in Inside(k) : c = d

\* The comment on the drop: a key that nobody uses keeps no lock object, so keys
\* with parameters do not pile up in the process.
NoIdleLock ==
  \A k \in Keys : table[k] # None => \E c \in Clients : Uses(c, k)

Promise == INSTANCE KeyedQueue WITH
  inside <- [k \in Keys |-> Inside(k)],
  line   <- [k \in Keys |-> IF table[k] = None THEN <<>> ELSE waiters[table[k]]]

\* Creating, sharing and dropping the lock objects is invisible: the clients of a
\* key see one queue that serves them in order.
ImplementsQueue == Promise!Spec

\* Whoever waits for a key gets in, however many clients keep coming.
EveryoneEnters == \A c \in Clients : pc[c] = "wait" ~> pc[c] = "in"

=============================================================================
