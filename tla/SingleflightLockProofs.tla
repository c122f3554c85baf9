----------------------- MODULE SingleflightLockProofs -----------------------
(***************************************************************************)
(* Mutual exclusion, the absence of idle lock objects and of lost wake-ups, *)
(* and the implementation of KeyedQueue, for every set of clients, keys and *)
(* lock objects.                                                           *)
(***************************************************************************)
EXTENDS SingleflightLock, FiniteSetTheorems, TLAPS

UsersOf(o) == {c \in Clients : held[c] = o}
Listed(o)  == o # None /\ \E k \in Keys : table[k] = o

OutsideHoldsNothing == \A c \in Clients : pc[c] = "out" <=> held[c] = None

HeldIsListed == \A c \in Clients : held[c] # None => table[cache_key[held[c]]] = held[c]

TableIsKeyed == \A k \in Keys : table[k] # None => cache_key[table[k]] = k

Counted ==
  \A o \in Locks : Listed(o) => users[o] = Cardinality(UsersOf(o)) /\ UsersOf(o) # {}

LockedInside == \A c \in Clients : pc[c] = "in" => locked[held[c]]

OneInside ==
  \A c, d \in Clients : pc[c] = "in" /\ pc[d] = "in" /\ held[c] = held[d] => c = d

SomeoneInside ==
  \A o \in Locks : Listed(o) /\ locked[o] => \E c \in Clients : pc[c] = "in" /\ held[c] = o

WaitersWait ==
  \A o \in Locks : Listed(o) =>
    \A i \in 1 .. Len(waiters[o]) : pc[waiters[o][i]] = "wait" /\ held[waiters[o][i]] = o

WaitOnce ==
  \A o \in Locks : Listed(o) =>
    \A i, j \in 1 .. Len(waiters[o]) : waiters[o][i] = waiters[o][j] => i = j

LockInv ==
  /\ TypeOK
  /\ OutsideHoldsNothing /\ HeldIsListed /\ TableIsKeyed
  /\ Counted
  /\ LockedInside /\ OneInside /\ SomeoneInside
  /\ WaitersWait /\ WaitOnce

-----------------------------------------------------------------------------
\* The users of an object are finitely many, and one more or one less is counted.
LEMMA UsersFinite ==
  \A o : IsFiniteSet(UsersOf(o)) /\ Cardinality(UsersOf(o)) \in Nat
<1>1. TAKE o
<1>2. UsersOf(o) \subseteq Clients
  BY DEF UsersOf
<1> QED
  BY <1>2, ClientsAssumption, FS_Subset, FS_CardinalityType

LEMMA NoUsers == ASSUME NEW o, UsersOf(o) # {} PROVE Cardinality(UsersOf(o)) > 0
  BY UsersFinite, FS_EmptySet

LEMMA OneMore ==
  ASSUME NEW c \in Clients, NEW o, held[c] # o, NEW S, S = UsersOf(o) \union {c}
  PROVE  Cardinality(S) = Cardinality(UsersOf(o)) + 1
<1>1. c \notin UsersOf(o)
  BY DEF UsersOf
<1> QED
  BY <1>1, UsersFinite, FS_AddElement

LEMMA OneLess ==
  ASSUME NEW c \in Clients, NEW o, held[c] = o, NEW S, S = UsersOf(o) \ {c}
  PROVE  /\ Cardinality(S) = Cardinality(UsersOf(o)) - 1
         /\ Cardinality(UsersOf(o)) = 1 <=> S = {}
<1>1. c \in UsersOf(o)
  BY DEF UsersOf
<1>2. IsFiniteSet(S) /\ Cardinality(S) = Cardinality(UsersOf(o)) - 1
  BY <1>1, UsersFinite, FS_RemoveElement
<1>3. S = {} <=> Cardinality(S) = 0
  BY <1>2, FS_EmptySet
<1> QED
  BY <1>2, <1>3, UsersFinite

LEMMA InitLockInv == Init => LockInv
<1> SUFFICES ASSUME Init PROVE LockInv
  OBVIOUS
<1> USE NoneAssumption DEF Init
<1>1. TypeOK
  BY DEF TypeOK
<1>2. OutsideHoldsNothing /\ HeldIsListed /\ TableIsKeyed
  BY DEF OutsideHoldsNothing, HeldIsListed, TableIsKeyed
<1>3. \A o \in Locks : ~Listed(o)
  BY DEF Listed
<1>4. Counted /\ SomeoneInside /\ WaitersWait /\ WaitOnce
  BY <1>3 DEF Counted, SomeoneInside, WaitersWait, WaitOnce
<1>5. LockedInside /\ OneInside
  BY DEF LockedInside, OneInside
<1> QED
  BY <1>1, <1>2, <1>4, <1>5 DEF LockInv

-----------------------------------------------------------------------------
\* A client that is not outside holds a lock object of the table.
LEMMA HolderFacts ==
  ASSUME LockInv, NEW c \in Clients, pc[c] # "out"
  PROVE  /\ held[c] \in Locks
         /\ cache_key[held[c]] \in Keys
         /\ table[cache_key[held[c]]] = held[c]
         /\ Listed(held[c])
<1>1. held[c] \in Locks
  BY DEF LockInv, TypeOK, OutsideHoldsNothing
<1>2. cache_key[held[c]] \in Keys
  BY <1>1 DEF LockInv, TypeOK
<1>3. table[cache_key[held[c]]] = held[c]
  BY <1>1, NoneAssumption DEF LockInv, HeldIsListed
<1> QED
  BY <1>1, <1>2, <1>3, NoneAssumption DEF Listed

\* The first client of a key brings a lock object nobody knew.
LEMMA AskNewKeeps ==
  ASSUME LockInv, NEW c \in Clients, NEW k \in Keys, AskNew(c, k)
  PROVE  LockInv'
<1>1. PICK o \in Locks :
        /\ Unreferenced(o)
        /\ table' = [table EXCEPT ![k] = o]
        /\ cache_key' = [cache_key EXCEPT ![o] = k]
        /\ users' = [users EXCEPT ![o] = 1]
        /\ locked' = [locked EXCEPT ![o] = TRUE]
        /\ waiters' = [waiters EXCEPT ![o] = <<>>]
        /\ held' = [held EXCEPT ![c] = o]
  BY DEF AskNew
<1>2. /\ table[k] = None
      /\ pc[c] = "out"
      /\ pc' = [pc EXCEPT ![c] = "in"]
  BY DEF AskNew, Moves
<1>3. TypeOK
  BY DEF LockInv
<1>4. /\ \A j \in Keys : table[j] # o
      /\ \A d \in Clients : held[d] # o
  BY <1>1 DEF Unreferenced
<1>5. held[c] = None
  BY <1>2 DEF LockInv, OutsideHoldsNothing
<1>6. \A p : p # o => (Listed(p)' <=> Listed(p))
  BY <1>1, <1>2, <1>3 DEF Listed, TypeOK
<1>7. \A d \in Clients : d # c => held'[d] = held[d] /\ pc'[d] = pc[d]
  BY <1>1, <1>2, <1>3 DEF TypeOK
<1>8. held'[c] = o /\ pc'[c] = "in"
  BY <1>1, <1>2, <1>3 DEF TypeOK
<1>9. TypeOK'
  BY <1>1, <1>2, <1>3 DEF TypeOK
<1>10. OutsideHoldsNothing'
  BY <1>7, <1>8, NoneAssumption DEF LockInv, OutsideHoldsNothing
<1>11. HeldIsListed'
  <2> SUFFICES ASSUME NEW d \in Clients, held'[d] # None
               PROVE  table'[cache_key'[held'[d]]] = held'[d]
    BY DEF HeldIsListed
  <2>1. ASSUME d = c PROVE table'[cache_key'[held'[d]]] = held'[d]
    BY <2>1, <1>1, <1>3, <1>8 DEF TypeOK
  <2>2. ASSUME d # c PROVE table'[cache_key'[held'[d]]] = held'[d]
    <3>1. held'[d] = held[d] /\ held[d] # o /\ held[d] \in Locks
      BY <2>2, <1>4, <1>7, <1>3 DEF TypeOK
    <3>2. cache_key'[held[d]] = cache_key[held[d]] /\ cache_key[held[d]] \in Keys
      BY <3>1, <1>1, <1>3 DEF TypeOK
    <3>3. table[cache_key[held[d]]] = held[d]
      BY <3>1, NoneAssumption DEF LockInv, HeldIsListed
    <3>4. cache_key[held[d]] # k
      BY <3>3, <3>1, <1>2, NoneAssumption
    <3> QED
      BY <3>1, <3>2, <3>3, <3>4, <1>1, <1>3 DEF TypeOK
  <2> QED
    BY <2>1, <2>2
<1>12. TableIsKeyed'
  BY <1>1, <1>3, <1>4, NoneAssumption DEF LockInv, TypeOK, TableIsKeyed
<1>13. \A p \in Locks : p # o => UsersOf(p)' = UsersOf(p)
  BY <1>5, <1>7, <1>8, NoneAssumption DEF UsersOf
<1>14. UsersOf(o)' = {c}
  BY <1>4, <1>7, <1>8 DEF UsersOf
<1>15. Cardinality(UsersOf(o)') = 1
  BY <1>14, FS_Singleton
<1>16. Counted'
  <2> SUFFICES ASSUME NEW p \in Locks, Listed(p)'
               PROVE  users'[p] = Cardinality(UsersOf(p)') /\ UsersOf(p)' # {}
    BY DEF Counted
  <2>1. ASSUME p = o PROVE users'[p] = Cardinality(UsersOf(p)') /\ UsersOf(p)' # {}
    BY <2>1, <1>14, <1>15, <1>1, <1>3 DEF TypeOK
  <2>2. ASSUME p # o PROVE users'[p] = Cardinality(UsersOf(p)') /\ UsersOf(p)' # {}
    BY <2>2, <1>6, <1>13, <1>1, <1>3 DEF LockInv, Counted, TypeOK
  <2> QED
    BY <2>1, <2>2
<1>17. LockedInside' /\ OneInside'
  BY <1>1, <1>3, <1>4, <1>7, <1>8 DEF LockInv, LockedInside, OneInside, TypeOK
<1>18. SomeoneInside'
  <2> SUFFICES ASSUME NEW p \in Locks, Listed(p)', locked'[p]
               PROVE  \E d \in Clients : pc'[d] = "in" /\ held'[d] = p
    BY DEF SomeoneInside
  <2>1. CASE p = o
    BY <2>1, <1>8
  <2>2. CASE p # o
    BY <2>2, <1>2, <1>6, <1>7, <1>1, <1>3 DEF LockInv, SomeoneInside, TypeOK
  <2> QED
    BY <2>1, <2>2
<1>19. \A p \in Locks : p # o => waiters'[p] = waiters[p]
  BY <1>1, <1>3 DEF TypeOK
<1>20. waiters'[o] = <<>>
  BY <1>1, <1>3 DEF TypeOK
<1>21. WaitersWait'
  <2> SUFFICES ASSUME NEW p \in Locks, Listed(p)', NEW i \in 1 .. Len(waiters'[p])
               PROVE  pc'[waiters'[p][i]] = "wait" /\ held'[waiters'[p][i]] = p
    BY DEF WaitersWait
  <2>1. p # o
    BY <1>20
  <2>2. waiters'[p] = waiters[p] /\ waiters[p] \in Seq(Clients)
    BY <2>1, <1>19, <1>3 DEF TypeOK
  <2>3. waiters[p][i] \in Clients /\ pc[waiters[p][i]] = "wait" /\ held[waiters[p][i]] = p
    BY <2>1, <2>2, <1>6 DEF LockInv, WaitersWait
  <2> QED
    BY <2>2, <2>3, <1>2, <1>7
<1>22. WaitOnce'
  <2> SUFFICES ASSUME NEW p \in Locks, Listed(p)', NEW i \in 1 .. Len(waiters'[p]),
                      NEW j \in 1 .. Len(waiters'[p]), waiters'[p][i] = waiters'[p][j]
               PROVE  i = j
    BY DEF WaitOnce
  <2>1. p # o
    BY <1>20
  <2> QED
    BY <2>1, <1>19, <1>6 DEF LockInv, WaitOnce
<1> QED
  BY <1>9, <1>10, <1>11, <1>12, <1>16, <1>17, <1>18, <1>21, <1>22 DEF LockInv

\* A client joins the users of an object that is already there.
LEMMA AskKeeps ==
  ASSUME LockInv, NEW c \in Clients, NEW k \in Keys, Ask(c, k)
  PROVE  LockInv'
<1> SUFFICES ASSUME NEW o, o = table[k] PROVE LockInv'
  OBVIOUS
<1>1. TypeOK
  BY DEF LockInv
<1>2. /\ o \in Locks
      /\ o # None
      /\ cache_key[o] = k
  BY <1>1 DEF Ask, LockInv, TypeOK, TableIsKeyed
<1>3. Listed(o)
  BY <1>2 DEF Listed
<1>4. pc[c] = "out" /\ held[c] = None
  BY DEF Ask, Moves, LockInv, OutsideHoldsNothing
<1>5. /\ table' = table
      /\ cache_key' = cache_key
      /\ users' = [users EXCEPT ![o] = @ + 1]
      /\ held' = [held EXCEPT ![c] = o]
  BY DEF Ask
<1>6. \/ /\ locked[o] \/ waiters[o] # <<>>
         /\ pc' = [pc EXCEPT ![c] = "wait"]
         /\ waiters' = [waiters EXCEPT ![o] = Append(@, c)]
         /\ locked' = locked
      \/ /\ ~locked[o]
         /\ waiters[o] = <<>>
         /\ pc' = [pc EXCEPT ![c] = "in"]
         /\ locked' = [locked EXCEPT ![o] = TRUE]
         /\ waiters' = waiters
  BY DEF Ask, Moves
<1>7. \A d \in Clients : d # c => held'[d] = held[d] /\ pc'[d] = pc[d]
  BY <1>1, <1>5, <1>6 DEF TypeOK
<1>8. held'[c] = o /\ pc'[c] \in {"wait", "in"}
  BY <1>1, <1>5, <1>6 DEF TypeOK
<1>9. \A p : Listed(p)' <=> Listed(p)
  BY <1>5 DEF Listed
<1>10. TypeOK'
  <2>1. waiters' \in [Locks -> Seq(Clients)]
    <3>1. waiters \in [Locks -> Seq(Clients)] /\ Append(waiters[o], c) \in Seq(Clients)
      BY <1>1, <1>2 DEF TypeOK
    <3>2. waiters' = waiters \/ waiters' = [waiters EXCEPT ![o] = Append(@, c)]
      BY <1>6
    <3> QED
      BY <3>1, <3>2
  <2>2. locked' \in [Locks -> BOOLEAN] /\ pc' \in [Clients -> {"out", "wait", "in"}]
    BY <1>1, <1>2, <1>6 DEF TypeOK
  <2>3. users' \in [Locks -> Nat] /\ held' \in [Clients -> Locks \union {None}]
    BY <1>1, <1>2, <1>5 DEF TypeOK
  <2> QED
    BY <2>1, <2>2, <2>3, <1>1, <1>5 DEF TypeOK
<1>11. OutsideHoldsNothing'
  BY <1>2, <1>7, <1>8 DEF LockInv, OutsideHoldsNothing
<1>12. HeldIsListed' /\ TableIsKeyed'
  BY <1>2, <1>5, <1>7, <1>8 DEF LockInv, HeldIsListed, TableIsKeyed
<1>13. \A p \in Locks : p # o => UsersOf(p)' = UsersOf(p)
  BY <1>4, <1>7, <1>8, NoneAssumption DEF UsersOf
<1>14. UsersOf(o)' = UsersOf(o) \union {c}
  BY <1>7, <1>8 DEF UsersOf
<1>15. Cardinality(UsersOf(o)') = Cardinality(UsersOf(o)) + 1
  BY <1>14, <1>4, <1>2, OneMore
<1>16. Counted'
  <2> SUFFICES ASSUME NEW p \in Locks, Listed(p)'
               PROVE  users'[p] = Cardinality(UsersOf(p)') /\ UsersOf(p)' # {}
    BY DEF Counted
  <2>1. users[p] = Cardinality(UsersOf(p)) /\ UsersOf(p) # {}
    BY <1>9 DEF LockInv, Counted
  <2>2. ASSUME p = o PROVE users'[p] = Cardinality(UsersOf(p)') /\ UsersOf(p)' # {}
    BY <2>1, <2>2, <1>14, <1>15, <1>5, <1>1 DEF TypeOK
  <2>3. ASSUME p # o PROVE users'[p] = Cardinality(UsersOf(p)') /\ UsersOf(p)' # {}
    BY <2>1, <2>3, <1>13, <1>5, <1>1 DEF TypeOK
  <2> QED
    BY <2>2, <2>3
<1>17. ASSUME ~locked[o], NEW d \in Clients, pc[d] = "in"
       PROVE  held[d] # o
  BY <1>17 DEF LockInv, LockedInside
<1>18. LockedInside'
  <2> SUFFICES ASSUME NEW d \in Clients, pc'[d] = "in" PROVE locked'[held'[d]]
    BY DEF LockedInside
  <2>1. ASSUME d = c PROVE locked'[held'[d]]
    BY <2>1, <1>1, <1>2, <1>6, <1>8 DEF TypeOK
  <2>2. ASSUME d # c PROVE locked'[held'[d]]
    <3>1. pc[d] = "in" /\ held'[d] = held[d]
      BY <2>2, <1>7
    <3>2. held[d] \in Locks /\ locked[held[d]]
      BY <3>1, HolderFacts DEF LockInv, LockedInside
    <3> QED
      BY <3>1, <3>2, <1>1, <1>6 DEF TypeOK
  <2> QED
    BY <2>1, <2>2
<1>19. OneInside'
  <2> SUFFICES ASSUME NEW d \in Clients, NEW e \in Clients,
                      pc'[d] = "in", pc'[e] = "in", held'[d] = held'[e]
               PROVE  d = e
    BY DEF OneInside
  <2>1. ASSUME pc'[c] = "in" PROVE ~locked[o]
    BY <2>1, <1>6, <1>1 DEF TypeOK
  <2> QED
    BY <2>1, <1>7, <1>8, <1>17 DEF LockInv, OneInside
<1>20. SomeoneInside'
  <2> SUFFICES ASSUME NEW p \in Locks, Listed(p)', locked'[p]
               PROVE  \E d \in Clients : pc'[d] = "in" /\ held'[d] = p
    BY DEF SomeoneInside
  <2>1. CASE locked[p]
    BY <2>1, <1>4, <1>7, <1>9 DEF LockInv, SomeoneInside
  <2>2. CASE ~locked[p]
    <3>1. p = o /\ pc'[c] = "in"
      BY <2>2, <1>6, <1>1 DEF TypeOK
    <3> QED
      BY <3>1, <1>8
  <2> QED
    BY <2>1, <2>2
<1>21. ASSUME NEW p \in Locks, Listed(p), NEW i \in 1 .. Len(waiters[p])
       PROVE  /\ waiters[p][i] \in Clients
              /\ waiters[p][i] # c
              /\ pc[waiters[p][i]] = "wait"
              /\ held[waiters[p][i]] = p
  BY <1>21, <1>1, <1>4 DEF LockInv, WaitersWait, TypeOK
<1>22. ASSUME NEW p \in Locks
       PROVE  \/ waiters'[p] = waiters[p]
              \/ p = o /\ waiters'[p] = Append(waiters[p], c) /\ pc'[c] = "wait"
  BY <1>22, <1>6, <1>1, <1>2 DEF TypeOK
<1>23. WaitersWait' /\ WaitOnce'
  <2> SUFFICES ASSUME NEW p \in Locks, Listed(p)
               PROVE  /\ \A i \in 1 .. Len(waiters'[p]) :
                           pc'[waiters'[p][i]] = "wait" /\ held'[waiters'[p][i]] = p
                      /\ \A i, j \in 1 .. Len(waiters'[p]) :
                           waiters'[p][i] = waiters'[p][j] => i = j
    BY <1>9 DEF WaitersWait, WaitOnce
  <2>1. waiters[p] \in Seq(Clients)
    BY <1>1 DEF TypeOK
  <2>2. \A i, j \in 1 .. Len(waiters[p]) : waiters[p][i] = waiters[p][j] => i = j
    BY DEF LockInv, WaitOnce
  <2>3. CASE waiters'[p] = waiters[p]
    BY <2>2, <2>3, <1>7, <1>21
  <2>4. CASE p = o /\ waiters'[p] = Append(waiters[p], c) /\ pc'[c] = "wait"
    <3>1. Len(waiters'[p]) = Len(waiters[p]) + 1 /\ Len(waiters[p]) \in Nat
      BY <2>1, <2>4
    <3>2. \A i \in 1 .. Len(waiters[p]) : waiters'[p][i] = waiters[p][i]
      BY <2>1, <2>4
    <3>3. waiters'[p][Len(waiters[p]) + 1] = c
      BY <2>1, <2>4
    <3>4. \A i \in 1 .. Len(waiters'[p]) : i \in 1 .. Len(waiters[p]) \/ i = Len(waiters[p]) + 1
      BY <3>1
    <3>5. \A i \in 1 .. Len(waiters'[p]) :
            pc'[waiters'[p][i]] = "wait" /\ held'[waiters'[p][i]] = p
      BY <3>2, <3>3, <3>4, <2>4, <1>7, <1>8, <1>21
    <3>6. \A i, j \in 1 .. Len(waiters'[p]) : waiters'[p][i] = waiters'[p][j] => i = j
      BY <3>2, <3>3, <3>4, <2>2, <1>21
    <3> QED
      BY <3>5, <3>6
  <2> QED
    BY <2>3, <2>4, <1>22
<1> QED
  BY <1>10, <1>11, <1>12, <1>16, <1>18, <1>19, <1>20, <1>23 DEF LockInv

\* The first waiter of a released lock enters.
LEMMA ResumeKeeps ==
  ASSUME LockInv, NEW c \in Clients, Resume(c)
  PROVE  LockInv'
<1> SUFFICES ASSUME NEW o, o = held[c] PROVE LockInv'
  OBVIOUS
<1>1. TypeOK
  BY DEF LockInv
<1>2. /\ pc[c] = "wait"
      /\ pc' = [pc EXCEPT ![c] = "in"]
      /\ ~locked[o]
      /\ waiters[o] # <<>>
      /\ Head(waiters[o]) = c
      /\ locked' = [locked EXCEPT ![o] = TRUE]
      /\ waiters' = [waiters EXCEPT ![o] = Tail(@)]
      /\ UNCHANGED <<table, cache_key, users, held>>
  BY DEF Resume, Moves
<1>3. o \in Locks /\ Listed(o)
  BY <1>2, HolderFacts
<1>4. \A d \in Clients : d # c => pc'[d] = pc[d]
  BY <1>1, <1>2 DEF TypeOK
<1>5. pc'[c] = "in"
  BY <1>1, <1>2 DEF TypeOK
<1>6. \A p : Listed(p)' <=> Listed(p)
  BY <1>2 DEF Listed
<1>7. waiters[o] \in Seq(Clients) /\ Tail(waiters[o]) \in Seq(Clients)
  BY <1>1, <1>2, <1>3 DEF TypeOK
<1>8. /\ Len(waiters[o]) \in Nat \ {0}
      /\ Len(Tail(waiters[o])) = Len(waiters[o]) - 1
      /\ waiters[o][1] = c
      /\ \A i \in 1 .. Len(Tail(waiters[o])) : Tail(waiters[o])[i] = waiters[o][i + 1]
  BY <1>2, <1>7
<1>9. TypeOK'
  <2>1. waiters' \in [Locks -> Seq(Clients)]
    BY <1>1, <1>2, <1>3, <1>7 DEF TypeOK
  <2> QED
    BY <2>1, <1>1, <1>2, <1>3 DEF TypeOK
<1>10. OutsideHoldsNothing' /\ HeldIsListed' /\ TableIsKeyed'
  <2>1. OutsideHoldsNothing'
    BY <1>2, <1>4, <1>5 DEF LockInv, OutsideHoldsNothing
  <2>2. HeldIsListed' /\ TableIsKeyed'
    BY <1>2 DEF LockInv, HeldIsListed, TableIsKeyed
  <2> QED
    BY <2>1, <2>2
<1>11. Counted'
  <2>1. \A p : UsersOf(p)' = UsersOf(p)
    BY <1>2 DEF UsersOf
  <2> QED
    BY <2>1, <1>2, <1>6 DEF LockInv, Counted
<1>12. ASSUME NEW d \in Clients, pc[d] = "in" PROVE held[d] # o
  BY <1>12, <1>2 DEF LockInv, LockedInside
<1>13. LockedInside'
  <2> SUFFICES ASSUME NEW d \in Clients, pc'[d] = "in" PROVE locked'[held[d]]
    BY <1>2 DEF LockedInside
  <2>1. ASSUME d = c PROVE locked'[held[d]]
    BY <2>1, <1>1, <1>2, <1>3 DEF TypeOK
  <2>2. ASSUME d # c PROVE locked'[held[d]]
    <3>1. pc[d] = "in"
      BY <2>2, <1>4
    <3>2. held[d] \in Locks /\ locked[held[d]]
      BY <3>1, HolderFacts DEF LockInv, LockedInside
    <3> QED
      BY <3>2, <1>1, <1>2 DEF TypeOK
  <2> QED
    BY <2>1, <2>2
<1>14. OneInside'
  BY <1>2, <1>4, <1>5, <1>12 DEF LockInv, OneInside
<1>15. SomeoneInside'
  <2> SUFFICES ASSUME NEW p \in Locks, Listed(p), locked'[p]
               PROVE  \E d \in Clients : pc'[d] = "in" /\ held[d] = p
    BY <1>2, <1>6 DEF SomeoneInside
  <2>1. CASE p = o
    BY <2>1, <1>5
  <2>2. CASE p # o
    <3>1. locked[p]
      BY <2>2, <1>1, <1>2 DEF TypeOK
    <3>2. PICK d \in Clients : pc[d] = "in" /\ held[d] = p
      BY <3>1 DEF LockInv, SomeoneInside
    <3> QED
      BY <3>2, <1>2, <1>4
  <2> QED
    BY <2>1, <2>2
<1>16. ASSUME NEW p \in Locks, Listed(p)
       PROVE  /\ \A i \in 1 .. Len(waiters[p]) :
                   /\ waiters[p][i] \in Clients
                   /\ pc[waiters[p][i]] = "wait"
                   /\ held[waiters[p][i]] = p
              /\ \A i, j \in 1 .. Len(waiters[p]) : waiters[p][i] = waiters[p][j] => i = j
  BY <1>16, <1>1 DEF LockInv, WaitersWait, WaitOnce, TypeOK
<1>17. ASSUME NEW p \in Locks, p # o PROVE waiters'[p] = waiters[p]
  BY <1>17, <1>1, <1>2 DEF TypeOK
<1>18. waiters'[o] = Tail(waiters[o])
  BY <1>1, <1>2, <1>3 DEF TypeOK
<1>19. \A i \in 1 .. Len(waiters'[o]) :
         /\ i + 1 \in 1 .. Len(waiters[o])
         /\ i + 1 # 1
         /\ waiters'[o][i] = waiters[o][i + 1]
  BY <1>8, <1>18
<1>20. WaitersWait'
  <2> SUFFICES ASSUME NEW p \in Locks, Listed(p), NEW i \in 1 .. Len(waiters'[p])
               PROVE  pc'[waiters'[p][i]] = "wait" /\ held[waiters'[p][i]] = p
    BY <1>2, <1>6 DEF WaitersWait
  <2>1. ASSUME p # o PROVE pc'[waiters'[p][i]] = "wait" /\ held[waiters'[p][i]] = p
    <3>1. waiters[p][i] # c
      BY <2>1, <1>16, <1>17
    <3> QED
      BY <3>1, <2>1, <1>4, <1>16, <1>17
  <2>2. ASSUME p = o PROVE pc'[waiters'[p][i]] = "wait" /\ held[waiters'[p][i]] = p
    <3>1. 1 \in 1 .. Len(waiters[o])
      BY <1>8
    <3>2. waiters[o][i + 1] # c
      BY <3>1, <2>2, <1>8, <1>3, <1>16, <1>19
    <3> QED
      BY <3>2, <2>2, <1>3, <1>4, <1>16, <1>19
  <2> QED
    BY <2>1, <2>2
<1>21. WaitOnce'
  <2> SUFFICES ASSUME NEW p \in Locks, Listed(p), NEW i \in 1 .. Len(waiters'[p]),
                      NEW j \in 1 .. Len(waiters'[p]), waiters'[p][i] = waiters'[p][j]
               PROVE  i = j
    BY <1>6 DEF WaitOnce
  <2>1. ASSUME p # o PROVE i = j
    BY <2>1, <1>16, <1>17
  <2>2. ASSUME p = o PROVE i = j
    <3>1. /\ i + 1 \in 1 .. Len(waiters[o])
          /\ j + 1 \in 1 .. Len(waiters[o])
          /\ waiters[o][i + 1] = waiters[o][j + 1]
      BY <2>2, <1>19
    <3>2. \A m, n \in 1 .. Len(waiters[o]) : waiters[o][m] = waiters[o][n] => m = n
      BY <1>3, <1>16
    <3>3. i + 1 = j + 1
      BY <3>1, <3>2
    <3> QED
      BY <3>3
  <2> QED
    BY <2>1, <2>2
<1> QED
  BY <1>9, <1>10, <1>11, <1>13, <1>14, <1>15, <1>20, <1>21 DEF LockInv

\* A client leaves; the last one takes the object out of the table.
LEMMA LeaveKeeps ==
  ASSUME LockInv, NEW c \in Clients, Leave(c)
  PROVE  LockInv'
<1> SUFFICES ASSUME NEW o, o = held[c], NEW k, k = cache_key[o] PROVE LockInv'
  OBVIOUS
<1>1. TypeOK
  BY DEF LockInv
<1>2. /\ pc[c] = "in"
      /\ pc' = [pc EXCEPT ![c] = "out"]
      /\ locked' = [locked EXCEPT ![o] = FALSE]
      /\ users' = [users EXCEPT ![o] = @ - 1]
      /\ table' = [table EXCEPT ![k] = IF users[o] = 1 /\ @ = o THEN None ELSE @]
      /\ held' = [held EXCEPT ![c] = None]
      /\ UNCHANGED <<cache_key, waiters>>
  BY DEF Leave, Moves
<1>3. o \in Locks /\ Listed(o) /\ k \in Keys /\ table[k] = o /\ o # None
  BY <1>2, HolderFacts, NoneAssumption
<1>4. \A d \in Clients : d # c => held'[d] = held[d] /\ pc'[d] = pc[d]
  BY <1>1, <1>2 DEF TypeOK
<1>5. held'[c] = None /\ pc'[c] = "out"
  BY <1>1, <1>2 DEF TypeOK
<1>6. users[o] = Cardinality(UsersOf(o)) /\ users[o] \in Nat /\ users[o] > 0
  BY <1>3, NoUsers, UsersFinite DEF LockInv, Counted
<1>7. UsersOf(o)' = UsersOf(o) \ {c}
  BY <1>3, <1>4, <1>5 DEF UsersOf
<1>8. /\ Cardinality(UsersOf(o)') = users[o] - 1
      /\ users[o] = 1 <=> UsersOf(o)' = {}
  BY <1>6, <1>7, OneLess
<1>9. \A p \in Locks : p # o => UsersOf(p)' = UsersOf(p)
  BY <1>4, <1>5, NoneAssumption DEF UsersOf
<1>10. \A j \in Keys : j # k => table'[j] = table[j] /\ table[j] # o
  BY <1>1, <1>2, <1>3 DEF LockInv, TableIsKeyed, TypeOK
<1>11. table'[k] = IF users[o] = 1 THEN None ELSE o
  BY <1>1, <1>2, <1>3 DEF TypeOK
<1>12. \A p : Listed(p)' => Listed(p)
  BY <1>3, <1>10, <1>11 DEF Listed
<1>13. Listed(o)' => users[o] # 1
  BY <1>3, <1>10, <1>11 DEF Listed
<1>14. TypeOK'
  <2>1. users' \in [Locks -> Nat]
    BY <1>1, <1>2, <1>3, <1>6 DEF TypeOK
  <2>2. table' \in [Keys -> Locks \union {None}]
    BY <1>1, <1>2, <1>3 DEF TypeOK
  <2> QED
    BY <2>1, <2>2, <1>1, <1>2 DEF TypeOK
<1>15. OutsideHoldsNothing'
  BY <1>4, <1>5 DEF LockInv, OutsideHoldsNothing
<1>16. HeldIsListed'
  <2> SUFFICES ASSUME NEW d \in Clients, held'[d] # None
               PROVE  table'[cache_key[held'[d]]] = held'[d]
    BY <1>2 DEF HeldIsListed
  <2>1. d # c /\ held'[d] = held[d] /\ held[d] \in Locks
    BY <1>1, <1>4, <1>5 DEF TypeOK
  <2>2. table[cache_key[held[d]]] = held[d] /\ cache_key[held[d]] \in Keys
    BY <2>1, <1>1, NoneAssumption DEF LockInv, HeldIsListed, TypeOK
  <2>3. ASSUME held[d] = o PROVE users[o] # 1
    BY <2>1, <2>3, <1>8, <1>7 DEF UsersOf
  <2> QED
    BY <2>1, <2>2, <2>3, <1>3, <1>10, <1>11
<1>17. TableIsKeyed'
  BY <1>2, <1>3, <1>10, <1>11 DEF LockInv, TableIsKeyed
<1>18. Counted'
  <2> SUFFICES ASSUME NEW p \in Locks, Listed(p)'
               PROVE  users'[p] = Cardinality(UsersOf(p)') /\ UsersOf(p)' # {}
    BY DEF Counted
  <2>1. ASSUME p = o PROVE users'[p] = Cardinality(UsersOf(p)') /\ UsersOf(p)' # {}
    BY <2>1, <1>1, <1>2, <1>8, <1>13 DEF TypeOK
  <2>2. ASSUME p # o PROVE users'[p] = Cardinality(UsersOf(p)') /\ UsersOf(p)' # {}
    BY <2>2, <1>1, <1>2, <1>9, <1>12 DEF LockInv, Counted, TypeOK
  <2> QED
    BY <2>1, <2>2
<1>19. ASSUME NEW d \in Clients, pc'[d] = "in"
       PROVE  d # c /\ pc[d] = "in" /\ held'[d] = held[d] /\ held[d] # o /\ held[d] \in Locks
  <2>1. d # c /\ pc[d] = "in" /\ held'[d] = held[d]
    BY <1>4, <1>5, <1>19
  <2> QED
    BY <2>1, <1>2, HolderFacts DEF LockInv, OneInside
<1>20. LockedInside' /\ OneInside'
  <2>1. LockedInside'
    BY <1>1, <1>2, <1>19 DEF LockInv, LockedInside, TypeOK
  <2>2. OneInside'
    BY <1>19 DEF LockInv, OneInside
  <2> QED
    BY <2>1, <2>2
<1>21. SomeoneInside'
  <2> SUFFICES ASSUME NEW p \in Locks, Listed(p), locked'[p]
               PROVE  \E d \in Clients : pc'[d] = "in" /\ held'[d] = p
    BY <1>12 DEF SomeoneInside
  <2>1. p # o /\ locked[p]
    BY <1>1, <1>2 DEF TypeOK
  <2>2. PICK d \in Clients : pc[d] = "in" /\ held[d] = p
    BY <2>1 DEF LockInv, SomeoneInside
  <2> QED
    BY <2>1, <2>2, <1>4
<1>22. WaitersWait' /\ WaitOnce'
  <2>1. WaitOnce'
    BY <1>2, <1>12 DEF LockInv, WaitOnce
  <2> SUFFICES ASSUME NEW p \in Locks, Listed(p), NEW i \in 1 .. Len(waiters[p])
               PROVE  pc'[waiters[p][i]] = "wait" /\ held'[waiters[p][i]] = p
    BY <2>1, <1>2, <1>12 DEF WaitersWait
  <2>2. waiters[p][i] \in Clients /\ pc[waiters[p][i]] = "wait" /\ held[waiters[p][i]] = p
    BY <1>1 DEF LockInv, WaitersWait, TypeOK
  <2> QED
    BY <2>2, <1>2, <1>4
<1> QED
  BY <1>14, <1>15, <1>16, <1>17, <1>18, <1>20, <1>21, <1>22 DEF LockInv

LEMMA LockInvInductive == LockInv /\ [Next]_vars => LockInv'
<1> SUFFICES ASSUME LockInv, [Next]_vars PROVE LockInv'
  OBVIOUS
<1>1. ASSUME NEW c \in Clients, NEW k \in Keys, AskNew(c, k) PROVE LockInv'
  BY <1>1, AskNewKeeps
<1>2. ASSUME NEW c \in Clients, NEW k \in Keys, Ask(c, k) PROVE LockInv'
  BY <1>2, AskKeeps
<1>3. ASSUME NEW c \in Clients, Resume(c) PROVE LockInv'
  BY <1>3, ResumeKeeps
<1>4. ASSUME NEW c \in Clients, Leave(c) PROVE LockInv'
  BY <1>4, LeaveKeeps
<1>5. ASSUME UNCHANGED vars PROVE LockInv'
  <2>1. \A p : (Listed(p)' <=> Listed(p)) /\ UsersOf(p)' = UsersOf(p)
    BY <1>5 DEF Listed, UsersOf, vars
  <2> QED
    BY <2>1, <1>5 DEF vars, LockInv, TypeOK, OutsideHoldsNothing, HeldIsListed, TableIsKeyed,
       Counted, LockedInside, OneInside, SomeoneInside, WaitersWait, WaitOnce
<1> QED
  BY <1>1, <1>2, <1>3, <1>4, <1>5 DEF Next

LEMMA LockInvHolds == Spec => []LockInv
<1> QED
  BY InitLockInv, LockInvInductive, PTL DEF Spec

\* Every variable keeps to its type; a user count never becomes negative.
THEOREM TypeCorrect == Spec => []TypeOK
<1>1. LockInv => TypeOK
  BY DEF LockInv
<1> QED
  BY <1>1, LockInvHolds, PTL

\* At most one client is inside the section of a key.
THEOREM Exclusive == Spec => []MutualExclusion
<1>1. LockInv => MutualExclusion
  <2> SUFFICES ASSUME LockInv, NEW k \in Keys, NEW c \in Inside(k), NEW d \in Inside(k)
               PROVE  c = d
    BY DEF MutualExclusion
  <2>1. /\ c \in Clients /\ pc[c] = "in" /\ cache_key[held[c]] = k
        /\ d \in Clients /\ pc[d] = "in" /\ cache_key[held[d]] = k
    BY DEF Inside, Uses
  <2>2. table[k] = held[c] /\ table[k] = held[d]
    BY <2>1, HolderFacts
  <2> QED
    BY <2>1, <2>2 DEF LockInv, OneInside
<1> QED
  BY <1>1, LockInvHolds, PTL

\* A lock object in the table has a user: the table never grows beyond the keys in use.
THEOREM NothingIdle == Spec => []NoIdleLock
<1>1. LockInv => NoIdleLock
  <2> SUFFICES ASSUME LockInv, NEW k \in Keys, table[k] # None
               PROVE  \E c \in Clients : Uses(c, k)
    BY DEF NoIdleLock
  <2>1. table[k] \in Locks /\ Listed(table[k]) /\ cache_key[table[k]] = k
    BY DEF LockInv, TypeOK, Listed, TableIsKeyed
  <2>2. PICK c \in Clients : held[c] = table[k]
    BY <2>1 DEF LockInv, Counted, UsersOf
  <2> QED
    BY <2>1, <2>2 DEF Uses
<1> QED
  BY <1>1, LockInvHolds, PTL

-----------------------------------------------------------------------------
(***************************************************************************)
(* No wake-up is lost                                                      *)
(***************************************************************************)

\* Whoever waits has a place in the queue of its object.
InLine ==
  \A c \in Clients : pc[c] = "wait" =>
    \E i \in 1 .. Len(waiters[held[c]]) : waiters[held[c]][i] = c

\* A step moves a client only behind those who came before it, and takes from a queue only
\* its head, which is then inside.
LEMMA InLineInductive == LockInv /\ InLine /\ [Next]_vars => InLine'
<1> SUFFICES ASSUME LockInv, InLine, [Next]_vars, NEW d \in Clients, pc'[d] = "wait"
             PROVE  \E i \in 1 .. Len(waiters'[held'[d]]) : waiters'[held'[d]][i] = d
  BY DEF InLine
<1>1. /\ waiters \in [Locks -> Seq(Clients)] /\ locked \in [Locks -> BOOLEAN]
      /\ held \in [Clients -> Locks \union {None}] /\ pc \in [Clients -> {"out", "wait", "in"}]
      /\ table \in [Keys -> Locks \union {None}]
  BY DEF LockInv, TypeOK
<1>2. \A c \in Clients : pc[c] # "out" => held[c] \in Locks
  BY <1>1 DEF LockInv, OutsideHoldsNothing
<1>3. ASSUME pc[d] = "wait", held'[d] = held[d], waiters'[held[d]] = waiters[held[d]]
      PROVE  \E i \in 1 .. Len(waiters'[held'[d]]) : waiters'[held'[d]][i] = d
  BY <1>3 DEF InLine
<1>4. ASSUME NEW c \in Clients, NEW k \in Keys, AskNew(c, k)
      PROVE  \E i \in 1 .. Len(waiters'[held'[d]]) : waiters'[held'[d]][i] = d
  <2>1. PICK o \in Locks : Unreferenced(o) /\ waiters' = [waiters EXCEPT ![o] = <<>>]
                           /\ held' = [held EXCEPT ![c] = o]
    BY <1>4 DEF AskNew
  <2>2. d # c /\ pc[d] = "wait"
    BY <1>1, <1>4 DEF AskNew, Moves
  <2>3. held'[d] = held[d] /\ held[d] # o
    BY <1>1, <2>1, <2>2 DEF Unreferenced
  <2> QED
    BY <1>1, <1>3, <2>1, <2>2, <2>3
<1>5. ASSUME NEW c \in Clients, NEW k \in Keys, Ask(c, k)
      PROVE  \E i \in 1 .. Len(waiters'[held'[d]]) : waiters'[held'[d]][i] = d
  <2> DEFINE o == table[k]
  <2>1. o \in Locks /\ held' = [held EXCEPT ![c] = o]
    BY <1>1, <1>5 DEF Ask
  <2>2. CASE pc' = [pc EXCEPT ![c] = "in"] /\ waiters' = waiters
    <3>1. d # c /\ pc[d] = "wait"
      BY <1>1, <2>2
    <3> QED
      BY <1>1, <1>3, <2>1, <2>2, <3>1
  <2>3. CASE pc' = [pc EXCEPT ![c] = "wait"] /\ waiters' = [waiters EXCEPT ![o] = Append(@, c)]
    <3>1. waiters[o] \in Seq(Clients) /\ waiters'[o] = Append(waiters[o], c)
      BY <1>1, <2>1, <2>3
    <3>2. CASE d = c
      <4>1. held'[d] = o /\ Len(waiters[o]) + 1 \in 1 .. Len(waiters'[o])
            /\ waiters'[o][Len(waiters[o]) + 1] = d
        BY <1>1, <2>1, <3>1, <3>2
      <4> QED
        BY <4>1
    <3>3. CASE d # c
      <4>1. pc[d] = "wait" /\ held'[d] = held[d] /\ held[d] \in Locks
        BY <1>1, <1>2, <2>1, <2>3, <3>3
      <4>2. PICK i \in 1 .. Len(waiters[held[d]]) : waiters[held[d]][i] = d
        BY <4>1 DEF InLine
      <4>3. CASE held[d] = o
        <5>1. i \in 1 .. Len(waiters'[o]) /\ waiters'[o][i] = d
          BY <3>1, <4>2, <4>3
        <5> QED
          BY <4>1, <4>3, <5>1
      <4>4. CASE held[d] # o
        <5>1. waiters'[held[d]] = waiters[held[d]]
          BY <1>1, <2>3, <4>1, <4>4
        <5> QED
          BY <4>1, <4>2, <5>1
      <4> QED
        BY <4>3, <4>4
    <3> QED
      BY <3>2, <3>3
  <2> QED
    BY <1>5, <2>2, <2>3 DEF Ask, Moves
<1>6. ASSUME NEW c \in Clients, Resume(c)
      PROVE  \E i \in 1 .. Len(waiters'[held'[d]]) : waiters'[held'[d]][i] = d
  <2> DEFINE o == held[c]
  <2>1. d # c /\ pc[d] = "wait" /\ held' = held /\ o \in Locks /\ held[d] \in Locks
    BY <1>1, <1>2, <1>6 DEF Resume, Moves
  <2>2. /\ waiters[o] \in Seq(Clients) /\ waiters[o] # <<>> /\ Head(waiters[o]) = c
        /\ waiters'[o] = Tail(waiters[o])
    BY <1>1, <1>6, <2>1 DEF Resume
  <2>3. PICK i \in 1 .. Len(waiters[held[d]]) : waiters[held[d]][i] = d
    BY <2>1 DEF InLine
  <2>4. CASE held[d] = o
    <3>1. i # 1
      BY <2>1, <2>2, <2>3, <2>4
    <3>2. i - 1 \in 1 .. Len(waiters'[o]) /\ waiters'[o][i - 1] = d
      BY <2>2, <2>3, <2>4, <3>1
    <3> QED
      BY <2>1, <2>4, <3>2
  <2>5. CASE held[d] # o
    <3>1. waiters'[held[d]] = waiters[held[d]]
      BY <1>1, <1>6, <2>1, <2>5 DEF Resume
    <3> QED
      BY <1>3, <2>1, <3>1
  <2> QED
    BY <2>4, <2>5
<1>7. ASSUME NEW c \in Clients, Leave(c)
      PROVE  \E i \in 1 .. Len(waiters'[held'[d]]) : waiters'[held'[d]][i] = d
  <2>1. d # c /\ pc[d] = "wait" /\ held'[d] = held[d] /\ waiters' = waiters
    BY <1>1, <1>7 DEF Leave, Moves
  <2> QED
    BY <1>3, <2>1
<1>8. CASE UNCHANGED vars
  BY <1>3, <1>8 DEF vars
<1> QED
  BY <1>4, <1>5, <1>6, <1>7, <1>8 DEF Next

\* No wake-up is lost: whoever waits has a place in the queue of its lock object, and
\* there is somebody inside who will release it or the first of the queue may resume.
NobodyIsForgotten ==
  \A c \in Clients : pc[c] = "wait" =>
    LET o == held[c] IN
    /\ \E i \in 1 .. Len(waiters[o]) : waiters[o][i] = c
    /\ \/ \E d \in Clients : pc[d] = "in" /\ held[d] = o
       \/ ~locked[o] /\ pc[Head(waiters[o])] = "wait" /\ held[Head(waiters[o])] = o

\* In every reachable state no client of the registry is forgotten in acquire(): the
\* release of asyncio.Lock finds it in the queue, or its wake-up is already under way.
THEOREM WaitersAreServed == Spec => []NobodyIsForgotten
<1>1. Init => InLine
  BY DEF Init, InLine
<1>2. Spec => []InLine
  BY <1>1, LockInvHolds, LockInvInductive, InLineInductive, PTL DEF Spec
<1>3. LockInv /\ InLine => NobodyIsForgotten
  <2> SUFFICES ASSUME LockInv, InLine, NEW c \in Clients, pc[c] = "wait"
               PROVE  /\ \E i \in 1 .. Len(waiters[held[c]]) : waiters[held[c]][i] = c
                      /\ \/ \E d \in Clients : pc[d] = "in" /\ held[d] = held[c]
                         \/ /\ ~locked[held[c]]
                            /\ pc[Head(waiters[held[c]])] = "wait"
                            /\ held[Head(waiters[held[c]])] = held[c]
    BY DEF NobodyIsForgotten
  <2>1. PICK i \in 1 .. Len(waiters[held[c]]) : waiters[held[c]][i] = c
    BY DEF InLine
  <2>2. held[c] \in Locks /\ Listed(held[c])
    <3>1. held[c] \in Locks /\ held[c] # None /\ cache_key[held[c]] \in Keys
      BY DEF LockInv, TypeOK, OutsideHoldsNothing
    <3> QED
      BY <3>1 DEF LockInv, HeldIsListed, Listed
  <2>3. CASE locked[held[c]]
    BY <2>1, <2>2, <2>3 DEF LockInv, SomeoneInside
  <2>4. CASE ~locked[held[c]]
    <3>1. 1 \in 1 .. Len(waiters[held[c]]) /\ Head(waiters[held[c]]) = waiters[held[c]][1]
      <4>1. waiters[held[c]] \in Seq(Clients)
        BY <2>2 DEF LockInv, TypeOK
      <4> QED
        BY <2>1, <4>1
    <3> QED
      BY <2>1, <2>2, <2>4, <3>1 DEF LockInv, WaitersWait
  <2> QED
    BY <2>3, <2>4
<1> QED
  BY <1>2, <1>3, LockInvHolds, PTL

-----------------------------------------------------------------------------
(***************************************************************************)
(* The registry implements KeyedQueue                                      *)
(***************************************************************************)

LineOf(k) == IF table[k] = None THEN <<>> ELSE waiters[table[k]]

\* The clients inside the section of a key are those inside its lock object,
\* before a step and after it.
LEMMA InsideIsHeld ==
  ASSUME LockInv, NEW k \in Keys, NEW c \in Clients
  PROVE  c \in Inside(k) <=> pc[c] = "in" /\ table[k] # None /\ held[c] = table[k]
<1>1. ASSUME c \in Inside(k) PROVE pc[c] = "in" /\ table[k] # None /\ held[c] = table[k]
  BY <1>1 DEF LockInv, HeldIsListed, Inside, Uses
<1>2. ASSUME pc[c] = "in", table[k] # None, held[c] = table[k] PROVE c \in Inside(k)
  BY <1>2 DEF LockInv, TableIsKeyed, Inside, Uses
<1> QED
  BY <1>1, <1>2

LEMMA InsideIsHeldNext ==
  ASSUME LockInv', NEW k \in Keys, NEW c \in Clients
  PROVE  c \in Inside(k)' <=> pc'[c] = "in" /\ table'[k] # None /\ held'[c] = table'[k]
<1>1. ASSUME c \in Inside(k)' PROVE pc'[c] = "in" /\ table'[k] # None /\ held'[c] = table'[k]
  BY <1>1 DEF LockInv, HeldIsListed, Inside, Uses
<1>2. ASSUME pc'[c] = "in", table'[k] # None, held'[c] = table'[k] PROVE c \in Inside(k)'
  BY <1>2 DEF LockInv, TableIsKeyed, Inside, Uses
<1> QED
  BY <1>1, <1>2

\* A step of the queue, from its effect on one key.
LEMMA AtKey ==
  ASSUME NEW k \in Keys, NEW S, NEW q,
         Inside(k)' = S, LineOf(k)' = q,
         \A j \in Keys : j # k => Inside(j)' = Inside(j) /\ LineOf(j)' = LineOf(j)
  PROVE  /\ [j \in Keys |-> Inside(j)]' = [[j \in Keys |-> Inside(j)] EXCEPT ![k] = S]
         /\ [j \in Keys |-> LineOf(j)]' = [[j \in Keys |-> LineOf(j)] EXCEPT ![k] = q]
  OBVIOUS

LEMMA AskNewWalksIn ==
  ASSUME LockInv, LockInv', NEW c \in Clients, NEW k \in Keys, AskNew(c, k)
  PROVE  Promise!WalkIn(c, k)
<1>1. PICK o \in Locks :
        /\ Unreferenced(o)
        /\ table' = [table EXCEPT ![k] = o]
        /\ waiters' = [waiters EXCEPT ![o] = <<>>]
        /\ held' = [held EXCEPT ![c] = o]
  BY DEF AskNew
<1>2. table[k] = None /\ pc' = [pc EXCEPT ![c] = "in"] /\ pc[c] = "out"
  BY DEF AskNew, Moves
<1>3. TypeOK
  BY DEF LockInv
<1>4. /\ table'[k] = o
      /\ table'[k] # None
      /\ \A j \in Keys : j # k => table'[j] = table[j] /\ table[j] # o
  BY <1>1, <1>3, NoneAssumption DEF TypeOK, Unreferenced
<1>5. \A d \in Clients : d # c => held'[d] = held[d] /\ pc'[d] = pc[d] /\ held[d] # o
  BY <1>1, <1>2, <1>3 DEF TypeOK, Unreferenced
<1>6. held'[c] = o /\ pc'[c] = "in"
  BY <1>1, <1>2, <1>3 DEF TypeOK
<1>7. Inside(k) = {} /\ LineOf(k) = <<>>
  BY <1>2, InsideIsHeld DEF Inside, LineOf
<1>8. Inside(k)' = {c}
  BY <1>4, <1>5, <1>6, InsideIsHeldNext DEF Inside
<1>9. LineOf(k)' = <<>>
  BY <1>1, <1>3, <1>4 DEF LineOf, TypeOK
<1>10. ASSUME NEW j \in Keys, j # k PROVE Inside(j)' = Inside(j) /\ LineOf(j)' = LineOf(j)
  <2>1. Inside(j)' = Inside(j)
    BY <1>10, <1>2, <1>4, <1>5, <1>6, InsideIsHeld, InsideIsHeldNext DEF Inside
  <2>2. LineOf(j)' = LineOf(j)
    BY <1>10, <1>1, <1>3, <1>4 DEF LineOf, TypeOK
  <2> QED
    BY <2>1, <2>2
<1>11. /\ [j \in Keys |-> Inside(j)]' = [[j \in Keys |-> Inside(j)] EXCEPT ![k] = {c}]
       /\ [j \in Keys |-> LineOf(j)]' = [[j \in Keys |-> LineOf(j)] EXCEPT ![k] = <<>>]
  BY <1>8, <1>9, <1>10, AtKey
<1>12. [[j \in Keys |-> LineOf(j)] EXCEPT ![k] = <<>>] = [j \in Keys |-> LineOf(j)]
  BY <1>7
<1> QED
  BY <1>7, <1>11, <1>12 DEF Promise!WalkIn, LineOf

LEMMA AskQueuesOrWalksIn ==
  ASSUME LockInv, LockInv', NEW c \in Clients, NEW k \in Keys, Ask(c, k)
  PROVE  Promise!WalkIn(c, k) \/ Promise!Queue(c, k)
<1> SUFFICES ASSUME NEW o, o = table[k] PROVE Promise!WalkIn(c, k) \/ Promise!Queue(c, k)
  OBVIOUS
<1>1. TypeOK
  BY DEF LockInv
<1>2. o \in Locks /\ o # None /\ Listed(o)
  BY <1>1 DEF Ask, TypeOK, Listed
<1>3. /\ pc[c] = "out"
      /\ table' = table
      /\ held' = [held EXCEPT ![c] = o]
      /\ \/ /\ locked[o] \/ waiters[o] # <<>>
            /\ pc' = [pc EXCEPT ![c] = "wait"]
            /\ waiters' = [waiters EXCEPT ![o] = Append(@, c)]
         \/ /\ ~locked[o]
            /\ waiters[o] = <<>>
            /\ pc' = [pc EXCEPT ![c] = "in"]
            /\ waiters' = waiters
  BY DEF Ask, Moves
<1>4. \A d \in Clients : d # c => held'[d] = held[d] /\ pc'[d] = pc[d]
  BY <1>1, <1>3 DEF TypeOK
<1>5. held'[c] = o /\ pc[c] # "in"
  BY <1>1, <1>3 DEF TypeOK
<1>6. \A j \in Keys : j # k => table[j] # o
  BY <1>2 DEF LockInv, TableIsKeyed
<1>7. ASSUME NEW j \in Keys, j # k PROVE Inside(j)' = Inside(j) /\ LineOf(j)' = LineOf(j)
  <2>1. Inside(j)' = Inside(j)
    BY <1>7, <1>3, <1>4, <1>5, <1>6, InsideIsHeld, InsideIsHeldNext DEF Inside
  <2>2. LineOf(j)' = LineOf(j)
    BY <1>7, <1>1, <1>3, <1>6 DEF LineOf, TypeOK
  <2> QED
    BY <2>1, <2>2
<1>8. LineOf(k) = waiters[o]
  BY <1>2 DEF LineOf
<1>9. CASE /\ locked[o] \/ waiters[o] # <<>>
           /\ pc' = [pc EXCEPT ![c] = "wait"]
           /\ waiters' = [waiters EXCEPT ![o] = Append(@, c)]
  <2>1. Inside(k)' = Inside(k)
    BY <1>9, <1>1, <1>3, <1>4, <1>5, InsideIsHeld, InsideIsHeldNext DEF Inside, TypeOK
  <2>2. LineOf(k)' = Append(waiters[o], c)
    BY <1>9, <1>1, <1>2, <1>3 DEF LineOf, TypeOK
  <2>3. locked[o] => Inside(k) # {}
    BY <1>2, InsideIsHeld DEF LockInv, SomeoneInside
  <2>4. /\ [j \in Keys |-> Inside(j)]' = [[j \in Keys |-> Inside(j)] EXCEPT ![k] = Inside(k)]
        /\ [j \in Keys |-> LineOf(j)]'
             = [[j \in Keys |-> LineOf(j)] EXCEPT ![k] = Append(waiters[o], c)]
    BY <2>1, <2>2, <1>7, AtKey
  <2>5. [[j \in Keys |-> Inside(j)] EXCEPT ![k] = Inside(k)] = [j \in Keys |-> Inside(j)]
    OBVIOUS
  <2> QED
    BY <2>3, <2>4, <2>5, <1>8, <1>9 DEF Promise!Queue, LineOf
<1>10. CASE /\ ~locked[o]
            /\ waiters[o] = <<>>
            /\ pc' = [pc EXCEPT ![c] = "in"]
            /\ waiters' = waiters
  <2>1. Inside(k) = {}
    BY <1>10, InsideIsHeld DEF LockInv, LockedInside, Inside
  <2>2. pc'[c] = "in"
    BY <1>1, <1>10 DEF TypeOK
  <2>3. Inside(k)' = {c}
    <3>1. \A d \in Clients : d # c => d \notin Inside(k)'
      BY <2>1, <1>2, <1>3, <1>4, InsideIsHeld, InsideIsHeldNext
    <3>2. c \in Inside(k)'
      BY <2>2, <1>2, <1>3, <1>5, InsideIsHeldNext
    <3> QED
      BY <3>1, <3>2 DEF Inside
  <2>4. LineOf(k)' = LineOf(k)
    BY <1>3, <1>10 DEF LineOf
  <2>5. /\ [j \in Keys |-> Inside(j)]' = [[j \in Keys |-> Inside(j)] EXCEPT ![k] = {c}]
        /\ [j \in Keys |-> LineOf(j)]' = [[j \in Keys |-> LineOf(j)] EXCEPT ![k] = LineOf(k)]
    BY <2>3, <2>4, <1>7, AtKey
  <2>6. [[j \in Keys |-> LineOf(j)] EXCEPT ![k] = LineOf(k)] = [j \in Keys |-> LineOf(j)]
    OBVIOUS
  <2> QED
    BY <2>1, <2>5, <2>6, <1>8, <1>10 DEF Promise!WalkIn, LineOf
<1> QED
  BY <1>3, <1>9, <1>10

LEMMA ResumeEnters ==
  ASSUME LockInv, LockInv', NEW c \in Clients, Resume(c)
  PROVE  \E k \in Keys : Promise!Enter(k)
<1> SUFFICES ASSUME NEW o, o = held[c], NEW k, k = cache_key[o] PROVE k \in Keys /\ Promise!Enter(k)
  OBVIOUS
<1>1. TypeOK
  BY DEF LockInv
<1>2. /\ pc[c] = "wait"
      /\ pc' = [pc EXCEPT ![c] = "in"]
      /\ ~locked[o]
      /\ waiters[o] # <<>>
      /\ Head(waiters[o]) = c
      /\ waiters' = [waiters EXCEPT ![o] = Tail(@)]
      /\ UNCHANGED <<table, cache_key, users, held>>
  BY DEF Resume, Moves
<1>3. o \in Locks /\ o # None /\ k \in Keys /\ table[k] = o
  BY <1>2, HolderFacts, NoneAssumption
<1>4. \A j \in Keys : j # k => table[j] # o
  BY <1>3 DEF LockInv, TableIsKeyed
<1>5. \A d \in Clients : d # c => pc'[d] = pc[d]
  BY <1>1, <1>2 DEF TypeOK
<1>6. pc'[c] = "in" /\ pc[c] # "in"
  BY <1>1, <1>2 DEF TypeOK
<1>7. ASSUME NEW j \in Keys, j # k PROVE Inside(j)' = Inside(j) /\ LineOf(j)' = LineOf(j)
  <2>1. Inside(j)' = Inside(j)
    BY <1>7, <1>2, <1>4, <1>5, <1>6, InsideIsHeld, InsideIsHeldNext DEF Inside
  <2>2. LineOf(j)' = LineOf(j)
    BY <1>7, <1>1, <1>2, <1>4 DEF LineOf, TypeOK
  <2> QED
    BY <2>1, <2>2
<1>8. LineOf(k) = waiters[o] /\ LineOf(k)' = Tail(waiters[o])
  BY <1>1, <1>2, <1>3 DEF LineOf, TypeOK
<1>9. Inside(k) = {}
  BY <1>2, <1>3, InsideIsHeld DEF LockInv, LockedInside, Inside
<1>10. Inside(k)' = {c}
  <2>1. \A d \in Clients : d # c => d \notin Inside(k)'
    BY <1>2, <1>3, <1>5, <1>9, InsideIsHeld, InsideIsHeldNext
  <2>2. c \in Inside(k)'
    BY <1>2, <1>3, <1>6, InsideIsHeldNext
  <2> QED
    BY <2>1, <2>2 DEF Inside
<1>11. /\ [j \in Keys |-> Inside(j)]' = [[j \in Keys |-> Inside(j)] EXCEPT ![k] = {c}]
       /\ [j \in Keys |-> LineOf(j)]' = [[j \in Keys |-> LineOf(j)] EXCEPT ![k] = Tail(waiters[o])]
  BY <1>3, <1>7, <1>8, <1>10, AtKey
<1> QED
  BY <1>2, <1>3, <1>8, <1>9, <1>11 DEF Promise!Enter, LineOf

LEMMA LeaveLeaves ==
  ASSUME LockInv, LockInv', NEW c \in Clients, Leave(c)
  PROVE  \E k \in Keys : Promise!Leave(k)
<1> SUFFICES ASSUME NEW o, o = held[c], NEW k, k = cache_key[o] PROVE k \in Keys /\ Promise!Leave(k)
  OBVIOUS
<1>1. TypeOK
  BY DEF LockInv
<1>2. /\ pc[c] = "in"
      /\ pc' = [pc EXCEPT ![c] = "out"]
      /\ table' = [table EXCEPT ![k] = IF users[o] = 1 /\ @ = o THEN None ELSE @]
      /\ held' = [held EXCEPT ![c] = None]
      /\ UNCHANGED <<cache_key, waiters>>
  BY DEF Leave, Moves
<1>3. o \in Locks /\ o # None /\ k \in Keys /\ table[k] = o /\ Listed(o)
  BY <1>2, HolderFacts, NoneAssumption
<1>4. \A j \in Keys : j # k => table[j] # o /\ table'[j] = table[j]
  BY <1>1, <1>2, <1>3 DEF LockInv, TableIsKeyed, TypeOK
<1>5. table'[k] = IF users[o] = 1 THEN None ELSE o
  BY <1>1, <1>2, <1>3 DEF TypeOK
<1>6. \A d \in Clients : d # c => held'[d] = held[d] /\ pc'[d] = pc[d]
  BY <1>1, <1>2 DEF TypeOK
<1>7. held'[c] = None /\ pc'[c] = "out"
  BY <1>1, <1>2 DEF TypeOK
<1>8. ASSUME NEW j \in Keys, j # k PROVE Inside(j)' = Inside(j) /\ LineOf(j)' = LineOf(j)
  <2>1. Inside(j)' = Inside(j)
    BY <1>8, <1>3, <1>4, <1>6, <1>7, InsideIsHeld, InsideIsHeldNext DEF Inside
  <2>2. LineOf(j)' = LineOf(j)
    BY <1>8, <1>2, <1>4 DEF LineOf
  <2> QED
    BY <2>1, <2>2
<1>9. Inside(k) = {c}
  BY <1>2, <1>3, InsideIsHeld DEF LockInv, OneInside, Inside
<1>10. Inside(k)' = {}
  BY <1>3, <1>5, <1>6, <1>7, <1>9, InsideIsHeld, InsideIsHeldNext DEF Inside
<1>11. users[o] = 1 => waiters[o] = <<>>
  <2> SUFFICES ASSUME users[o] = 1, waiters[o] # <<>> PROVE FALSE
    OBVIOUS
  <2>1. waiters[o] \in Seq(Clients) /\ 1 \in 1 .. Len(waiters[o])
    BY <1>1, <1>3 DEF TypeOK
  <2>2. waiters[o][1] \in Clients /\ pc[waiters[o][1]] = "wait" /\ held[waiters[o][1]] = o
    BY <2>1, <1>3 DEF LockInv, WaitersWait
  <2>3. waiters[o][1] \in UsersOf(o) \ {c}
    BY <2>2, <1>2 DEF UsersOf
  <2>4. Cardinality(UsersOf(o)) = 1
    BY <1>3 DEF LockInv, Counted
  <2> QED
    BY <2>3, <2>4, OneLess
<1>12. LineOf(k)' = LineOf(k)
  BY <1>2, <1>3, <1>5, <1>11 DEF LineOf
<1>13. /\ [j \in Keys |-> Inside(j)]' = [[j \in Keys |-> Inside(j)] EXCEPT ![k] = {}]
       /\ [j \in Keys |-> LineOf(j)]' = [[j \in Keys |-> LineOf(j)] EXCEPT ![k] = LineOf(k)]
  BY <1>3, <1>8, <1>10, <1>12, AtKey
<1>14. [[j \in Keys |-> LineOf(j)] EXCEPT ![k] = LineOf(k)] = [j \in Keys |-> LineOf(j)]
  OBVIOUS
<1> QED
  BY <1>3, <1>9, <1>13, <1>14 DEF Promise!Leave, LineOf

\* The lock objects that come and go implement one first-come, first-served queue per key.
THEOREM RegistryImplementsQueue == Spec => ImplementsQueue
<1>1. Init => Promise!Init
  <2> SUFFICES ASSUME Init PROVE Promise!Init
    OBVIOUS
  <2>1. \A k \in Keys : Inside(k) = {}
    BY DEF Init, Inside
  <2> QED
    BY <2>1 DEF Init, Promise!Init
<1>2. LockInv /\ LockInv' /\ [Next]_vars => [Promise!Next]_(Promise!vars)
  <2> SUFFICES ASSUME LockInv, LockInv', [Next]_vars PROVE [Promise!Next]_(Promise!vars)
    OBVIOUS
  <2>1. ASSUME NEW c \in Clients, NEW k \in Keys, AskNew(c, k) PROVE Promise!Next
    BY <2>1, AskNewWalksIn DEF Promise!Next
  <2>2. ASSUME NEW c \in Clients, NEW k \in Keys, Ask(c, k) PROVE Promise!Next
    BY <2>2, AskQueuesOrWalksIn DEF Promise!Next
  <2>3. ASSUME NEW c \in Clients, Resume(c) PROVE Promise!Next
    BY <2>3, ResumeEnters DEF Promise!Next
  <2>4. ASSUME NEW c \in Clients, Leave(c) PROVE Promise!Next
    BY <2>4, LeaveLeaves DEF Promise!Next
  <2>5. ASSUME UNCHANGED vars PROVE UNCHANGED Promise!vars
    <3>1. \A k \in Keys : Inside(k)' = Inside(k)
      BY <2>5 DEF vars, Inside, Uses
    <3> QED
      BY <2>5, <3>1 DEF vars, Promise!vars
  <2> QED
    BY <2>1, <2>2, <2>3, <2>4, <2>5 DEF Next
<1> QED
  BY <1>1, <1>2, LockInvHolds, PTL DEF Spec, ImplementsQueue, Promise!Spec

=============================================================================
