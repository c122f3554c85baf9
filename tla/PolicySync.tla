----------------------------- MODULE PolicySync -----------------------------
(***************************************************************************)
(* Policy documents: a synchronisation fetches every provider, removes     *)
(* duplicates and upserts the documents with its job row in one            *)
(* transaction; the news page and every analysis without a topic project   *)
(* the stored documents to policy events, in transactions of their own.    *)
(*                                                                         *)
(* PostgreSQL is modelled at READ COMMITTED: a statement sees what is      *)
(* committed and what its transaction wrote, a write takes a lock until    *)
(* the transaction ends, a key of the table (source and identifier, source *)
(* and URL) that another row has is refused, and waited for while the      *)
(* other row is uncommitted; of transactions that wait for each other one  *)
(* is aborted.  A statement that waits has taken nothing yet.              *)
(***************************************************************************)
EXTENDS PolicyDedup

CONSTANTS
  Docs,        \* the policy documents, numbered in the order they are listed
  Providers,   \* enabled providers, numbered in the order they are asked
  DocOf,       \* what a document says, normalize_policy_seed applied
  Rows,        \* bound: rows of policy_documents, numbered as they are created
  Syncs,       \* runs of sync_policy_documents, by an administrator or the script
  Projectors,  \* requests of the policy news and analyses that project
  MaxFaults,   \* bound: statements the database fails
  None

ASSUME DocsAssumption == Docs \subseteq Nat /\ IsFiniteSet(Docs)

ASSUME NumbersAssumption == Providers \subseteq Nat /\ Rows \subseteq Nat

ASSUME DocOfAssumption ==
  /\ DocOf \in [Docs -> Document]
  /\ \A d \in Docs : DocOf[d].source \in Providers

ASSUME ProcessAssumption ==
  /\ Syncs \intersect Projectors = {}
  /\ None \notin Rows \union Syncs \union Projectors

ASSUME FaultsAssumption == MaxFaults \in Nat

Txs == Syncs \union Projectors

VARIABLES
  row,        \* policy_documents, committed
  event,      \* committed policy events of a row: the transactions that added one
  job,        \* committed policy_sync jobs
  docLock,    \* uncommitted write of a row
  eventLock,  \* uncommitted write of a row's event
  sync,       \* progress of the synchronisations
  proj,       \* progress of the projections
  faults

vars == <<row, event, job, docLock, eventLock, sync, proj, faults>>

-----------------------------------------------------------------------------
JobStatuses == {"none", "success", "partial", "failed"}

Row   == [stored : BOOLEAN, source : Nat, id : Nat, url : Nat, attached : SUBSET Nat,
          projected : BOOLEAN, job : Syncs \union {None}]
NoRow == [stored |-> FALSE, source |-> 0, id |-> 0, url |-> 0, attached |-> {},
          projected |-> FALSE, job |-> None]
NoRows == [t \in Rows |-> NoRow]

\* The policy events in news_events of a row, by the transaction that added each.
Events == SUBSET Projectors

\* "failed" counts the providers that raised, "listed" are the documents returned, "left"
\* the merged ones still to store and "doc" the one at hand, "target" the row found for
\* it; "seen" are the rows as the session holds them, "wrote" what the transaction has
\* flushed, "persisted" which row each merged document went to.
Sync == [pc : {"idle", "fetch", "look", "url", "flush", "done"},
         todo : SUBSET Providers, failed : Nat, listed : SUBSET Docs,
         left : SUBSET Document, doc : Document \union {None}, target : Rows \union {None},
         seen : [Rows -> Row], wrote : [Rows -> Row], persisted : SUBSET (Document \X Rows)]
NewSync == [pc |-> "idle", todo |-> {}, failed |-> 0, listed |-> {}, left |-> {},
            doc |-> None, target |-> None, seen |-> NoRows, wrote |-> NoRows,
            persisted |-> {}]

\* "ready" are the rows that were listed as projected, "found" whether the look-up for "at"
\* returned an event, "added" and "marked" what the transaction has flushed.
Proj == [pc : {"idle", "look", "flush"}, ready : SUBSET Rows, left : SUBSET Rows,
         at : Rows \union {None}, found : BOOLEAN,
         added : SUBSET Rows, marked : SUBSET Rows]
NewProj == [pc |-> "idle", ready |-> {}, left |-> {}, at |-> None, found |-> FALSE,
            added |-> {}, marked |-> {}]

TypeOK ==
  /\ row \in [Rows -> Row]
  /\ event \in [Rows -> Events]
  /\ job \in [Syncs -> JobStatuses]
  /\ docLock \in [Rows -> Txs \union {None}]
  /\ eventLock \in [Rows -> Projectors \union {None}]
  /\ sync \in [Syncs -> Sync]
  /\ proj \in [Projectors -> Proj]
  /\ faults \in 0 .. MaxFaults

Init ==
  /\ row = NoRows
  /\ event = [t \in Rows |-> {}]
  /\ job = [s \in Syncs |-> "none"]
  /\ docLock = [t \in Rows |-> None]
  /\ eventLock = [t \in Rows |-> None]
  /\ sync = [s \in Syncs |-> NewSync]
  /\ proj = [p \in Projectors |-> NewProj]
  /\ faults = 0

Released(locks, x) == [t \in Rows |-> IF locks[t] = x THEN None ELSE locks[t]]

-----------------------------------------------------------------------------
(***************************************************************************)
(* sync_policy_documents                                                   *)
(***************************************************************************)

\* Switched off and not forced, the run is recorded as a success and ends.
SkipSync(s) ==
  /\ sync[s].pc = "idle"
  /\ sync' = [sync EXCEPT ![s].pc = "done"]
  /\ job' = [job EXCEPT ![s] = "success"]
  /\ UNCHANGED <<row, event, docLock, eventLock, proj, faults>>

StartSync(s) ==
  /\ sync[s].pc = "idle"
  /\ sync' = [sync EXCEPT ![s].pc = "fetch", ![s].todo = Providers]
  /\ UNCHANGED <<row, event, job, docLock, eventLock, proj, faults>>

\* A provider lists some of its documents; one that is malformed, or the provider itself,
\* may raise: that is counted, what was listed before it stays, the next one is asked.
FetchProvider(s) ==
  /\ sync[s].pc = "fetch"
  /\ \E p \in sync[s].todo, raised \in {0, 1} :
       \E L \in SUBSET {d \in Docs : DocOf[d].source = p} :
         /\ \A q \in sync[s].todo : p <= q
         /\ sync' = [sync EXCEPT ![s].todo = @ \ {p}, ![s].listed = @ \union L,
                                 ![s].failed = @ + raised]
  /\ UNCHANGED <<row, event, job, docLock, eventLock, proj, faults>>

\* What was fetched, in the order of the registry.
Listing(listed) ==
  LET order == CHOOSE s \in [1 .. Cardinality(listed) -> listed] :
                 /\ Range(s) = listed
                 /\ \A i, j \in DOMAIN s : i < j => s[i] < s[j]
  IN  [i \in DOMAIN order |-> DocOf[order[i]]]

Merged(s) == Deduped(Listing(sync[s].listed))

DedupeAll(s) ==
  /\ sync[s].pc = "fetch"
  /\ sync[s].todo = {}
  /\ sync' = [sync EXCEPT ![s].pc = "look", ![s].left = Merged(s)]
  /\ UNCHANGED <<row, event, job, docLock, eventLock, proj, faults>>

\* Of what is left the latest are stored first, of these the richest.
NextToStore(left) ==
  {r \in left : \A q \in left : q.date < r.date \/ (q.date = r.date /\ Quality(q) <= Quality(r))}

\* A row as the transaction of s reads it.
Read(s, t) == IF sync[s].wrote[t].stored THEN sync[s].wrote[t] ELSE row[t]

ById(s, r) ==
  {t \in Rows : Read(s, t).stored /\ Read(s, t).source = r.source /\ Read(s, t).id = r.id}

ByUrl(s, r) ==
  {t \in Rows : Read(s, t).stored /\ Read(s, t).source = r.source /\ Read(s, t).url = r.url}

\* What the session loaded of a row once it does not load again.
Loaded(s, t) == [sync[s].seen EXCEPT ![t] = IF @.stored THEN @ ELSE Read(s, t)]

\* The row t is found for r.
Find(s, r, t) ==
  sync' = [sync EXCEPT ![s].pc = "flush", ![s].doc = r, ![s].target = t,
                       ![s].seen = Loaded(s, t)]

\* _load_existing_policy_document, a document with an identifier: its row is the one of
\* that identifier in its source, or else is looked for by URL.
LookUpById(s) ==
  /\ sync[s].pc = "look"
  /\ \E r \in NextToStore(sync[s].left) :
       /\ r.id # 0
       /\ IF ById(s, r) = {}
            THEN sync' = [sync EXCEPT ![s].pc = "url", ![s].doc = r]
            ELSE \E t \in ById(s, r) : Find(s, r, t)
  /\ UNCHANGED <<row, event, job, docLock, eventLock, proj, faults>>

\* The row of its source and URL, or none.
LookUpByUrl(s) ==
  /\ \E r \in sync[s].left :
       /\ \/ sync[s].pc = "look" /\ r \in NextToStore(sync[s].left) /\ r.id = 0
          \/ sync[s].pc = "url" /\ r = sync[s].doc
       /\ IF ByUrl(s, r) = {}
            THEN sync' = [sync EXCEPT ![s].pc = "flush", ![s].doc = r]
            ELSE \E t \in ByUrl(s, r) : Find(s, r, t)
  /\ UNCHANGED <<row, event, job, docLock, eventLock, proj, faults>>

\* The row found, or a new one.
Target(s) ==
  IF sync[s].target # None THEN {sync[s].target}
  ELSE {t \in Rows : /\ ~row[t].stored /\ docLock[t] = None
                     /\ \A u \in Rows : u < t => row[u].stored \/ docLock[u] # None}

\* The columns that differ from what the session holds are written: the job, the address
\* and the identifier of what is stored now, whatever they were, and the projection
\* status if it was "projected".  Attachments are added to those the row has.
Overwritten(s, t) ==
  LET r == sync[s].doc
      old == sync[s].seen[t]
  IN  [Read(s, t) EXCEPT !.stored = TRUE, !.source = r.source, !.job = s,
                         !.id = IF r.id = old.id THEN @ ELSE r.id,
                         !.url = IF r.url = old.url THEN @ ELSE r.url,
                         !.projected = @ /\ ~old.projected,
                         !.attached = @ \union r.attached]

\* What the session holds of the row from then on.
Held(s, t) ==
  [Overwritten(s, t) EXCEPT !.id = sync[s].doc.id, !.url = sync[s].doc.url, !.projected = FALSE]

SameKey(a, b) ==
  /\ a.stored /\ b.stored /\ a.source = b.source
  /\ a.url = b.url \/ (a.id # 0 /\ a.id = b.id)

\* Rows that may keep the one of "doc" from a key until their writer y ends.
Contested(s, t, y) ==
  {u \in Rows \ {t} : docLock[u] = y /\ (\/ SameKey(Overwritten(s, t), row[u])
                                         \/ y \in Syncs /\ SameKey(Overwritten(s, t), sync[y].wrote[u]))}

\* Others that s has to wait for before it writes the row t.
Ahead(s, t) == {y \in Txs \ {s} : docLock[t] = y \/ Contested(s, t, y) # {}}

\* Rows that have a key of what s is about to write.
Clashing(s, t) ==
  {u \in Rows \ {t} : docLock[u] \in {None, s} /\ SameKey(Overwritten(s, t), Read(s, u))}

\* The row of "doc" is written, in the transaction.
Flushed(s, t) ==
  sync' = [sync EXCEPT ![s].pc = "look", ![s].doc = None, ![s].target = None,
                       ![s].left = @ \ {sync[s].doc},
                       ![s].seen = [@ EXCEPT ![t] = Held(s, t)],
                       ![s].wrote = [@ EXCEPT ![t] = Overwritten(s, t)],
                       ![s].persisted = @ \union {<<sync[s].doc, t>>}]

\* Mutant: the rows are committed one by one, ahead of the job.
FlushDocument_Commits(s) ==
  /\ sync[s].pc = "flush"
  /\ \E t \in Target(s) :
       /\ Ahead(s, t) = {}
       /\ Clashing(s, t) = {}
       /\ row' = [row EXCEPT ![t] = Overwritten(s, t)]
       /\ Flushed(s, t)
  /\ UNCHANGED <<event, job, docLock, eventLock, proj, faults>>

FlushDocument(s) ==
  /\ sync[s].pc = "flush"
  /\ \E t \in Target(s) :
       /\ Ahead(s, t) = {}
       /\ Clashing(s, t) = {}
       /\ docLock' = [docLock EXCEPT ![t] = s]
       /\ Flushed(s, t)
  /\ UNCHANGED <<row, event, job, eventLock, proj, faults>>

\* Every provider failed and there was nothing to store: failed; one did: partial.
StatusOf(s) ==
  CASE sync[s].failed = 0 -> "success"
    [] sync[s].failed = Cardinality(Providers) /\ sync[s].persisted = {} -> "failed"
    [] OTHER -> "partial"

CommitSync(s) ==
  /\ sync[s].pc = "look"
  /\ sync[s].left = {}
  /\ row' = [t \in Rows |-> Read(s, t)]
  /\ job' = [job EXCEPT ![s] = StatusOf(s)]
  /\ docLock' = Released(docLock, s)
  /\ sync' = [sync EXCEPT ![s] = [NewSync EXCEPT !.pc = "done", !.listed = sync[s].listed,
                                                 !.persisted = sync[s].persisted]]
  /\ UNCHANGED <<event, eventLock, proj, faults>>

\* Mutant: the failed transaction is left open.
AbortSync_LeavesOpen(s) ==
  /\ sync' = [sync EXCEPT ![s] = [NewSync EXCEPT !.pc = "done"]]
  /\ UNCHANGED <<row, event, job, docLock, eventLock, proj>>

\* A statement fails.  The handler writes the failed job on the same session, which
\* refuses until it is rolled back: that raises too, and everything is rolled back,
\* the job row included.
AbortSync(s) ==
  /\ sync' = [sync EXCEPT ![s] = [NewSync EXCEPT !.pc = "done"]]
  /\ docLock' = Released(docLock, s)
  /\ UNCHANGED <<row, event, job, eventLock, proj>>

\* Another row has the identifier or the URL: another run committed it since the look-up,
\* or the document's row is found by one of them and another row by the other.
InsertConflicts(s) ==
  /\ sync[s].pc = "flush"
  /\ \E t \in Target(s) : docLock[t] \in {None, s} /\ Clashing(s, t) # {}
  /\ AbortSync(s)
  /\ UNCHANGED faults

-----------------------------------------------------------------------------
(***************************************************************************)
(* project_policy_documents_to_news_events                                 *)
(***************************************************************************)

Stored == {t \in Rows : row[t].stored}

ListDocuments(p) ==
  /\ proj[p].pc = "idle"
  /\ Stored # {}
  /\ proj' = [proj EXCEPT ![p].pc = "look", ![p].left = Stored,
                          ![p].ready = {t \in Stored : row[t].projected}]
  /\ UNCHANGED <<row, event, job, docLock, eventLock, sync, faults>>

\* Of documents of one date the row created last comes first.
AtHand(p) == {t \in proj[p].left : \A u \in proj[p].left : t >= u}

\* The event of a row is looked for by its external_id; one or none.
LookUpEvent(p) ==
  /\ proj[p].pc = "look"
  /\ \E t \in AtHand(p) :
       /\ Cardinality(event[t]) <= 1
       /\ proj' = [proj EXCEPT ![p].pc = "flush", ![p].at = t, ![p].found = (event[t] # {})]
  /\ UNCHANGED <<row, event, job, docLock, eventLock, sync, faults>>

\* An event found is written, a document not loaded as projected is marked; the flush
\* waits for both rows.
Marks(p) == proj[p].at \notin proj[p].ready

MayFlush(p) ==
  /\ proj[p].found => eventLock[proj[p].at] = None
  /\ Marks(p) => docLock[proj[p].at] = None

FlushEvent(p) ==
  /\ proj[p].pc = "flush"
  /\ MayFlush(p)
  /\ LET t == proj[p].at IN
       /\ eventLock' = IF proj[p].found THEN [eventLock EXCEPT ![t] = p] ELSE eventLock
       /\ docLock' = IF Marks(p) THEN [docLock EXCEPT ![t] = p] ELSE docLock
       /\ proj' = [proj EXCEPT ![p].pc = "look", ![p].at = None, ![p].found = FALSE,
                               ![p].left = @ \ {t},
                               ![p].added = IF proj[p].found THEN @ ELSE @ \union {t},
                               ![p].marked = IF Marks(p) THEN @ \union {t} ELSE @]
  /\ UNCHANGED <<row, event, job, sync, faults>>

CommitProjection(p) ==
  /\ proj[p].pc = "look"
  /\ proj[p].left = {}
  /\ event' = [t \in Rows |-> IF t \in proj[p].added THEN event[t] \union {p} ELSE event[t]]
  /\ row' = [t \in Rows |-> IF t \in proj[p].marked
                              THEN [row[t] EXCEPT !.projected = TRUE] ELSE row[t]]
  /\ docLock' = Released(docLock, p)
  /\ eventLock' = Released(eventLock, p)
  /\ proj' = [proj EXCEPT ![p] = NewProj]
  /\ UNCHANGED <<job, sync, faults>>

\* The exception leaves the request or fails the analysis; its session rolls back.
AbortProjection(p) ==
  /\ docLock' = Released(docLock, p)
  /\ eventLock' = Released(eventLock, p)
  /\ proj' = [proj EXCEPT ![p] = NewProj]
  /\ UNCHANGED <<row, event, job, sync>>

\* scalar_one_or_none raises when a document has two events.
TwoEventsFound(p) ==
  /\ proj[p].pc = "look"
  /\ \E t \in AtHand(p) : Cardinality(event[t]) > 1
  /\ AbortProjection(p)
  /\ UNCHANGED faults

-----------------------------------------------------------------------------
(***************************************************************************)
(* The database                                                            *)
(***************************************************************************)

\* x waits for a row y has written.
Waits(x, y) ==
  /\ x # y
  /\ \/ /\ x \in Syncs
        /\ sync[x].pc = "flush"
        /\ \E t \in Target(x) : y \in Ahead(x, t)
     \/ /\ x \in Projectors
        /\ proj[x].pc = "flush"
        /\ \/ proj[x].found /\ eventLock[proj[x].at] = y
           \/ Marks(x) /\ docLock[proj[x].at] = y

Deadlocked(x) ==
  \E y \in Txs : Waits(x, y) /\ (Waits(y, x) \/ \E z \in Txs : Waits(y, z) /\ Waits(z, x))

SyncFails(s) ==
  /\ sync[s].pc \in {"look", "url", "flush"}
  /\ \/ Deadlocked(s) /\ UNCHANGED faults
     \/ faults < MaxFaults /\ faults' = faults + 1
  /\ AbortSync(s)

ProjectionFails(p) ==
  /\ proj[p].pc # "idle"
  /\ \/ Deadlocked(p) /\ UNCHANGED faults
     \/ faults < MaxFaults /\ faults' = faults + 1
  /\ AbortProjection(p)

SyncStep(s) ==
  \/ FetchProvider(s) \/ DedupeAll(s) \/ LookUpById(s) \/ LookUpByUrl(s)
  \/ FlushDocument(s) \/ InsertConflicts(s) \/ CommitSync(s)

ProjStep(p) == LookUpEvent(p) \/ FlushEvent(p) \/ TwoEventsFound(p) \/ CommitProjection(p)

Next ==
  \/ \E s \in Syncs : SkipSync(s) \/ StartSync(s) \/ SyncStep(s) \/ SyncFails(s)
  \/ \E p \in Projectors : ListDocuments(p) \/ ProjStep(p) \/ ProjectionFails(p)

Spec == Init /\ [][Next]_vars

-----------------------------------------------------------------------------
(***************************************************************************)
(* Properties                                                              *)
(***************************************************************************)

\* The job of s has left a row for every document it merged, with all its attachments.
\* It may not be its own: a document stored later under the same identifier, by this job
\* or another, takes the row over.
LeftItsRows(s) ==
  \A r \in Merged(s) : \E t \in Stored :
    <<r, t>> \in sync[s].persisted /\ r.attached \subseteq row[t].attached

\* A stored document names a job that is in the database and did not fail; a job in the
\* database has left a row for every document it merged.  A document marked as projected
\* has its event, and an event its document.  Neither a failing provider, nor a document
\* that takes over the row of another, a conflict, or an abort in the middle separates
\* them.
StoresAgree ==
  /\ \A t \in Stored : job[row[t].job] \in {"success", "partial"}
  /\ \A s \in Syncs : job[s] # "none" => LeftItsRows(s)
  /\ \A t \in Rows :
       /\ row[t].projected => event[t] # {}
       /\ event[t] # {} => row[t].stored

\* Whoever waits for a row waits for a transaction in flight: an end of any kind, a
\* commit, a conflict, an abort, leaves no uncommitted write behind.
NobodyWaitsForTheDead ==
  \A t \in Rows :
    /\ docLock[t] \in Syncs => sync[docLock[t]].pc \in {"look", "url", "flush"}
    /\ docLock[t] \in Projectors => proj[docLock[t]].pc # "idle"
    /\ eventLock[t] # None => proj[eventLock[t]].pc # "idle"

=============================================================================
