------------------------- MODULE CandidateEvidence -------------------------
(***************************************************************************)
(* Candidate evidence of the hot-news page: hot searches and research      *)
(* reports.  A refresh fetches a kind, appends a batch to PostgreSQL,      *)
(* commits, and only then writes the Redis entry; the impact panel reads   *)
(* the entry, or the newest batch when there is none.  The refresh runs    *)
(* inside the watchlist worker's hourly slot (WatchlistWorker).            *)
(*                                                                         *)
(* A batch is the minute it was fetched in; what its rows say (_map_*,     *)
(* _resolve_instrument, summaries) only decides whether any row is left.   *)
(***************************************************************************)
EXTENDS Integers

CONSTANTS
  LastMinute,  \* bound: the modelled minutes
  None         \* no batch, no entry

Minutes == 0 .. LastMinute

HotSearch      == "hot_search"
ResearchReport == "research_report"
Kinds          == {HotSearch, ResearchReport}

VARIABLES
  evidence,    \* stock_candidate_evidence_caches: the newest fetched_at of each kind
  evCache      \* Redis: the batch of the entry, and whether it holds any row

evidenceVars == <<evidence, evCache>>

Entry   == [at : Minutes, rows : BOOLEAN]
NoEntry == [at |-> None, rows |-> FALSE]

EvidenceTypeOK ==
  /\ evidence \in [Kinds -> Minutes \union {None}]
  /\ evCache \in [Kinds -> Entry \union {NoEntry}]

EvidenceInit ==
  /\ evidence = [k \in Kinds |-> None]
  /\ evCache = [k \in Kinds |-> NoEntry]

\* The rows of a batch are added, those of earlier batches stay: a batch without any row
\* leaves the newest one as it is.
AppendRows(k, t, rows) == [evidence EXCEPT ![k] = IF rows THEN t ELSE @]

\* Fetch, mapping and commit; rows of stocks that are not listed are dropped.
CommitEvidence(k, t, rows) ==
  /\ evidence' = AppendRows(k, t, rows)
  /\ UNCHANGED evCache

\* write_cached_model_rows swallows Redis errors: the entry may stay as it was.
CacheEvidence(k, t, rows) ==
  /\ \/ evCache' = [evCache EXCEPT ![k] = [at |-> t, rows |-> rows]]
     \/ UNCHANGED evCache
  /\ UNCHANGED evidence

EvidenceExpires(k) ==
  /\ evCache[k] # NoEntry
  /\ evCache' = [evCache EXCEPT ![k] = NoEntry]
  /\ UNCHANGED evidence

\* The rows fetched last.
StoredBatch(k) == evidence[k]

\* What a panel reads of a kind (allow_remote_fetch=False): never a fetch.
Panel(k) ==
  IF evCache[k] # NoEntry
    THEN IF evCache[k].rows THEN evCache[k].at ELSE None
    ELSE StoredBatch(k)

\* What a panel may show: each kind is read by itself, and one that raises, or whose rows
\* are too old to be shown, counts as empty.
Snapshots ==
  {shown \in [Kinds -> Minutes \union {None}] : \A k \in Kinds : shown[k] \in {Panel(k), None}}

=============================================================================
