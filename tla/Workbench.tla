----------------------------- MODULE Workbench -----------------------------
(***************************************************************************)
(* The analysis page of the browser: what it loads when the route or the   *)
(* login changes, the evidence of the report it displays, the analysis it  *)
(* asks for and the session it then polls.  Requests are answered in any   *)
(* order, long after the page has moved on; version numbers and tokens are *)
(* to keep late answers off the page.                                      *)
(*                                                                         *)
(* Topic and anchor event are part of the route and have no life of their  *)
(* own.  A report is a number in the order of generation, its evidence is  *)
(* known by that number.                                                   *)
(***************************************************************************)
EXTENDS Naturals, FiniteSets, FiniteSetsExt

CONSTANTS
  Stocks,
  WebStocks,    \* stocks whose watchlist item has web search enabled
  Old,          \* reports of each stock from before
  Bare,         \* reports stored without their evidence
  Patience,     \* polls without a new heartbeat before the page gives up (45)
  MaxActs,      \* bound: what the user does
  MaxFailures,  \* bound: failed requests and runners that die
  MaxSessions,  \* bound
  None

ASSUME StocksAssumption ==
  /\ IsFiniteSet(Stocks) /\ None \notin Stocks
  /\ WebStocks \subseteq Stocks

ASSUME ReportsAssumption ==
  /\ Old \in [Stocks -> SUBSET (Nat \ {0})]
  /\ \A stock \in Stocks : IsFiniteSet(Old[stock])
  /\ Bare \subseteq Nat

ASSUME PageBoundsAssumption ==
  /\ Patience \in Nat /\ MaxActs \in Nat /\ MaxFailures \in Nat /\ MaxSessions \in Nat

VARIABLES
  reports,   \* analysis_reports of each stock
  session,   \* analysis sessions; absent ones have no stock
  watched,   \* the user's watchlist
  page,
  calls,     \* requests under way, and the timer of the next poll
  acts, failures

server == <<reports, session, watched>>
pageVars == <<reports, session, watched, page, calls, acts, failures>>

-----------------------------------------------------------------------------
Sessions == 1 .. MaxSessions
Session == [stock : Stocks \union {None},
            status : {"queued", "running", "silent", "completed", "failed"}]

\* "n" is the version or token the answer is checked against, "arg" the report, the
\* session or the login that is asked for.
Call == [kind : {"summary", "reports", "watchlist", "plan", "create", "status", "timer",
                 "evidence", "follow", "unfollow"},
         n : Nat, stock : Stocks, arg : Nat]

Page == [mounted : BOOLEAN, route : Stocks, login : Nat,
         version : Nat, loading : BOOLEAN,
         summary : [stock : Stocks \union {None}, report : Nat], archives : SUBSET Nat,
         selected : Nat, cache : SUBSET Nat, evidence : Nat, evidenceToken : Nat,
         item : Stocks \union {None}, toggling : BOOLEAN,
         web : BOOLEAN, seeded : Stocks \union {None},
         plan : Stocks \union {None}, streaming : BOOLEAN,
         token : Nat, seen : BOOLEAN, quiet : 0 .. Patience]

NoSummary == [stock |-> None, report |-> 0]

PageTypeOK ==
  /\ reports \in [Stocks -> SUBSET Nat]
  /\ session \in [Sessions -> Session]
  /\ watched \subseteq Stocks
  /\ page \in Page
  /\ calls \subseteq Call
  /\ acts \in 0 .. MaxActs
  /\ failures \in 0 .. MaxFailures

-----------------------------------------------------------------------------
(***************************************************************************)
(* What the page displays                                                  *)
(***************************************************************************)
Newest(S) == IF S = {} THEN 0 ELSE Max(S)

\* What the server answers: the newest report of either mode, and the archive.
LatestReport(stock) == Newest(reports[stock])

Archive(stock) == reports[stock]

\* The archived report the user chose, if it is still listed, or the newest one known.
Displayed(p) ==
  IF p.selected \in p.archives THEN p.selected
  ELSE Newest(p.archives \union {p.summary.report})

\* Neither the report nor the summary brings the evidence along, and it is not cached.
MustFetch(p) ==
  /\ Displayed(p) \in Bare \ p.cache
  /\ Displayed(p) # p.summary.report

\* syncActiveEvidence.
SyncEvidence(p, pending) ==
  IF p.mounted /\ MustFetch(p)
  THEN /\ page' = [p EXCEPT !.evidence = 0, !.evidenceToken = @ + 1]
       /\ calls' = pending \union {[kind |-> "evidence", n |-> p.evidenceToken + 1,
                                    stock |-> p.route, arg |-> Displayed(p)]}
  ELSE /\ page' = [p EXCEPT !.evidence = IF p.mounted THEN Displayed(p) ELSE @]
       /\ calls' = pending

\* The report displayed, and whether it is the archive's object or the summary's own.
ShownObject(p) ==
  <<Displayed(p), p.selected \in p.archives \/ Newest(p.archives) > p.summary.report>>

\* The watcher calls it only for another object: an answer always brings new ones.
SyncIfChanged(p, pending) ==
  IF <<ShownObject(p), p.summary>> = <<ShownObject(page), page.summary>>
  THEN page' = p /\ calls' = pending
  ELSE SyncEvidence(p, pending)

-----------------------------------------------------------------------------
(***************************************************************************)
(* loadWorkbench and stopStreaming                                         *)
(***************************************************************************)
WatchlistCall(p) ==
  IF p.login = 0 THEN {}
  ELSE {[kind |-> "watchlist", n |-> p.version, stock |-> p.route, arg |-> p.login]}

Loading(p) ==
  [p EXCEPT !.version = @ + 1, !.loading = TRUE, !.item = IF p.login = 0 THEN None ELSE @]

LoadCalls(p) ==
  {[kind |-> kind, n |-> p.version, stock |-> p.route, arg |-> 0]
     : kind \in {"summary", "reports"}}
  \union WatchlistCall(p)

Stopped(p) == [p EXCEPT !.token = @ + 1, !.seen = FALSE, !.quiet = 0]

NoTimer(pending) == {c \in pending : c.kind # "timer"}

-----------------------------------------------------------------------------
Fresh(stock, login) ==
  [mounted |-> TRUE, route |-> stock, login |-> login, version |-> 1, loading |-> TRUE,
   summary |-> NoSummary, archives |-> {}, selected |-> 0, cache |-> {}, evidence |-> 0,
   evidenceToken |-> 0, item |-> None, toggling |-> FALSE, web |-> FALSE, seeded |-> None,
   plan |-> None, streaming |-> FALSE, token |-> 0, seen |-> FALSE, quiet |-> 0]

PageInit ==
  /\ reports = Old
  /\ session = [s \in Sessions |-> [stock |-> None, status |-> "queued"]]
  /\ watched \in SUBSET Stocks
  /\ \E stock \in Stocks, login \in {0, 1} :
       /\ page = Fresh(stock, login)
       /\ calls = LoadCalls(page)
  /\ acts = 0
  /\ failures = 0

-----------------------------------------------------------------------------
(***************************************************************************)
(* The user                                                                *)
(***************************************************************************)
Acts == page.mounted /\ acts < MaxActs /\ acts' = acts + 1

\* The watchers of the route.  The report displayed stays, without its evidence unless
\* another was chosen, until the answers of the new route replace it.
Navigate(stock) ==
  /\ Acts
  /\ stock # page.route
  /\ LET p == Loading([Stopped(page) EXCEPT
                         !.route = stock, !.streaming = FALSE, !.selected = 0,
                         !.cache = {}, !.evidence = 0, !.evidenceToken = @ + 1,
                         !.plan = None, !.web = FALSE, !.seeded = None, !.item = None])
     IN  SyncIfChanged(p, NoTimer(calls) \union LoadCalls(p))
  /\ UNCHANGED <<server, failures>>

Leave ==
  /\ Acts
  /\ page' = [Stopped(page) EXCEPT !.mounted = FALSE]
  /\ calls' = NoTimer(calls)
  /\ UNCHANGED <<server, failures>>

SelectReport(n) ==
  /\ Acts
  /\ n \in page.archives
  /\ n # page.selected
  /\ SyncIfChanged([page EXCEPT !.selected = n], calls)
  /\ UNCHANGED <<server, failures>>

\* Signed out, here or because a refresh failed; or signed in again.
ChangeLogin ==
  /\ Acts
  /\ IF page.login # 0
     THEN /\ page' = [page EXCEPT !.login = 0, !.item = None, !.toggling = FALSE]
          /\ UNCHANGED calls
     ELSE /\ page' = [page EXCEPT !.login = acts + 2]
          /\ calls' = calls \union WatchlistCall(page')
  /\ UNCHANGED <<server, failures>>

SetWebSearch ==
  /\ Acts
  /\ page' = [page EXCEPT !.web = ~@]
  /\ UNCHANGED <<server, calls, failures>>

ToggleWatchlist ==
  /\ Acts
  /\ page.login # 0 /\ ~page.toggling
  /\ page' = [page EXCEPT !.toggling = TRUE]
  /\ calls' = calls \union {[kind |-> IF page.item = None THEN "follow" ELSE "unfollow",
                             n |-> acts, stock |-> page.route, arg |-> page.login]}
  /\ UNCHANGED <<server, failures>>

RefreshAnalysis ==
  /\ Acts
  /\ ~page.loading /\ ~page.streaming
  /\ calls' = calls \union {[kind |-> "plan", n |-> acts, stock |-> page.route, arg |-> 0]}
  /\ UNCHANGED <<server, page, failures>>

\* beginAnalysisSession: the session is for the route of this moment.
BeginAnalysis(pending) ==
  /\ page' = [Stopped(page) EXCEPT !.streaming = TRUE, !.plan = None]
  /\ calls' = NoTimer(pending) \union {[kind |-> "create", n |-> page.token,
                                        stock |-> page.route, arg |-> 0]}

ConfirmPlan ==
  /\ Acts
  /\ page.plan # None /\ ~page.streaming
  /\ BeginAnalysis(calls)
  /\ UNCHANGED <<server, failures>>

CancelPlan ==
  /\ Acts
  /\ page.plan # None
  /\ page' = [page EXCEPT !.plan = None]
  /\ UNCHANGED <<server, calls, failures>>

-----------------------------------------------------------------------------
(***************************************************************************)
(* Answers                                                                 *)
(***************************************************************************)
Failure == failures < MaxFailures /\ failures' = failures + 1

\* Mutant: every answer is taken.
Outdated_Never(c) == FALSE

\* Mutant: the answer with the evidence is taken whatever is displayed by now.
Outdated_NotEvidence(c) ==
  \/ c.kind \in {"summary", "reports"} /\ c.n # page.version
  \/ /\ c.kind = "watchlist"
     /\ <<c.n, c.arg, c.stock>> # <<page.version, page.login, page.route>>
  \/ c.kind = "status" /\ c.n # page.token

\* An answer the page has moved on from: another version, login, stock, report, or poll.
Outdated(c) ==
  \/ c.kind \in {"summary", "reports"} /\ c.n # page.version
  \/ /\ c.kind = "watchlist"
     /\ <<c.n, c.arg, c.stock>> # <<page.version, page.login, page.route>>
  \/ c.kind = "status" /\ c.n # page.token
  \/ c.kind = "evidence" /\ <<c.n, c.arg>> # <<page.evidenceToken, Displayed(page)>>

Dropped(c) ==
  /\ Outdated(c)
  /\ calls' = calls \ {c}
  /\ UNCHANGED <<server, page, acts, failures>>

Accepted(c, kind) == c.kind = kind /\ ~Outdated(c)

Summary(c) ==
  /\ Accepted(c, "summary")
  /\ \/ /\ SyncEvidence([page EXCEPT !.loading = FALSE,
                    !.summary = [stock |-> c.stock, report |-> LatestReport(c.stock)]],
                 calls \ {c})
        /\ UNCHANGED failures
     \/ /\ Failure
        /\ SyncIfChanged([page EXCEPT !.loading = FALSE, !.summary = NoSummary], calls \ {c})
  /\ UNCHANGED <<server, acts>>

Reports(c) ==
  /\ Accepted(c, "reports")
  /\ \/ SyncEvidence([page EXCEPT !.archives = Archive(c.stock)], calls \ {c}) /\ UNCHANGED failures
     \/ Failure /\ SyncEvidence([page EXCEPT !.archives = {}], calls \ {c})
  /\ UNCHANGED <<server, acts>>

\* Mutant: every load takes the item's default.
Watchlist_Reseeds(c) ==
  /\ Accepted(c, "watchlist")
  /\ page' = [page EXCEPT !.item = IF c.stock \in watched THEN c.stock ELSE None,
                          !.web = c.stock \in watched \intersect WebStocks,
                          !.seeded = c.stock]
  /\ calls' = calls \ {c}
  /\ UNCHANGED <<server, acts, failures>>

\* The item, and the first time the stock is shown its default for web search.
Watchlist(c) ==
  /\ Accepted(c, "watchlist")
  /\ \/ /\ page' = [page EXCEPT
                      !.item = IF c.stock \in watched THEN c.stock ELSE None,
                      !.web = IF page.seeded = c.stock THEN @
                              ELSE c.stock \in watched \intersect WebStocks,
                      !.seeded = c.stock]
        /\ UNCHANGED failures
     \/ Failure /\ page' = [page EXCEPT !.item = None]
  /\ calls' = calls \ {c}
  /\ UNCHANGED <<server, acts>>

Evidence(c) ==
  /\ Accepted(c, "evidence")
  /\ \/ /\ page' = [page EXCEPT !.cache = @ \union {c.arg}, !.evidence = c.arg]
        /\ UNCHANGED failures
     \/ Failure /\ page' = [page EXCEPT !.evidence = 0]
  /\ calls' = calls \ {c}
  /\ UNCHANGED <<server, acts>>

\* A plan is shown wherever the page is by now; without one the analysis begins.
Plan(c) ==
  /\ Accepted(c, "plan")
  /\ \/ /\ page' = [page EXCEPT !.plan = c.stock]
        /\ calls' = calls \ {c}
        /\ UNCHANGED failures
     \/ Failure /\ BeginAnalysis(calls \ {c})
  /\ UNCHANGED <<server, acts>>

\* The answer to an added or removed item is shown wherever the page is by now.
Toggled(c) ==
  /\ c.kind \in {"follow", "unfollow"}
  /\ \/ /\ watched' = IF c.kind = "follow" THEN watched \union {c.stock}
                      ELSE watched \ {c.stock}
        /\ page' = [page EXCEPT !.toggling = FALSE,
                                !.item = IF c.kind = "follow" THEN c.stock ELSE None]
        /\ UNCHANGED failures
     \/ /\ Failure
        /\ page' = [page EXCEPT !.toggling = FALSE]
        /\ UNCHANGED watched
  /\ calls' = calls \ {c}
  /\ UNCHANGED <<reports, session, acts>>

Reload(p, pending) == page' = Loading(p) /\ calls' = pending \union LoadCalls(Loading(p))

\* A fresh report, or a session to join, or a new one: then it is polled at once.
Created(c) ==
  /\ Accepted(c, "create")
  /\ \/ /\ reports[c.stock] # {}
        /\ Reload([page EXCEPT !.streaming = FALSE], calls \ {c})
        /\ UNCHANGED <<session, failures>>
     \/ \E s \in Sessions :
          /\ \/ /\ session[s].stock = c.stock
                /\ session[s].status \notin {"completed", "failed"}
                /\ UNCHANGED session
             \/ /\ session[s].stock = None
                /\ session' = [session EXCEPT ![s].stock = c.stock]
          /\ page' = [page EXCEPT !.token = @ + 1]
          /\ calls' = (calls \ {c}) \union {[kind |-> "status", n |-> page'.token,
                                             stock |-> c.stock, arg |-> s]}
          /\ UNCHANGED failures
     \/ /\ Failure
        /\ page' = [page EXCEPT !.streaming = FALSE]
        /\ calls' = calls \ {c}
        /\ UNCHANGED session
  /\ UNCHANGED <<reports, watched, acts>>

-----------------------------------------------------------------------------
(***************************************************************************)
(* pollAnalysisSession                                                     *)
(***************************************************************************)

\* The page has a heartbeat of the session and polls without seeing another.
Unmoved(c) == session[c.arg].status = "silent" /\ page.seen

\* Mutant: the heartbeat is not watched.
Expired_Never(c) == FALSE

Expired(c) == Unmoved(c) /\ page.quiet = Patience

\* The heartbeat, and the next poll in a second.
PollAgain(c) ==
  /\ session[c.arg].status \notin {"completed", "failed"}
  /\ ~Expired(c)
  /\ page' = [page EXCEPT !.seen = @ \/ session[c.arg].status # "queued",
                          !.quiet = IF Unmoved(c) THEN Min({@ + 1, Patience}) ELSE 0]
  /\ calls' = (calls \ {c}) \union {[c EXCEPT !.kind = "timer"]}

PollCompletes(c) ==
  /\ session[c.arg].status = "completed"
  /\ Reload([Stopped(page) EXCEPT !.streaming = FALSE], NoTimer(calls \ {c}))

GiveUp(c) ==
  /\ page' = [Stopped(page) EXCEPT !.streaming = FALSE]
  /\ calls' = NoTimer(calls \ {c})

Status(c) ==
  /\ Accepted(c, "status")
  /\ \/ PollAgain(c) /\ UNCHANGED failures
     \/ PollCompletes(c) /\ UNCHANGED failures
     \/ /\ session[c.arg].status = "failed" \/ Expired(c)
        /\ GiveUp(c)
        /\ UNCHANGED failures
     \/ Failure /\ GiveUp(c)
  /\ UNCHANGED <<server, acts>>

TimerFires(c) ==
  /\ c.kind = "timer"
  /\ calls' = (calls \ {c}) \union {[c EXCEPT !.kind = "status"]}
  /\ UNCHANGED <<server, page, acts, failures>>

-----------------------------------------------------------------------------
(***************************************************************************)
(* The sessions, as far as a poll can tell                                 *)
(***************************************************************************)
Turns(s, from, to) ==
  /\ session[s].stock # None /\ session[s].status = from
  /\ session' = [session EXCEPT ![s].status = to]
  /\ UNCHANGED <<watched, page, calls, acts>>

SessionStarts(s) == Turns(s, "queued", "running") /\ UNCHANGED <<reports, failures>>

SessionCompletes(s) ==
  /\ Turns(s, "running", "completed")
  /\ reports' = [reports EXCEPT ![session[s].stock] =
                   @ \union {Newest(UNION {reports[t] : t \in Stocks}) + 1}]
  /\ UNCHANGED failures

SessionFails(s) == Turns(s, "running", "failed") /\ UNCHANGED <<reports, failures>>

\* The runner dies; another may take the session over, or not.
RunnerDies(s) == Failure /\ Turns(s, "running", "silent") /\ UNCHANGED reports

Reclaimed(s) == Turns(s, "silent", "running") /\ UNCHANGED <<reports, failures>>

-----------------------------------------------------------------------------
User ==
  \/ \E stock \in Stocks : Navigate(stock)
  \/ Leave
  \/ \E n \in page.archives : SelectReport(n)
  \/ ChangeLogin
  \/ SetWebSearch
  \/ ToggleWatchlist
  \/ RefreshAnalysis
  \/ ConfirmPlan
  \/ CancelPlan

Answer(c) ==
  \/ Dropped(c)
  \/ Summary(c)
  \/ Reports(c)
  \/ Watchlist(c)
  \/ Evidence(c)
  \/ Plan(c)
  \/ Toggled(c)
  \/ Created(c)
  \/ Status(c)
  \/ TimerFires(c)

Runs(s) == SessionStarts(s) \/ SessionCompletes(s) \/ SessionFails(s)

PageNext ==
  \/ User
  \/ \E c \in calls : Answer(c)
  \/ \E s \in Sessions : Runs(s) \/ RunnerDies(s) \/ Reclaimed(s)

\* Every request is answered or fails, timers fire, and workers take and end the
\* sessions they keep alive.  Nobody has to reclaim the session of a dead one.
PageFairness ==
  /\ WF_pageVars(\E c \in calls : Answer(c))
  /\ \A s \in Sessions : WF_pageVars(Runs(s))

PageSpec == PageInit /\ [][PageNext]_pageVars /\ PageFairness

-----------------------------------------------------------------------------
Awaited(kind) == \E c \in calls : c.kind = kind /\ c.n = page.version

\* Once the latest load is answered the page shows summary and archives of its route,
\* however late the answers of other routes arrive.
SettledIsOfRoute ==
  page.mounted =>
    /\ ~Awaited("summary") => page.summary.stock \in {page.route, None}
    /\ ~Awaited("reports") => page.archives \subseteq reports[page.route]

\* The evidence listed is that of the report displayed, through choices, reloads and
\* routes that overtake the requests for it.
EvidenceMatchesReport ==
  page.mounted => page.evidence \in {0, Displayed(page)}

\* The choice for web search, once the stock's default was taken, is the user's until
\* the route changes.  A choice made before the first answer of the watchlist is not kept:
\* the code overwrites it, against its comment at 843-844 (README, "Where code and words
\* differ").
ChoiceStays ==
  [][page.seeded = page.route /\ page'.route = page.route /\ page'.web # page.web
       => acts' # acts]_pageVars

\* The page does not wait for an analysis for ever, whatever became of the requests, the
\* runner, or an earlier analysis.
StreamingEnds == page.streaming ~> (~page.streaming \/ ~page.mounted)

=============================================================================
