----------------------------- MODULE ReportRun -----------------------------
(***************************************************************************)
(* Inside one run of an analysis session: the events it selects and links, *)
(* the roles it asks a language model, the decision streamed from a thread *)
(* through a queue, the report, the failure path, and the event streams    *)
(* that show the session to browsers.  AnalysisSession has the sessions    *)
(* from outside: who creates, claims and reclaims them.                    *)
(*                                                                         *)
(* A text is the sequence of its pieces: chunks of a stream, a whole       *)
(* answer, what is left of one when lines unfit to show are dropped, or    *)
(* the one built by rule.  The link of an event is committed with the      *)
(* progress that counts it, so "progress" stands for both.                 *)
(***************************************************************************)
EXTENDS EventSelection

CONSTANTS
  Viewers,    \* event streams opened by browsers
  Feeds,      \* stored events a run may find, with its session's topic and anchor
  Stock,      \* the session's stock
  Limit,      \* events a run is given
  PoolLimit,  \* candidates they are chosen from
  Quota,      \* of them, for each scope
  Roles,      \* roles asked before the decision (five)
  MaxChunks,  \* bound: pieces of a streamed answer
  MaxFaults   \* bound: crashes, exceptions, and failed recovery writes

ASSUME BoundsAssumption ==
  /\ Limit \in Nat /\ PoolLimit \in Nat /\ PoolLimit >= Limit
  /\ Roles \in Nat /\ MaxChunks \in Nat /\ MaxFaults \in Nat

\* An event is known by its identifier, the primary key of its table.
ASSUME FeedsAssumption ==
  /\ Quota \in [Scopes -> Nat]
  /\ \A feed \in Feeds :
       /\ feed.news \subseteq Event /\ IsFiniteSet(feed.news)
       /\ \A d, e \in feed.news : d.id = e.id => d = e
       /\ feed.anchor \in Nat

VARIABLES
  row,      \* the session's row, as committed
  report,   \* the session's report
  run,      \* whoever executes the session
  picked,   \* the events of the run, with the feed and the ranked pool they are from
  thread,   \* the thread that reads the model's stream
  queue,    \* what it has handed to the run
  viewer,   \* the event streams
  unsaved,  \* a failure could not be written to the row
  faults

vars == <<row, report, run, picked, thread, queue, viewer, unsaved, faults>>
stream == <<thread, queue>>

-----------------------------------------------------------------------------
Statuses == {"absent", "queued", "running", "completed", "failed"}
Stages == {"none", "selecting_events", "linking_events", "generating_report", "finalizing",
           "completed", "failed"}
Texts == Seq({"chunk", "answer", "cut", "rule"})

Row == [status : Statuses, stage : Stages, mode : {"single", "functional"}, web : BOOLEAN,
        progress : 0 .. Limit + 1, total : 0 .. Limit + 1, preview : Texts]

\* What became of a call to the model: it answered, having searched the web or not, or
\* without it because the gateway could not; or it raised; or writing a piece did.
WebStatuses == {"used", "disabled", "unsupported"}
Results == WebStatuses \union {"none", "raised", "broken"}

Report == [status : {"none", "ready", "partial"}, text : Texts, web : WebStatuses]

\* "roles" are the outcomes of the roles so far, of which the report only asks for any
\* and all; "inline" that the run shares its process with the event streams.
Run == [pc : {"idle", "select", "link", "roles", "ask", "stream", "retry", "await", "decide",
              "finalize", "store", "publish", "failing", "error"},
        inline : BOOLEAN, role : 0 .. Roles, result : Results, text : Texts,
        roles : SUBSET [status : {"completed", "partial"}, web : WebStatuses]]

Idle == [pc |-> "idle", inline |-> FALSE, role |-> 0, result |-> "none", text |-> <<>>,
         roles |-> {}]

Thread == [state : {"off", "on", "closing"}, sent : 0 .. MaxChunks,
           ended : {"none", "ok", "unsupported", "other"}]
NoThread == [state |-> "off", sent |-> 0, ended |-> "none"]

Viewer == [pc : {"idle", "loaded", "live", "closed"}, seen : Statuses,
           inbox : Seq({"status", "delta", "completed", "error"}),
           told : {"none", "completed", "error", "lost"}]
Closed(told) == [pc |-> "closed", seen |-> "absent", inbox |-> <<>>, told |-> told]

NothingPicked == [pool |-> <<>>, events |-> <<>>]

TypeOK ==
  /\ row \in Row
  /\ report \in Report
  /\ run \in Run
  /\ picked \in [feed : Feeds, pool : Seq(Event), events : Seq(Event)] \union {NothingPicked}
  /\ thread \in Thread
  /\ queue \in Seq({"delta", "final", "unsupported", "other", "done"})
  /\ viewer \in [Viewers -> Viewer]
  /\ unsaved \in BOOLEAN
  /\ faults \in 0 .. MaxFaults

Init ==
  /\ row \in [status : {"absent"}, stage : {"none"}, mode : {"single", "functional"},
              web : BOOLEAN, progress : {0}, total : {0}, preview : {<<>>}]
  /\ report = [status |-> "none", text |-> <<>>, web |-> "disabled"]
  /\ run = Idle
  /\ picked = NothingPicked
  /\ thread = NoThread /\ queue = <<>>
  /\ viewer = [v \in Viewers |-> [pc |-> "idle", seen |-> "absent", inbox |-> <<>>,
                                  told |-> "none"]]
  /\ unsaved = FALSE
  /\ faults = 0

-----------------------------------------------------------------------------
At(pc) == run.pc = pc
Goes(pc) == run' = [run EXCEPT !.pc = pc]

\* event_bus.publish: the subscribers of this process; none sees a worker's events.
Publish(inline, event) ==
  viewer' = [v \in Viewers |->
               IF inline /\ viewer[v].pc = "live"
               THEN [viewer[v] EXCEPT !.inbox = Append(@, event)] ELSE viewer[v]]

Fault == faults < MaxFaults /\ faults' = faults + 1

\* start_analysis_session has inserted the row.
Enqueue ==
  /\ row.status = "absent"
  /\ row' = [row EXCEPT !.status = "queued"]
  /\ UNCHANGED <<report, run, picked, stream, viewer, unsaved, faults>>

Begin(inline) ==
  /\ At("idle")
  /\ row' = [row EXCEPT !.status = "running", !.stage = "selecting_events", !.progress = 0,
                        !.total = 0, !.preview = <<>>]
  /\ run' = [Idle EXCEPT !.pc = "select", !.inline = inline]
  /\ Publish(inline, "status")
  /\ UNCHANGED <<report, picked, stream, unsaved, faults>>

\* A worker has claimed the row, or the request that inserted it runs it itself.
Start == row.status = "queued" /\ \E inline \in BOOLEAN : Begin(inline)

Restart_AlsoFailed == row.status \in {"running", "failed"} /\ Begin(FALSE)

\* A worker reclaims a running row whose heartbeat has stopped.
Restart == row.status = "running" /\ Begin(FALSE)

-----------------------------------------------------------------------------
(***************************************************************************)
(* Events                                                                  *)
(***************************************************************************)
Select ==
  /\ At("select")
  /\ \E feed \in Feeds :
       LET found == Candidates(feed.news, Stock, feed.topic, feed.anchor, Limit, PoolLimit)
           pool == Ranked(found, feed.anchor)
       IN  picked' = [feed |-> feed, pool |-> pool,
                      events |-> SelectEvents(pool, feed.anchor, Limit, Quota)]
  /\ row' = [row EXCEPT !.stage = "linking_events",
                        !.total = IF picked'.events = <<>> THEN 1 ELSE Len(picked'.events)]
  /\ Goes("link")
  /\ UNCHANGED <<report, stream, viewer, unsaved, faults>>

LinkEvent ==
  /\ At("link")
  /\ row.progress < Len(picked.events)
  /\ row' = [row EXCEPT !.progress = @ + 1]
  /\ UNCHANGED <<report, run, picked, stream, viewer, unsaved, faults>>

StartReport ==
  /\ At("link")
  /\ row.progress = Len(picked.events)
  /\ row' = [row EXCEPT !.stage = "generating_report", !.progress = row.total]
  /\ picked' = NothingPicked
  /\ Goes(IF row.mode = "functional" THEN "roles" ELSE "ask")
  /\ UNCHANGED <<report, stream, viewer, unsaved, faults>>

-----------------------------------------------------------------------------
(***************************************************************************)
(* The language model                                                      *)
(***************************************************************************)

\* generate_llm_result: a gateway without web search is asked again without it.
CallResults(web) ==
  IF web THEN WebStatuses \union {"raised"} ELSE {"disabled", "raised"}

\* _run_json_role: a call with web search that raised is repeated without it; the
\* role whose calls all raised is filled in by rule.
RoleOutcomes(web) ==
  [status : {"completed"},
   web : (CallResults(web) \ {"raised"}) \union (IF web THEN {"unsupported"} ELSE {})]
  \union [status : {"partial"}, web : {IF web THEN "unsupported" ELSE "disabled"}]

RunRole ==
  /\ At("roles")
  /\ run.role < Roles
  /\ \E outcome \in RoleOutcomes(row.web) :
       run' = [run EXCEPT !.role = @ + 1, !.roles = @ \union {outcome}]
  /\ UNCHANGED <<row, report, picked, stream, viewer, unsaved, faults>>

\* The roles are done, and with them the choice of a hypothesis.
PickDecision ==
  /\ At("roles")
  /\ run.role = Roles
  /\ Goes("ask")
  /\ UNCHANGED <<row, report, picked, stream, viewer, unsaved, faults>>

\* generate_streamed_llm_result with streaming off: one call and no pieces.
AskWhole ==
  /\ At("ask")
  /\ \E result \in CallResults(row.web) :
       run' = [run EXCEPT !.pc = "decide", !.result = result,
                          !.text = IF result = "raised" THEN <<>> ELSE <<"answer">>]
  /\ UNCHANGED <<row, report, picked, stream, viewer, unsaved, faults>>

OpenStream ==
  /\ At("ask")
  /\ thread' = [NoThread EXCEPT !.state = "on"] /\ queue' = <<>>
  /\ Goes("stream")
  /\ UNCHANGED <<row, report, picked, viewer, unsaved, faults>>

Hands(item) == queue' = Append(queue, item)

\* The thread: pieces, then the final response or the exception, and in any case "done".
ThreadSends ==
  /\ thread.state = "on" /\ thread.sent < MaxChunks
  /\ thread' = [thread EXCEPT !.sent = @ + 1]
  /\ Hands("delta")
  /\ UNCHANGED <<row, report, run, picked, viewer, unsaved, faults>>

ThreadEnds ==
  /\ thread.state = "on"
  /\ \E end \in {"ok", "unsupported", "other"} :
       /\ thread' = [thread EXCEPT !.state = "closing", !.ended = end]
       /\ Hands(IF end = "ok" THEN "final" ELSE end)
  /\ UNCHANGED <<row, report, run, picked, viewer, unsaved, faults>>

ThreadDone ==
  /\ thread.state = "closing"
  /\ thread' = [thread EXCEPT !.state = "off"]
  /\ Hands("done")
  /\ UNCHANGED <<row, report, run, picked, viewer, unsaved, faults>>

\* What follows the loop over the queue, whatever ended it: await worker.
Waits(result, text) ==
  run' = [run EXCEPT !.pc = "await", !.result = result, !.text = text]

Took(item) ==
  /\ At("stream")
  /\ queue # <<>> /\ Head(queue) = item
  /\ queue' = Tail(queue)

\* on_delta: the preview with the piece is committed and published, or the commit fails.
TakeDelta ==
  /\ Took("delta")
  /\ \/ /\ run' = [run EXCEPT !.text = Append(@, "chunk")]
        /\ row' = [row EXCEPT !.preview = Append(@, "chunk")]
        /\ Publish(run.inline, "delta")
        /\ UNCHANGED faults
     \/ /\ Fault
        /\ Waits("broken", Append(run.text, "chunk"))
        /\ UNCHANGED <<row, viewer>>
  /\ UNCHANGED <<report, picked, thread, unsaved>>

TakeFinal ==
  /\ Took("final")
  /\ UNCHANGED <<row, report, run, picked, thread, viewer, unsaved, faults>>

\* The text is what the pieces add up to, or that of the final response if they were
\* none, which may lack one.
TakeDone ==
  /\ Took("done")
  /\ \/ /\ run.text # <<>>
        /\ \E result \in CallResults(row.web) \ {"raised", "unsupported"} :
             Waits(result, run.text)
     \/ /\ run.text = <<>>
        /\ \/ Waits("raised", <<>>)
           \/ \E result \in CallResults(row.web) \ {"raised", "unsupported"} :
                Waits(result, <<"answer">>)
  /\ UNCHANGED <<row, report, picked, thread, viewer, unsaved, faults>>

\* A stream the gateway refuses for want of web search is replaced by a plain call.
TakeError ==
  /\ \/ /\ Took("unsupported") /\ row.web
        /\ Goes("retry")
     \/ /\ Took("unsupported") /\ ~row.web
        /\ Waits("raised", run.text)
     \/ /\ Took("other")
        /\ Waits("raised", run.text)
  /\ UNCHANGED <<row, report, picked, thread, viewer, unsaved, faults>>

\* Its answer is the text of a single report; the decision of the roles keeps the
\* pieces it has, if any.
RetryPlain ==
  /\ At("retry")
  /\ \/ Waits("unsupported", IF row.mode = "functional" /\ run.text # <<>> THEN run.text
                             ELSE <<"answer">>)
     \/ Waits("raised", run.text)
  /\ UNCHANGED <<row, report, picked, stream, viewer, unsaved, faults>>

AwaitThread_Skipped ==
  /\ At("await")
  /\ Goes("decide")
  /\ UNCHANGED <<row, report, picked, stream, viewer, unsaved, faults>>

AwaitThread ==
  /\ At("await")
  /\ thread.state = "off"
  /\ Goes("decide")
  /\ UNCHANGED <<row, report, picked, stream, viewer, unsaved, faults>>

-----------------------------------------------------------------------------
(***************************************************************************)
(* The report                                                              *)
(***************************************************************************)
Concludes(text, status, web) ==
  run' = [run EXCEPT !.pc = "finalize", !.text = text,
                     !.roles = @ \union {[status |-> status, web |-> web]}]

\* A whole text handed to on_delta.
Shows(text) ==
  /\ row' = [row EXCEPT !.preview = @ \o text]
  /\ Publish(run.inline, "delta")

Answered == run.result \in WebStatuses

Decide_PartialAsCompleted ==
  /\ At("decide")
  /\ \/ /\ Answered
        /\ Concludes(run.text, "completed", run.result)
        /\ UNCHANGED <<row, viewer>>
     \/ /\ run.result = "raised" /\ row.mode = "functional"
        /\ Concludes(IF run.text # <<>> THEN run.text ELSE <<"rule">>, "completed", "disabled")
        /\ Shows(<<"rule">>)
     \/ /\ run.result = "raised" /\ row.mode = "single"
        /\ Concludes(<<"rule">>, "partial", "disabled")
        /\ UNCHANGED <<row, viewer>>
     \/ /\ run.result = "broken"
        /\ Goes("failing")
        /\ UNCHANGED <<row, viewer>>
  /\ UNCHANGED <<report, picked, stream, unsaved, faults>>

\* The decision of the roles, or the text of the single mode, which loses the lines that
\* are not fit to show and is then shown once more, or is replaced by rule if no line is
\* left.  After a piece that could not be written no further statement of the
\* transaction succeeds.
Decide ==
  /\ At("decide")
  /\ \/ /\ Answered /\ row.mode = "functional"
        /\ Concludes(run.text, "completed", run.result)
        /\ UNCHANGED <<row, viewer>>
     \/ /\ run.result = "raised" /\ row.mode = "functional"
        /\ Concludes(<<"rule">>, "partial", "disabled")
        /\ Shows(<<"rule">>)
     \/ /\ Answered /\ row.mode = "single"
        /\ \E text \in {run.text, <<"cut">>} :
             Concludes(text, "completed", run.result) /\ Shows(text)
     \/ /\ run.result # "broken" /\ row.mode = "single"
        /\ Concludes(<<"rule">>, "partial",
                     IF run.result \in {"used", "unsupported"} THEN run.result
                     ELSE IF row.web THEN "unsupported" ELSE "disabled")
        /\ UNCHANGED <<row, viewer>>
     \/ /\ run.result = "broken"
        /\ Goes("failing")
        /\ UNCHANGED <<row, viewer>>
  /\ UNCHANGED <<report, picked, stream, unsaved, faults>>

Finalize_AnnouncesFirst ==
  /\ At("finalize")
  /\ row' = [row EXCEPT !.stage = "finalizing"]
  /\ Publish(run.inline, "completed")
  /\ Goes("store")
  /\ UNCHANGED <<report, picked, stream, unsaved, faults>>

Finalize ==
  /\ At("finalize")
  /\ row' = [row EXCEPT !.stage = "finalizing"]
  /\ Goes("store")
  /\ UNCHANGED <<report, picked, stream, viewer, unsaved, faults>>

\* _aggregate_web_search_status
ReportWeb ==
  CASE \E r \in run.roles : r.web = "used" -> "used"
    [] ~\E r \in run.roles : r.web = "used" ->
         IF \E r \in run.roles : r.web = "unsupported" THEN "unsupported" ELSE "disabled"

\* A role that was filled in by rule makes the report partial.
NewReport ==
  [status |-> IF \A r \in run.roles : r.status = "completed" THEN "ready" ELSE "partial",
   text |-> run.text, web |-> ReportWeb]

\* The report, the role runs, the row and the job in one commit.
StoreReport ==
  /\ At("store")
  /\ report' = NewReport
  /\ row' = [row EXCEPT !.status = "completed", !.stage = "completed", !.preview = run.text]
  /\ Goes("publish")
  /\ UNCHANGED <<picked, stream, viewer, unsaved, faults>>

\* The two Redis keys, then the event.
PublishCompleted ==
  /\ At("publish")
  /\ Publish(run.inline, "completed")
  /\ run' = Idle
  /\ UNCHANGED <<row, report, picked, stream, unsaved, faults>>

-----------------------------------------------------------------------------
(***************************************************************************)
(* Failure and crash                                                       *)
(***************************************************************************)

\* Any statement of the run raises: the stock is gone, the database does not answer, a
\* role answered with JSON of another shape, the text could not be shown again.
Raise ==
  /\ run.pc \in {"select", "link", "roles", "ask", "decide", "finalize", "store"}
  /\ Fault
  /\ picked' = NothingPicked
  /\ Goes("failing")
  /\ UNCHANGED <<row, report, stream, viewer, unsaved>>

\* _persist_analysis_session_failure, in a session of its own, which may fail too.
PersistFailure ==
  /\ At("failing")
  /\ row' = [row EXCEPT !.status = "failed", !.stage = "failed"]
  /\ Goes("error")
  /\ UNCHANGED <<report, picked, stream, viewer, unsaved, faults>>

PersistFailureFails ==
  /\ At("failing")
  /\ Fault
  /\ unsaved' = TRUE
  /\ Goes("error")
  /\ UNCHANGED <<row, report, picked, stream, viewer>>

PublishError ==
  /\ At("error")
  /\ Publish(run.inline, "error")
  /\ run' = Idle
  /\ UNCHANGED <<row, report, picked, stream, unsaved, faults>>

\* The process dies, and the event streams with it if it was theirs.
Crash ==
  /\ ~At("idle")
  /\ Fault
  /\ run' = Idle
  /\ picked' = NothingPicked
  /\ thread' = [thread EXCEPT !.state = "off"] /\ queue' = <<>>
  /\ viewer' = [v \in Viewers |->
                  IF run.inline /\ viewer[v].pc \in {"loaded", "live"} THEN Closed("lost")
                  ELSE viewer[v]]
  /\ UNCHANGED <<row, report, unsaved>>

-----------------------------------------------------------------------------
(***************************************************************************)
(* GET /sessions/{id}/events                                               *)
(***************************************************************************)
Becomes(v, w) == viewer' = [viewer EXCEPT ![v] = w]

\* What the row shows when it is read: the stream ends with it or goes on.
Shown(status, otherwise) ==
  IF status = "completed" THEN Closed("completed")
  ELSE IF status = "failed" THEN Closed("error")
  ELSE otherwise

OpenView ==
  /\ row.status # "absent"
  /\ \E v \in Viewers :
       /\ viewer[v].pc = "idle"
       /\ Becomes(v, [viewer[v] EXCEPT !.pc = "loaded", !.seen = row.status])
  /\ UNCHANGED <<row, report, run, picked, stream, unsaved, faults>>

\* The row as it was loaded is sent before the subscription.
Subscribe(v) ==
  /\ viewer[v].pc = "loaded"
  /\ Becomes(v, Shown(viewer[v].seen, [viewer[v] EXCEPT !.pc = "live"]))
  /\ UNCHANGED <<row, report, run, picked, stream, unsaved, faults>>

Forward(v) ==
  /\ viewer[v].pc = "live" /\ viewer[v].inbox # <<>>
  /\ LET event == Head(viewer[v].inbox)
     IN  Becomes(v, IF event \in {"completed", "error"} THEN Closed(event)
                    ELSE [viewer[v] EXCEPT !.inbox = Tail(@)])
  /\ UNCHANGED <<row, report, run, picked, stream, unsaved, faults>>

PollRow_StaleRow(v) ==
  /\ viewer[v].pc = "live" /\ viewer[v].inbox = <<>>
  /\ Becomes(v, Shown(viewer[v].seen, viewer[v]))
  /\ UNCHANGED <<row, report, run, picked, stream, unsaved, faults>>

\* Fifteen seconds without an event: the row is read again.
PollRow(v) ==
  /\ viewer[v].pc = "live" /\ viewer[v].inbox = <<>>
  /\ Becomes(v, Shown(row.status, [viewer[v] EXCEPT !.seen = row.status]))
  /\ UNCHANGED <<row, report, run, picked, stream, unsaved, faults>>

-----------------------------------------------------------------------------
Pipeline ==
  \/ Select
  \/ LinkEvent
  \/ StartReport
  \/ RunRole
  \/ PickDecision
  \/ AskWhole
  \/ OpenStream
  \/ Decide
  \/ Finalize
  \/ StoreReport
  \/ PublishCompleted
  \/ PersistFailure
  \/ PublishError

Streaming ==
  \/ TakeDelta
  \/ TakeFinal
  \/ TakeDone
  \/ TakeError
  \/ RetryPlain
  \/ AwaitThread

ModelThread ==
  \/ ThreadSends
  \/ ThreadEnds
  \/ ThreadDone

Watch(v) ==
  \/ Subscribe(v)
  \/ Forward(v)
  \/ PollRow(v)

Failures ==
  \/ Raise
  \/ PersistFailureFails
  \/ Crash

Next ==
  \/ Enqueue
  \/ Start
  \/ Restart
  \/ Pipeline
  \/ Streaming
  \/ ModelThread
  \/ Failures
  \/ OpenView
  \/ \E v \in Viewers : Watch(v)

\* The worker polls for rows to run and to reclaim, the event loop runs what is ready,
\* the thread ends with its HTTP response, and a timer ends each wait.
Fairness ==
  /\ WF_vars(Start)
  /\ WF_vars(Restart)
  /\ WF_vars(Pipeline)
  /\ WF_vars(Streaming)
  /\ WF_vars(ModelThread)
  /\ \A v \in Viewers : WF_vars(Watch(v))

Spec == Init /\ [][Next]_vars /\ Fairness

-----------------------------------------------------------------------------
\* The events a run is given are chosen as the selection promises, from the pool and from
\* the stored events behind it.
SelectionIsSound ==
  picked # NothingPicked =>
    LET feed == picked.feed
    IN  /\ Sound(picked.events, picked.pool, feed.anchor, Limit, Quota)
        /\ Drawn(picked.events, feed.news, Stock, feed.topic, feed.anchor, Limit)

\* The text of a ready report is all the model said, but for the lines the single mode
\* drops, unless the gateway refused web search after the first pieces.
ReadyIsWhole ==
  report.status = "ready" =>
    \/ report.text = <<"answer">>
    \/ report.text = <<"cut">> /\ row.mode = "single"
    \/ thread.ended = "ok" /\ Len(report.text) = thread.sent
    \/ thread.ended = "unsupported"

\* The run does not go on while a thread still reads the model's stream.
NoStrayThread ==
  thread.state # "off" => run.pc \in {"stream", "retry", "await"}

\* An event stream ends with what the row says, or with a failure the row could not
\* be told.
ToldIsTrue ==
  \A v \in Viewers :
    /\ viewer[v].told = "completed" => row.status = "completed" /\ report.status # "none"
    /\ viewer[v].told = "error" => row.status = "failed" \/ unsaved

\* Every event stream that was opened ends, also when its events went by before it
\* subscribed or are published in another process.
ViewersEnd ==
  \A v \in Viewers : (viewer[v].pc # "idle") ~> (viewer[v].pc = "closed")

Contract == INSTANCE SessionContract WITH
  SessionIds <- {1}, ReportIds <- {1},
  phase <- [s \in {1} |-> row.status],
  reports <- [s \in {1} |-> IF report.status = "none" THEN {} ELSE {1}]

\* Stages, retries and restarts of a run stay within what a session promises.
ImplementsContract == Contract!Spec

=============================================================================
