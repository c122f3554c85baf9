----------------------- MODULE AnalysisSessionProofs -----------------------
(***************************************************************************)
(* Theorems about AnalysisSession for every set of callers, workers, keys  *)
(* and sessions, every pool size and every number of faults.               *)
(***************************************************************************)
EXTENDS AnalysisSession, TLAPS

\* A runner that is not idle works on a session row.
RunHasSession == \A a \in Actors : run[a].pc # "idle" => run[a].sid \in SessionIds

\* A caller that returns or executes a session has one.
CallHasSession ==
  \A c \in Callers :
    call[c].pc \in {"refresh", "cacheReused", "cacheNew", "inline", "running"} =>
      call[c].sid \in SessionIds

Typed == TypeOK /\ RunHasSession /\ CallHasSession

Call   == [pc : CallPcs, sid : SessionIds \union {None}]
Report == [session : SessionIds \union {None}, fresh : BOOLEAN]

-----------------------------------------------------------------------------
(***************************************************************************)
(* Type correctness                                                        *)
(***************************************************************************)

LEMMA Literals ==
  /\ {"absent", "queued", "running", "completed", "failed"} \subseteq Statuses
  /\ {"none", "queued", "running", "success", "partial", "failed"} \subseteq JobStatuses
  /\ {"recent", "lapsed", "stale"} \subseteq Ages
  /\ {"idle", "load", "loadJob", "start", "working", "failing", "persist",
      "clearGet", "clearDelete"} \subseteq RunPcs
BY DEF Statuses, ActiveStatus, FinalStatus, JobStatuses, JobFinal, Ages, RunPcs

\* Writing some columns of one session row, or of a runner's progress, keeps the type.
LEMMA WriteStatusAge ==
  ASSUME NEW f \in [SessionIds -> Row], NEW s \in SessionIds,
         NEW st \in Statuses, NEW age \in Ages
  PROVE  [f EXCEPT ![s].status = st, ![s].age = age] \in [SessionIds -> Row]
BY DEF Row

LEMMA WriteStatusJobAge ==
  ASSUME NEW f \in [SessionIds -> Row], NEW s \in SessionIds,
         NEW st \in Statuses, NEW jb \in JobStatuses, NEW age \in Ages
  PROVE  [f EXCEPT ![s].status = st, ![s].job = jb, ![s].age = age] \in [SessionIds -> Row]
BY ZenonT(40) DEF Row

LEMMA WriteRun ==
  ASSUME NEW f \in [Actors -> Run], NEW a \in Actors, NEW pc \in RunPcs,
         NEW st \in Statuses, NEW jb \in JobStatuses
  PROVE  [f EXCEPT ![a].pc = pc, ![a].status = st, ![a].job = jb] \in [Actors -> Run]
BY DEF Run

LEMMA InitTyped == Init => Typed
<1> SUFFICES ASSUME Init PROVE Typed
  OBVIOUS
<1>1. TypeOK
  BY BoundsAssumption
  DEF Init, TypeOK, Row, Run, NoRow, NoRun, NoReport, IdleCall, Statuses, JobStatuses,
      Ages, CallPcs, RunPcs
<1>2. RunHasSession /\ CallHasSession
  BY DEF Init, RunHasSession, CallHasSession, NoRun, IdleCall
<1> QED
  BY <1>1, <1>2 DEF Typed

\* A caller's move that leaves the rows and the runs alone.
LEMMA CallerMoveTyped ==
  ASSUME Typed,
         UNCHANGED <<row, report, stamped, run, faults>>,
         lock' \in [Procs -> [Keys -> Callers \union {None}]],
         conns' \subseteq Callers,
         active' \in [Keys -> SessionIds \union {None}],
         call' \in [Callers -> Call],
         CallHasSession'
  PROVE  Typed'
BY DEF Typed, TypeOK, RunHasSession, Call

LEMMA CallMovesTyped ==
  ASSUME Typed, NEW c \in Callers, NEW from \in CallPcs, NEW to \in CallPcs,
         CallMoves(c, from, to),
         from = "refresh" \/ from = "inline" \/ from = "cacheNew" \/ from = "cacheReused"
           \/ to \notin {"refresh", "cacheReused", "cacheNew", "inline", "running"}
  PROVE  call' \in [Callers -> Call] /\ CallHasSession'
<1>1. call' \in [Callers -> Call]
  BY DEF CallMoves, Typed, TypeOK, Call
<1>2. CallHasSession'
  BY DEF CallMoves, Typed, TypeOK, CallHasSession, Call
<1> QED
  BY <1>1, <1>2

LEMMA LeaveLockTyped ==
  ASSUME Typed, NEW c \in Callers, LeaveLock(c)
  PROVE  lock' \in [Procs -> [Keys -> Callers \union {None}]]
BY ActorsAssumption, KeysAssumption DEF LeaveLock, Typed, TypeOK, Actors

LEMMA CallerTyped ==
  ASSUME NEW c \in Callers, Typed, CallerStep(c) \/ RejectCall(c)
  PROVE  Typed'
<1> USE CallMovesTyped, LeaveLockTyped, CallerMoveTyped
<1>1. CASE LookUpStock(c)
  <2>1. /\ CallMoves(c, "idle", "lock")
        /\ conns' = conns \union {c}
        /\ UNCHANGED <<row, report, stamped, lock, run, active, faults>>
    BY <1>1 DEF LookUpStock
  <2> QED
    BY <2>1 DEF CallPcs, Typed, TypeOK
<1>2. CASE RejectCall(c)
  <2>1. /\ CallMoves(c, "idle", "error")
        /\ UNCHANGED <<row, report, stamped, lock, conns, run, active, faults>>
    BY <1>2 DEF RejectCall
  <2> QED
    BY <2>1 DEF CallPcs, Typed, TypeOK
<1>3. CASE EnterLock(c)
  <2>1. /\ CallMoves(c, "lock", "fresh")
        /\ UNCHANGED <<row, report, stamped, conns, run, active, faults>>
    BY <1>3 DEF EnterLock
  <2>2. lock' \in [Procs -> [Keys -> Callers \union {None}]]
    BY <1>3, ActorsAssumption, KeysAssumption DEF EnterLock, Typed, TypeOK, Actors
  <2> QED
    BY <2>1, <2>2 DEF CallPcs, Typed, TypeOK
<1>4. CASE LoadFreshReport(c)
  <2>1. CASE /\ CallMoves(c, "fresh", "done")
             /\ LeaveLock(c)
             /\ conns' = conns \ {c}
             /\ UNCHANGED <<row, report, stamped, run, active, faults>>
    BY <2>1 DEF CallPcs, Typed, TypeOK
  <2>2. CASE /\ CallMoves(c, "fresh", "active")
             /\ UNCHANGED <<row, report, stamped, lock, conns, run, active, faults>>
    BY <2>2 DEF CallPcs, Typed, TypeOK
  <2> QED
    BY <1>4, <2>1, <2>2 DEF LoadFreshReport
<1>5. CASE LoadActiveSession(c)
  <2>1. ASSUME NEW s \in SessionIds,
               call' = [call EXCEPT ![c] = [pc |-> "cacheReused", sid |-> s]],
               UNCHANGED <<row, report, stamped, lock, conns, run, active, faults>>
        PROVE  Typed'
    <3>1. call' \in [Callers -> Call]
      BY <2>1 DEF Typed, TypeOK, Call, CallPcs
    <3>2. CallHasSession'
      BY <2>1 DEF Typed, TypeOK, CallHasSession
    <3> QED
      BY <2>1, <3>1, <3>2 DEF Typed, TypeOK
  <2>2. CASE /\ CallMoves(c, "active", "create")
             /\ UNCHANGED <<row, report, stamped, lock, conns, run, active, faults>>
    BY <2>2 DEF CallPcs, Typed, TypeOK
  <2> QED
    BY <1>5, <2>1, <2>2 DEF LoadActiveSession, ActiveSessions
<1>6. CASE CreateSession(c)
  <2>1. /\ conns' = conns \ {c}
        /\ UNCHANGED <<report, stamped, lock, run, active, faults>>
    BY <1>6 DEF CreateSession
  <2>2. PICK s \in SessionIds :
          /\ row' = [row EXCEPT ![s] = [NoRow EXCEPT !.status = "queued", !.job = "queued",
                                                    !.key = KeyOf[c]]]
          /\ call' = [call EXCEPT ![c] = [pc |-> "refresh", sid |-> s]]
    BY <1>6 DEF CreateSession
  <2>3. row' \in [SessionIds -> Row]
    BY <2>2, KeysAssumption
    DEF NoRow, Row, Statuses, ActiveStatus, JobStatuses, Ages, Typed, TypeOK
  <2>4. call' \in [Callers -> Call]
    BY <2>2 DEF Typed, TypeOK, Call, CallPcs
  <2>5. CallHasSession'
    BY <2>2 DEF Typed, TypeOK, CallHasSession
  <2> QED
    BY <2>1, <2>3, <2>4, <2>5 DEF Typed, TypeOK, RunHasSession, Call
<1>7. CASE RefreshRow(c)
  <2>1. /\ CallMoves(c, "refresh", "cacheNew")
        /\ conns' = conns \union {c}
        /\ UNCHANGED <<row, report, stamped, lock, run, active, faults>>
    BY <1>7 DEF RefreshRow
  <2> QED
    BY <2>1 DEF CallPcs, Typed, TypeOK
<1>8. CASE RefreshTimesOut(c)
  <2>1. /\ CallMoves(c, "refresh", "error")
        /\ LeaveLock(c)
        /\ UNCHANGED <<row, report, stamped, conns, run, active, faults>>
    BY <1>8 DEF RefreshTimesOut
  <2> QED
    BY <2>1 DEF CallPcs, Typed, TypeOK
<1>9. CASE CacheActiveSession(c)
  <2>1. /\ call[c].pc \in {"cacheReused", "cacheNew"}
        /\ LeaveLock(c)
        /\ conns' = conns \/ conns' = conns \ {c}
        /\ CallMoves(c, "cacheNew", "inline") \/ CallMoves(c, call[c].pc, "done")
        /\ UNCHANGED <<row, report, stamped, run, faults>>
    BY <1>9 DEF CacheActiveSession
  <2>2. call[c].sid \in SessionIds
    BY <2>1 DEF Typed, CallHasSession
  <2>3. active' = [active EXCEPT ![KeyOf[c]] = call[c].sid] \/ UNCHANGED active
    BY <1>9 DEF CacheActiveSession
  <2>4. active' \in [Keys -> SessionIds \union {None}]
    BY <2>2, <2>3 DEF Typed, TypeOK
  <2> QED
    BY <2>1, <2>4 DEF CallPcs, Typed, TypeOK
<1>10. CASE RunInline(c)
  <2>1. /\ CallMoves(c, "inline", "running")
        /\ run' = [run EXCEPT ![c] = [NoRun EXCEPT !.pc = "load", !.sid = call[c].sid]]
        /\ UNCHANGED <<row, report, stamped, lock, conns, active, faults>>
    BY <1>10 DEF RunInline
  <2>2. call[c].sid \in SessionIds
    BY <2>1 DEF Typed, CallHasSession, CallMoves
  <2>3. run' \in [Actors -> Run]
    BY <2>1, <2>2 DEF Typed, TypeOK, Run, NoRun, RunPcs, Statuses, JobStatuses
  <2>4. RunHasSession'
    BY <2>1, <2>2 DEF Typed, TypeOK, RunHasSession, NoRun, Actors
  <2>5. call' \in [Callers -> Call] /\ CallHasSession'
    BY <2>1 DEF CallPcs
  <2> QED
    BY <2>1, <2>3, <2>4, <2>5 DEF Typed, TypeOK, Call
<1>11. CASE InlineTimesOut(c)
  <2>1. /\ CallMoves(c, "inline", "error")
        /\ conns' = conns \ {c}
        /\ UNCHANGED <<row, report, stamped, lock, run, active, faults>>
    BY <1>11 DEF InlineTimesOut
  <2> QED
    BY <2>1 DEF CallPcs, Typed, TypeOK
<1>12. CASE ReturnFromInline(c)
  <2>1. /\ CallMoves(c, "running", "done")
        /\ conns' = conns \ {c}
        /\ UNCHANGED <<row, report, stamped, lock, run, active, faults>>
    BY <1>12 DEF ReturnFromInline
  <2> QED
    BY <2>1 DEF CallPcs, Typed, TypeOK
<1> QED
  BY <1>1, <1>2, <1>3, <1>4, <1>5, <1>6, <1>7, <1>8, <1>9, <1>10, <1>11, <1>12
  DEF CallerStep

\* A step of one runner that keeps it on its session or lets it go.
LEMMA RunMoveTyped ==
  ASSUME Typed, NEW a \in Actors, NEW to \in RunPcs, run[a].pc # "idle",
         run' = [run EXCEPT ![a].pc = to] \/ run' = [run EXCEPT ![a] = NoRun]
  PROVE  run' \in [Actors -> Run] /\ RunHasSession'
<1>1. run' \in [Actors -> Run]
  <2>1. NoRun \in Run
    BY Literals DEF NoRun, Run
  <2>2. CASE run' = [run EXCEPT ![a].pc = to]
    BY ZenonT(40), <2>2 DEF Typed, TypeOK, Run
  <2>3. CASE run' = [run EXCEPT ![a] = NoRun]
    BY <2>1, <2>3 DEF Typed, TypeOK
  <2> QED
    BY <2>2, <2>3
<1>2. RunHasSession'
  BY DEF Typed, TypeOK, RunHasSession, Run, NoRun
<1> QED
  BY <1>1, <1>2

\* A step of a runner that writes at most its own session row.
LEMMA RunnerMoveTyped ==
  ASSUME Typed, NEW s \in SessionIds, NEW new \in Row,
         row' = [row EXCEPT ![s] = new] \/ UNCHANGED row,
         UNCHANGED <<report, stamped, lock, conns, call, active>>,
         faults' \in 0 .. MaxFaults,
         run' \in [Actors -> Run],
         RunHasSession'
  PROVE  Typed'
BY DEF Typed, TypeOK, CallHasSession

LEMMA AgeTyped ==
  ASSUME Typed, NEW s \in SessionIds, NEW age \in Ages,
         row' = [row EXCEPT ![s].age = age]
  PROVE  row' \in [SessionIds -> Row]
BY ZenonT(40) DEF Typed, TypeOK, Row

LEMMA RunnerTyped ==
  ASSUME NEW a \in Actors, Typed,
         RunnerStep(a) \/ Progress(a) \/ Heartbeat(a) \/ LoadFails(a) \/ PersistFailureFails(a)
  PROVE  Typed'
<1> DEFINE s == run[a].sid
<1>0. /\ run[a].pc # "idle"
      /\ s \in SessionIds
  <2>1. run[a].pc # "idle"
    BY DEF RunnerStep, Progress, Heartbeat, LoadFails, PersistFailureFails, LoadRow, LoadJob,
           StartRun, Complete, Fail, LoadForFailure, PersistFailure, ClearGet, ClearDelete, ClearFails, RunMoves
  <2> QED
    BY <2>1 DEF Typed, RunHasSession
<1>r. row[s] \in Row
  BY <1>0 DEF Typed, TypeOK
<1> HIDE DEF s
<1>1. CASE LoadRow(a)
  <2>1. /\ run' = [run EXCEPT ![a].pc = "loadJob", ![a].status = row[s].status]
        /\ UNCHANGED <<row, report, stamped, lock, conns, call, active, faults>>
    BY <1>1 DEF LoadRow, s
  <2>2. row[s].status \in Statuses
    BY <1>r DEF Row
  <2>3. run' \in [Actors -> Run]
    BY ZenonT(40), <2>1, <2>2 DEF Typed, TypeOK, Run, RunPcs
  <2>4. RunHasSession'
    BY <1>0, <2>1 DEF Typed, TypeOK, RunHasSession, Run, s
  <2> QED
    BY <2>1, <2>3, <2>4 DEF Typed, TypeOK, CallHasSession
<1>2. CASE LoadJob(a)
  <2>1. /\ run' = [run EXCEPT ![a].pc = "start", ![a].job = row[s].job]
        /\ UNCHANGED <<row, report, stamped, lock, conns, call, active, faults>>
    BY <1>2 DEF LoadJob, s
  <2>2. row[s].job \in JobStatuses
    BY <1>r DEF Row
  <2>3. run' \in [Actors -> Run]
    BY ZenonT(40), <2>1, <2>2 DEF Typed, TypeOK, Run, RunPcs
  <2>4. RunHasSession'
    BY <1>0, <2>1 DEF Typed, TypeOK, RunHasSession, Run, s
  <2> QED
    BY <2>1, <2>3, <2>4 DEF Typed, TypeOK, CallHasSession
<1>3. CASE StartRun(a)
  <2> DEFINE st == Changed(run[a].status, "running", row[s].status)
             jb == Changed(run[a].job, "running", row[s].job)
  <2>1. /\ row' = [row EXCEPT ![s].status = st, ![s].job = jb, ![s].age = "recent"]
        /\ run' = [run EXCEPT ![a].pc = "working", ![a].status = "running", ![a].job = "running"]
        /\ UNCHANGED <<report, stamped, lock, conns, call, active, faults>>
    BY <1>3, <1>0 DEF StartRun, s, Typed, TypeOK
  <2>2. st \in Statuses /\ jb \in JobStatuses
    BY <1>r DEF Row, Changed, Statuses, ActiveStatus, JobStatuses
  <2> HIDE DEF st, jb
  <2>3. row' \in [SessionIds -> Row]
    BY <1>0, <2>1, <2>2, Literals, WriteStatusJobAge DEF Typed, TypeOK
  <2>4. run' \in [Actors -> Run]
    BY <2>1, Literals, WriteRun DEF Typed, TypeOK
  <2>5. RunHasSession'
    BY <1>0, <2>1 DEF Typed, TypeOK, RunHasSession, Run, s
  <2> QED
    BY <2>1, <2>3, <2>4, <2>5 DEF Typed, TypeOK, CallHasSession
<1>4. CASE Complete(a)
  <2>1. /\ run' = [run EXCEPT ![a].pc = "clearGet"]
        /\ stamped' = stamped \union ({row[s].key} \intersect DailyKeys)
        /\ UNCHANGED <<lock, conns, call, active, faults>>
    BY <1>4 DEF Complete, RunMoves, s
  <2>2. PICK r \in ReportIds, outcome \in {"success", "partial"} :
          /\ report' = [report EXCEPT ![r] = [session |-> s, fresh |-> TRUE]]
          /\ row' = [row EXCEPT ![s].status = "completed", ![s].report = r,
                                ![s].job = outcome, ![s].age = "recent"]
    BY <1>4 DEF Complete, s
  <2>3. row' \in [SessionIds -> Row]
    <3> DEFINE x == row[s]
               y == [x EXCEPT !.status = "completed"]
               z == [y EXCEPT !.report = r]
               u == [z EXCEPT !.job = outcome]
               v == [u EXCEPT !.age = "recent"]
    <3>1. y \in Row
      BY <1>r, Literals DEF Row
    <3>2. z \in Row
      BY <3>1 DEF Row
    <3>3. u \in Row
      BY <3>2, Literals DEF Row
    <3>4. v \in Row
      BY <3>3, Literals DEF Row
    <3>5. row' = [row EXCEPT ![s] = v]
      BY <2>2
    <3> HIDE DEF v
    <3> QED
      BY <3>4, <3>5 DEF Typed, TypeOK
  <2>4. run' \in [Actors -> Run] /\ RunHasSession'
    BY <1>0, <2>1, RunMoveTyped DEF RunPcs
  <2>5. report' \in [ReportIds -> Report]
    BY <1>0, <2>2 DEF Typed, TypeOK, Report
  <2> QED
    BY <2>1, <2>3, <2>4, <2>5 DEF Typed, TypeOK, CallHasSession, Report
<1>5. CASE Fail(a)
  <2>1. /\ run' = [run EXCEPT ![a].pc = "failing"]
        /\ UNCHANGED <<row, report, stamped, lock, conns, call, active, faults>>
    BY <1>5 DEF Fail, RunMoves
  <2>2. run' \in [Actors -> Run] /\ RunHasSession'
    BY <1>0, <2>1, RunMoveTyped DEF RunPcs
  <2> QED
    BY <2>1, <2>2 DEF Typed, TypeOK, CallHasSession
<1>6. CASE PersistFailure(a)
  <2> DEFINE st == Changed(run[a].status, "failed", row[s].status)
  <2>1. /\ run' = [run EXCEPT ![a].pc = "clearGet"]
        /\ row' = [row EXCEPT ![s].status = st, ![s].job = "failed", ![s].age = "recent"]
        /\ UNCHANGED <<report, stamped, lock, conns, call, active, faults>>
    BY <1>0, <1>6 DEF PersistFailure, RunMoves, s, Typed, TypeOK
  <2>0. st \in Statuses
    BY <1>r, Literals DEF Row, Changed
  <2> HIDE DEF st
  <2>2. row' \in [SessionIds -> Row]
    BY <1>0, <2>0, <2>1, Literals, WriteStatusJobAge DEF Typed, TypeOK
  <2>3. run' \in [Actors -> Run] /\ RunHasSession'
    BY <1>0, <2>1, RunMoveTyped DEF RunPcs
  <2> QED
    BY <2>1, <2>2, <2>3 DEF Typed, TypeOK, CallHasSession
<1>7. CASE ClearGet(a)
  <2>1. /\ run' = [run EXCEPT ![a].pc = "clearDelete"] \/ run' = [run EXCEPT ![a] = NoRun]
        /\ UNCHANGED <<row, report, stamped, lock, conns, call, active, faults>>
    BY <1>7 DEF ClearGet
  <2>2. run' \in [Actors -> Run] /\ RunHasSession'
    BY <1>0, <2>1, RunMoveTyped DEF RunPcs
  <2> QED
    BY <2>1, <2>2 DEF Typed, TypeOK, CallHasSession
<1>8. CASE ClearDelete(a)
  <2>1. /\ active' = [active EXCEPT ![row[s].key] = None]
        /\ run' = [run EXCEPT ![a] = NoRun]
        /\ UNCHANGED <<row, report, stamped, lock, conns, call, faults>>
    BY <1>8 DEF ClearDelete, s
  <2>2. run' \in [Actors -> Run] /\ RunHasSession'
    BY <1>0, <2>1, RunMoveTyped DEF RunPcs
  <2>3. active' \in [Keys -> SessionIds \union {None}]
    BY <2>1 DEF Typed, TypeOK
  <2> QED
    BY <2>1, <2>2, <2>3 DEF Typed, TypeOK, CallHasSession
<1>9. CASE ClearFails(a)
  <2>1. /\ run' = [run EXCEPT ![a] = NoRun]
        /\ UNCHANGED <<row, report, stamped, lock, conns, call, active, faults>>
    BY <1>9 DEF ClearFails
  <2>2. run' \in [Actors -> Run] /\ RunHasSession'
    BY <1>0, <2>1, RunMoveTyped DEF RunPcs
  <2> QED
    BY <2>1, <2>2 DEF Typed, TypeOK, CallHasSession
<1>10. CASE Progress(a) \/ Heartbeat(a)
  <2>1. /\ row' = [row EXCEPT ![s].age = "recent"]
        /\ UNCHANGED <<report, stamped, lock, conns, call, run, active, faults>>
    BY <1>10 DEF Progress, Heartbeat, s
  <2>2. row' \in [SessionIds -> Row]
    BY <1>0, <2>1, AgeTyped DEF Ages
  <2> QED
    BY <2>1, <2>2 DEF Typed, TypeOK, CallHasSession, RunHasSession
<1>11. CASE LoadFails(a)
  <2>1. /\ run' = [run EXCEPT ![a] = NoRun]
        /\ conns' = conns \ {a}
        /\ call' = [c \in Callers |-> IF c = a THEN [call[c] EXCEPT !.pc = "error"] ELSE call[c]]
        /\ faults < MaxFaults /\ faults' = faults + 1
        /\ UNCHANGED <<row, report, stamped, lock, active>>
    BY <1>11 DEF LoadFails
  <2>2. run' \in [Actors -> Run] /\ RunHasSession'
    BY <1>0, <2>1, RunMoveTyped DEF RunPcs
  <2>3. call' \in [Callers -> Call]
    BY <2>1 DEF Typed, TypeOK, Call, CallPcs
  <2>4. CallHasSession'
    BY <2>1 DEF Typed, TypeOK, CallHasSession
  <2>5. faults' \in 0 .. MaxFaults
    BY <2>1, BoundsAssumption DEF Typed, TypeOK
  <2> QED
    BY <2>1, <2>2, <2>3, <2>4, <2>5 DEF Typed, TypeOK, Call
<1>12. CASE PersistFailureFails(a)
  <2>1. /\ run' = [run EXCEPT ![a] = NoRun]
        /\ faults < MaxFaults /\ faults' = faults + 1
        /\ UNCHANGED <<row, report, stamped, lock, conns, call, active>>
    BY <1>12 DEF PersistFailureFails
  <2>2. run' \in [Actors -> Run] /\ RunHasSession'
    BY <1>0, <2>1, RunMoveTyped DEF RunPcs
  <2>3. faults' \in 0 .. MaxFaults
    BY <2>1, BoundsAssumption DEF Typed, TypeOK
  <2> QED
    BY <2>1, <2>2, <2>3 DEF Typed, TypeOK, CallHasSession
<1>13. CASE LoadForFailure(a)
  <2>1. /\ run' = [run EXCEPT ![a].pc = "persist", ![a].status = row[s].status]
        /\ UNCHANGED <<row, report, stamped, lock, conns, call, active, faults>>
    BY <1>13 DEF LoadForFailure, s
  <2>2. row[s].status \in Statuses
    BY <1>r DEF Row
  <2>3. run' \in [Actors -> Run]
    BY ZenonT(40), <2>1, <2>2 DEF Typed, TypeOK, Run, RunPcs
  <2>4. RunHasSession'
    BY <1>0, <2>1 DEF Typed, TypeOK, RunHasSession, Run, s
  <2> QED
    BY <2>1, <2>3, <2>4 DEF Typed, TypeOK, CallHasSession
<1> QED
  BY <1>1, <1>2, <1>3, <1>4, <1>5, <1>6, <1>7, <1>8, <1>9, <1>10, <1>11, <1>12, <1>13
  DEF RunnerStep

LEMMA StepTyped == Typed /\ [Next]_vars => Typed'
<1> SUFFICES ASSUME Typed, [Next]_vars PROVE Typed'
  OBVIOUS
<1>1. ASSUME NEW c \in Callers, CallerStep(c) \/ RejectCall(c) PROVE Typed'
  BY <1>1, CallerTyped
<1>2. ASSUME NEW w \in Workers, ClaimNext(w) PROVE Typed'
  <2>1. PICK s \in SessionIds : Claim(w, s)
    BY <1>2 DEF ClaimNext, ClaimQueued, ClaimStale, Queued, Stale
  <2>2. /\ row' = [row EXCEPT ![s].status = "running", ![s].age = "recent"]
        /\ run' = [run EXCEPT ![w] = [NoRun EXCEPT !.pc = "load", !.sid = s]]
        /\ UNCHANGED <<report, stamped, lock, conns, call, active, faults>>
    BY <2>1 DEF Claim
  <2>3. row' \in [SessionIds -> Row]
    BY <2>2, Literals, WriteStatusAge DEF Typed, TypeOK
  <2>4. run' \in [Actors -> Run]
    BY <2>2 DEF Typed, TypeOK, Run, NoRun, RunPcs, Statuses, JobStatuses
  <2>5. RunHasSession'
    BY <2>2 DEF Typed, TypeOK, RunHasSession, NoRun, Actors
  <2> QED
    BY <2>2, <2>3, <2>4, <2>5 DEF Typed, TypeOK, CallHasSession
<1>3. ASSUME NEW a \in Actors,
             RunnerStep(a) \/ Progress(a) \/ Heartbeat(a) \/ LoadFails(a) \/ PersistFailureFails(a)
      PROVE  Typed'
  BY <1>3, RunnerTyped
<1>4. ASSUME NEW s \in SessionIds, RowAges(s) PROVE Typed'
  <2>1. /\ \E age \in Ages : row' = [row EXCEPT ![s].age = age]
        /\ UNCHANGED <<report, stamped, lock, conns, call, run, active, faults>>
    BY <1>4 DEF RowAges, Ages
  <2>2. row' \in [SessionIds -> Row]
    BY <2>1, AgeTyped
  <2> QED
    BY <2>1, <2>2 DEF Typed, TypeOK, CallHasSession, RunHasSession
<1>5. ASSUME NEW r \in ReportIds, ReportLeavesCooldown(r) PROVE Typed'
  <2>1. /\ report' = [report EXCEPT ![r].fresh = FALSE]
        /\ UNCHANGED <<row, stamped, lock, conns, call, run, active, faults>>
    BY <1>5 DEF ReportLeavesCooldown
  <2>2. report' \in [ReportIds -> Report]
    BY <2>1 DEF Typed, TypeOK, Report
  <2> QED
    BY <2>1, <2>2 DEF Typed, TypeOK, Report, CallHasSession, RunHasSession
<1>6. ASSUME NEW k \in Keys, ActiveKeyExpires(k) PROVE Typed'
  <2>1. /\ active' = [active EXCEPT ![k] = None]
        /\ UNCHANGED <<row, report, stamped, lock, conns, call, run, faults>>
    BY <1>6 DEF ActiveKeyExpires
  <2> QED
    BY <2>1 DEF Typed, TypeOK, CallHasSession, RunHasSession
<1>7. ASSUME NEW p \in Procs, Crash(p) PROVE Typed'
  <2>1. /\ faults < MaxFaults /\ faults' = faults + 1
        /\ lock' = [lock EXCEPT ![p] = [k \in Keys |-> None]]
        /\ conns' \subseteq conns
        /\ run' = [a \in Actors |-> IF ProcOf[a] = p THEN NoRun ELSE run[a]]
        /\ UNCHANGED <<row, report, stamped, active>>
    BY <1>7 DEF Crash
  <2>2. /\ DOMAIN call' = Callers
        /\ call' = [c \in Callers |-> call'[c]]
        /\ \A c \in Callers : call'[c] = call[c] \/ call'[c] = [call[c] EXCEPT !.pc = "error"]
    BY <1>7 DEF Crash
  <2>3. call' \in [Callers -> Call]
    BY <2>2 DEF Typed, TypeOK, Call, CallPcs
  <2>4. CallHasSession'
    BY <2>2 DEF Typed, TypeOK, CallHasSession
  <2>5. run' \in [Actors -> Run]
    BY <2>1 DEF Typed, TypeOK, Run, NoRun, RunPcs, Statuses, JobStatuses
  <2>6. RunHasSession'
    BY <2>1 DEF Typed, TypeOK, RunHasSession, NoRun
  <2>7. faults' \in 0 .. MaxFaults
    BY <2>1, BoundsAssumption DEF Typed, TypeOK
  <2> QED
    BY <2>1, <2>3, <2>4, <2>5, <2>6, <2>7 DEF Typed, TypeOK, Call
<1>8. CASE UNCHANGED vars
  BY <1>8 DEF vars, Typed, TypeOK, RunHasSession, CallHasSession
<1> QED
  BY <1>1, <1>2, <1>3, <1>4, <1>5, <1>6, <1>7, <1>8 DEF Next, Quiet

\* Every variable keeps to its type: statuses stay inside the enumerations of the
\* models, and a runner or a caller that needs a session row has one.
THEOREM TypeCorrect == Spec => []TypeOK
<1>1. Init => Typed
  BY InitTyped
<1>2. Typed /\ [Next]_vars => Typed'
  BY StepTyped
<1>3. Typed => TypeOK
  BY DEF Typed
<1> QED
  BY <1>1, <1>2, <1>3, PTL DEF Spec

-----------------------------------------------------------------------------
(***************************************************************************)
(* What a session's rows and reports mean.                                 *)
(*                                                                         *)
(* The first part needs no assumption: whatever runners overlap, a         *)
(* completed session names a report of its own.  The second part assumes   *)
(* that the heartbeats keep up and that nobody executes inline, as in the  *)
(* API and worker deployment, and proves that a session then has one       *)
(* runner and implements SessionContract.  The third part is about the     *)
(* lock: calls of one key that reach one process leave one fresh session   *)
(* in the queue.                                                           *)
(***************************************************************************)

\* What a step does to one row, one report or one run.
SameButAge(t) ==
  /\ row'[t].status = row[t].status
  /\ row'[t].job    = row[t].job
  /\ row'[t].key    = row[t].key
  /\ row'[t].report = row[t].report

OthersKept(s)   == \A t \in SessionIds \ {s} : row'[t] = row[t]
OtherRuns(a)    == \A b \in Actors \ {a} : run'[b] = run[b]
SessionsKept    == \A r \in ReportIds : report'[r].session = report[r].session
ReportsKept     == SessionsKept /\ stamped' = stamped

\* The ten kinds of step, by what they do to rows, reports and runs.
NothingStep ==
  /\ \A t \in SessionIds : row'[t] = row[t]
  /\ ReportsKept
  /\ \A a \in Actors : run'[a] = run[a]

CreateStep(s) ==
  /\ row[s].status = "absent"
  /\ OthersKept(s)
  /\ row'[s].status = "queued"
  /\ row'[s].job = "queued"
  /\ ReportsKept
  /\ \A a \in Actors : run'[a] = run[a]

InlineStep(c) ==
  /\ call[c].pc = "inline"
  /\ \A t \in SessionIds : row'[t] = row[t]
  /\ ReportsKept
  /\ OtherRuns(c)
  /\ run'[c].pc = "load"
  /\ run'[c].sid = call[c].sid

ClaimStep(w, s) ==
  /\ run[w].pc = "idle"
  /\ \/ row[s].status = "queued"
     \/ row[s].status = "running" /\ row[s].age = "stale"
  /\ OthersKept(s)
  /\ row'[s].status = "running"
  /\ row'[s].job = row[s].job
  /\ row'[s].key = row[s].key
  /\ row'[s].age = "recent"
  /\ ReportsKept
  /\ OtherRuns(w)
  /\ run'[w].pc = "load"
  /\ run'[w].sid = s

\* The run moves without touching its row, or ends.
MoveStep(a) ==
  /\ run[a].pc # "idle"
  /\ \A t \in SessionIds : row'[t] = row[t]
  /\ ReportsKept
  /\ OtherRuns(a)
  /\ \/ run'[a].pc = "idle"
     \/ /\ run'[a].sid = run[a].sid
        /\ <<run[a].pc, run'[a].pc>> \in
             {<<"load", "loadJob">>, <<"loadJob", "start">>, <<"start", "failing">>,
              <<"working", "failing">>, <<"failing", "persist">>,
              <<"clearGet", "clearDelete">>}
        /\ run'[a].pc = "persist" => run'[a].status = row[run[a].sid].status

StartStep(a) ==
  LET s == run[a].sid IN
  /\ run[a].pc = "start"
  /\ OthersKept(s)
  /\ row'[s].status \in {"running", row[s].status}
  /\ row'[s].job \in {"running", row[s].job}
  /\ row'[s].key = row[s].key
  /\ row'[s].report = row[s].report
  /\ row'[s].age = "recent"
  /\ ReportsKept
  /\ OtherRuns(a)
  /\ run'[a].pc = "working"
  /\ run'[a].sid = s

CompleteStep(a, r) ==
  LET s == run[a].sid IN
  /\ run[a].pc = "working"
  /\ OthersKept(s)
  /\ row'[s].status = "completed"
  /\ row'[s].job \in {"success", "partial"}
  /\ row'[s].key = row[s].key
  /\ row'[s].report = r
  /\ report[r].session = None
  /\ report'[r].session = s
  /\ \A q \in ReportIds \ {r} : report'[q].session = report[q].session
  /\ stamped' \subseteq stamped \union {row[s].key}
  /\ OtherRuns(a)
  /\ run'[a].pc = "clearGet"
  /\ run'[a].sid = s

FailureStep(a) ==
  LET s == run[a].sid IN
  /\ run[a].pc = "persist"
  /\ OthersKept(s)
  /\ row'[s].status = IF run[a].status = "failed" THEN row[s].status ELSE "failed"
  /\ row'[s].job = "failed"
  /\ row'[s].key = row[s].key
  /\ row'[s].report = row[s].report
  /\ ReportsKept
  /\ OtherRuns(a)
  /\ run'[a].pc = "clearGet"
  /\ run'[a].sid = s

\* Progress and heartbeats make a row recent; time makes it old, and under
\* HeartbeatsKeepUp only while no runner works on it.
AgeStep(s) ==
  /\ OthersKept(s)
  /\ SameButAge(s)
  /\ row'[s].age = "recent" \/ (HeartbeatsKeepUp => ~Attached(s))
  /\ ReportsKept
  /\ \A a \in Actors : run'[a] = run[a]

\* A crash ends some runs.
CrashStep ==
  /\ \A t \in SessionIds : row'[t] = row[t]
  /\ ReportsKept
  /\ \A a \in Actors : run'[a] = run[a] \/ run'[a].pc = "idle"

AnyStep ==
  \/ NothingStep
  \/ \E s \in SessionIds : CreateStep(s) \/ AgeStep(s)
  \/ \E c \in Callers : InlineStep(c)
  \/ \E w \in Workers, s \in SessionIds : ClaimStep(w, s)
  \/ \E a \in Actors : MoveStep(a) \/ StartStep(a) \/ FailureStep(a)
  \/ \E a \in Actors, r \in ReportIds : CompleteStep(a, r)
  \/ CrashStep

-----------------------------------------------------------------------------
(***************************************************************************)
(* Every step of the specification is one of these                         *)
(***************************************************************************)

LEMMA UnchangedShape ==
  ASSUME UNCHANGED <<row, report, stamped, run>>
  PROVE  NothingStep
BY DEF NothingStep, ReportsKept, SessionsKept

LEMMA CallerShape ==
  ASSUME NEW c \in Callers, Typed, CallerStep(c) \/ RejectCall(c)
  PROVE  AnyStep
<1>1. CASE CreateSession(c)
  <2>1. UNCHANGED <<report, stamped, run>>
    BY <1>1 DEF CreateSession
  <2>2. PICK s \in SessionIds :
          /\ row[s].status = "absent"
          /\ row' = [row EXCEPT ![s] = [NoRow EXCEPT !.status = "queued", !.job = "queued",
                                                    !.key = KeyOf[c]]]
    BY <1>1 DEF CreateSession, NextId
  <2>3. OthersKept(s)
    BY <2>2 DEF OthersKept, Typed, TypeOK
  <2>4. row'[s].status = "queued" /\ row'[s].job = "queued"
    BY <2>2 DEF NoRow, Typed, TypeOK
  <2>5. ReportsKept
    BY <2>1 DEF ReportsKept, SessionsKept
  <2>6. CreateStep(s)
    BY <2>1, <2>2, <2>3, <2>4, <2>5 DEF CreateStep
  <2> QED
    BY <2>6 DEF AnyStep
<1>2. CASE RunInline(c)
  <2>1. /\ call[c].pc = "inline"
        /\ run' = [run EXCEPT ![c] = [NoRun EXCEPT !.pc = "load", !.sid = call[c].sid]]
        /\ UNCHANGED <<row, report, stamped>>
    BY <1>2 DEF RunInline, CallMoves
  <2>2. OtherRuns(c) /\ run'[c].pc = "load" /\ run'[c].sid = call[c].sid
    BY <2>1 DEF OtherRuns, NoRun, Typed, TypeOK, Actors
  <2>3. ReportsKept
    BY <2>1 DEF ReportsKept, SessionsKept
  <2>4. InlineStep(c)
    BY <2>1, <2>2, <2>3 DEF InlineStep
  <2> QED
    BY <2>4 DEF AnyStep
<1>3. CASE ~CreateSession(c) /\ ~RunInline(c)
  <2>1. UNCHANGED <<row, report, stamped, run>>
    BY <1>3 DEF CallerStep, RejectCall, LookUpStock, EnterLock, LoadFreshReport,
         LoadActiveSession, RefreshRow, RefreshTimesOut, CacheActiveSession, InlineTimesOut,
         ReturnFromInline
  <2> QED
    BY <2>1, UnchangedShape DEF AnyStep
<1> QED
  BY <1>1, <1>2, <1>3

LEMMA ClaimShape ==
  ASSUME NEW w \in Workers, Typed, ClaimNext(w)
  PROVE  AnyStep
<1>1. PICK s \in SessionIds : s \in Queued \union Stale /\ Claim(w, s)
  BY DEF ClaimNext, ClaimQueued, ClaimStale, Queued, Stale
<1>2. /\ run[w].pc = "idle"
      /\ row' = [row EXCEPT ![s].status = "running", ![s].age = "recent"]
      /\ run' = [run EXCEPT ![w] = [NoRun EXCEPT !.pc = "load", !.sid = s]]
      /\ UNCHANGED <<report, stamped>>
  BY <1>1 DEF Claim
<1>3. OthersKept(s)
  BY <1>2 DEF OthersKept, Typed, TypeOK
<1>4. row[s] \in Row
  BY DEF Typed, TypeOK
<1>5. row'[s] = [row[s] EXCEPT !.status = "running", !.age = "recent"]
  BY <1>2 DEF Typed, TypeOK
<1>6. /\ row'[s].status = "running"
      /\ row'[s].job = row[s].job
      /\ row'[s].key = row[s].key
      /\ row'[s].age = "recent"
  BY <1>4, <1>5 DEF Row
<1>7. OtherRuns(w) /\ run'[w].pc = "load" /\ run'[w].sid = s
  BY <1>2 DEF OtherRuns, NoRun, Typed, TypeOK, Actors
<1>8. ReportsKept
  BY <1>2 DEF ReportsKept, SessionsKept
<1>9. row[s].status = "queued" \/ (row[s].status = "running" /\ row[s].age = "stale")
  BY <1>1 DEF Queued, Stale
<1>10. ClaimStep(w, s)
  BY <1>2, <1>3, <1>6, <1>7, <1>8, <1>9 DEF ClaimStep
<1> QED
  BY <1>10 DEF AnyStep

LEMMA RunnerShape ==
  ASSUME NEW a \in Actors, Typed,
         RunnerStep(a) \/ Progress(a) \/ Heartbeat(a) \/ LoadFails(a) \/ PersistFailureFails(a)
  PROVE  AnyStep
<1> DEFINE s == run[a].sid
<1>0. /\ run[a].pc # "idle"
      /\ s \in SessionIds
  <2>1. run[a].pc # "idle"
    BY DEF RunnerStep, Progress, Heartbeat, LoadFails, PersistFailureFails, LoadRow, LoadJob,
           StartRun, Complete, Fail, LoadForFailure, PersistFailure, ClearGet, ClearDelete, ClearFails, RunMoves
  <2> QED
    BY <2>1 DEF Typed, RunHasSession
<1>r. row[s] \in Row /\ run[a] \in Run
  BY <1>0 DEF Typed, TypeOK
<1>1. ASSUME UNCHANGED <<row, report, stamped>>,
             NEW to \in {"loadJob", "start", "failing", "clearDelete"},
             OtherRuns(a), run'[a].pc = to, run'[a].sid = s,
             <<run[a].pc, to>> \in
               {<<"load", "loadJob">>, <<"loadJob", "start">>, <<"start", "failing">>,
                <<"working", "failing">>, <<"clearGet", "clearDelete">>}
      PROVE  AnyStep
  BY <1>0, <1>1 DEF AnyStep, MoveStep, ReportsKept, SessionsKept
<1>2. ASSUME UNCHANGED <<row, report, stamped>>, run' = [run EXCEPT ![a] = NoRun]
      PROVE  AnyStep
  <2>1. OtherRuns(a) /\ run'[a].pc = "idle"
    BY <1>2 DEF OtherRuns, NoRun, Typed, TypeOK
  <2> QED
    BY <1>0, <1>2, <2>1 DEF AnyStep, MoveStep, ReportsKept, SessionsKept
<1>12. CASE LoadForFailure(a)
  <2>1. /\ run[a].pc = "failing"
        /\ run' = [run EXCEPT ![a].pc = "persist", ![a].status = row[s].status]
        /\ UNCHANGED <<row, report, stamped>>
    BY <1>12 DEF LoadForFailure
  <2>2. /\ OtherRuns(a) /\ run'[a].pc = "persist" /\ run'[a].sid = s
        /\ run'[a].status = row[s].status
    BY <1>r, <2>1 DEF OtherRuns, Typed, TypeOK, Run
  <2> QED
    BY <1>0, <2>1, <2>2 DEF AnyStep, MoveStep, ReportsKept, SessionsKept
<1>3. CASE LoadRow(a)
  <2>1. /\ run[a].pc = "load"
        /\ run' = [run EXCEPT ![a].pc = "loadJob", ![a].status = row[s].status]
        /\ UNCHANGED <<row, report, stamped>>
    BY <1>3 DEF LoadRow
  <2>2. OtherRuns(a) /\ run'[a].pc = "loadJob" /\ run'[a].sid = s
    BY <1>r, <2>1 DEF OtherRuns, Typed, TypeOK, Run
  <2> QED
    BY <1>1, <2>1, <2>2
<1>4. CASE LoadJob(a)
  <2>1. /\ run[a].pc = "loadJob"
        /\ run' = [run EXCEPT ![a].pc = "start", ![a].job = row[s].job]
        /\ UNCHANGED <<row, report, stamped>>
    BY <1>4 DEF LoadJob
  <2>2. OtherRuns(a) /\ run'[a].pc = "start" /\ run'[a].sid = s
    BY <1>r, <2>1 DEF OtherRuns, Typed, TypeOK, Run
  <2> QED
    BY <1>1, <2>1, <2>2
<1>5. CASE StartRun(a)
  <2> DEFINE st == Changed(run[a].status, "running", row[s].status)
             jb == Changed(run[a].job, "running", row[s].job)
  <2>1. /\ run[a].pc = "start"
        /\ row' = [row EXCEPT ![s].status = st, ![s].job = jb, ![s].age = "recent"]
        /\ run' = [run EXCEPT ![a].pc = "working", ![a].status = "running", ![a].job = "running"]
        /\ UNCHANGED <<report, stamped>>
    BY <1>5, <1>0 DEF StartRun, Typed, TypeOK
  <2>2. st \in {"running", row[s].status} /\ jb \in {"running", row[s].job}
    BY DEF Changed
  <2> HIDE DEF st, jb
  <2>3. OthersKept(s) /\ row'[s] = [row[s] EXCEPT !.status = st, !.job = jb, !.age = "recent"]
    BY <1>0, <2>1 DEF OthersKept, Typed, TypeOK
  <2>4. /\ row'[s].status = st /\ row'[s].job = jb /\ row'[s].key = row[s].key
        /\ row'[s].report = row[s].report /\ row'[s].age = "recent"
    BY <1>r, <2>3 DEF Row
  <2>5. OtherRuns(a) /\ run'[a].pc = "working" /\ run'[a].sid = s
    BY <1>r, <2>1 DEF OtherRuns, Typed, TypeOK, Run
  <2>6. ReportsKept
    BY <2>1 DEF ReportsKept, SessionsKept
  <2>7. StartStep(a)
    BY <2>1, <2>2, <2>3, <2>4, <2>5, <2>6 DEF StartStep
  <2> QED
    BY <2>7 DEF AnyStep
<1>6. CASE Complete(a)
  <2>1. /\ run[a].pc = "working"
        /\ run' = [run EXCEPT ![a].pc = "clearGet"]
        /\ stamped' = stamped \union ({row[s].key} \intersect DailyKeys)
    BY <1>6 DEF Complete, RunMoves
  <2>2. PICK r \in ReportIds, outcome \in {"success", "partial"} :
          /\ report[r] = NoReport
          /\ report' = [report EXCEPT ![r] = [session |-> s, fresh |-> TRUE]]
          /\ row' = [row EXCEPT ![s].status = "completed", ![s].report = r,
                                ![s].job = outcome, ![s].age = "recent"]
    BY <1>6 DEF Complete
  <2>3. /\ OthersKept(s)
        /\ row'[s] = [row[s] EXCEPT !.status = "completed", !.report = r,
                                    !.job = outcome, !.age = "recent"]
    BY <1>0, <2>2 DEF OthersKept, Typed, TypeOK
  <2>4. /\ row'[s].status = "completed" /\ row'[s].job = outcome
        /\ row'[s].key = row[s].key /\ row'[s].report = r
    BY <1>r, <2>3 DEF Row
  <2>5. OtherRuns(a) /\ run'[a].pc = "clearGet" /\ run'[a].sid = s
    BY <1>r, <2>1 DEF OtherRuns, Typed, TypeOK, Run
  <2>6. /\ report[r].session = None
        /\ report'[r].session = s
        /\ \A q \in ReportIds \ {r} : report'[q].session = report[q].session
    BY <2>2 DEF NoReport, Typed, TypeOK
  <2>7. CompleteStep(a, r)
    BY <2>1, <2>2, <2>3, <2>4, <2>5, <2>6 DEF CompleteStep
  <2> QED
    BY <2>7 DEF AnyStep
<1>7. CASE Fail(a)
  <2>1. /\ run[a].pc \in {"start", "working"}
        /\ run' = [run EXCEPT ![a].pc = "failing"]
        /\ UNCHANGED <<row, report, stamped>>
    BY <1>7 DEF Fail, RunMoves
  <2>2. OtherRuns(a) /\ run'[a].pc = "failing" /\ run'[a].sid = s
    BY <1>r, <2>1 DEF OtherRuns, Typed, TypeOK, Run
  <2> QED
    BY <1>1, <2>1, <2>2
<1>8. CASE PersistFailure(a)
  <2> DEFINE st == Changed(run[a].status, "failed", row[s].status)
  <2>1. /\ run[a].pc = "persist"
        /\ run' = [run EXCEPT ![a].pc = "clearGet"]
        /\ row' = [row EXCEPT ![s].status = st, ![s].job = "failed", ![s].age = "recent"]
        /\ UNCHANGED <<report, stamped>>
    BY <1>0, <1>8 DEF PersistFailure, RunMoves, Typed, TypeOK
  <2>0. st = IF run[a].status = "failed" THEN row[s].status ELSE "failed"
    BY DEF Changed
  <2> HIDE DEF st
  <2>2. /\ OthersKept(s)
        /\ row'[s] = [row[s] EXCEPT !.status = st, !.job = "failed", !.age = "recent"]
    BY <1>0, <2>1 DEF OthersKept, Typed, TypeOK
  <2>3. /\ row'[s].status = st /\ row'[s].job = "failed" /\ row'[s].key = row[s].key
        /\ row'[s].report = row[s].report
    BY <1>r, <2>2 DEF Row
  <2>4. OtherRuns(a) /\ run'[a].pc = "clearGet" /\ run'[a].sid = s
    BY <1>r, <2>1 DEF OtherRuns, Typed, TypeOK, Run
  <2>5. ReportsKept
    BY <2>1 DEF ReportsKept, SessionsKept
  <2>6. FailureStep(a)
    BY <2>0, <2>1, <2>2, <2>3, <2>4, <2>5 DEF FailureStep
  <2> QED
    BY <2>6 DEF AnyStep
<1>9. CASE ClearGet(a)
  <2>1. /\ run[a].pc = "clearGet"
        /\ UNCHANGED <<row, report, stamped>>
        /\ run' = [run EXCEPT ![a].pc = "clearDelete"] \/ run' = [run EXCEPT ![a] = NoRun]
    BY <1>9 DEF ClearGet
  <2>2. CASE run' = [run EXCEPT ![a].pc = "clearDelete"]
    <3>1. OtherRuns(a) /\ run'[a].pc = "clearDelete" /\ run'[a].sid = s
      BY <1>r, <2>2 DEF OtherRuns, Typed, TypeOK, Run
    <3> QED
      BY <1>1, <2>1, <3>1
  <2> QED
    BY <1>2, <2>1, <2>2
<1>10. CASE ClearDelete(a) \/ ClearFails(a) \/ LoadFails(a) \/ PersistFailureFails(a)
  <2>1. UNCHANGED <<row, report, stamped>> /\ run' = [run EXCEPT ![a] = NoRun]
    BY <1>10 DEF ClearDelete, ClearFails, LoadFails, PersistFailureFails
  <2> QED
    BY <1>2, <2>1
<1>11. CASE Progress(a) \/ Heartbeat(a)
  <2>1. /\ row' = [row EXCEPT ![s].age = "recent"]
        /\ UNCHANGED <<report, stamped, run>>
    BY <1>11 DEF Progress, Heartbeat
  <2>2. OthersKept(s) /\ row'[s] = [row[s] EXCEPT !.age = "recent"]
    BY <1>0, <2>1 DEF OthersKept, Typed, TypeOK
  <2>3. SameButAge(s) /\ row'[s].age = "recent"
    BY <1>r, <2>2 DEF Row, SameButAge
  <2>4. AgeStep(s)
    BY <2>1, <2>2, <2>3 DEF AgeStep, ReportsKept, SessionsKept
  <2> QED
    BY <1>0, <2>4 DEF AnyStep
<1> QED
  BY <1>3, <1>4, <1>5, <1>6, <1>7, <1>8, <1>9, <1>10, <1>11, <1>12 DEF RunnerStep

LEMMA StepShape ==
  ASSUME Typed, [Next]_vars
  PROVE  AnyStep
<1>1. ASSUME NEW c \in Callers, CallerStep(c) \/ RejectCall(c) PROVE AnyStep
  BY <1>1, CallerShape
<1>2. ASSUME NEW w \in Workers, ClaimNext(w) PROVE AnyStep
  BY <1>2, ClaimShape
<1>3. ASSUME NEW a \in Actors,
             RunnerStep(a) \/ Progress(a) \/ Heartbeat(a) \/ LoadFails(a) \/ PersistFailureFails(a)
      PROVE  AnyStep
  BY <1>3, RunnerShape
<1>4. ASSUME NEW s \in SessionIds, RowAges(s) PROVE AnyStep
  <2>1. /\ \E age \in Ages : row' = [row EXCEPT ![s].age = age]
        /\ HeartbeatsKeepUp => ~Attached(s)
        /\ UNCHANGED <<report, stamped, run>>
    BY <1>4 DEF RowAges, Ages
  <2>2. PICK age \in Ages : row' = [row EXCEPT ![s].age = age]
    BY <2>1
  <2>3. OthersKept(s) /\ row'[s] = [row[s] EXCEPT !.age = age] /\ row[s] \in Row
    BY <2>2 DEF OthersKept, Typed, TypeOK
  <2>4. SameButAge(s)
    BY <2>3 DEF Row, SameButAge
  <2>5. AgeStep(s)
    BY <2>1, <2>3, <2>4 DEF AgeStep, ReportsKept, SessionsKept
  <2> QED
    BY <2>5 DEF AnyStep
<1>5. ASSUME NEW r \in ReportIds, ReportLeavesCooldown(r) PROVE AnyStep
  <2>1. /\ report' = [report EXCEPT ![r].fresh = FALSE]
        /\ UNCHANGED <<row, stamped, run>>
    BY <1>5 DEF ReportLeavesCooldown
  <2>2. SessionsKept
    BY <2>1 DEF SessionsKept, Typed, TypeOK
  <2> QED
    BY <2>1, <2>2 DEF AnyStep, NothingStep, ReportsKept
<1>6. ASSUME NEW k \in Keys, ActiveKeyExpires(k) PROVE AnyStep
  BY <1>6, UnchangedShape DEF ActiveKeyExpires, AnyStep
<1>7. ASSUME NEW p \in Procs, Crash(p) PROVE AnyStep
  <2>1. /\ run' = [a \in Actors |-> IF ProcOf[a] = p THEN NoRun ELSE run[a]]
        /\ UNCHANGED <<row, report, stamped>>
    BY <1>7 DEF Crash
  <2>2. \A a \in Actors : run'[a] = run[a] \/ run'[a].pc = "idle"
    BY <2>1 DEF NoRun
  <2>3. CrashStep
    BY <2>1, <2>2 DEF CrashStep, ReportsKept, SessionsKept
  <2> QED
    BY <2>3 DEF AnyStep
<1>8. CASE UNCHANGED vars
  BY <1>8, UnchangedShape DEF vars, AnyStep
<1> QED
  BY <1>1, <1>2, <1>3, <1>4, <1>5, <1>6, <1>7, <1>8 DEF Next, Quiet


-----------------------------------------------------------------------------
(***************************************************************************)
(* Reports, whatever runners overlap                                       *)
(***************************************************************************)

\* Nobody works on, waits for or wrote a report of a session that was never created.
SessionsExist ==
  /\ \A a \in Actors : run[a].pc # "idle" => row[run[a].sid].status # "absent"
  /\ \A c \in Callers :
       call[c].pc \in {"refresh", "cacheReused", "cacheNew", "inline", "running"} =>
         row[call[c].sid].status # "absent"
  /\ \A r \in ReportIds :
       report[r].session # None =>
         /\ report[r].session \in SessionIds
         /\ row[report[r].session].status # "absent"

ReportInv ==
  /\ Typed
  /\ SessionsExist
  /\ CompletedHasReport
  /\ StampedHasReport

\* A created session stays and keeps its key.
LEMMA RowsPersist ==
  ASSUME Typed, SessionsExist, AnyStep, NEW t \in SessionIds, row[t].status # "absent"
  PROVE  row'[t].status # "absent" /\ row'[t].key = row[t].key
<1>1. CASE NothingStep \/ CrashStep
  BY <1>1 DEF NothingStep, CrashStep
<1>2. ASSUME NEW s \in SessionIds, CreateStep(s) \/ AgeStep(s)
      PROVE  row'[t].status # "absent" /\ row'[t].key = row[t].key
  BY <1>2 DEF CreateStep, AgeStep, OthersKept, SameButAge
<1>3. ASSUME NEW c \in Callers, InlineStep(c)
      PROVE  row'[t].status # "absent" /\ row'[t].key = row[t].key
  BY <1>3 DEF InlineStep
<1>4. ASSUME NEW w \in Workers, NEW s \in SessionIds, ClaimStep(w, s)
      PROVE  row'[t].status # "absent" /\ row'[t].key = row[t].key
  BY <1>4 DEF ClaimStep, OthersKept
<1>5. ASSUME NEW a \in Actors, MoveStep(a) \/ StartStep(a) \/ FailureStep(a)
      PROVE  row'[t].status # "absent" /\ row'[t].key = row[t].key
  BY <1>5 DEF MoveStep, StartStep, FailureStep, OthersKept, SessionsExist
<1>6. ASSUME NEW a \in Actors, NEW r \in ReportIds, CompleteStep(a, r)
      PROVE  row'[t].status # "absent" /\ row'[t].key = row[t].key
  BY <1>6 DEF CompleteStep, OthersKept
<1> QED
  BY <1>1, <1>2, <1>3, <1>4, <1>5, <1>6 DEF AnyStep

\* What a step may do to a run, a report and a stamp.
LEMMA RunsFollow ==
  ASSUME Typed, SessionsExist, AnyStep, NEW a \in Actors, run'[a].pc # "idle"
  PROVE  /\ run'[a].sid \in SessionIds
         /\ row[run'[a].sid].status # "absent"
<1>1. CASE NothingStep \/ CrashStep
  BY <1>1 DEF NothingStep, CrashStep, SessionsExist, Typed, RunHasSession
<1>2. ASSUME NEW s \in SessionIds, CreateStep(s) \/ AgeStep(s)
      PROVE  run'[a].sid \in SessionIds /\ row[run'[a].sid].status # "absent"
  BY <1>2 DEF CreateStep, AgeStep, SessionsExist, Typed, RunHasSession
<1>3. ASSUME NEW c \in Callers, InlineStep(c)
      PROVE  run'[a].sid \in SessionIds /\ row[run'[a].sid].status # "absent"
  BY <1>3 DEF InlineStep, OtherRuns, SessionsExist, Typed, RunHasSession, CallHasSession
<1>4. ASSUME NEW w \in Workers, NEW s \in SessionIds, ClaimStep(w, s)
      PROVE  run'[a].sid \in SessionIds /\ row[run'[a].sid].status # "absent"
  BY <1>4 DEF ClaimStep, OtherRuns, SessionsExist, Typed, RunHasSession
<1>5. ASSUME NEW b \in Actors, MoveStep(b) \/ StartStep(b) \/ FailureStep(b)
      PROVE  run'[a].sid \in SessionIds /\ row[run'[a].sid].status # "absent"
  BY <1>5 DEF MoveStep, StartStep, FailureStep, OtherRuns, SessionsExist, Typed, RunHasSession
<1>6. ASSUME NEW b \in Actors, NEW r \in ReportIds, CompleteStep(b, r)
      PROVE  run'[a].sid \in SessionIds /\ row[run'[a].sid].status # "absent"
  BY <1>6 DEF CompleteStep, OtherRuns, SessionsExist, Typed, RunHasSession
<1> QED
  BY <1>1, <1>2, <1>3, <1>4, <1>5, <1>6 DEF AnyStep

LEMMA ReportsFollow ==
  ASSUME Typed, AnyStep, NEW r \in ReportIds
  PROVE  \/ report'[r].session = report[r].session
         \/ /\ report[r].session = None
            /\ \E a \in Actors : CompleteStep(a, r)
BY DEF AnyStep, NothingStep, CrashStep, CreateStep, AgeStep, InlineStep, ClaimStep, MoveStep,
       StartStep, FailureStep, CompleteStep, ReportsKept, SessionsKept

\* Who may have a session in hand after a caller's step.
LEMMA CallsFollow ==
  ASSUME Typed, SessionsExist, [Next]_vars
  PROVE  \A c \in Callers :
           call'[c].pc \in {"refresh", "cacheReused", "cacheNew", "inline", "running"} =>
             row'[call'[c].sid].status # "absent"
<1> DEFINE Holds(q) == q.pc \in {"refresh", "cacheReused", "cacheNew", "inline", "running"}
<1>0. AnyStep
  BY StepShape
<1>1. ASSUME NEW c \in Callers, Holds(call[c]) PROVE row'[call[c].sid].status # "absent"
  BY <1>0, <1>1, RowsPersist DEF SessionsExist, Typed, CallHasSession
<1>2. ASSUME NEW c \in Callers,
             call'[c].pc \notin {"refresh", "cacheReused", "cacheNew", "inline", "running"}
                \/ (Holds(call[c]) /\ call'[c].sid = call[c].sid)
      PROVE  Holds(call'[c]) => row'[call'[c].sid].status # "absent"
  BY <1>1, <1>2
<1>3. ASSUME NEW d \in Callers, NEW from \in CallPcs, NEW to \in CallPcs, CallMoves(d, from, to),
             from \in {"refresh", "inline", "cacheNew", "cacheReused"}
               \/ to \notin {"refresh", "cacheReused", "cacheNew", "inline", "running"}
      PROVE  \A c \in Callers : Holds(call'[c]) => row'[call'[c].sid].status # "absent"
  BY <1>1, <1>3 DEF CallMoves, Typed, TypeOK
<1> USE DEF CallPcs
<1>4. ASSUME NEW d \in Callers, CallerStep(d) \/ RejectCall(d)
      PROVE  \A c \in Callers : Holds(call'[c]) => row'[call'[c].sid].status # "absent"
  <2>1. CASE LookUpStock(d)
    BY <1>3, <2>1 DEF LookUpStock
  <2>2. CASE RejectCall(d)
    BY <1>3, <2>2 DEF RejectCall
  <2>3. CASE EnterLock(d)
    BY <1>3, <2>3 DEF EnterLock
  <2>4. CASE LoadFreshReport(d)
    BY <1>3, <2>4 DEF LoadFreshReport
  <2>5. CASE LoadActiveSession(d)
    <3>1. ASSUME NEW s \in SessionIds, row[s].status \in ActiveStatus,
                 call' = [call EXCEPT ![d] = [pc |-> "cacheReused", sid |-> s]]
          PROVE  \A c \in Callers : Holds(call'[c]) => row'[call'[c].sid].status # "absent"
      <4>1. row'[s].status # "absent"
        BY <1>0, <3>1, RowsPersist DEF ActiveStatus
      <4> QED
        BY <1>1, <3>1, <4>1 DEF Typed, TypeOK
    <3>2. CASE CallMoves(d, "active", "create")
      BY <1>3, <3>2
    <3> QED
      BY <2>5, <3>1, <3>2 DEF LoadActiveSession, ActiveSessions
  <2>6. CASE CreateSession(d)
    <3>1. PICK s \in SessionIds :
            /\ row' = [row EXCEPT ![s] = [NoRow EXCEPT !.status = "queued", !.job = "queued",
                                                      !.key = KeyOf[d]]]
            /\ call' = [call EXCEPT ![d] = [pc |-> "refresh", sid |-> s]]
      BY <2>6 DEF CreateSession
    <3>2. row'[s].status # "absent"
      BY <3>1 DEF NoRow, Typed, TypeOK
    <3> QED
      BY <1>1, <3>1, <3>2 DEF Typed, TypeOK
  <2>7. CASE RefreshRow(d)
    BY <1>3, <2>7 DEF RefreshRow
  <2>8. CASE RefreshTimesOut(d)
    BY <1>3, <2>8 DEF RefreshTimesOut
  <2>9. CASE CacheActiveSession(d)
    <3>1. /\ call[d].pc \in {"cacheReused", "cacheNew"}
          /\ CallMoves(d, "cacheNew", "inline") \/ CallMoves(d, call[d].pc, "done")
      BY <2>9 DEF CacheActiveSession
    <3> QED
      BY <1>3, <3>1
  <2>10. CASE RunInline(d)
    BY <1>3, <2>10 DEF RunInline
  <2>11. CASE InlineTimesOut(d)
    BY <1>3, <2>11 DEF InlineTimesOut
  <2>12. CASE ReturnFromInline(d)
    BY <1>3, <2>12 DEF ReturnFromInline
  <2> QED
    BY <1>4, <2>1, <2>2, <2>3, <2>4, <2>5, <2>6, <2>7, <2>8, <2>9, <2>10, <2>11, <2>12
    DEF CallerStep
<1>5. CASE UNCHANGED call
  BY <1>1, <1>5
<1>6. ASSUME NEW a \in Actors, LoadFails(a)
      PROVE  \A c \in Callers : Holds(call'[c]) => row'[call'[c].sid].status # "absent"
  <2>1. call' = [c \in Callers |-> IF c = a THEN [call[c] EXCEPT !.pc = "error"] ELSE call[c]]
    BY <1>6 DEF LoadFails
  <2> QED
    BY <1>1, <2>1 DEF Typed, TypeOK
<1>7. ASSUME NEW p \in Procs, Crash(p)
      PROVE  \A c \in Callers : Holds(call'[c]) => row'[call'[c].sid].status # "absent"
  <2>1. \A c \in Callers : call'[c] = call[c] \/ call'[c] = [call[c] EXCEPT !.pc = "error"]
    BY <1>7 DEF Crash
  <2> QED
    BY ZenonT(40), <1>1, <2>1 DEF Typed, TypeOK
<1>8. ASSUME NEW a \in Actors,
             RunnerStep(a) \/ Progress(a) \/ Heartbeat(a) \/ PersistFailureFails(a)
      PROVE  UNCHANGED call
  BY <1>8 DEF RunnerStep, Progress, Heartbeat, PersistFailureFails, LoadRow, LoadJob,
       StartRun, Complete, Fail, LoadForFailure, PersistFailure, ClearGet, ClearDelete, ClearFails
<1>9. CASE \/ \E w \in Workers : ClaimNext(w)
           \/ \E s \in SessionIds : RowAges(s)
           \/ \E r \in ReportIds : ReportLeavesCooldown(r)
           \/ \E k \in Keys : ActiveKeyExpires(k)
           \/ UNCHANGED vars
  BY <1>5, <1>9 DEF ClaimNext, ClaimQueued, ClaimStale, Claim, RowAges, ReportLeavesCooldown,
       ActiveKeyExpires, vars
<1> QED
  BY <1>4, <1>5, <1>6, <1>7, <1>8, <1>9 DEF Next, Quiet

LEMMA SessionsExistStep ==
  ASSUME Typed, SessionsExist, [Next]_vars
  PROVE  SessionsExist'
<1>0. AnyStep
  BY StepShape
<1>1. ASSUME NEW a \in Actors, run'[a].pc # "idle" PROVE row'[run'[a].sid].status # "absent"
  BY <1>0, <1>1, RunsFollow, RowsPersist
<1>2. ASSUME NEW r \in ReportIds, report'[r].session # None
      PROVE  /\ report'[r].session \in SessionIds
             /\ row'[report'[r].session].status # "absent"
  <2>1. CASE report'[r].session = report[r].session
    BY <1>0, <1>2, <2>1, RowsPersist DEF SessionsExist
  <2>2. ASSUME NEW a \in Actors, CompleteStep(a, r)
        PROVE  /\ report'[r].session \in SessionIds
               /\ row'[report'[r].session].status # "absent"
    BY <2>2 DEF CompleteStep, Typed, RunHasSession
  <2> QED
    BY <1>0, <2>1, <2>2, ReportsFollow
<1> QED
  BY <1>1, <1>2, CallsFollow DEF SessionsExist

LEMMA CompletedStep ==
  ASSUME Typed, CompletedHasReport, AnyStep
  PROVE  CompletedHasReport'
<1> SUFFICES ASSUME NEW t \in SessionIds, row'[t].status = "completed"
             PROVE  row'[t].report # None /\ report'[row'[t].report].session = t
  BY DEF CompletedHasReport
<1> DEFINE Goal == row'[t].report # None /\ report'[row'[t].report].session = t
<1>1. row[t] \in Row
  BY DEF Typed, TypeOK
\* The row keeps its outcome and its report, whose session no step rewrites.
<1>2. ASSUME row[t].status = "completed", row'[t].report = row[t].report PROVE Goal
  <2>1. row[t].report \in ReportIds /\ report[row[t].report].session = t
    BY <1>1, <1>2 DEF CompletedHasReport, Row
  <2>2. t # None
    BY NoneAssumption
  <2>3. row[t].report # None
    BY <1>2 DEF CompletedHasReport
  <2> QED
    BY <1>2, <2>1, <2>2, <2>3, ReportsFollow
<1>3. ASSUME NothingStep \/ CrashStep PROVE Goal
  BY <1>2, <1>3 DEF NothingStep, CrashStep
<1>4. ASSUME NEW s \in SessionIds, CreateStep(s) \/ AgeStep(s) PROVE Goal
  BY <1>2, <1>4 DEF CreateStep, AgeStep, OthersKept, SameButAge
<1>5. ASSUME NEW c \in Callers, InlineStep(c) PROVE Goal
  BY <1>2, <1>5 DEF InlineStep
<1>6. ASSUME NEW w \in Workers, NEW s \in SessionIds, ClaimStep(w, s) PROVE Goal
  BY <1>2, <1>6 DEF ClaimStep, OthersKept
<1>7. ASSUME NEW a \in Actors, MoveStep(a) \/ StartStep(a) \/ FailureStep(a) PROVE Goal
  BY <1>2, <1>7 DEF MoveStep, StartStep, FailureStep, OthersKept
<1>8. ASSUME NEW a \in Actors, NEW r \in ReportIds, CompleteStep(a, r) PROVE Goal
  <2>1. CASE t = run[a].sid
    BY <1>8, <2>1, NoneAssumption DEF CompleteStep
  <2>2. CASE t # run[a].sid
    BY <1>2, <1>8, <2>2 DEF CompleteStep, OthersKept
  <2> QED
    BY <2>1, <2>2
<1> QED
  BY <1>3, <1>4, <1>5, <1>6, <1>7, <1>8 DEF AnyStep

LEMMA StampedStep ==
  ASSUME Typed, SessionsExist, StampedHasReport, AnyStep
  PROVE  StampedHasReport'
<1> SUFFICES ASSUME NEW k, k \in stamped'
             PROVE  \E r \in ReportIds :
                      report'[r].session # None /\ row'[report'[r].session].key = k
  BY DEF StampedHasReport
<1>1. CASE k \in stamped
  <2>1. PICK r \in ReportIds : report[r].session # None /\ row[report[r].session].key = k
    BY <1>1 DEF StampedHasReport
  <2>2. report'[r].session = report[r].session
    BY <2>1, ReportsFollow
  <2>3. row'[report[r].session].key = k
    BY <2>1, RowsPersist DEF SessionsExist
  <2> QED
    BY <2>1, <2>2, <2>3
<1>2. CASE k \notin stamped
  <2>1. PICK a \in Actors, r \in ReportIds : CompleteStep(a, r)
    BY <1>2 DEF AnyStep, NothingStep, CrashStep, CreateStep, AgeStep, InlineStep, ClaimStep,
         MoveStep, StartStep, FailureStep, ReportsKept
  <2>2. run[a].sid \in SessionIds /\ run[a].sid # None
    BY <2>1, NoneAssumption DEF CompleteStep, Typed, RunHasSession
  <2>3. report'[r].session = run[a].sid /\ row'[run[a].sid].key = k
    BY <1>2, <2>1 DEF CompleteStep
  <2> QED
    BY <2>2, <2>3
<1> QED
  BY <1>1, <1>2

LEMMA ReportInvInit == Init => ReportInv
<1> SUFFICES ASSUME Init PROVE ReportInv
  OBVIOUS
<1>1. SessionsExist
  BY DEF Init, SessionsExist, NoRun, IdleCall, NoReport
<1>2. CompletedHasReport /\ StampedHasReport
  BY DEF Init, CompletedHasReport, StampedHasReport, NoRow
<1> QED
  BY <1>1, <1>2, InitTyped DEF ReportInv

LEMMA ReportInvStep == ReportInv /\ [Next]_vars => ReportInv'
<1> SUFFICES ASSUME ReportInv, [Next]_vars PROVE ReportInv'
  OBVIOUS
<1>1. AnyStep
  BY StepShape DEF ReportInv
<1> QED
  BY <1>1, StepTyped, SessionsExistStep, CompletedStep, StampedStep DEF ReportInv

\* Even when a worker reclaims a session whose first runner is still alive, a
\* session shown as completed names a report that belongs to it.
THEOREM CompletedNamesOwnReport == Spec => []CompletedHasReport
<1>1. ReportInv => CompletedHasReport
  BY DEF ReportInv
<1> QED
  BY <1>1, ReportInvInit, ReportInvStep, PTL DEF Spec

\* The stamp that tells the daily run "analysed today" is always backed by a
\* stored report of that key.
THEOREM StampsAreBacked == Spec => []StampedHasReport
<1>1. ReportInv => StampedHasReport
  BY DEF ReportInv
<1> QED
  BY <1>1, ReportInvInit, ReportInvStep, PTL DEF Spec


-----------------------------------------------------------------------------
(***************************************************************************)
(* One runner per session, when heartbeats keep up and nobody runs inline  *)
(***************************************************************************)

CallersDoNotRun ==
  \A c \in Callers : run[c].pc = "idle" /\ call[c].pc \notin {"inline", "running"}

\* A runner's position tells the status of its row, and keeps it from going stale.
RunnersOwnRows ==
  \A a \in Actors :
    LET s == run[a].sid IN
    /\ run[a].pc \in {"load", "loadJob", "start", "working", "failing", "persist"} =>
         row[s].status = "running" /\ row[s].age # "stale"
    /\ run[a].pc = "persist" => run[a].status = "running"
    /\ run[a].pc \in {"clearGet", "clearDelete"} => row[s].status \in FinalStatus

ExclusiveInv ==
  /\ ReportInv
  /\ CallersDoNotRun
  /\ OneRunnerPerSession
  /\ RunnersOwnRows
  /\ JobFollowsSession
  /\ ReportsAreOwned

Exclusive == HeartbeatsKeepUp /\ Inline = {}

LEMMA CallersDoNotRunStep ==
  ASSUME Inline = {}, Typed, CallersDoNotRun, [Next]_vars
  PROVE  CallersDoNotRun'
<1>1. \A c \in Callers : call'[c].pc \notin {"inline", "running"}
  <2>1. ASSUME NEW d \in Callers, CallerStep(d) \/ RejectCall(d)
        PROVE  \A c \in Callers : call'[c].pc \notin {"inline", "running"}
    <3>1. \/ \E from, to \in CallPcs \ {"inline", "running"} : CallMoves(d, from, to)
          \/ \E s \in SessionIds, to \in {"cacheReused", "refresh"} :
               call' = [call EXCEPT ![d] = [pc |-> to, sid |-> s]]
      <4>1. CASE RunInline(d) \/ InlineTimesOut(d) \/ ReturnFromInline(d)
        BY <4>1 DEF RunInline, InlineTimesOut, ReturnFromInline, CallMoves, CallersDoNotRun
      <4>2. CASE CacheActiveSession(d)
        BY <4>2 DEF CacheActiveSession, CallPcs
      <4>3. CASE LookUpStock(d) \/ RejectCall(d) \/ EnterLock(d)
        BY <4>3 DEF LookUpStock, RejectCall, EnterLock, CallPcs
      <4>4. CASE LoadFreshReport(d)
        BY <4>4 DEF LoadFreshReport, CallPcs
      <4>5. CASE LoadActiveSession(d)
        <5>1. CASE CallMoves(d, "active", "create")
          BY <5>1 DEF CallPcs
        <5>2. CASE \E s \in ActiveSessions(KeyOf[d]) :
                     call' = [call EXCEPT ![d] = [pc |-> "cacheReused", sid |-> s]]
          BY <5>2 DEF ActiveSessions
        <5> QED
          BY <4>5, <5>1, <5>2 DEF LoadActiveSession
      <4>6. CASE CreateSession(d)
        BY <4>6 DEF CreateSession
      <4>7. CASE RefreshRow(d) \/ RefreshTimesOut(d)
        BY <4>7 DEF RefreshRow, RefreshTimesOut, CallPcs
      <4> QED
        BY <2>1, <4>1, <4>2, <4>3, <4>4, <4>5, <4>6, <4>7 DEF CallerStep
    <3>2. ASSUME NEW from \in CallPcs, NEW to \in CallPcs \ {"inline", "running"},
                 CallMoves(d, from, to)
          PROVE  \A c \in Callers : call'[c].pc \notin {"inline", "running"}
      BY <3>2 DEF CallMoves, CallersDoNotRun, Typed, TypeOK
    <3>3. ASSUME NEW s \in SessionIds, NEW to \in {"cacheReused", "refresh"},
                 call' = [call EXCEPT ![d] = [pc |-> to, sid |-> s]]
          PROVE  \A c \in Callers : call'[c].pc \notin {"inline", "running"}
      BY <3>3 DEF CallersDoNotRun, Typed, TypeOK
    <3> QED
      BY <3>1, <3>2, <3>3
  <2>2. CASE UNCHANGED call
    BY <2>2 DEF CallersDoNotRun
  <2>3. ASSUME NEW a \in Actors, LoadFails(a)
        PROVE  \A c \in Callers : call'[c].pc \notin {"inline", "running"}
    <3>1. call' = [c \in Callers |-> IF c = a THEN [call[c] EXCEPT !.pc = "error"] ELSE call[c]]
      BY <2>3 DEF LoadFails
    <3> QED
      BY <3>1 DEF CallersDoNotRun, Typed, TypeOK
  <2>4. ASSUME NEW p \in Procs, Crash(p)
        PROVE  \A c \in Callers : call'[c].pc \notin {"inline", "running"}
    <3>1. \A c \in Callers : call'[c] = call[c] \/ call'[c] = [call[c] EXCEPT !.pc = "error"]
      BY <2>4 DEF Crash
    <3> QED
      BY <3>1 DEF CallersDoNotRun, Typed, TypeOK
  <2>5. ASSUME NEW a \in Actors,
               RunnerStep(a) \/ Progress(a) \/ Heartbeat(a) \/ PersistFailureFails(a)
        PROVE  UNCHANGED call
    BY <2>5 DEF RunnerStep, Progress, Heartbeat, PersistFailureFails, LoadRow, LoadJob,
         StartRun, Complete, Fail, LoadForFailure, PersistFailure, ClearGet, ClearDelete, ClearFails
  <2>6. CASE \/ \E w \in Workers : ClaimNext(w)
             \/ \E s \in SessionIds : RowAges(s)
             \/ \E r \in ReportIds : ReportLeavesCooldown(r)
             \/ \E k \in Keys : ActiveKeyExpires(k)
             \/ UNCHANGED vars
    BY <2>2, <2>6 DEF ClaimNext, ClaimQueued, ClaimStale, Claim, RowAges,
         ReportLeavesCooldown, ActiveKeyExpires, vars
  <2> QED
    BY <2>1, <2>2, <2>3, <2>4, <2>5, <2>6 DEF Next, Quiet
<1>2. ASSUME NEW c \in Callers PROVE run'[c].pc = "idle"
  <2>1. AnyStep
    BY StepShape
  <2>2. run[c].pc = "idle" /\ call[c].pc # "inline" /\ c \in Actors
    BY DEF CallersDoNotRun, Actors
  <2>3. CASE NothingStep \/ CrashStep
    BY <2>2, <2>3 DEF NothingStep, CrashStep
  <2>4. ASSUME NEW s \in SessionIds, CreateStep(s) \/ AgeStep(s) PROVE run'[c].pc = "idle"
    BY <2>2, <2>4 DEF CreateStep, AgeStep
  <2>5. ASSUME NEW d \in Callers, InlineStep(d) PROVE run'[c].pc = "idle"
    BY <2>5 DEF InlineStep, CallersDoNotRun
  <2>6. ASSUME NEW w \in Workers, NEW s \in SessionIds, ClaimStep(w, s)
        PROVE  run'[c].pc = "idle"
    BY <2>2, <2>6, ActorsAssumption DEF ClaimStep, OtherRuns
  <2>7. ASSUME NEW a \in Actors, MoveStep(a) \/ StartStep(a) \/ FailureStep(a)
        PROVE  run'[c].pc = "idle"
    BY <2>2, <2>7 DEF MoveStep, StartStep, FailureStep, OtherRuns
  <2>8. ASSUME NEW a \in Actors, NEW r \in ReportIds, CompleteStep(a, r)
        PROVE  run'[c].pc = "idle"
    BY <2>2, <2>8 DEF CompleteStep, OtherRuns
  <2> QED
    BY <2>1, <2>3, <2>4, <2>5, <2>6, <2>7, <2>8 DEF AnyStep
<1> QED
  BY <1>1, <1>2 DEF CallersDoNotRun

LEMMA OneRunnerStep ==
  ASSUME Exclusive, ExclusiveInv, AnyStep
  PROVE  OneRunnerPerSession'
<1> USE DEF ExclusiveInv
<1>1. ASSUME \A a \in Actors :
               run'[a].pc # "idle" => run[a].pc # "idle" /\ run'[a].sid = run[a].sid
      PROVE  OneRunnerPerSession'
  BY <1>1 DEF OneRunnerPerSession
<1>2. CASE NothingStep \/ CrashStep
  BY <1>1, <1>2 DEF NothingStep, CrashStep
<1>3. ASSUME NEW s \in SessionIds, CreateStep(s) \/ AgeStep(s) PROVE OneRunnerPerSession'
  BY <1>1, <1>3 DEF CreateStep, AgeStep
<1>4. ASSUME NEW c \in Callers, InlineStep(c) PROVE OneRunnerPerSession'
  BY <1>4 DEF InlineStep, CallersDoNotRun
<1>5. ASSUME NEW w \in Workers, NEW s \in SessionIds, ClaimStep(w, s)
      PROVE  OneRunnerPerSession'
  \* A claimable row has no runner: it is queued, or nobody kept it from going stale.
  <2>1. \A a \in Actors : run[a].pc # "idle" => run[a].sid # s
    <3> SUFFICES ASSUME NEW a \in Actors, run[a].pc # "idle", run[a].sid = s PROVE FALSE
      OBVIOUS
    <3>1. \/ row[s].status = "running" /\ row[s].age # "stale"
          \/ row[s].status \in FinalStatus
      BY DEF RunnersOwnRows, ReportInv, Typed, TypeOK, Run, RunPcs
    <3> QED
      BY <1>5, <3>1 DEF ClaimStep, FinalStatus
  <2>2. \A a \in Actors : a # w => run'[a] = run[a]
    BY <1>5 DEF ClaimStep, OtherRuns
  <2> QED
    BY <1>5, <2>1, <2>2 DEF ClaimStep, OneRunnerPerSession
<1>6. ASSUME NEW a \in Actors, MoveStep(a) \/ StartStep(a) \/ FailureStep(a)
      PROVE  OneRunnerPerSession'
  BY <1>1, <1>6 DEF MoveStep, StartStep, FailureStep, OtherRuns
<1>7. ASSUME NEW a \in Actors, NEW r \in ReportIds, CompleteStep(a, r)
      PROVE  OneRunnerPerSession'
  BY <1>1, <1>7 DEF CompleteStep, OtherRuns
<1> QED
  BY <1>2, <1>3, <1>4, <1>5, <1>6, <1>7 DEF AnyStep

LEMMA RunnersOwnRowsStep ==
  ASSUME Exclusive, ExclusiveInv, AnyStep
  PROVE  RunnersOwnRows'
<1> USE DEF ExclusiveInv
<1> DEFINE Owns(a) ==
      /\ run'[a].pc \in {"load", "loadJob", "start", "working", "failing", "persist"} =>
           row'[run'[a].sid].status = "running" /\ row'[run'[a].sid].age # "stale"
      /\ run'[a].pc = "persist" => run'[a].status = "running"
      /\ run'[a].pc \in {"clearGet", "clearDelete"} => row'[run'[a].sid].status \in FinalStatus
<1> SUFFICES ASSUME NEW a \in Actors PROVE Owns(a)
  BY DEF RunnersOwnRows
<1>0. run[a].pc # "idle" => run[a].sid \in SessionIds /\ row[run[a].sid].status # "absent"
  BY DEF ReportInv, Typed, RunHasSession, SessionsExist
<1>1. ASSUME run'[a] = run[a],
             run[a].pc # "idle" => row'[run[a].sid] = row[run[a].sid]
      PROVE  Owns(a)
  BY <1>1 DEF RunnersOwnRows
<1>2. CASE NothingStep \/ CrashStep
  BY <1>0, <1>1, <1>2 DEF NothingStep, CrashStep
<1>3. ASSUME NEW s \in SessionIds, CreateStep(s) PROVE Owns(a)
  BY <1>0, <1>1, <1>3 DEF CreateStep, OthersKept
<1>4. ASSUME NEW s \in SessionIds, AgeStep(s) PROVE Owns(a)
  <2>1. CASE run[a].pc = "idle" \/ run[a].sid # s
    BY <1>0, <1>1, <1>4, <2>1 DEF AgeStep, OthersKept
  <2>2. CASE run[a].pc # "idle" /\ run[a].sid = s
    <3>1. row'[s].age = "recent"
      BY <1>4, <2>2 DEF AgeStep, Attached, Exclusive
    <3> QED
      BY <1>4, <2>2, <3>1 DEF AgeStep, SameButAge, RunnersOwnRows
  <2> QED
    BY <2>1, <2>2
<1>5. ASSUME NEW c \in Callers, InlineStep(c) PROVE Owns(a)
  BY <1>5 DEF InlineStep, CallersDoNotRun
<1>6. ASSUME NEW w \in Workers, NEW s \in SessionIds, ClaimStep(w, s) PROVE Owns(a)
  <2>1. CASE a = w
    BY <1>6, <2>1 DEF ClaimStep
  <2>2. CASE a # w
    <3>1. run[a].pc # "idle" => run[a].sid # s
      <4> SUFFICES ASSUME run[a].pc # "idle", run[a].sid = s PROVE FALSE
        OBVIOUS
      <4>1. \/ row[s].status = "running" /\ row[s].age # "stale"
            \/ row[s].status \in FinalStatus
        BY DEF RunnersOwnRows, ReportInv, Typed, TypeOK, Run, RunPcs
      <4> QED
        BY <1>6, <4>1 DEF ClaimStep, FinalStatus
    <3> QED
      BY <1>0, <1>1, <1>6, <2>2, <3>1 DEF ClaimStep, OthersKept, OtherRuns
  <2> QED
    BY <2>1, <2>2
\* Another runner works on another session.
<1>7. ASSUME NEW b \in Actors, b # a, run[b].pc # "idle", OtherRuns(b), OthersKept(run[b].sid)
      PROVE  Owns(a)
  BY <1>0, <1>1, <1>7 DEF OneRunnerPerSession, OtherRuns, OthersKept
<1>8. ASSUME NEW b \in Actors, MoveStep(b) PROVE Owns(a)
  <2>1. CASE a = b
    BY <1>0, <1>8, <2>1 DEF MoveStep, RunnersOwnRows
  <2>2. CASE a # b
    BY <1>7, <1>8, <2>2 DEF MoveStep, OthersKept
  <2> QED
    BY <2>1, <2>2
<1>9. ASSUME NEW b \in Actors, StartStep(b) PROVE Owns(a)
  <2>1. CASE a = b
    BY <1>9, <2>1 DEF StartStep, RunnersOwnRows
  <2>2. CASE a # b
    BY <1>7, <1>9, <2>2 DEF StartStep
  <2> QED
    BY <2>1, <2>2
<1>10. ASSUME NEW b \in Actors, FailureStep(b) PROVE Owns(a)
  <2>1. CASE a = b
    BY <1>10, <2>1 DEF FailureStep, FinalStatus, RunnersOwnRows
  <2>2. CASE a # b
    BY <1>7, <1>10, <2>2 DEF FailureStep
  <2> QED
    BY <2>1, <2>2
<1>11. ASSUME NEW b \in Actors, NEW r \in ReportIds, CompleteStep(b, r) PROVE Owns(a)
  <2>1. CASE a = b
    BY <1>11, <2>1 DEF CompleteStep, FinalStatus
  <2>2. CASE a # b
    BY <1>7, <1>11, <2>2 DEF CompleteStep
  <2> QED
    BY <2>1, <2>2
<1> QED
  BY <1>2, <1>3, <1>4, <1>5, <1>6, <1>8, <1>9, <1>10, <1>11 DEF AnyStep


LEMMA JobFollowsStep ==
  ASSUME Exclusive, ExclusiveInv, AnyStep
  PROVE  JobFollowsSession'
<1> USE DEF ExclusiveInv
<1> DEFINE Follows(x) ==
      /\ x.status = "queued"    => x.job = "queued"
      /\ x.status = "running"   => x.job \in {"queued", "running"}
      /\ x.status = "completed" => x.job \in {"success", "partial"}
      /\ x.status = "failed"    => x.job = "failed"
<1> SUFFICES ASSUME NEW t \in SessionIds PROVE Follows(row'[t])
  BY DEF JobFollowsSession
<1>1. Follows(row[t])
  BY DEF JobFollowsSession
<1>2. ASSUME row'[t] = row[t] PROVE Follows(row'[t])
  BY <1>1, <1>2
<1>3. CASE NothingStep \/ CrashStep
  BY <1>2, <1>3 DEF NothingStep, CrashStep
<1>4. ASSUME NEW s \in SessionIds, CreateStep(s) \/ AgeStep(s) PROVE Follows(row'[t])
  BY <1>1, <1>2, <1>4 DEF CreateStep, AgeStep, OthersKept, SameButAge
<1>5. ASSUME NEW c \in Callers, InlineStep(c) PROVE Follows(row'[t])
  BY <1>2, <1>5 DEF InlineStep
<1>6. ASSUME NEW w \in Workers, NEW s \in SessionIds, ClaimStep(w, s) PROVE Follows(row'[t])
  BY <1>1, <1>2, <1>6 DEF ClaimStep, OthersKept
<1>7. ASSUME NEW a \in Actors, MoveStep(a) PROVE Follows(row'[t])
  BY <1>2, <1>7 DEF MoveStep
<1>8. ASSUME NEW a \in Actors, StartStep(a) PROVE Follows(row'[t])
  <2>1. CASE t = run[a].sid
    <3>1. row[t].status = "running" /\ row[t].job \in {"queued", "running"}
      BY <1>1, <1>8, <2>1 DEF StartStep, RunnersOwnRows
    <3> QED
      BY <1>8, <2>1, <3>1 DEF StartStep
  <2> QED
    BY <1>2, <1>8, <2>1 DEF StartStep, OthersKept
<1>9. ASSUME NEW a \in Actors, FailureStep(a) PROVE Follows(row'[t])
  BY <1>2, <1>9 DEF FailureStep, OthersKept, RunnersOwnRows
<1>10. ASSUME NEW a \in Actors, NEW r \in ReportIds, CompleteStep(a, r) PROVE Follows(row'[t])
  BY <1>2, <1>10 DEF CompleteStep, OthersKept
<1> QED
  BY <1>3, <1>4, <1>5, <1>6, <1>7, <1>8, <1>9, <1>10 DEF AnyStep

\* A session that is not completed has no report.
LEMMA NoReportYet ==
  ASSUME ReportsAreOwned, NEW s \in SessionIds, row[s].status # "completed",
         NEW q \in ReportIds
  PROVE  report[q].session # s
<1> s # None
  BY NoneAssumption
<1> QED
  BY DEF ReportsAreOwned

LEMMA ReportsAreOwnedStep ==
  ASSUME Exclusive, ExclusiveInv, AnyStep
  PROVE  ReportsAreOwned'
<1> USE DEF ExclusiveInv
<1> DEFINE Owned(q) == report'[q].session # None =>
                         /\ row'[report'[q].session].status = "completed"
                         /\ row'[report'[q].session].report = q
<1> SUFFICES ASSUME NEW q \in ReportIds PROVE Owned(q)
  BY DEF ReportsAreOwned
<1> DEFINE t == report[q].session
<1>0. t # None => t \in SessionIds /\ row[t].status = "completed" /\ row[t].report = q
  BY DEF ReportsAreOwned, ReportInv, SessionsExist
<1>1. ASSUME report'[q].session = t,
             t # None => row'[t].status = row[t].status /\ row'[t].report = row[t].report
      PROVE  Owned(q)
  BY <1>0, <1>1
<1>s. SessionsKept => report'[q].session = t
  BY DEF SessionsKept
<1> HIDE DEF t
<1>2. CASE NothingStep \/ CrashStep
  BY <1>0, <1>1, <1>s, <1>2 DEF NothingStep, CrashStep, ReportsKept
<1>3. ASSUME NEW s \in SessionIds, CreateStep(s) \/ AgeStep(s) PROVE Owned(q)
  BY <1>0, <1>1, <1>s, <1>3 DEF CreateStep, AgeStep, OthersKept, SameButAge, ReportsKept
<1>4. ASSUME NEW c \in Callers, InlineStep(c) PROVE Owned(q)
  BY <1>0, <1>1, <1>s, <1>4 DEF InlineStep, ReportsKept
<1>5. ASSUME NEW w \in Workers, NEW s \in SessionIds, ClaimStep(w, s) PROVE Owned(q)
  BY <1>0, <1>1, <1>s, <1>5 DEF ClaimStep, OthersKept, ReportsKept
<1>6. ASSUME NEW a \in Actors, MoveStep(a) PROVE Owned(q)
  BY <1>0, <1>1, <1>s, <1>6 DEF MoveStep, ReportsKept
<1>7. ASSUME NEW a \in Actors, StartStep(a) \/ FailureStep(a) PROVE Owned(q)
  <2>1. row[run[a].sid].status = "running"
    BY <1>7 DEF StartStep, FailureStep, RunnersOwnRows
  <2>2. t # None => row'[t] = row[t]
    BY <1>0, <1>7, <2>1 DEF StartStep, FailureStep, OthersKept
  <2> QED
    BY <1>1, <1>s, <1>7, <2>2 DEF StartStep, FailureStep, ReportsKept
<1>8. ASSUME NEW a \in Actors, NEW r \in ReportIds, CompleteStep(a, r) PROVE Owned(q)
  <2>1. row[run[a].sid].status = "running"
    BY <1>8 DEF CompleteStep, RunnersOwnRows
  <2>2. CASE q = r
    BY <1>8, <2>2 DEF CompleteStep
  <2>3. CASE q # r
    <3>1. report'[q].session = t
      BY <1>8, <2>3 DEF CompleteStep, t
    <3>2. t # None => row'[t] = row[t]
      BY <1>0, <1>8, <2>1 DEF CompleteStep, OthersKept
    <3> QED
      BY <1>1, <3>1, <3>2
  <2> QED
    BY <2>2, <2>3
<1> QED
  BY <1>2, <1>3, <1>4, <1>5, <1>6, <1>7, <1>8 DEF AnyStep

LEMMA ExclusiveInit ==
  ASSUME Exclusive, Init
  PROVE  ExclusiveInv
<1>1. CallersDoNotRun
  BY DEF Init, CallersDoNotRun, NoRun, IdleCall, Actors
<1>2. OneRunnerPerSession /\ RunnersOwnRows
  BY DEF Init, OneRunnerPerSession, RunnersOwnRows, NoRun
<1>3. JobFollowsSession /\ ReportsAreOwned
  BY DEF Init, JobFollowsSession, ReportsAreOwned, NoRow, NoReport
<1> QED
  BY <1>1, <1>2, <1>3, ReportInvInit DEF ExclusiveInv

LEMMA ExclusiveStep ==
  ASSUME Exclusive, ExclusiveInv, [Next]_vars
  PROVE  ExclusiveInv'
<1>1. AnyStep
  BY StepShape DEF ExclusiveInv, ReportInv
<1>2. ReportInv'
  BY ReportInvStep DEF ExclusiveInv
<1>3. CallersDoNotRun'
  BY CallersDoNotRunStep DEF Exclusive, ExclusiveInv, ReportInv
<1>4. OneRunnerPerSession' /\ RunnersOwnRows'
  BY <1>1, OneRunnerStep, RunnersOwnRowsStep
<1>5. JobFollowsSession' /\ ReportsAreOwned'
  BY <1>1, JobFollowsStep, ReportsAreOwnedStep
<1> QED
  BY <1>2, <1>3, <1>4, <1>5 DEF ExclusiveInv

\* While heartbeats keep up and nobody executes inline, no session is ever run
\* by two runners, however many workers claim, crash and reclaim.
THEOREM OneRunner ==
  ASSUME HeartbeatsKeepUp, Inline = {}
  PROVE  Spec => []OneRunnerPerSession
<1>1. Init => ExclusiveInv
  BY ExclusiveInit DEF Exclusive
<1>2. ExclusiveInv /\ [Next]_vars => ExclusiveInv'
  BY ExclusiveStep DEF Exclusive
<1>3. ExclusiveInv => OneRunnerPerSession
  BY DEF ExclusiveInv
<1> QED
  BY <1>1, <1>2, <1>3, PTL DEF Spec

\* Under the same assumptions the job row never contradicts its session row.
THEOREM JobsFollow ==
  ASSUME HeartbeatsKeepUp, Inline = {}
  PROVE  Spec => []JobFollowsSession
<1>1. Init => ExclusiveInv
  BY ExclusiveInit DEF Exclusive
<1>2. ExclusiveInv /\ [Next]_vars => ExclusiveInv'
  BY ExclusiveStep DEF Exclusive
<1>3. ExclusiveInv => JobFollowsSession
  BY DEF ExclusiveInv
<1> QED
  BY <1>1, <1>2, <1>3, PTL DEF Spec

\* And a report is never left behind by a session that failed, is still running
\* or names another report.
THEOREM ReportsOwned ==
  ASSUME HeartbeatsKeepUp, Inline = {}
  PROVE  Spec => []ReportsAreOwned
<1>1. Init => ExclusiveInv
  BY ExclusiveInit DEF Exclusive
<1>2. ExclusiveInv /\ [Next]_vars => ExclusiveInv'
  BY ExclusiveStep DEF Exclusive
<1>3. ExclusiveInv => ReportsAreOwned
  BY DEF ExclusiveInv
<1> QED
  BY <1>1, <1>2, <1>3, PTL DEF Spec

-----------------------------------------------------------------------------
(***************************************************************************)
(* The session implements its contract                                     *)
(***************************************************************************)

LEMMA ContractInit ==
  ASSUME Init
  PROVE  Contract!Init
<1>1. [s \in SessionIds |-> row[s].status] = [s \in SessionIds |-> "absent"]
  BY DEF Init, NoRow
<1>2. \A s \in SessionIds : Produced(s) = {}
  BY NoneAssumption DEF Init, Produced, NoReport
<1> QED
  BY <1>1, <1>2 DEF Contract!Init

LEMMA ContractStep ==
  ASSUME Exclusive, ExclusiveInv, [Next]_vars
  PROVE  [Contract!Next]_(Contract!cvars)
<1> DEFINE phase   == [s \in SessionIds |-> row[s].status]
           reports == [s \in SessionIds |-> Produced(s)]
<1> USE DEF ExclusiveInv
<1>0. AnyStep
  BY StepShape DEF ReportInv
<1>1. ASSUME \A t \in SessionIds : row'[t].status = row[t].status PROVE phase' = phase
  BY <1>1
<1>2. ASSUME SessionsKept PROVE reports' = reports
  BY <1>2 DEF SessionsKept, Produced
<1>3. ASSUME \A t \in SessionIds : row'[t].status = row[t].status, SessionsKept
      PROVE  [Contract!Next]_(Contract!cvars)
  BY <1>1, <1>2, <1>3 DEF Contract!cvars
<1>4. ASSUME NEW s \in SessionIds, OthersKept(s) PROVE phase' = [phase EXCEPT ![s] = row'[s].status]
  BY <1>4 DEF OthersKept
<1>5. CASE NothingStep \/ CrashStep
  BY <1>3, <1>5 DEF NothingStep, CrashStep, ReportsKept
<1>6. ASSUME NEW s \in SessionIds, CreateStep(s) PROVE [Contract!Next]_(Contract!cvars)
  <2>1. phase' = [phase EXCEPT ![s] = "queued"] /\ reports' = reports /\ phase[s] = "absent"
    BY <1>2, <1>4, <1>6 DEF CreateStep, ReportsKept
  <2> QED
    BY <2>1 DEF Contract!Next, Contract!Enqueue, Contract!Becomes
<1>7. ASSUME NEW s \in SessionIds, AgeStep(s) PROVE [Contract!Next]_(Contract!cvars)
  BY <1>3, <1>7 DEF AgeStep, OthersKept, SameButAge, ReportsKept
<1>8. ASSUME NEW c \in Callers, InlineStep(c) PROVE [Contract!Next]_(Contract!cvars)
  BY <1>3, <1>8 DEF InlineStep, ReportsKept
<1>9. ASSUME NEW w \in Workers, NEW s \in SessionIds, ClaimStep(w, s)
      PROVE  [Contract!Next]_(Contract!cvars)
  <2>1. phase' = [phase EXCEPT ![s] = "running"] /\ reports' = reports
    BY <1>2, <1>4, <1>9 DEF ClaimStep, ReportsKept
  <2>2. CASE row[s].status = "queued"
    BY <2>1, <2>2 DEF Contract!Next, Contract!Start, Contract!Becomes
  <2>3. CASE row[s].status = "running"
    BY <1>3, <1>9, <2>3 DEF ClaimStep, OthersKept, ReportsKept
  <2> QED
    BY <1>9, <2>2, <2>3 DEF ClaimStep
<1>10. ASSUME NEW a \in Actors, MoveStep(a) PROVE [Contract!Next]_(Contract!cvars)
  BY <1>3, <1>10 DEF MoveStep, ReportsKept
<1>11. ASSUME NEW a \in Actors, StartStep(a) PROVE [Contract!Next]_(Contract!cvars)
  <2>1. row[run[a].sid].status = "running"
    BY <1>11 DEF StartStep, RunnersOwnRows
  <2>2. \A t \in SessionIds : row'[t].status = row[t].status
    BY <1>11, <2>1 DEF StartStep, OthersKept
  <2> QED
    BY <1>3, <1>11, <2>2 DEF StartStep, ReportsKept
<1>12. ASSUME NEW a \in Actors, FailureStep(a) PROVE [Contract!Next]_(Contract!cvars)
  <2> DEFINE s == run[a].sid
  <2>1. s \in SessionIds /\ row[s].status = "running"
    BY <1>12 DEF FailureStep, RunnersOwnRows, ReportInv, Typed, RunHasSession
  <2>2. phase' = [phase EXCEPT ![s] = "failed"] /\ reports' = reports /\ phase[s] = "running"
    BY <1>2, <1>4, <1>12, <2>1 DEF FailureStep, ReportsKept, RunnersOwnRows
  <2> QED
    BY <2>1, <2>2 DEF Contract!Next, Contract!Fail, Contract!Becomes
<1>13. ASSUME NEW a \in Actors, NEW r \in ReportIds, CompleteStep(a, r)
       PROVE  [Contract!Next]_(Contract!cvars)
  <2> DEFINE s == run[a].sid
  <2>1. s \in SessionIds /\ row[s].status = "running"
    BY <1>13 DEF CompleteStep, RunnersOwnRows, ReportInv, Typed, RunHasSession
  <2>2. phase' = [phase EXCEPT ![s] = "completed"] /\ phase[s] = "running"
    BY <1>4, <1>13, <2>1 DEF CompleteStep
  <2>3. Produced(s) = {}
    BY <2>1, NoReportYet DEF Produced
  <2>4. \A t \in SessionIds : Produced(t)' = IF t = s THEN {r} ELSE Produced(t)
    <3>1. report'[r].session = s /\ report[r].session = None
      BY <1>13 DEF CompleteStep
    <3>2. \A q \in ReportIds : q # r => report'[q].session = report[q].session
      BY <1>13 DEF CompleteStep
    <3>3. None \notin SessionIds
      BY NoneAssumption
    <3> QED
      BY <2>3, <3>1, <3>2, <3>3 DEF Produced
  <2>5. reports' = [reports EXCEPT ![s] = {r}] /\ reports[s] = {}
    BY <2>1, <2>3, <2>4
  <2> QED
    BY <2>1, <2>2, <2>5 DEF Contract!Next, Contract!Complete, Contract!Becomes
<1> QED
  BY <1>0, <1>5, <1>6, <1>7, <1>8, <1>9, <1>10, <1>11, <1>12, <1>13 DEF AnyStep

\* Requests, claims, runs, crashes and reclaims implement the contract a polling
\* client relies on: one outcome, with exactly one report or none.
THEOREM SessionImplementsContract ==
  ASSUME HeartbeatsKeepUp, Inline = {}
  PROVE  Spec => ImplementsContract
<1>1. Init => ExclusiveInv /\ Contract!Init
  BY ExclusiveInit, ContractInit DEF Exclusive
<1>2. ExclusiveInv /\ [Next]_vars => ExclusiveInv' /\ [Contract!Next]_(Contract!cvars)
  BY ExclusiveStep, ContractStep DEF Exclusive
<1> QED
  BY <1>1, <1>2, PTL DEF Spec, ImplementsContract, Contract!Spec

-----------------------------------------------------------------------------
(***************************************************************************)
(* The lock of a key, held across the two reads and the insert, when the   *)
(* calls of one key reach one process                                      *)
(***************************************************************************)

KeysAreLocal == \A b, c \in Callers : KeyOf[b] = KeyOf[c] => ProcOf[b] = ProcOf[c]

Inside == {"fresh", "active", "create", "refresh", "cacheReused", "cacheNew"}

Waiting(s) == row[s].status = "queued" /\ row[s].age = "recent"

LockInv == \A c \in Callers : call[c].pc \in Inside => lock[ProcOf[c]][KeyOf[c]] = c

\* Whoever is about to insert has seen no waiting row of its key, and still would not.
CreateInv ==
  \A c \in Callers : call[c].pc = "create" =>
    \A s \in SessionIds : Waiting(s) => row[s].key # KeyOf[c]

\* A row that is worked on was claimed.
RunsNotQueued == \A a \in Actors : run[a].pc # "idle" => row[run[a].sid].status # "queued"

QueueInv ==
  /\ ReportInv
  /\ CallersDoNotRun
  /\ LockInv
  /\ RunsNotQueued
  /\ CreateInv
  /\ NoDuplicateQueued

\* What a step may do to calls and lock: one caller moves and takes a free lock or gives
\* up its own, or some calls fail and a process loses its locks.
LEMMA CallersMove ==
  ASSUME Typed, LockInv, NEW c \in Callers, CallerStep(c) \/ RejectCall(c)
  PROVE  /\ \A d \in Callers \ {c} : call'[d] = call[d]
         /\ \A p \in Procs, k \in Keys :
              \/ lock'[p][k] = lock[p][k]
              \/ p = ProcOf[c] /\ k = KeyOf[c] /\ lock[p][k] \in {None, c}
         /\ call'[c].pc \in Inside => lock'[ProcOf[c]][KeyOf[c]] = c
         /\ call'[c].pc = "create" =>
              /\ call[c].pc = "active"
              /\ ActiveSessions(KeyOf[c]) = {}
<1>0. /\ call \in [Callers -> Call]
      /\ lock \in [Procs -> [Keys -> Callers \union {None}]]
      /\ ProcOf[c] \in Procs /\ KeyOf[c] \in Keys
      /\ call[c].pc \in Inside => lock[ProcOf[c]][KeyOf[c]] = c
  BY ActorsAssumption, KeysAssumption DEF Typed, TypeOK, Call, Actors, LockInv
<1>1. ASSUME NEW n, call' = [call EXCEPT ![c] = n]
      PROVE  call'[c] = n /\ \A d \in Callers \ {c} : call'[d] = call[d]
  BY <1>0, <1>1
<1>2. ASSUME NEW to, call' = [call EXCEPT ![c].pc = to]
      PROVE  call'[c].pc = to /\ \A d \in Callers \ {c} : call'[d] = call[d]
  BY <1>0, <1>2 DEF Call
<1>3. ASSUME LeaveLock(c), call[c].pc \in Inside
      PROVE  \A p \in Procs, k \in Keys :
               \/ lock'[p][k] = lock[p][k]
               \/ p = ProcOf[c] /\ k = KeyOf[c] /\ lock[p][k] \in {None, c}
  BY <1>0, <1>3 DEF LeaveLock
<1>4. CASE LookUpStock(c) \/ RejectCall(c) \/ RunInline(c) \/ InlineTimesOut(c)
           \/ ReturnFromInline(c)
  <2>1. \E to \in {"lock", "error", "running", "done"} : call' = [call EXCEPT ![c].pc = to]
    BY <1>4 DEF LookUpStock, RejectCall, RunInline, InlineTimesOut, ReturnFromInline, CallMoves
  <2>2. UNCHANGED lock
    BY <1>4 DEF LookUpStock, RejectCall, RunInline, InlineTimesOut, ReturnFromInline
  <2> QED
    BY <1>2, <2>1, <2>2 DEF Inside
<1>5. CASE EnterLock(c)
  <2>1. /\ call' = [call EXCEPT ![c].pc = "fresh"]
        /\ lock[ProcOf[c]][KeyOf[c]] = None
        /\ lock' = [lock EXCEPT ![ProcOf[c]][KeyOf[c]] = c]
    BY <1>5 DEF EnterLock, CallMoves
  <2> QED
    BY <1>0, <1>2, <2>1
<1>6. CASE LoadFreshReport(c)
  <2>1. CASE CallMoves(c, "fresh", "done") /\ LeaveLock(c)
    <3>1. call[c].pc \in Inside /\ call' = [call EXCEPT ![c].pc = "done"]
      BY <2>1 DEF CallMoves, Inside
    <3>2. \A p \in Procs, k \in Keys :
            \/ lock'[p][k] = lock[p][k]
            \/ p = ProcOf[c] /\ k = KeyOf[c] /\ lock[p][k] \in {None, c}
      BY <1>3, <2>1, <3>1
    <3>3. call'[c].pc = "done" /\ \A d \in Callers \ {c} : call'[d] = call[d]
      BY <1>2, <3>1
    <3> QED
      BY <3>2, <3>3 DEF Inside
  <2>2. CASE CallMoves(c, "fresh", "active") /\ UNCHANGED lock
    <3>1. call[c].pc \in Inside /\ call' = [call EXCEPT ![c].pc = "active"]
      BY <2>2 DEF CallMoves, Inside
    <3> QED
      BY <1>0, <1>2, <2>2, <3>1
  <2> QED
    BY <1>6, <2>1, <2>2 DEF LoadFreshReport
<1>7. CASE LoadActiveSession(c)
  <2>1. ASSUME NEW s, call[c].pc = "active",
               call' = [call EXCEPT ![c] = [pc |-> "cacheReused", sid |-> s]], UNCHANGED lock
        PROVE  /\ \A d \in Callers \ {c} : call'[d] = call[d]
               /\ call'[c].pc = "cacheReused" /\ lock' = lock
               /\ call[c].pc = "active"
    BY <1>1, <2>1
  <2>2. CASE \E s \in ActiveSessions(KeyOf[c]) :
               /\ call[c].pc = "active"
               /\ call' = [call EXCEPT ![c] = [pc |-> "cacheReused", sid |-> s]]
               /\ UNCHANGED lock
    BY <1>0, <2>1, <2>2 DEF Inside
  <2>3. CASE ActiveSessions(KeyOf[c]) = {} /\ CallMoves(c, "active", "create") /\ UNCHANGED lock
    BY <1>0, <1>2, <2>3 DEF CallMoves, Inside
  <2> QED
    BY <1>7, <2>2, <2>3 DEF LoadActiveSession
<1>8. CASE CreateSession(c)
  <2>1. /\ call[c].pc = "create"
        /\ \E s : call' = [call EXCEPT ![c] = [pc |-> "refresh", sid |-> s]]
        /\ UNCHANGED lock
    BY <1>8 DEF CreateSession
  <2> QED
    BY <1>0, <1>1, <2>1 DEF Inside
<1>9. CASE RefreshRow(c)
  BY <1>0, <1>2, <1>9 DEF RefreshRow, CallMoves, Inside
<1>10. CASE RefreshTimesOut(c)
  <2>1. /\ call[c].pc \in Inside
        /\ call' = [call EXCEPT ![c].pc = "error"]
        /\ LeaveLock(c)
    BY <1>10 DEF RefreshTimesOut, CallMoves, Inside
  <2>2. \A p \in Procs, k \in Keys :
          \/ lock'[p][k] = lock[p][k]
          \/ p = ProcOf[c] /\ k = KeyOf[c] /\ lock[p][k] \in {None, c}
    BY <1>3, <2>1
  <2>3. call'[c].pc = "error" /\ \A d \in Callers \ {c} : call'[d] = call[d]
    BY <1>2, <2>1
  <2> QED
    BY <2>2, <2>3 DEF Inside
<1>11. CASE CacheActiveSession(c)
  <2>1. /\ call[c].pc \in {"cacheReused", "cacheNew"}
        /\ LeaveLock(c)
        /\ \E to \in {"inline", "done"} : call' = [call EXCEPT ![c].pc = to]
    BY <1>11 DEF CacheActiveSession, CallMoves
  <2>2. call[c].pc \in Inside
    BY <2>1 DEF Inside
  <2>3. \A p \in Procs, k \in Keys :
          \/ lock'[p][k] = lock[p][k]
          \/ p = ProcOf[c] /\ k = KeyOf[c] /\ lock[p][k] \in {None, c}
    BY <1>3, <2>1, <2>2
  <2>4. call'[c].pc \in {"inline", "done"} /\ \A d \in Callers \ {c} : call'[d] = call[d]
    BY <1>2, <2>1
  <2> QED
    BY <2>3, <2>4 DEF Inside
<1> QED
  BY <1>4, <1>5, <1>6, <1>7, <1>8, <1>9, <1>10, <1>11 DEF CallerStep

LEMMA OthersMove ==
  ASSUME Typed, [Next]_vars, \A c \in Callers : ~CallerStep(c) /\ ~RejectCall(c)
  PROVE  /\ \A c \in Callers : call'[c] = call[c] \/ call'[c].pc = "error"
         /\ \A c \in Callers : call'[c].pc = "error" \/ lock'[ProcOf[c]] = lock[ProcOf[c]]
                                 \/ call'[c].pc \in {"idle", "done"}
<1>0. call \in [Callers -> Call]
      /\ lock \in [Procs -> [Keys -> Callers \union {None}]]
      /\ \A c \in Callers : ProcOf[c] \in Procs
  BY ActorsAssumption DEF Typed, TypeOK, Call, Actors
<1>1. CASE UNCHANGED <<call, lock>>
  BY <1>1
<1>2. ASSUME NEW a \in Actors, LoadFails(a)
      PROVE  UNCHANGED lock /\ \A c \in Callers : call'[c] = call[c] \/ call'[c].pc = "error"
  <2>1. /\ UNCHANGED lock
        /\ call' = [c \in Callers |-> IF c = a THEN [call[c] EXCEPT !.pc = "error"] ELSE call[c]]
    BY <1>2 DEF LoadFails
  <2> QED
    BY <1>0, <2>1 DEF Call
<1>3. ASSUME NEW p \in Procs, Crash(p)
      PROVE  /\ \A c \in Callers : call'[c] = call[c] \/ call'[c].pc = "error"
             /\ \A c \in Callers : call'[c].pc = "error" \/ lock'[ProcOf[c]] = lock[ProcOf[c]]
                                     \/ call'[c].pc \in {"idle", "done"}
  <2>1. /\ lock' = [lock EXCEPT ![p] = [k \in Keys |-> None]]
        /\ call' = [c \in Callers |->
                      IF ProcOf[c] = p /\ call[c].pc \notin {"idle", "done", "error"}
                      THEN [call[c] EXCEPT !.pc = "error"] ELSE call[c]]
    BY <1>3 DEF Crash
  <2>2. \A c \in Callers : ProcOf[c] # p => lock'[ProcOf[c]] = lock[ProcOf[c]]
    BY <1>0, <2>1
  <2> QED
    BY <1>0, <2>1, <2>2 DEF Call
<1>4. ASSUME NEW a \in Actors, RunnerStep(a) \/ Progress(a) \/ Heartbeat(a) \/ PersistFailureFails(a)
      PROVE  UNCHANGED <<call, lock>>
  BY <1>4 DEF RunnerStep, LoadRow, LoadJob, StartRun, Complete, Fail, LoadForFailure,
     PersistFailure, ClearGet, ClearDelete, ClearFails, Progress, Heartbeat, PersistFailureFails
<1>5. ASSUME NEW w \in Workers, ClaimNext(w) PROVE UNCHANGED <<call, lock>>
  BY <1>5 DEF ClaimNext, ClaimQueued, ClaimStale, Claim
<1>6. ASSUME \/ \E s \in SessionIds : RowAges(s)
             \/ \E r \in ReportIds : ReportLeavesCooldown(r)
             \/ \E k \in Keys : ActiveKeyExpires(k)
             \/ Quiet \/ UNCHANGED vars
      PROVE  UNCHANGED <<call, lock>>
  BY <1>6 DEF RowAges, ReportLeavesCooldown, ActiveKeyExpires, Quiet, vars
<1> QED
  BY <1>1, <1>2, <1>3, <1>4, <1>5, <1>6 DEF Next

LEMMA LockInvStep ==
  ASSUME Typed, LockInv, [Next]_vars
  PROVE  LockInv'
<1>0. \A d \in Callers : ProcOf[d] \in Procs /\ KeyOf[d] \in Keys /\ d # None
  BY ActorsAssumption, KeysAssumption, NoneAssumption DEF Actors
<1>1. ASSUME NEW c \in Callers, CallerStep(c) \/ RejectCall(c) PROVE LockInv'
  <2>1. ASSUME NEW d \in Callers, d # c, call'[d].pc \in Inside
        PROVE  lock'[ProcOf[d]][KeyOf[d]] = d
    <3>1. call'[d] = call[d] /\ lock[ProcOf[d]][KeyOf[d]] = d
      BY <1>1, <2>1, CallersMove DEF LockInv
    <3> QED
      BY <1>0, <1>1, <2>1, <3>1, CallersMove
  <2> QED
    BY <1>1, <2>1, CallersMove DEF LockInv
<1>2. CASE \A c \in Callers : ~CallerStep(c) /\ ~RejectCall(c)
  BY <1>2, OthersMove DEF LockInv, Inside
<1> QED
  BY <1>1, <1>2

LEMMA RunsNotQueuedStep ==
  ASSUME Inline = {}, Typed, SessionsExist, CallersDoNotRun, RunsNotQueued, AnyStep
  PROVE  RunsNotQueued'
<1> SUFFICES ASSUME NEW a \in Actors, run'[a].pc # "idle"
             PROVE  row'[run'[a].sid].status # "queued"
  BY DEF RunsNotQueued
<1>1. ASSUME NEW s \in SessionIds, row[s].status \notin {"queued", "absent"}
      PROVE  row'[s].status # "queued"
  BY <1>1, Literals DEF AnyStep, NothingStep, CreateStep, AgeStep, InlineStep, ClaimStep, MoveStep,
     StartStep, FailureStep, CompleteStep, CrashStep, OthersKept, SameButAge, Typed, RunHasSession
<1>2. CASE run[a].pc # "idle" /\ run'[a].sid = run[a].sid
  <2>1. /\ run[a].sid \in SessionIds
        /\ row[run[a].sid].status \notin {"queued", "absent"}
    BY <1>2 DEF RunsNotQueued, SessionsExist, Typed, RunHasSession
  <2> QED
    BY <1>1, <1>2, <2>1
<1>3. ASSUME NEW w \in Workers, NEW s \in SessionIds, ClaimStep(w, s), w = a
      PROVE  row'[run'[a].sid].status # "queued"
  BY <1>3 DEF ClaimStep
<1>4. \/ run[a].pc # "idle" /\ run'[a].sid = run[a].sid
      \/ \E w \in Workers, s \in SessionIds : ClaimStep(w, s) /\ w = a
  BY DEF AnyStep, NothingStep, CreateStep, AgeStep, InlineStep, ClaimStep, MoveStep, StartStep,
     FailureStep, CompleteStep, CrashStep, OtherRuns, CallersDoNotRun
<1> QED
  BY <1>2, <1>3, <1>4

\* Rows come to wait by being created: no step makes an old row wait again.
LEMMA WaitingStays ==
  ASSUME Typed, RunsNotQueued, [Next]_vars, \A c \in Callers : ~CreateSession(c),
         NEW s \in SessionIds, Waiting(s)'
  PROVE  Waiting(s) /\ row'[s].key = row[s].key
<1>0. row \in [SessionIds -> Row] /\ row[s] \in Row
  BY DEF Typed, TypeOK
<1>1. CASE UNCHANGED row
  BY <1>1 DEF Waiting
<1>2. ASSUME NEW a \in Actors, run[a].pc # "idle", run[a].sid # s => row'[s] = row[s],
             run[a].sid = s => row'[s].status \in {row[s].status, "running", "completed", "failed"}
      PROVE  Waiting(s) /\ row'[s].key = row[s].key
  <2>1. run[a].sid = s => row'[s].status # "queued"
    BY <1>2 DEF RunsNotQueued
  <2> QED
    BY <1>2, <2>1 DEF Waiting
<1>3. ASSUME NEW a \in Actors, RunnerStep(a) \/ Progress(a) \/ Heartbeat(a)
      PROVE  Waiting(s) /\ row'[s].key = row[s].key
  <2>1. CASE \/ LoadRow(a) \/ LoadJob(a) \/ Fail(a) \/ LoadForFailure(a)
             \/ ClearGet(a) \/ ClearDelete(a) \/ ClearFails(a)
    BY <1>1, <2>1 DEF LoadRow, LoadJob, Fail, LoadForFailure, ClearGet, ClearDelete, ClearFails
  <2>2. CASE StartRun(a)
    <3>1. PICK st, jb :
            /\ row' = [row EXCEPT ![run[a].sid].status = st, ![run[a].sid].job = jb,
                                  ![run[a].sid].age = "recent"]
            /\ st \in {"running", row[run[a].sid].status}
      BY <1>0, <2>2 DEF StartRun, Changed
    <3>2. run[a].pc # "idle"
      BY <2>2 DEF StartRun
    <3>3. run[a].sid # s => row'[s] = row[s]
      BY <1>0, <3>1
    <3>4. run[a].sid = s => row'[s].status = st
      BY <1>0, <3>1 DEF Row
    <3> QED
      BY <1>2, <3>1, <3>2, <3>3, <3>4
  <2>3. CASE Progress(a) \/ Heartbeat(a)
    <3>1. row' = [row EXCEPT ![run[a].sid].age = "recent"] /\ run[a].pc # "idle"
      BY <2>3 DEF Progress, Heartbeat
    <3>2. run[a].sid # s => row'[s] = row[s]
      BY <1>0, <3>1
    <3>3. run[a].sid = s => row'[s].status = row[s].status
      BY <1>0, <3>1 DEF Row
    <3> QED
      BY <1>2, <3>1, <3>2, <3>3
  <2>4. CASE Complete(a)
    <3>1. PICK r, outcome :
            row' = [row EXCEPT ![run[a].sid].status = "completed", ![run[a].sid].report = r,
                               ![run[a].sid].job = outcome, ![run[a].sid].age = "recent"]
      BY <2>4 DEF Complete
    <3>2. run[a].pc # "idle"
      BY <2>4 DEF Complete, RunMoves
    <3>3. run[a].sid # s => row'[s] = row[s]
      BY <1>0, <3>1
    <3>4. run[a].sid = s => row'[s].status = "completed"
      BY <1>0, <3>1 DEF Row
    <3> QED
      BY <1>2, <3>2, <3>3, <3>4
  <2>5. CASE PersistFailure(a)
    <3>1. PICK st :
            /\ row' = [row EXCEPT ![run[a].sid].status = st, ![run[a].sid].job = "failed",
                                  ![run[a].sid].age = "recent"]
            /\ st \in {"failed", row[run[a].sid].status}
      BY <1>0, <2>5 DEF PersistFailure, Changed
    <3>2. run[a].pc # "idle"
      BY <2>5 DEF PersistFailure, RunMoves
    <3>3. run[a].sid # s => row'[s] = row[s]
      BY <1>0, <3>1
    <3>4. run[a].sid = s => row'[s].status = st
      BY <1>0, <3>1 DEF Row
    <3> QED
      BY <1>2, <3>1, <3>2, <3>3, <3>4
  <2> QED
    BY <1>3, <2>1, <2>2, <2>3, <2>4, <2>5 DEF RunnerStep
<1>4. ASSUME NEW w \in Workers, ClaimNext(w) PROVE Waiting(s) /\ row'[s].key = row[s].key
  <2>1. PICK t \in SessionIds :
          row' = [row EXCEPT ![t].status = "running", ![t].age = "recent"]
    BY <1>4 DEF ClaimNext, ClaimQueued, ClaimStale, Claim, Queued, Stale
  <2>2. t # s => row'[s] = row[s]
    BY <1>0, <2>1
  <2>3. t = s => row'[s].status = "running"
    BY <1>0, <2>1 DEF Row
  <2> QED
    BY <2>2, <2>3 DEF Waiting
<1>5. ASSUME NEW t \in SessionIds, RowAges(t) PROVE Waiting(s) /\ row'[s].key = row[s].key
  <2>1. PICK age \in {"lapsed", "stale"} : row' = [row EXCEPT ![t].age = age]
    BY <1>5 DEF RowAges
  <2>2. t # s => row'[s] = row[s]
    BY <1>0, <2>1
  <2>3. t = s => row'[s].age = age
    BY <1>0, <2>1 DEF Row
  <2> QED
    BY <2>1, <2>2, <2>3 DEF Waiting
<1>6. ASSUME NEW c \in Callers, CallerStep(c) \/ RejectCall(c) PROVE UNCHANGED row
  BY <1>6 DEF CallerStep, LookUpStock, RejectCall, EnterLock, LoadFreshReport, LoadActiveSession,
     RefreshRow, RefreshTimesOut, CacheActiveSession, RunInline, InlineTimesOut, ReturnFromInline
<1>7. ASSUME \/ \E a \in Actors : LoadFails(a) \/ PersistFailureFails(a)
             \/ \E r \in ReportIds : ReportLeavesCooldown(r)
             \/ \E k \in Keys : ActiveKeyExpires(k)
             \/ \E p \in Procs : Crash(p)
             \/ Quiet \/ UNCHANGED vars
      PROVE  UNCHANGED row
  BY <1>7 DEF LoadFails, PersistFailureFails, ReportLeavesCooldown, ActiveKeyExpires, Crash,
     Quiet, vars
<1> QED
  BY <1>1, <1>3, <1>4, <1>5, <1>6, <1>7 DEF Next

LEMMA CreatedRow ==
  ASSUME Typed, NEW c \in Callers, CreateSession(c)
  PROVE  \E s \in SessionIds : /\ row'[s].key = KeyOf[c]
                               /\ \A t \in SessionIds \ {s} : row'[t] = row[t]
<1>1. PICK s \in SessionIds :
        row' = [row EXCEPT ![s] = [NoRow EXCEPT !.status = "queued", !.job = "queued",
                                                !.key = KeyOf[c]]]
  BY DEF CreateSession
<1> QED
  BY <1>1 DEF Typed, TypeOK, NoRow

LEMMA CreateInvStep ==
  ASSUME KeysAreLocal, Typed, RunsNotQueued, LockInv, CreateInv, [Next]_vars
  PROVE  CreateInv'
<1> SUFFICES ASSUME NEW c \in Callers, call'[c].pc = "create",
                    NEW s \in SessionIds, Waiting(s)', row'[s].key = KeyOf[c]
             PROVE  FALSE
  BY DEF CreateInv
<1>1. \/ call[c].pc = "create"
      \/ call[c].pc = "active" /\ ActiveSessions(KeyOf[c]) = {} /\ CallerStep(c)
  <2>1. ASSUME NEW d \in Callers, CallerStep(d) \/ RejectCall(d)
        PROVE  \/ call[c].pc = "create"
               \/ call[c].pc = "active" /\ ActiveSessions(KeyOf[c]) = {} /\ CallerStep(c)
    <3>1. CASE d = c
      <4>1. call[c].pc = "active" /\ ActiveSessions(KeyOf[c]) = {}
        BY <2>1, <3>1, CallersMove
      <4>2. ~RejectCall(c)
        BY <4>1 DEF RejectCall, CallMoves
      <4> QED
        BY <2>1, <3>1, <4>1, <4>2
    <3>2. CASE d # c
      BY <2>1, <3>2, CallersMove
    <3> QED
      BY <3>1, <3>2
  <2>2. CASE \A d \in Callers : ~CallerStep(d) /\ ~RejectCall(d)
    BY <2>2, OthersMove
  <2> QED
    BY <2>1, <2>2
<1>2. ASSUME Waiting(s), row[s].key = KeyOf[c] PROVE FALSE
  <2>1. s \in ActiveSessions(KeyOf[c])
    BY <1>2 DEF Waiting, ActiveSessions, ActiveStatus
  <2> QED
    BY <1>1, <1>2, <2>1 DEF CreateInv
<1>3. ASSUME NEW d \in Callers, CreateSession(d) PROVE FALSE
  <2>1. call[d].pc = "create" /\ call'[d].pc # "create"
    BY <1>3 DEF CreateSession, Typed, TypeOK
  <2>2. d # c
    BY <2>1
  <2>3. PICK t \in SessionIds : /\ row'[t].key = KeyOf[d]
                               /\ \A u \in SessionIds \ {t} : row'[u] = row[u]
    BY <1>3, CreatedRow
  <2>4. CASE t # s
    BY <1>2, <2>3, <2>4 DEF Waiting
  <2>5. CASE t = s
    <3>1. KeyOf[c] = KeyOf[d] /\ ProcOf[c] = ProcOf[d]
      BY <2>3, <2>5 DEF KeysAreLocal
    <3>2. lock[ProcOf[d]][KeyOf[d]] = d /\ lock[ProcOf[c]][KeyOf[c]] = c
      BY <1>1, <2>1 DEF LockInv, Inside
    <3> QED
      BY <2>2, <3>1, <3>2
  <2> QED
    BY <2>4, <2>5
<1>4. CASE \A d \in Callers : ~CreateSession(d)
  BY <1>2, <1>4, WaitingStays
<1> QED
  BY <1>3, <1>4

LEMMA NoDuplicateStep ==
  ASSUME Typed, RunsNotQueued, CreateInv, NoDuplicateQueued, [Next]_vars
  PROVE  NoDuplicateQueued'
<1> SUFFICES ASSUME NEW s \in SessionIds, NEW t \in SessionIds, Waiting(s)', Waiting(t)',
                    row'[s].key = row'[t].key, s # t
             PROVE  FALSE
  BY DEF NoDuplicateQueued, Waiting
<1>1. ASSUME NEW c \in Callers, CreateSession(c) PROVE FALSE
  <2>1. call[c].pc = "create"
    BY <1>1 DEF CreateSession
  <2>2. PICK u \in SessionIds : /\ row'[u].key = KeyOf[c]
                               /\ \A v \in SessionIds \ {u} : row'[v] = row[v]
    BY <1>1, CreatedRow
  <2>3. \A v \in SessionIds : Waiting(v) => row[v].key # KeyOf[c]
    BY <2>1 DEF CreateInv
  <2>4. CASE u = s
    BY <2>2, <2>3, <2>4 DEF Waiting
  <2>5. CASE u = t
    BY <2>2, <2>3, <2>5 DEF Waiting
  <2>6. CASE u # s /\ u # t
    BY <2>2, <2>6 DEF Waiting, NoDuplicateQueued
  <2> QED
    BY <2>4, <2>5, <2>6
<1>2. CASE \A c \in Callers : ~CreateSession(c)
  BY <1>2, WaitingStays DEF NoDuplicateQueued, Waiting
<1> QED
  BY <1>1, <1>2

\* Of one key at most one fresh session waits in the queue: the lock excludes every other
\* call of the key from its first read to its insert, and a row that was claimed never waits
\* again.  One process serves a key, as the API does; the daily run's keys are its own.
THEOREM OneWaitingPerKey ==
  ASSUME Inline = {}, KeysAreLocal
  PROVE  Spec => []NoDuplicateQueued
<1>1. Init => QueueInv
  <2> SUFFICES ASSUME Init PROVE QueueInv
    OBVIOUS
  <2>1. ReportInv
    BY ReportInvInit
  <2>2. CallersDoNotRun /\ RunsNotQueued
    BY DEF Init, CallersDoNotRun, RunsNotQueued, NoRun, IdleCall, Actors
  <2>3. LockInv /\ CreateInv
    BY DEF Init, LockInv, CreateInv, IdleCall, Inside
  <2>4. NoDuplicateQueued
    BY DEF Init, NoDuplicateQueued, NoRow
  <2> QED
    BY <2>1, <2>2, <2>3, <2>4 DEF QueueInv
<1>2. QueueInv /\ [Next]_vars => QueueInv'
  <2> SUFFICES ASSUME QueueInv, [Next]_vars PROVE QueueInv'
    OBVIOUS
  <2>1. ReportInv' /\ Typed /\ SessionsExist /\ AnyStep
    BY ReportInvStep, StepShape DEF QueueInv, ReportInv
  <2>2. CallersDoNotRun'
    BY <2>1, CallersDoNotRunStep DEF QueueInv
  <2>3. LockInv' /\ RunsNotQueued'
    BY <2>1, LockInvStep, RunsNotQueuedStep DEF QueueInv
  <2>4. CreateInv' /\ NoDuplicateQueued'
    BY <2>1, CreateInvStep, NoDuplicateStep DEF QueueInv
  <2> QED
    BY <2>1, <2>2, <2>3, <2>4 DEF QueueInv
<1>3. QueueInv => NoDuplicateQueued
  BY DEF QueueInv
<1> QED
  BY <1>1, <1>2, <1>3, PTL DEF Spec

=============================================================================
