------------------------------ MODULE BuildRun ------------------------------
(***************************************************************************)
(* An image build from its record to its outcome                           *)
(* (internal/service/build.go, internal/server/handlers/build.go,          *)
(* internal/store/builds.go): the row, the task that cancels it, the       *)
(* goroutine that runs it, the cancel button, the deadline, the death of   *)
(* the daemon and the reconciliation at its next start.                    *)
(*                                                                         *)
(* A build is asked for over a socket, and then has a task under its own   *)
(* id, or by a deploy, and then runs on the deploy's context and has none. *)
(***************************************************************************)
EXTENDS Integers, FiniteSets

CONSTANTS Builds,
          MaxTasks, Retention, MaxTime,
          MaxStarts,        \* bound: contexts handed out
          ReconcileLimit    \* the most rows one reconciliation reads

ASSUME BuildAssumption ==
  /\ IsFiniteSet(Builds)
  /\ MaxTasks \in Nat /\ Retention \in Nat /\ MaxTime \in Nat /\ MaxStarts \in Nat
  /\ ReconcileLimit \in Nat

VARIABLES tasks, canceled, started, now,  \* the task registry
          status,    \* the status column of each row
          reason,    \* its error column
          run,       \* the goroutine of each build
          asked,     \* where a cancel request for each build stands
          todo,      \* the rows the reconciliation has yet to close
          phase      \* what the daemon is doing

registry == <<tasks, canceled, started, now>>
vars == <<tasks, canceled, started, now, status, reason, run, asked, todo, phase>>

R == INSTANCE TaskRegistry WITH Ids <- Builds, Percents <- {}

Outcomes == {"success", "failed", "canceled"}
Reasons == {"", "engine", "operator", "cancel restart", "restart"}

Live == {"running", "ended", "written"}
Pcs == {"none", "recorded", "refused", "report", "over"} \cup Live

NoRun == [pc |-> "none", origin |-> "socket", ctx |-> 0, expired |-> FALSE, failure |-> FALSE]

\* Who asked: a socket of its own, or a deploy whose service is built.
Origins == {"socket", "stack"}

Run == [pc : Pcs, origin : Origins, ctx : 0..MaxStarts,
        expired : BOOLEAN, failure : BOOLEAN]

\* ctx.Err() # nil: the task was canceled, or the context it stands on ended (the
\* build's own deadline, or the deploy that asked for the build).
Dead(b) == run[b].ctx \in canceled \/ run[b].expired

-----------------------------------------------------------------------------
Init ==
  /\ R!Init
  /\ status = [b \in Builds |-> "none"]
  /\ reason = [b \in Builds |-> ""]
  /\ run = [b \in Builds |-> NoRun]
  /\ asked = [b \in Builds |-> "no"]
  /\ todo = {}
  /\ phase = "serving"

\* Start: the request is valid, and the row is inserted as running.
Start(b, origin) ==
  /\ phase = "serving"
  /\ status[b] = "none"
  /\ status' = [status EXCEPT ![b] = "running"]
  /\ run' = [run EXCEPT ![b].pc = "recorded", ![b].origin = origin]
  /\ UNCHANGED <<registry, reason, asked, todo, phase>>

\* Mutant: the context is made outside the registry.
BeginUnregistered(b) ==
  /\ run[b].pc = "recorded"
  /\ run' = [run EXCEPT ![b].pc = "running", ![b].ctx = started + 1]
  /\ UNCHANGED <<registry, status, reason, asked, todo, phase>>

\* The socket is accepted and the build gets its task; a deploy just runs it.
Begin(b) ==
  /\ run[b].pc = "recorded"
  /\ IF run[b].origin = "socket"
     THEN /\ R!StartWithID(b)
          /\ run' = [run EXCEPT ![b].pc = "running", ![b].ctx = started + 1]
     ELSE /\ run' = [run EXCEPT ![b].pc = "running"]
          /\ UNCHANGED registry
  /\ UNCHANGED <<status, reason, asked, todo, phase>>

\* acceptWebSocket fails: the handler returns and the row stays as it is.
Refuse(b) ==
  /\ run[b].pc = "recorded" /\ run[b].origin = "socket"
  /\ run' = [run EXCEPT ![b].pc = "refused"]
  /\ UNCHANGED <<registry, status, reason, asked, todo, phase>>

\* The engine closes both channels, having reported a failure or not.
EngineEnds(b, failure) ==
  /\ run[b].pc = "running"
  /\ run' = [run EXCEPT ![b].pc = "ended", ![b].failure = failure]
  /\ UNCHANGED <<registry, status, reason, asked, todo, phase>>

\* The drain loop sees the context end first.
Interrupted(b) ==
  /\ run[b].pc = "running" /\ Dead(b)
  /\ \E failure \in BOOLEAN :
       run' = [run EXCEPT ![b].pc = "ended", ![b].failure = failure]
  /\ UNCHANGED <<registry, status, reason, asked, todo, phase>>

\* Mutant: the outcome is written over whatever is there.
FinishAlways(b, outcome, why) ==
  /\ status' = [status EXCEPT ![b] = outcome]
  /\ reason' = [reason EXCEPT ![b] = why]

\* Finish: UPDATE ... WHERE id = ? AND status = 'running'.
FinishRow(b, outcome, why) ==
  IF status[b] = "running"
  THEN /\ status' = [status EXCEPT ![b] = outcome]
       /\ reason' = [reason EXCEPT ![b] = why]
  ELSE UNCHANGED <<status, reason>>

\* Mutant: a build that was canceled leaves its record to the cancel request.
RecordUnlessCanceled(b) ==
  /\ run[b].pc = "ended"
  /\ IF Dead(b) THEN UNCHANGED <<status, reason>>
     ELSE IF run[b].failure THEN FinishRow(b, "failed", "engine") ELSE FinishRow(b, "success", "")
  /\ run' = [run EXCEPT ![b].pc = "written", ![b].failure = run[b].failure /\ ~Dead(b)]
  /\ UNCHANGED <<registry, asked, todo, phase>>

\* run's last switch: a context that has ended decides, whatever the engine said.
\* A canceled build reports no failure.
Record(b) ==
  /\ run[b].pc = "ended"
  /\ IF Dead(b) THEN FinishRow(b, "canceled", "operator")
     ELSE IF run[b].failure THEN FinishRow(b, "failed", "engine")
     ELSE FinishRow(b, "success", "")
  /\ run' = [run EXCEPT ![b].pc = "written", ![b].failure = run[b].failure /\ ~Dead(b)]
  /\ UNCHANGED <<registry, asked, todo, phase>>

\* Mutant: the channels close as soon as the engine's have.
CloseEarly(b) ==
  /\ run[b].pc \in {"ended", "written"}
  /\ run' = [run EXCEPT ![b].pc = IF run[b].origin = "socket" THEN "report" ELSE "over"]
  /\ UNCHANGED <<registry, status, reason, asked, todo, phase>>

\* run has returned, the deferred calls close the channels, and whoever drained
\* them goes on.
CloseStream(b) ==
  /\ run[b].pc = "written"
  /\ run' = [run EXCEPT ![b].pc = IF run[b].origin = "socket" THEN "report" ELSE "over"]
  /\ UNCHANGED <<registry, status, reason, asked, todo, phase>>

\* Mutant: only a failure is reported to the registry.
ReportFailure(b) ==
  /\ run[b].pc = "report"
  /\ IF run[b].failure THEN R!Finish(b, "other") ELSE UNCHANGED registry
  /\ run' = [run EXCEPT ![b].pc = "over"]
  /\ UNCHANGED <<status, reason, asked, todo, phase>>

\* The handler has drained the channels and finishes the task.
Report(b) ==
  /\ run[b].pc = "report"
  /\ R!Finish(b, IF run[b].failure THEN "other" ELSE "nil")
  /\ run' = [run EXCEPT ![b].pc = "over"]
  /\ UNCHANGED <<status, reason, asked, todo, phase>>

\* buildTimeout passes, or the deploy's context ends; once the outcome is chosen
\* nothing here looks at the context any more.
Expire(b) ==
  /\ run[b].pc \in {"running", "ended"} /\ ~run[b].expired
  /\ run' = [run EXCEPT ![b].expired = TRUE]
  /\ UNCHANGED <<registry, status, reason, asked, todo, phase>>

-----------------------------------------------------------------------------
\* Cancel reads the row; a terminal one is ErrTaskFinished.
AskCancel(b) ==
  /\ phase = "serving" /\ asked[b] = "no" /\ status[b] = "running"
  /\ asked' = [asked EXCEPT ![b] = "task"]
  /\ UNCHANGED <<registry, status, reason, run, todo, phase>>

\* It cancels the task; with no task under the id it goes on to close the row.
CancelTask(b) ==
  /\ asked[b] = "task"
  /\ R!Cancel(b)
  /\ asked' = [asked EXCEPT ![b] = IF tasks[b] = R!NoTask THEN "row" ELSE "no"]
  /\ UNCHANGED <<status, reason, run, todo, phase>>

CloseRow(b) ==
  /\ asked[b] = "row"
  /\ FinishRow(b, "canceled", "cancel restart")
  /\ asked' = [asked EXCEPT ![b] = "no"]
  /\ UNCHANGED <<registry, run, todo, phase>>

\* The drawer: POST /tasks/{id}/cancel, its listing, and time.
Drawer ==
  /\ phase = "serving"
  /\ (\E b \in Builds : R!Cancel(b)) \/ R!List \/ R!Tick
  /\ UNCHANGED <<status, reason, run, asked, todo, phase>>

\* Housekeeping: DeleteOlderThan spares running rows.
Prune(b) ==
  /\ status[b] \in Outcomes
  /\ status' = [status EXCEPT ![b] = "pruned"]
  /\ UNCHANGED <<registry, reason, run, asked, todo, phase>>

\* The daemon dies: the goroutines, the requests and the registry go.
Crash ==
  /\ phase' = "starting"
  /\ tasks' = [b \in Builds |-> R!NoTask]
  /\ canceled' = {}
  /\ run' = [b \in Builds |-> [NoRun EXCEPT !.origin = run[b].origin]]
  /\ asked' = [b \in Builds |-> "no"]
  /\ todo' = {}
  /\ UNCHANGED <<started, now, status, reason>>

RunningRows == {b \in Builds : status[b] = "running"}

\* Mutant: the rows are not read.
ListNothing ==
  /\ phase = "starting"
  /\ phase' = "reconciling"
  /\ todo' = {}
  /\ UNCHANGED <<registry, status, reason, run, asked>>

\* Running: the rows still in flight, ReconcileLimit of them at most.  Which ones,
\* when there are more, is left open (the newest, in the code).
ListRunning ==
  /\ phase = "starting"
  /\ phase' = "reconciling"
  /\ todo' \in {rows \in SUBSET RunningRows :
                  \/ rows = RunningRows /\ Cardinality(rows) <= ReconcileLimit
                  \/ rows # RunningRows /\ Cardinality(rows) = ReconcileLimit}
  /\ UNCHANGED <<registry, status, reason, run, asked>>

\* ReconcileRunning closes the listed rows one by one.
ReconcileRunning(b) ==
  /\ phase = "reconciling" /\ b \in todo
  /\ FinishRow(b, "canceled", "restart")
  /\ todo' = todo \ {b}
  /\ UNCHANGED <<registry, run, asked, phase>>

\* The router is mounted once the reconciliation has returned.
Serve ==
  /\ phase = "reconciling" /\ todo = {}
  /\ phase' = "serving"
  /\ UNCHANGED <<registry, status, reason, run, asked, todo>>

Next ==
  \/ \E b \in Builds, origin \in Origins : Start(b, origin)
  \/ \E b \in Builds : Begin(b) \/ Refuse(b) \/ Interrupted(b)
  \/ \E b \in Builds : Record(b) \/ CloseStream(b) \/ Report(b)
  \/ \E b \in Builds, failure \in BOOLEAN : EngineEnds(b, failure)
  \/ \E b \in Builds : Expire(b) \/ AskCancel(b) \/ CancelTask(b) \/ CloseRow(b) \/ Prune(b)
  \/ Drawer
  \/ Crash
  \/ ListRunning
  \/ \E b \in Builds : ReconcileRunning(b)
  \/ Serve

Spec == Init /\ [][Next]_vars

\* A goroutine that can run does, the deadline comes, and the engine lets go of a
\* request whose context has ended; it need not end any other.  However often the
\* daemon dies, it does not die every time before the same row is reconciled.
Fairness ==
  /\ \A b \in Builds :
       /\ WF_vars(Record(b) \/ CloseStream(b) \/ Report(b))
       /\ WF_vars(Expire(b))
       /\ WF_vars(Interrupted(b))
       /\ SF_vars(ReconcileRunning(b))
  /\ WF_vars(ListRunning)
  /\ WF_vars(Serve)

FairSpec == Spec /\ Fairness

-----------------------------------------------------------------------------
\* The registry is well formed, and a build that runs for a socket has a context.
TypeOK ==
  /\ R!TypeOK
  /\ status \in [Builds -> Outcomes \cup {"none", "running", "pruned"}]
  /\ reason \in [Builds -> Reasons]
  /\ run \in [Builds -> Run]
  /\ asked \in [Builds -> {"no", "task", "row"}]
  /\ todo \subseteq Builds
  /\ phase \in {"serving", "starting", "reconciling"}
  /\ \A b \in Builds : run[b].ctx <= started

History == INSTANCE BuildRecord

\* The history keeps its promise under every writer: the goroutine, the cancel
\* request that saw an older row, the reconciliation and retention.  A record is
\* opened once, gets one outcome and keeps it.
FirstOutcomeStands == History!Spec

\* When the stream of a build has closed, its row holds an outcome: whoever
\* reads the build after the last event finds it finished (Run's promise that
\* the final status is written before the channels close).
OutcomeBeforeClose ==
  \A b \in Builds : run[b].pc \in {"report", "over"} => status[b] # "running"

\* A row says "running" only for a build this process has started, or while the
\* process has yet to reconcile what the one before it left.
RunningIsOurs ==
  Cardinality(Builds) <= ReconcileLimit =>
    \A b \in Builds : status[b] = "running" =>
      \/ phase = "starting"
      \/ b \in todo
      \/ run[b].pc \in {"recorded", "refused", "running", "ended"}

\* A build's task is shown as running only while the build's goroutine is on
\* its way to finishing it, whatever was canceled, evicted or restarted.
TaskIsOwned ==
  \A b \in Builds : R!Running(b) =>
    run[b].pc \in Live \cup {"report"} /\ run[b].ctx = tasks[b].ctx

\* A build that has begun gets an outcome, even if the engine hangs, nobody
\* watches, or the daemon dies.
BuildsEnd ==
  \A b \in Builds : run[b].pc \in Live ~> status[b] # "running"

\* The cancel request closes a row itself only when no goroutine runs the build:
\* "The build is recorded as running but nothing is running it - the daemon
\* restarted mid-build" (Cancel, build.go).
ClosedOnlyWhenNobodyRuns ==
  [][\A b \in Builds :
       status[b] = "running" /\ reason'[b] = "cancel restart" => run[b].pc \notin Live]_vars
=============================================================================
