--------------------------- MODULE BuildRunProofs ---------------------------
(***************************************************************************)
(* The build history keeps its promise for any number of builds: the       *)
(* detailed specification implements BuildRecord, and a stream never       *)
(* closes before the outcome is on disk.                                   *)
(***************************************************************************)
EXTENDS BuildRun, FiniteSetTheorems, TLAPS

\* Every write of a status is an opening, an outcome or a removal: the rest of
\* the daemon's steps leave the column alone.
RowStep(b, pre, post) ==
  \/ pre = "none" /\ post = "running"
  \/ pre = "running" /\ post \in Outcomes
  \/ pre \in Outcomes /\ post = "pruned"

Writes ==
  \/ UNCHANGED status
  \/ \E b \in Builds, post \in Outcomes \cup {"running", "pruned"} :
       /\ RowStep(b, status[b], post)
       /\ status' = [status EXCEPT ![b] = post]

\* Finish, whoever calls it, writes an outcome over "running" or nothing.
LEMMA FinishWrites ==
  ASSUME NEW b \in Builds, NEW outcome \in Outcomes, NEW why, FinishRow(b, outcome, why)
  PROVE  Writes
  BY DEF FinishRow, Writes, RowStep

\* One step of the daemon writes at most one status, and never over an outcome.
LEMMA NextWrites == Next => Writes
<1> SUFFICES ASSUME Next PROVE Writes
  OBVIOUS
<1>1. ASSUME NEW b \in Builds, NEW origin \in Origins, Start(b, origin)
      PROVE Writes
  BY <1>1 DEF Start, Writes, RowStep
<1>2. ASSUME NEW b \in Builds, Begin(b) \/ Refuse(b) \/ Interrupted(b) \/ CloseStream(b) \/ Report(b)
      PROVE Writes
  BY <1>2 DEF Begin, Refuse, Interrupted, CloseStream, Report, Writes
<1>3. ASSUME NEW b \in Builds, Record(b) PROVE Writes
  <2>1. \E outcome \in Outcomes, why \in Reasons : FinishRow(b, outcome, why)
    BY <1>3 DEF Record, Outcomes, Reasons
  <2> QED
    BY <2>1, FinishWrites
<1>4. ASSUME NEW b \in Builds, NEW failure \in BOOLEAN, EngineEnds(b, failure) PROVE Writes
  BY <1>4 DEF EngineEnds, Writes
<1>5. ASSUME NEW b \in Builds, Expire(b) \/ AskCancel(b) \/ CancelTask(b) PROVE Writes
  BY <1>5 DEF Expire, AskCancel, CancelTask, Writes
<1>6. ASSUME NEW b \in Builds, CloseRow(b) PROVE Writes
  BY <1>6, FinishWrites DEF CloseRow, Outcomes
<1>7. ASSUME NEW b \in Builds, Prune(b) PROVE Writes
  BY <1>7 DEF Prune, Writes, RowStep
<1>8. CASE Drawer \/ Crash \/ ListRunning \/ Serve
  BY <1>8 DEF Drawer, Crash, ListRunning, Serve, Writes
<1>9. ASSUME NEW b \in Builds, ReconcileRunning(b) PROVE Writes
  BY <1>9, FinishWrites DEF ReconcileRunning, Outcomes
<1> QED
  BY <1>1, <1>2, <1>3, <1>4, <1>5, <1>6, <1>7, <1>8, <1>9 DEF Next

\* Such a write is a step of the abstract history.
LEMMA WritesRefine == Writes => [History!Next]_status
  BY DEF Writes, RowStep, Outcomes, History!Next, History!Open, History!Close,
         History!Drop, History!Outcomes

\* The daemon implements the history's promise: under the goroutine, the cancel
\* button, the reconciliation and retention together, a record is opened once,
\* gets one outcome and keeps it (Finish, store/builds.go).
THEOREM HistoryKept == Spec => FirstOutcomeStands
<1>1. Init => History!Init
  BY DEF Init, History!Init
<1>2. [Next]_vars => [History!Next]_status
  <2>1. UNCHANGED vars => UNCHANGED status
    BY DEF vars
  <2> QED
    BY <2>1, NextWrites, WritesRefine
<1> QED
  BY <1>1, <1>2, PTL DEF Spec, FirstOutcomeStands, History!Spec

-----------------------------------------------------------------------------
\* What the registry's methods do to its entries, as far as builds care.

\* An absent entry is a well-formed one.
LEMMA NoTaskOK == R!NoTask \in R!Task
  BY BuildAssumption DEF R!NoTask, R!Task, R!Progresses

\* StartWithID puts a running task on a new context under the id, and drops
\* finished entries at most.
LEMMA StartFx ==
  ASSUME R!TypeOK, NEW s \in Builds, R!StartWithID(s)
  PROVE  /\ R!TypeOK'
         /\ started' = started + 1 /\ canceled' = canceled
         /\ tasks'[s].state = "running" /\ tasks'[s].ctx = started + 1
         /\ \A i \in Builds \ {s} : tasks'[i] = tasks[i] \/ tasks'[i] = R!NoTask
<1> DEFINE new == [state |-> "running", progress |-> -1,
                   finishedAt |-> 0, ctx |-> started + 1]
           ts  == [tasks EXCEPT ![s] = new]
<1>1. PICK dropped \in R!Evictable(ts) : tasks' = R!Without(ts, dropped)
  BY DEF R!StartWithID
<1>2. dropped \subseteq R!Finished(ts)
  BY DEF R!Evictable
<1>3. started \in Nat /\ started' = started + 1 /\ started' \in 0..MaxStarts
  BY BuildAssumption DEF R!TypeOK, R!StartWithID
<1>4. new \in R!Task
  BY <1>3, BuildAssumption DEF R!Task, R!Progresses, R!TerminalStates
<1>5. ts \in [Builds -> R!Task] /\ ts[s] = new /\ \A i \in Builds \ {s} : ts[i] = tasks[i]
  BY <1>4 DEF R!TypeOK
<1>6. s \notin dropped
  BY <1>2, <1>5 DEF R!Finished, R!Terminal, R!TerminalStates
<1>7. tasks' \in [Builds -> R!Task]
  BY <1>1, <1>5, NoTaskOK DEF R!Without
<1>8. tasks'[s] = new /\ \A i \in Builds \ {s} : tasks'[i] = tasks[i] \/ tasks'[i] = R!NoTask
  BY <1>1, <1>5, <1>6 DEF R!Without
<1>9. \A i \in R!Tracked(tasks)' : tasks'[i].ctx \in 1..started'
  BY <1>3, <1>8 DEF R!Tracked, R!NoTask, R!TypeOK
<1>10. canceled' \subseteq 1..started'
  <2>1. 1..started \subseteq 1..started'
    BY <1>3
  <2> QED
    BY <2>1 DEF R!TypeOK, R!StartWithID
<1>11. R!TypeOK'
  BY <1>3, <1>7, <1>9, <1>10 DEF R!TypeOK, R!StartWithID
<1>12. canceled' = canceled
  BY DEF R!StartWithID
<1>13. tasks'[s].state = "running" /\ tasks'[s].ctx = started + 1
  BY <1>8
<1> QED
  BY <1>3, <1>8, <1>11, <1>12, <1>13

\* Finish and Cancel leave no running task under the id, and other ids alone.
LEMMA EndFx ==
  ASSUME R!TypeOK, NEW s \in Builds, NEW err \in {"nil", "canceled", "other"}, R!Finish(s, err) \/ R!Cancel(s)
  PROVE  /\ R!TypeOK'
         /\ started' = started
         /\ ~R!Running(s)'
         /\ \A i \in Builds \ {s} : tasks'[i] = tasks[i]
<1>1. CASE ~R!Running(s)
  <2>1. UNCHANGED <<tasks, canceled, started, now>>
    BY <1>1 DEF R!Finish, R!Cancel
  <2> QED
    BY <1>1, <2>1 DEF R!TypeOK, R!Tracked, R!Running
<1>2. CASE R!Running(s)
  <2>1. PICK e \in R!TerminalStates, p \in R!Progresses :
          tasks' = [tasks EXCEPT ![s].state = e, ![s].progress = p, ![s].finishedAt = now]
    <3>1. CASE R!Finish(s, err)
      <4> DEFINE p == IF err = "nil" THEN 100 ELSE tasks[s].progress
      <4>1. R!Outcome(err) \in R!TerminalStates
        BY DEF R!Outcome, R!TerminalStates
      <4>2. p \in R!Progresses
        BY DEF R!TypeOK, R!Task, R!Progresses
      <4>3. tasks' = [tasks EXCEPT ![s].state = R!Outcome(err), ![s].progress = p,
                                   ![s].finishedAt = now]
        BY <1>2, <3>1 DEF R!Finish
      <4> HIDE DEF p
      <4> QED
        BY <4>1, <4>2, <4>3
    <3>2. CASE R!Cancel(s)
      <4>1. tasks[s].progress \in R!Progresses /\ "canceled" \in R!TerminalStates
        BY DEF R!TypeOK, R!Task, R!TerminalStates
      <4>2. tasks' = [tasks EXCEPT ![s].state = "canceled",
                                   ![s].progress = tasks[s].progress, ![s].finishedAt = now]
        BY <1>2, <3>2 DEF R!Cancel, R!TypeOK, R!Task
      <4> QED
        BY <4>1, <4>2
    <3> QED
      BY <3>1, <3>2
  <2>2. started' = started /\ now' = now /\ canceled' = canceled \cup {tasks[s].ctx}
    BY <1>2 DEF R!Finish, R!Cancel
  <2>3. /\ tasks' \in [Builds -> R!Task]
        /\ \A i \in Builds : tasks'[i].ctx = tasks[i].ctx
        /\ tasks'[s].state \in R!TerminalStates
        /\ \A i \in Builds \ {s} : tasks'[i] = tasks[i]
    BY <2>1 DEF R!TypeOK, R!Task
  <2>4. s \in R!Tracked(tasks) /\ R!Tracked(tasks)' \subseteq R!Tracked(tasks)
    BY <1>2, <2>3 DEF R!Tracked, R!Running, R!TerminalStates
  <2>5. R!TypeOK'
    BY <2>2, <2>3, <2>4 DEF R!TypeOK, R!Tracked
  <2> QED
    BY <2>2, <2>3, <2>5 DEF R!Running, R!TerminalStates
<1> QED
  BY <1>1, <1>2

\* A listing drops entries at most, and time touches none.
LEMMA UpkeepFx ==
  ASSUME R!TypeOK, R!List \/ R!Tick
  PROVE  /\ R!TypeOK'
         /\ started' = started
         /\ \A i \in Builds : tasks'[i] = tasks[i] \/ tasks'[i] = R!NoTask
<1>1. CASE R!List
  BY <1>1, NoTaskOK DEF R!List, R!Without, R!TypeOK, R!Tracked, R!NoTask
<1>2. CASE R!Tick
  BY <1>2, BuildAssumption DEF R!Tick, R!TypeOK, R!Tracked
<1> QED
  BY <1>1, <1>2

-----------------------------------------------------------------------------
\* OutcomeBeforeClose holds because the row is closed one step before the channels
\* are: it is so from the moment run has written it.
OutcomeWritten ==
  \A b \in Builds : run[b].pc \in {"written", "report", "over"} => status[b] # "running"

\* TaskIsOwned needs two facts more: a build with no row has no goroutine, so that
\* Start cannot come upon a running task under the new build's id; and a task that
\* runs is that of a build asked for over a socket, which is the one that Report ends.
NotStarted == \A b \in Builds : status[b] = "none" => run[b].pc = "none"

SocketTask == \A b \in Builds : R!Running(b) => run[b].origin = "socket"

BuildInv ==
  TypeOK /\ OutcomeWritten /\ RunningIsOurs /\ TaskIsOwned /\ NotStarted /\ SocketTask

LEMMA InitBuild == Init => BuildInv
<1> SUFFICES ASSUME Init PROVE BuildInv
  OBVIOUS
<1>0. tasks = [b \in Builds |-> R!NoTask] /\ canceled = {} /\ started = 0 /\ now = 0
  BY DEF Init, R!Init
<1>1. R!TypeOK
  BY <1>0, NoTaskOK, BuildAssumption DEF R!TypeOK, R!Tracked, R!NoTask
<1>2. NoRun \in Run /\ NoRun.ctx = 0 /\ NoRun.pc = "none"
  BY BuildAssumption DEF NoRun, Run, Pcs, Origins
<1>3. TypeOK
  <2>0. run = [b \in Builds |-> NoRun]
    BY DEF Init
  <2>1. run \in [Builds -> Run] /\ \A b \in Builds : run[b].ctx <= started
    BY <1>0, <1>2, <2>0
  <2>2. /\ status = [b \in Builds |-> "none"] /\ reason = [b \in Builds |-> ""]
        /\ asked = [b \in Builds |-> "no"] /\ todo = {} /\ phase = "serving"
    BY DEF Init
  <2> QED
    BY <1>1, <1>2, <2>1, <2>2 DEF TypeOK, Reasons
<1>4. OutcomeWritten /\ RunningIsOurs /\ NotStarted
  BY <1>2 DEF Init, OutcomeWritten, RunningIsOurs, NotStarted
<1>5. TaskIsOwned /\ SocketTask
  BY <1>0 DEF TaskIsOwned, SocketTask, R!Running, R!NoTask
<1> QED
  BY <1>3, <1>4, <1>5 DEF BuildInv

\* Finish keeps the columns well formed and makes no row running.
LEMMA FinishFx ==
  ASSUME TypeOK, NEW b \in Builds, NEW outcome \in Outcomes, NEW why \in Reasons,
         FinishRow(b, outcome, why)
  PROVE  /\ status' \in [Builds -> Outcomes \cup {"none", "running", "pruned"}]
         /\ reason' \in [Builds -> Reasons]
         /\ status'[b] # "running"
         /\ \A c \in Builds \ {b} : status'[c] = status[c]
  BY DEF TypeOK, FinishRow, Outcomes

\* One goroutine moves to pc, on context ctx.
MovesTo(b, pc, ctx, origin) ==
  \E r \in Run :
    run' = [run EXCEPT ![b] = r] /\ r.pc = pc /\ r.ctx = ctx /\ r.origin = origin

\* Start's form of it: a new place and an origin.
LEMMA OriginFx ==
  ASSUME run \in [Builds -> Run], NEW b \in Builds, NEW pc \in Pcs, NEW origin \in Origins,
         run' = [run EXCEPT ![b].pc = pc, ![b].origin = origin]
  PROVE  MovesTo(b, pc, run[b].ctx, origin)
<1> DEFINE r == [run[b] EXCEPT !.pc = pc, !.origin = origin]
<1>1. r \in Run
  BY DEF Run
<1>2. r.pc = pc /\ r.ctx = run[b].ctx /\ r.origin = origin
  BY DEF Run
<1>3. run' = [run EXCEPT ![b] = r]
  BY DEF Run
<1> QED
  BY <1>1, <1>2, <1>3 DEF MovesTo

\* The other forms a goroutine's step takes.
LEMMA MoveFx ==
  ASSUME run \in [Builds -> Run], NEW b \in Builds, NEW pc \in Pcs, NEW failure \in BOOLEAN,
         \/ run' = [run EXCEPT ![b].pc = pc]
         \/ run' = [run EXCEPT ![b].pc = pc, ![b].failure = failure]
  PROVE  MovesTo(b, pc, run[b].ctx, run[b].origin)
<1>1. CASE run' = [run EXCEPT ![b].pc = pc]
  <2> DEFINE r == [run[b] EXCEPT !.pc = pc]
  <2>1. r \in Run /\ r.pc = pc /\ r.ctx = run[b].ctx /\ r.origin = run[b].origin
        /\ run' = [run EXCEPT ![b] = r]
    BY <1>1 DEF Run
  <2> QED
    BY <2>1 DEF MovesTo
<1>2. CASE run' = [run EXCEPT ![b].pc = pc, ![b].failure = failure]
  <2> DEFINE r == [run[b] EXCEPT !.pc = pc, !.failure = failure]
  <2>1. r \in Run /\ r.pc = pc /\ r.ctx = run[b].ctx /\ r.origin = run[b].origin
        /\ run' = [run EXCEPT ![b] = r]
    BY <1>2 DEF Run
  <2> QED
    BY <2>1 DEF MovesTo
<1> QED
  BY <1>1, <1>2

\* A step that leaves the registry alone and moves goroutine b from one place
\* where its row may be running to another.
LEMMA LiveStep ==
  ASSUME BuildInv, NEW b \in Builds, NEW pc \in {"refused", "running", "ended"},
         MovesTo(b, pc, run[b].ctx, run[b].origin), run[b].pc \in {"recorded", "running", "ended"},
         ~R!Running(b) \/ pc \in Live,
         UNCHANGED <<registry, status, reason, asked, todo, phase>>
  PROVE  BuildInv'
<1>1. PICK r \in Run : run' = [run EXCEPT ![b] = r] /\ r.pc = pc /\ r.ctx = run[b].ctx
                      /\ r.origin = run[b].origin
  BY DEF MovesTo
<1>2. /\ run' \in [Builds -> Run] /\ run'[b] = r
      /\ \A c \in Builds \ {b} : run'[c] = run[c]
  BY <1>1 DEF BuildInv, TypeOK
<1>3. R!TypeOK' /\ started' = started /\ tasks' = tasks
  BY DEF BuildInv, TypeOK, registry, R!TypeOK, R!Tracked
<1>4. TypeOK'
  BY <1>1, <1>2, <1>3 DEF BuildInv, TypeOK
<1>5. OutcomeWritten' /\ RunningIsOurs' /\ NotStarted'
  BY <1>1, <1>2 DEF BuildInv, OutcomeWritten, RunningIsOurs, NotStarted
<1>6. TaskIsOwned' /\ SocketTask'
  BY <1>1, <1>2, <1>3 DEF BuildInv, TaskIsOwned, SocketTask, R!Running
<1> QED
  BY <1>4, <1>5, <1>6 DEF BuildInv

\* A step in which the registry only forgets or ends tasks, and no goroutine and
\* no row moves: the drawer, the cancel request and the clock.
LEMMA QuietStep ==
  ASSUME BuildInv, R!TypeOK', started' = started, run' = run, status' = status,
         reason' = reason, phase' = phase, todo' = todo,
         asked' \in [Builds -> {"no", "task", "row"}],
         \A c \in Builds : tasks'[c].state = "running" => tasks'[c] = tasks[c]
  PROVE  BuildInv'
<1>1. TypeOK'
  BY DEF BuildInv, TypeOK
<1>2. TaskIsOwned' /\ SocketTask'
  BY DEF BuildInv, TaskIsOwned, SocketTask, R!Running
<1>3. OutcomeWritten' /\ RunningIsOurs' /\ NotStarted'
  BY DEF BuildInv, OutcomeWritten, RunningIsOurs, NotStarted
<1> QED
  BY <1>1, <1>2, <1>3 DEF BuildInv

\* A step that closes or removes the row of b and moves nothing else.
LEMMA RowStepKeeps ==
  ASSUME BuildInv, UNCHANGED <<registry, run>>, NEW b \in Builds,
         status' \in [Builds -> Outcomes \cup {"none", "running", "pruned"}],
         status'[b] # "running", status'[b] = "none" => status[b] = "none",
         \A c \in Builds \ {b} : status'[c] = status[c],
         reason' \in [Builds -> Reasons], asked' \in [Builds -> {"no", "task", "row"}],
         todo' \subseteq Builds, todo \subseteq todo' \cup {b}, phase' = phase
  PROVE  BuildInv'
<1>0. tasks' = tasks /\ started' = started /\ run' = run /\ R!TypeOK'
  BY DEF BuildInv, TypeOK, registry, R!TypeOK, R!Tracked
<1>1. TypeOK'
  BY <1>0 DEF BuildInv, TypeOK
<1>2. TaskIsOwned' /\ SocketTask'
  BY <1>0 DEF BuildInv, TaskIsOwned, SocketTask, R!Running
<1>3. OutcomeWritten' /\ RunningIsOurs' /\ NotStarted'
  BY <1>0 DEF BuildInv, OutcomeWritten, RunningIsOurs, NotStarted
<1> QED
  BY <1>1, <1>2, <1>3 DEF BuildInv

LEMMA StartKeeps ==
  ASSUME BuildInv, NEW b \in Builds, NEW origin \in Origins, Start(b, origin)
  PROVE  BuildInv'
<1>1. R!TypeOK' /\ started' = started /\ tasks' = tasks
  BY DEF BuildInv, TypeOK, Start, registry, R!TypeOK, R!Tracked
<1>2. MovesTo(b, "recorded", run[b].ctx, origin)
  BY OriginFx DEF BuildInv, TypeOK, Start, Pcs
<1>3. PICK r \in Run : run' = [run EXCEPT ![b] = r] /\ r.pc = "recorded" /\ r.ctx = run[b].ctx
  BY <1>2 DEF MovesTo
<1>4. /\ run' \in [Builds -> Run] /\ run'[b] = r
      /\ \A c \in Builds \ {b} : run'[c] = run[c]
  BY <1>3 DEF BuildInv, TypeOK
<1>5. /\ status' = [status EXCEPT ![b] = "running"] /\ status[b] = "none"
      /\ UNCHANGED <<reason, asked, todo, phase>>
  BY DEF Start
<1>6. ~R!Running(b)
  BY <1>5 DEF BuildInv, NotStarted, TaskIsOwned, Live
<1>7. TypeOK'
  BY <1>1, <1>3, <1>4, <1>5 DEF BuildInv, TypeOK
<1>8. OutcomeWritten' /\ RunningIsOurs' /\ NotStarted'
  BY <1>3, <1>4, <1>5 DEF BuildInv, TypeOK, OutcomeWritten, RunningIsOurs, NotStarted
<1>9. TaskIsOwned' /\ SocketTask'
  BY <1>1, <1>4, <1>6 DEF BuildInv, TaskIsOwned, SocketTask, R!Running
<1> QED
  BY <1>7, <1>8, <1>9 DEF BuildInv

\* With a socket the build gets a task on a fresh context; other tasks can only
\* be evicted.
LEMMA BeginKeeps == ASSUME BuildInv, NEW b \in Builds, Begin(b) PROVE BuildInv'
<1>0. /\ run[b].pc = "recorded" /\ UNCHANGED <<status, reason, asked, todo, phase>>
      /\ run \in [Builds -> Run] /\ R!TypeOK
  BY DEF Begin, BuildInv, TypeOK
<1>1. CASE run[b].origin = "socket"
  <2>1. R!StartWithID(b) /\ run' = [run EXCEPT ![b].pc = "running", ![b].ctx = started + 1]
    BY <1>1 DEF Begin
  <2>2. /\ R!TypeOK' /\ started' = started + 1
        /\ tasks'[b].ctx = started + 1
        /\ \A i \in Builds \ {b} : tasks'[i] = tasks[i] \/ tasks'[i] = R!NoTask
    BY <1>0, <2>1, StartFx
  <2>3. started + 1 \in 0..MaxStarts
    BY <2>2 DEF R!TypeOK
  <2> DEFINE r == [run[b] EXCEPT !.pc = "running", !.ctx = started + 1]
  <2>4. r \in Run /\ r.pc = "running" /\ r.ctx = started + 1 /\ r.origin = "socket"
    BY <1>0, <1>1, <2>3 DEF Run, Pcs, Live
  <2>5. run' = [run EXCEPT ![b] = r]
    BY <1>0, <2>1 DEF Run
  <2> HIDE DEF r
  <2>6. run' \in [Builds -> Run] /\ run'[b] = r /\ \A c \in Builds \ {b} : run'[c] = run[c]
    BY <1>0, <2>4, <2>5
  <2>7. TypeOK'
    <3>1. \A c \in Builds : run'[c].ctx <= started'
      <4>1. started \in Nat /\ \A c \in Builds : run[c].ctx \in 0..MaxStarts /\ run[c].ctx <= started
        BY <1>0, BuildAssumption DEF BuildInv, TypeOK, R!TypeOK, Run
      <4> QED
        BY <2>2, <2>4, <2>6, <4>1
    <3> QED
      BY <1>0, <2>2, <2>6, <3>1 DEF BuildInv, TypeOK
  <2>8. OutcomeWritten' /\ RunningIsOurs' /\ NotStarted'
    BY <1>0, <2>4, <2>6 DEF BuildInv, OutcomeWritten, RunningIsOurs, NotStarted
  <2>9. TaskIsOwned' /\ SocketTask'
    BY <2>2, <2>4, <2>6 DEF BuildInv, TaskIsOwned, SocketTask, R!Running, R!NoTask, Live
  <2> QED
    BY <2>7, <2>8, <2>9 DEF BuildInv
<1>2. CASE run[b].origin # "socket"
  <2>1. MovesTo(b, "running", run[b].ctx, run[b].origin) /\ UNCHANGED registry
    <3>1. run' = [run EXCEPT ![b].pc = "running"] /\ UNCHANGED registry
      BY <1>2 DEF Begin
    <3> QED
      BY <1>0, <3>1, MoveFx DEF Pcs, Live
  <2> QED
    BY <1>0, <2>1, LiveStep DEF Live
<1> QED
  BY <1>1, <1>2

\* The outcome is on the row before the goroutine reaches its last places.
LEMMA RecordKeeps == ASSUME BuildInv, NEW b \in Builds, Record(b) PROVE BuildInv'
<1>0. /\ run[b].pc = "ended" /\ UNCHANGED <<registry, asked, todo, phase>>
      /\ run \in [Builds -> Run] /\ TypeOK
  BY DEF Record, BuildInv, TypeOK
<1>1. R!TypeOK' /\ started' = started /\ tasks' = tasks
  BY <1>0 DEF BuildInv, TypeOK, registry, R!TypeOK, R!Tracked
<1>2. PICK outcome \in Outcomes, why \in Reasons : FinishRow(b, outcome, why)
  BY DEF Record, Outcomes, Reasons
<1>3. /\ status' \in [Builds -> Outcomes \cup {"none", "running", "pruned"}]
      /\ reason' \in [Builds -> Reasons] /\ status'[b] # "running"
      /\ \A c \in Builds \ {b} : status'[c] = status[c]
  BY <1>0, <1>2, FinishFx
<1>4. status'[b] = "none" => status[b] = "none"
  BY <1>0, <1>2 DEF FinishRow, TypeOK, Outcomes
<1>5. MovesTo(b, "written", run[b].ctx, run[b].origin)
  <2>1. (run[b].failure /\ ~Dead(b)) \in BOOLEAN
    BY DEF Dead
  <2>2. run' = [run EXCEPT ![b].pc = "written", ![b].failure = run[b].failure /\ ~Dead(b)]
    BY DEF Record
  <2>3. PICK f \in BOOLEAN : run' = [run EXCEPT ![b].pc = "written", ![b].failure = f]
    BY <2>1, <2>2
  <2> QED
    BY <1>0, <2>3, MoveFx DEF Pcs, Live
<1>6. PICK r \in Run : run' = [run EXCEPT ![b] = r] /\ r.pc = "written" /\ r.ctx = run[b].ctx
                      /\ r.origin = run[b].origin
  BY <1>5 DEF MovesTo
<1>7. /\ run' \in [Builds -> Run] /\ run'[b] = r
      /\ \A c \in Builds \ {b} : run'[c] = run[c]
  BY <1>0, <1>6
<1>8. TypeOK'
  BY <1>0, <1>1, <1>3, <1>6, <1>7 DEF TypeOK
<1>9. OutcomeWritten' /\ RunningIsOurs' /\ NotStarted'
  BY <1>0, <1>3, <1>4, <1>6, <1>7 DEF BuildInv, OutcomeWritten, RunningIsOurs, NotStarted
<1>10. TaskIsOwned' /\ SocketTask'
  BY <1>0, <1>1, <1>6, <1>7 DEF BuildInv, TaskIsOwned, SocketTask, R!Running, Live
<1> QED
  BY <1>8, <1>9, <1>10 DEF BuildInv

\* The channels close over a row that has its outcome; only a build without a
\* task is over then.
LEMMA CloseStreamKeeps == ASSUME BuildInv, NEW b \in Builds, CloseStream(b) PROVE BuildInv'
<1>0. /\ run[b].pc = "written" /\ UNCHANGED <<registry, status, reason, asked, todo, phase>>
      /\ run \in [Builds -> Run] /\ TypeOK
  BY DEF CloseStream, BuildInv, TypeOK
<1>1. R!TypeOK' /\ started' = started /\ tasks' = tasks
  BY <1>0 DEF BuildInv, TypeOK, registry, R!TypeOK, R!Tracked
<1>2. PICK pc \in {"report", "over"} :
        run' = [run EXCEPT ![b].pc = pc] /\ (pc = "over" => run[b].origin # "socket")
  BY DEF CloseStream
<1>3. MovesTo(b, pc, run[b].ctx, run[b].origin)
  BY <1>0, <1>2, MoveFx DEF Pcs
<1>4. PICK r \in Run : run' = [run EXCEPT ![b] = r] /\ r.pc = pc /\ r.ctx = run[b].ctx
                      /\ r.origin = run[b].origin
  BY <1>3 DEF MovesTo
<1>5. /\ run' \in [Builds -> Run] /\ run'[b] = r
      /\ \A c \in Builds \ {b} : run'[c] = run[c]
  BY <1>0, <1>4
<1>6. TypeOK'
  BY <1>0, <1>1, <1>4, <1>5 DEF TypeOK
<1>7. OutcomeWritten' /\ RunningIsOurs' /\ NotStarted'
  BY <1>0, <1>4, <1>5 DEF BuildInv, OutcomeWritten, RunningIsOurs, NotStarted
<1>8. TaskIsOwned' /\ SocketTask'
  BY <1>1, <1>2, <1>4, <1>5 DEF BuildInv, TaskIsOwned, SocketTask, R!Running
<1> QED
  BY <1>6, <1>7, <1>8 DEF BuildInv

\* The task ends with the goroutine.
LEMMA ReportKeeps == ASSUME BuildInv, NEW b \in Builds, Report(b) PROVE BuildInv'
<1>0. /\ run[b].pc = "report" /\ UNCHANGED <<status, reason, asked, todo, phase>>
      /\ run \in [Builds -> Run] /\ R!TypeOK /\ run' = [run EXCEPT ![b].pc = "over"]
  BY DEF Report, BuildInv, TypeOK
<1>1. /\ R!TypeOK' /\ started' = started /\ ~R!Running(b)'
      /\ \A i \in Builds \ {b} : tasks'[i] = tasks[i]
  <2>1. PICK err \in {"nil", "canceled", "other"} : R!Finish(b, err)
    BY DEF Report
  <2> QED
    BY <1>0, <2>1, EndFx
<1>2. PICK r \in Run : run' = [run EXCEPT ![b] = r] /\ r.pc = "over" /\ r.ctx = run[b].ctx
                      /\ r.origin = run[b].origin
  <2>2. MovesTo(b, "over", run[b].ctx, run[b].origin)
    BY <1>0, MoveFx DEF Pcs
  <2> QED
    BY <2>2 DEF MovesTo
<1>3. /\ run' \in [Builds -> Run] /\ run'[b] = r
      /\ \A c \in Builds \ {b} : run'[c] = run[c]
  BY <1>0, <1>2
<1>4. TypeOK'
  BY <1>0, <1>1, <1>2, <1>3 DEF BuildInv, TypeOK
<1>5. OutcomeWritten' /\ RunningIsOurs' /\ NotStarted'
  BY <1>0, <1>2, <1>3 DEF BuildInv, OutcomeWritten, RunningIsOurs, NotStarted
<1>6. TaskIsOwned' /\ SocketTask'
  BY <1>1, <1>2, <1>3 DEF BuildInv, TaskIsOwned, SocketTask, R!Running
<1> QED
  BY <1>4, <1>5, <1>6 DEF BuildInv

LEMMA ExpireKeeps == ASSUME BuildInv, NEW b \in Builds, Expire(b) PROVE BuildInv'
<1>0. /\ UNCHANGED <<registry, status, reason, asked, todo, phase>>
      /\ run \in [Builds -> Run] /\ run' = [run EXCEPT ![b].expired = TRUE]
  BY DEF Expire, BuildInv, TypeOK
<1>1. R!TypeOK' /\ started' = started /\ tasks' = tasks
  BY <1>0 DEF BuildInv, TypeOK, registry, R!TypeOK, R!Tracked
<1>2. run' \in [Builds -> Run] /\ \A c \in Builds : run'[c].pc = run[c].pc
                                  /\ run'[c].ctx = run[c].ctx /\ run'[c].origin = run[c].origin
  BY <1>0 DEF Run
<1>3. TypeOK'
  BY <1>0, <1>1, <1>2 DEF BuildInv, TypeOK
<1> QED
  BY <1>0, <1>1, <1>2, <1>3
     DEF BuildInv, OutcomeWritten, RunningIsOurs, NotStarted, TaskIsOwned, SocketTask, R!Running

\* A reconciliation that may read as many rows as there are builds reads all of
\* them.
LEMMA ListKeeps == ASSUME BuildInv, ListRunning PROVE BuildInv'
<1>0. UNCHANGED <<registry, status, reason, run, asked>> /\ phase' = "reconciling"
  BY DEF ListRunning
<1>1. R!TypeOK' /\ started' = started /\ tasks' = tasks /\ run' = run /\ status' = status
  BY <1>0 DEF BuildInv, TypeOK, registry, R!TypeOK, R!Tracked
<1>2. todo' \subseteq RunningRows /\ RunningRows \subseteq Builds
  BY DEF ListRunning, RunningRows
<1>3. Cardinality(Builds) <= ReconcileLimit => todo' = RunningRows
  <2> SUFFICES ASSUME Cardinality(Builds) <= ReconcileLimit, todo' # RunningRows,
                      Cardinality(todo') = ReconcileLimit
               PROVE  FALSE
    BY DEF ListRunning
  <2>1. PICK b \in Builds : b \notin todo'
    BY <1>2
  <2>2. todo' \subseteq Builds \ {b}
    BY <1>2, <2>1
  <2>3. /\ IsFiniteSet(Builds \ {b}) /\ Cardinality(Builds \ {b}) = Cardinality(Builds) - 1
        /\ Cardinality(Builds) \in Nat
    BY BuildAssumption, FS_RemoveElement, FS_CardinalityType
  <2>4. Cardinality(todo') <= Cardinality(Builds \ {b}) /\ Cardinality(todo') \in Nat
    BY <2>2, <2>3, FS_Subset, FS_CardinalityType
  <2> QED
    BY <2>3, <2>4, BuildAssumption
<1>4. TypeOK'
  BY <1>0, <1>1, <1>2 DEF BuildInv, TypeOK
<1>5. RunningIsOurs'
  BY <1>1, <1>3 DEF RunningIsOurs, RunningRows
<1> QED
  BY <1>1, <1>4, <1>5 DEF BuildInv, OutcomeWritten, NotStarted, TaskIsOwned, SocketTask, R!Running

LEMMA CrashKeeps == ASSUME BuildInv, Crash PROVE BuildInv'
<1>0. /\ tasks' = [b \in Builds |-> R!NoTask] /\ canceled' = {} /\ phase' = "starting"
      /\ todo' = {} /\ UNCHANGED <<started, now, status, reason>>
      /\ asked' = [b \in Builds |-> "no"]
  BY DEF Crash
<1>1. R!TypeOK'
  BY <1>0, NoTaskOK DEF BuildInv, TypeOK, R!TypeOK, R!Tracked, R!NoTask
<1>2. run' \in [Builds -> Run] /\ \A c \in Builds : run'[c].pc = "none" /\ run'[c].ctx = 0
  <2>0. NoRun \in Run /\ NoRun.pc = "none" /\ NoRun.ctx = 0
    BY BuildAssumption DEF NoRun, Run, Pcs, Origins
  <2>1. ASSUME NEW o \in Origins
        PROVE  /\ [NoRun EXCEPT !.origin = o] \in Run
               /\ [NoRun EXCEPT !.origin = o].pc = "none"
               /\ [NoRun EXCEPT !.origin = o].ctx = 0
    BY <2>0 DEF Run
  <2>2. \A c \in Builds : run[c].origin \in Origins
    BY DEF BuildInv, TypeOK, Run
  <2>3. run' = [b \in Builds |-> [NoRun EXCEPT !.origin = run[b].origin]]
    BY DEF Crash
  <2> QED
    BY <2>1, <2>2, <2>3
<1>3. started \in Nat
  BY BuildAssumption DEF BuildInv, TypeOK, R!TypeOK
<1>4. TypeOK'
  BY <1>0, <1>1, <1>2, <1>3 DEF BuildInv, TypeOK
<1>5. OutcomeWritten' /\ RunningIsOurs' /\ NotStarted'
  BY <1>0, <1>2 DEF OutcomeWritten, RunningIsOurs, NotStarted
<1>6. TaskIsOwned' /\ SocketTask'
  BY <1>0 DEF TaskIsOwned, SocketTask, R!Running, R!NoTask
<1> QED
  BY <1>4, <1>5, <1>6 DEF BuildInv

LEMMA NextKeeps == BuildInv /\ [Next]_vars => BuildInv'
<1> SUFFICES ASSUME BuildInv, [Next]_vars PROVE BuildInv'
  OBVIOUS
<1>0. /\ TypeOK /\ R!TypeOK /\ run \in [Builds -> Run] /\ todo \subseteq Builds
      /\ status \in [Builds -> Outcomes \cup {"none", "running", "pruned"}]
      /\ reason \in [Builds -> Reasons] /\ asked \in [Builds -> {"no", "task", "row"}]
  BY DEF BuildInv, TypeOK
<1>1. ASSUME NEW b \in Builds, NEW origin \in Origins, Start(b, origin)
      PROVE BuildInv'
  BY <1>1, StartKeeps
<1>2. ASSUME NEW b \in Builds, Begin(b) PROVE BuildInv'
  BY <1>2, BeginKeeps
<1>3. ASSUME NEW b \in Builds, Refuse(b) PROVE BuildInv'
  <2>2. MovesTo(b, "refused", run[b].ctx, run[b].origin)
    BY <1>0, <1>3, MoveFx DEF Refuse, Pcs
  <2>3. ~R!Running(b)
    BY <1>3 DEF Refuse, BuildInv, TaskIsOwned, Live
  <2> QED
    BY <1>3, <2>2, <2>3, LiveStep DEF Refuse
<1>4. ASSUME NEW b \in Builds, NEW f \in BOOLEAN,
             run[b].pc = "running", run' = [run EXCEPT ![b].pc = "ended", ![b].failure = f],
             UNCHANGED <<registry, status, reason, asked, todo, phase>>
      PROVE BuildInv'
  <2>2. MovesTo(b, "ended", run[b].ctx, run[b].origin)
    BY <1>0, <1>4, MoveFx DEF Pcs, Live
  <2> QED
    BY <1>4, <2>2, LiveStep DEF Live
<1>5. ASSUME NEW b \in Builds, NEW f \in BOOLEAN, EngineEnds(b, f) \/ Interrupted(b)
      PROVE BuildInv'
  BY <1>4, <1>5 DEF EngineEnds, Interrupted
<1>6. ASSUME NEW b \in Builds, Record(b) \/ CloseStream(b) \/ Report(b) \/ Expire(b)
      PROVE BuildInv'
  BY <1>6, RecordKeeps, CloseStreamKeeps, ReportKeeps, ExpireKeeps
<1>7. ASSUME NEW b \in Builds, AskCancel(b) PROVE BuildInv'
  <2>1. R!TypeOK' /\ UNCHANGED <<tasks, started, status, reason, run, todo, phase>>
    BY <1>0, <1>7 DEF AskCancel, registry, R!TypeOK, R!Tracked
  <2>2. asked' \in [Builds -> {"no", "task", "row"}]
    BY <1>0, <1>7 DEF AskCancel
  <2> QED
    BY <2>1, <2>2, QuietStep
<1>8. ASSUME NEW b \in Builds, R!Cancel(b), UNCHANGED <<status, reason, run, todo, phase>>,
             asked' \in [Builds -> {"no", "task", "row"}]
      PROVE BuildInv'
  <2>1. /\ R!TypeOK' /\ started' = started /\ ~R!Running(b)'
        /\ \A i \in Builds \ {b} : tasks'[i] = tasks[i]
    BY <1>0, <1>8, EndFx
  <2> QED
    BY <1>8, <2>1, QuietStep DEF R!Running
<1>9. ASSUME NEW b \in Builds, CancelTask(b) PROVE BuildInv'
  BY <1>0, <1>8, <1>9 DEF CancelTask
<1>10. CASE Drawer
  <2>1. UNCHANGED <<status, reason, run, asked, todo, phase>>
    BY <1>10 DEF Drawer
  <2>2. CASE R!List \/ R!Tick
    BY <1>0, <2>1, <2>2, UpkeepFx, QuietStep DEF R!NoTask
  <2> QED
    BY <1>0, <1>8, <1>10, <2>1, <2>2 DEF Drawer
<1>11. ASSUME NEW b \in Builds, NEW why \in Reasons, FinishRow(b, "canceled", why),
              UNCHANGED <<registry, run, phase>>, todo' \subseteq Builds,
              todo \subseteq todo' \cup {b}, asked' \in [Builds -> {"no", "task", "row"}]
       PROVE BuildInv'
  <2>1. /\ status' \in [Builds -> Outcomes \cup {"none", "running", "pruned"}]
        /\ reason' \in [Builds -> Reasons] /\ status'[b] # "running"
        /\ \A c \in Builds \ {b} : status'[c] = status[c]
    BY <1>0, <1>11, FinishFx DEF Outcomes
  <2>2. status'[b] = "none" => status[b] = "none"
    BY <1>0, <1>11 DEF FinishRow
  <2> QED
    BY <1>11, <2>1, <2>2, RowStepKeeps
<1>12. ASSUME NEW b \in Builds, CloseRow(b) PROVE BuildInv'
  BY <1>0, <1>11, <1>12 DEF CloseRow, Reasons
<1>13. ASSUME NEW b \in Builds, ReconcileRunning(b) PROVE BuildInv'
  BY <1>0, <1>11, <1>13 DEF ReconcileRunning, Reasons
<1>14. ASSUME NEW b \in Builds, Prune(b) PROVE BuildInv'
  <2>1. /\ status' = [status EXCEPT ![b] = "pruned"]
        /\ UNCHANGED <<registry, reason, run, asked, todo, phase>>
    BY <1>14 DEF Prune
  <2> QED
    BY <1>0, <2>1, RowStepKeeps
<1>15. CASE Serve
  <2>1. R!TypeOK' /\ tasks' = tasks /\ started' = started
    BY <1>0, <1>15 DEF Serve, registry, R!TypeOK, R!Tracked
  <2> QED
    BY <1>0, <1>15, <2>1
       DEF Serve, BuildInv, TypeOK, OutcomeWritten, RunningIsOurs, NotStarted, TaskIsOwned,
           SocketTask, R!Running
<1>16. CASE UNCHANGED vars
  <2>1. R!TypeOK'
    BY <1>0, <1>16 DEF vars, R!TypeOK, R!Tracked
  <2> QED
    BY <1>0, <1>16, <2>1, QuietStep DEF vars
<1> QED
  BY <1>1, <1>2, <1>3, <1>5, <1>6, <1>7, <1>9, <1>10, <1>12, <1>13, <1>14, <1>15, <1>16,
     CrashKeeps, ListKeeps
     DEF Next

\* For any number of builds: a stream closes only over a row that has its outcome,
\* a row that says "running" belongs to this process once it has reconciled, and
\* a task shown as running has a goroutine that will finish it.
THEOREM BuildSafe == Spec => [](TypeOK /\ OutcomeBeforeClose /\ RunningIsOurs /\ TaskIsOwned)
<1>1. BuildInv => TypeOK /\ OutcomeBeforeClose /\ RunningIsOurs /\ TaskIsOwned
  BY DEF BuildInv, OutcomeWritten, OutcomeBeforeClose
<1> QED
  BY <1>1, InitBuild, NextKeeps, PTL DEF Spec
=============================================================================
