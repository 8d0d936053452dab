---------------------------- MODULE TaskRegistry ----------------------------
(***************************************************************************)
(* The in-memory registry of long-running operations                       *)
(* (internal/service/tasks.go): the map behind the task drawer, the cancel *)
(* handle of every running pull, build and deploy, and the busy flag that  *)
(* keeps two operations off one stack.                                     *)
(*                                                                         *)
(* Every method holds the registry's mutex for its whole body, so each is  *)
(* one action.  The module allows any caller to call any method at any     *)
(* time; StackDeploy and BuildRun compose it with the callers that exist.  *)
(*                                                                         *)
(* A task is identified by the context StartWithID made for it: the id is  *)
(* reused (a stack's tasks are all keyed by the stack's id), the context   *)
(* never is.                                                               *)
(***************************************************************************)
EXTENDS Integers, FiniteSets

CONSTANTS Ids,        \* the ids tasks are registered under
          MaxTasks,   \* maxTasks
          Retention,  \* taskRetention
          Percents,   \* the percentages a caller reports
          MaxStarts,  \* bound: how many contexts are handed out
          MaxTime     \* bound: how far the clock goes

ASSUME RegistryAssumption ==
  /\ IsFiniteSet(Ids)
  /\ MaxTasks \in Nat
  /\ Retention \in Nat
  /\ Percents \subseteq Int
  /\ MaxStarts \in Nat
  /\ MaxTime \in Nat

VARIABLES tasks,      \* the map, as a total function: an id with no entry is NoTask
          canceled,   \* the contexts whose cancel function the registry has called
          started,    \* how many contexts StartWithID has made
          now         \* the clock

registryVars == <<tasks, canceled, started, now>>

-----------------------------------------------------------------------------
TerminalStates == {"succeeded", "failed", "canceled"}

Terminal(state) == state \in TerminalStates

NoTask == [state |-> "absent", progress |-> -1, finishedAt |-> 0, ctx |-> 0]

Progresses == Percents \cup {-1, 100}

Task == [state : TerminalStates \cup {"absent", "running"},
         progress : Progresses,
         finishedAt : 0..MaxTime,
         ctx : 0..MaxStarts]

Tracked(ts) == {id \in Ids : ts[id].state # "absent"}

Finished(ts) == {id \in Ids : Terminal(ts[id].state)}

Running(id) == tasks[id].state = "running"

Without(ts, dropped) == [id \in Ids |-> IF id \in dropped THEN NoTask ELSE ts[id]]

\* Mutant: the cap is reached one task late.
ExcessLate(ts) == Cardinality(Tracked(ts)) - MaxTasks - 1

\* evictLocked: while the map is over the cap, the task that finished longest
\* ago goes; a running task never does.  Equal times are in no order.
Excess(ts) == Cardinality(Tracked(ts)) - MaxTasks

\* Mutant: the oldest entry goes, running or not.
EvictableAny(ts) ==
  {d \in SUBSET Tracked(ts) : Cardinality(d) = IF Excess(ts) > 0 THEN Excess(ts) ELSE 0}

Evictable(ts) ==
  {d \in SUBSET Finished(ts) :
     /\ \A e \in d, k \in Finished(ts) \ d : ts[e].finishedAt <= ts[k].finishedAt
     /\ IF Excess(ts) <= 0 THEN d = {}
        ELSE \/ Cardinality(d) = Excess(ts)
             \/ Cardinality(d) < Excess(ts) /\ d = Finished(ts)}

-----------------------------------------------------------------------------
Init ==
  /\ tasks = [id \in Ids |-> NoTask]
  /\ canceled = {}
  /\ started = 0
  /\ now = 0

\* Registers a running task under id, over whatever was registered there.
StartWithID(id) ==
  LET ts == [tasks EXCEPT ![id] = [state |-> "running", progress |-> -1,
                                   finishedAt |-> 0, ctx |-> started + 1]]
  IN /\ started < MaxStarts
     /\ started' = started + 1
     /\ \E dropped \in Evictable(ts) : tasks' = Without(ts, dropped)
     /\ UNCHANGED <<canceled, now>>

\* Mutant: a late line is recorded all the same.
ProgressLate(id, percent) ==
  /\ tasks' = IF id \in Tracked(tasks) THEN [tasks EXCEPT ![id].progress = percent] ELSE tasks
  /\ UNCHANGED <<canceled, started, now>>

\* A progress line for a task that has finished is ignored.
Progress(id, percent) ==
  /\ tasks' = IF Running(id) THEN [tasks EXCEPT ![id].progress = percent] ELSE tasks
  /\ UNCHANGED <<canceled, started, now>>

\* The terminal state a call of Finish with error err leads to.
Outcome(err) == IF err = "nil" THEN "succeeded"
                ELSE IF err = "canceled" THEN "canceled" ELSE "failed"

\* Mutant: the context is not released.
FinishKeepingContext(id, err) ==
  /\ tasks' = IF Running(id)
              THEN [tasks EXCEPT ![id].state = Outcome(err), ![id].finishedAt = now]
              ELSE tasks
  /\ UNCHANGED <<canceled, started, now>>

Finish(id, err) ==
  /\ IF Running(id)
     THEN /\ tasks' = [tasks EXCEPT
               ![id].state = Outcome(err),
               ![id].progress = IF err = "nil" THEN 100 ELSE @,
               ![id].finishedAt = now]
          /\ canceled' = canceled \cup {tasks[id].ctx}
     ELSE UNCHANGED <<tasks, canceled>>
  /\ UNCHANGED <<started, now>>

\* Mutant: an id that is not registered is not looked for.
CancelUnknown(id) ==
  /\ tasks' = IF Terminal(tasks[id].state) THEN tasks
              ELSE [tasks EXCEPT ![id].state = "canceled", ![id].finishedAt = now]
  /\ canceled' = canceled \cup ({tasks[id].ctx} \ {0})
  /\ UNCHANGED <<started, now>>

\* ErrTaskNotFound and ErrTaskFinished change nothing; the state is terminal
\* as soon as the context is canceled, whether or not the work has stopped.
Cancel(id) ==
  /\ IF Running(id)
     THEN /\ tasks' = [tasks EXCEPT ![id].state = "canceled", ![id].finishedAt = now]
          /\ canceled' = canceled \cup {tasks[id].ctx}
     ELSE UNCHANGED <<tasks, canceled>>
  /\ UNCHANGED <<started, now>>

\* Mutant: a task goes a tick early.
ExpiredEarly == {id \in Finished(tasks) : now - tasks[id].finishedAt >= Retention}

\* sweepLocked: what a listing drops before it answers.
Expired == {id \in Finished(tasks) : now - tasks[id].finishedAt > Retention}

List ==
  /\ tasks' = Without(tasks, Expired)
  /\ UNCHANGED <<canceled, started, now>>

Tick ==
  /\ now < MaxTime
  /\ now' = now + 1
  /\ UNCHANGED <<tasks, canceled, started>>

Next ==
  \/ \E id \in Ids : StartWithID(id)
  \/ \E id \in Ids, percent \in Percents : Progress(id, percent)
  \/ \E id \in Ids, err \in {"nil", "canceled", "other"} : Finish(id, err)
  \/ \E id \in Ids : Cancel(id)
  \/ List
  \/ Tick

Spec == Init /\ [][Next]_registryVars

-----------------------------------------------------------------------------
\* Every entry is a task, and every context in use is one StartWithID made.
TypeOK ==
  /\ tasks \in [Ids -> Task]
  /\ started \in 0..MaxStarts
  /\ now \in 0..MaxTime
  /\ canceled \subseteq 1..started
  /\ \A id \in Tracked(tasks) : tasks[id].ctx \in 1..started

\* The state the drawer shows and the handle the work obeys never disagree: a
\* tracked task is terminal exactly when the registry has canceled its context.
CanceledIffTerminal ==
  \A id \in Tracked(tasks) : Terminal(tasks[id].state) <=> tasks[id].ctx \in canceled

\* Two entries never share a context, so canceling one task cannot stop another:
\* what makes CanceledIffTerminal inductive.
ContextsDistinct ==
  \A i, j \in Tracked(tasks) : tasks[i].ctx = tasks[j].ctx => i = j

\* Nothing but a new task under the same id takes a running task out of the
\* registry: eviction and the retention sweep leave it cancelable.
RunningIsKept ==
  [][\A id \in Ids : Running(id) => tasks'[id].state # "absent"]_registryVars

\* A finished task stays what it was: a late progress line, a second Finish or
\* a cancel of the same task does not touch it, for as long as it is tracked.
FinishedIsFinal ==
  [][\A id \in Finished(tasks) :
       \/ tasks'[id] = tasks[id]
       \/ tasks'[id] = NoTask
       \/ tasks'[id].ctx > started]_registryVars

\* A start that finds the registry full leaves no more than the cap behind,
\* except where every task left is one still running.
CapHolds ==
  [][started' > started =>
       \/ Cardinality(Tracked(tasks')) <= MaxTasks
       \/ Finished(tasks') = {}]_registryVars

\* A task that finished within the retention is dropped by a start over the cap
\* and by nothing else: a listing keeps it.
RecentIsKept ==
  [][\A id \in Finished(tasks) :
       (tasks'[id] = NoTask /\ now - tasks[id].finishedAt <= Retention)
         => started' > started]_registryVars
=============================================================================
