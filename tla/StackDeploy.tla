---------------------------- MODULE StackDeploy ----------------------------
(***************************************************************************)
(* The life cycle of a compose stack's operations                          *)
(* (internal/service/stackup.go, internal/server/handlers/stacks.go,       *)
(* internal/store/stacks.go): deploys, pulls and scales that claim the     *)
(* stack in the task registry and outlive the request that started them,   *)
(* down, stop and start that do not claim it, the deadline, the cancel     *)
(* button, the death of the daemon and the reconciliation at its next      *)
(* start.                                                                  *)
(*                                                                         *)
(* A process is one operation in flight.  Every statement on the database  *)
(* and every call of the registry is a step of its own; what the engine    *)
(* does for an operation is one step, Work, that can end in any way.       *)
(***************************************************************************)
EXTENDS Integers, FiniteSets

CONSTANTS Stacks, Procs,
          MaxTasks, Retention,
          MaxStarts, MaxTime      \* bounds: claims handed out, ticks of the clock

ASSUME DeployAssumption ==
  /\ Stacks # {} /\ IsFiniteSet(Stacks)
  /\ MaxTasks \in Nat /\ Retention \in Nat
  /\ MaxStarts \in Nat /\ MaxTime \in Nat

VARIABLES tasks, canceled, started, now,  \* the task registry
          row,     \* the status column of each stack
          ops,     \* the operation each process carries
          todo,    \* the rows the reconciliation has yet to close
          phase    \* what the daemon is doing

registry == <<tasks, canceled, started, now>>
vars == <<tasks, canceled, started, now, row, ops, todo, phase>>

R == INSTANCE TaskRegistry WITH Ids <- Stacks, Percents <- {}

\* A scale claims the stack and leaves its status alone, as a pull does; down
\* and stop leave it "stopped", start and restart "deployed".
Claiming == {"up", "pull"}
Unclaimed == {"stop", "start"}

Statuses == {"created", "deploying", "deployed", "failed", "stopped"}
Errs == {"nil", "canceled", "other"}

\* Where a claiming operation stands between its claim and its release.
Holding == {"begin", "plan", "work", "record", "done"}
Pcs == {"idle", "check", "register", "act"} \cup Holding

Idle == [pc |-> "idle", kind |-> "none", stack |-> CHOOSE s \in Stacks : TRUE,
         ctx |-> 0, expired |-> FALSE, err |-> "nil"]

Op == [pc : Pcs, kind : Claiming \cup Unclaimed \cup {"none"}, stack : Stacks,
       ctx : 0..MaxStarts, expired : BOOLEAN, err : Errs]

Exists(s) == row[s] \in Statuses

\* Mutant: the deadline is not carried into the work.
DeadIfCanceled(p) == ops[p].ctx \in canceled

\* ctx.Err() # nil for the operation's context: its task was canceled or
\* finished, or its deadline has passed.
Dead(p) == ops[p].ctx \in canceled \/ ops[p].expired

Goto(p, pc) == ops' = [ops EXCEPT ![p].pc = pc]

\* The operation is over, with an error or without.
Ends(p, err) == ops' = [ops EXCEPT ![p].pc = "record", ![p].err = err]

-----------------------------------------------------------------------------
Init ==
  /\ R!Init
  /\ row = [s \in Stacks |-> "none"]
  /\ ops = [p \in Procs |-> Idle]
  /\ todo = {}
  /\ phase = "serving"

Create(s) ==
  /\ phase = "serving"
  /\ row[s] = "none"
  /\ row' = [row EXCEPT ![s] = "created"]
  /\ UNCHANGED <<registry, ops, todo, phase>>

\* The record goes, whatever runs on the stack; its id is never used again.
Delete(s) ==
  /\ phase = "serving"
  /\ Exists(s)
  /\ row' = [row EXCEPT ![s] = "deleted"]
  /\ UNCHANGED <<registry, ops, todo, phase>>

\* Mutant: the status is written as an upsert.
SetStatusUpsert(s, status) == row' = [row EXCEPT ![s] = status]

\* UPDATE ... WHERE id = ?: a deleted stack is ErrNotFound and stays deleted.
SetStatus(s, status) ==
  row' = IF Exists(s) THEN [row EXCEPT ![s] = status] ELSE row

\* A handler loads the stack an operation is about.
Request(p, kind, s) ==
  /\ phase = "serving"
  /\ ops[p].pc = "idle"
  /\ Exists(s)
  /\ ops' = [ops EXCEPT ![p].pc = IF kind \in Claiming THEN "check" ELSE "act",
                        ![p].kind = kind, ![p].stack = s]
  /\ UNCHANGED <<registry, row, todo, phase>>

\* claim: a stack whose task is still running is busy, and the request refused.
Check(p) ==
  /\ ops[p].pc = "check"
  /\ IF R!Running(ops[p].stack)
     THEN ops' = [ops EXCEPT ![p] = Idle]
     ELSE Goto(p, "register")
  /\ UNCHANGED <<registry, row, todo, phase>>

\* Mutant: the work runs on the context of the task before.
RegisterStale(p) ==
  /\ ops[p].pc = "register"
  /\ R!StartWithID(ops[p].stack)
  /\ ops' = [ops EXCEPT ![p].ctx = started,
                        ![p].pc = IF ops[p].kind = "up" THEN "begin" ELSE "plan"]
  /\ UNCHANGED <<row, todo, phase>>

\* claim: the task is registered under the stack's id, over whatever is there.
Register(p) ==
  /\ ops[p].pc = "register"
  /\ R!StartWithID(ops[p].stack)
  /\ ops' = [ops EXCEPT ![p].ctx = started + 1,
                        ![p].pc = IF ops[p].kind = "up" THEN "begin" ELSE "plan"]
  /\ UNCHANGED <<row, todo, phase>>

\* up marks the stack as deploying, on the deploy's own context.
Begin(p) ==
  /\ ops[p].pc = "begin"
  /\ IF Dead(p) \/ ~Exists(ops[p].stack)
     THEN Ends(p, "other") /\ UNCHANGED row
     ELSE SetStatus(ops[p].stack, "deploying") /\ Goto(p, "plan")
  /\ UNCHANGED <<registry, todo, phase>>

\* The compose file is read and every refusal collected before any work.
Plan(p) ==
  /\ ops[p].pc = "plan"
  /\ Goto(p, "work") \/ Ends(p, "other")
  /\ UNCHANGED <<registry, row, todo, phase>>

\* The engine's part: it succeeds, or fails, or is cut short by the context.
Work(p) ==
  /\ ops[p].pc = "work"
  /\ \/ Ends(p, "nil")
     \/ Ends(p, "other")
     \/ ops[p].ctx \in canceled /\ Ends(p, "canceled")
  /\ UNCHANGED <<registry, row, todo, phase>>

\* Mutant: a deploy that was cut short records nothing.
RecordUnlessDead(p) ==
  /\ ops[p].pc = "record"
  /\ IF ops[p].kind = "up" /\ ~Dead(p)
     THEN SetStatus(ops[p].stack, IF ops[p].err = "nil" THEN "deployed" ELSE "failed")
     ELSE UNCHANGED row
  /\ Goto(p, "done")
  /\ UNCHANGED <<registry, todo, phase>>

\* A deploy's outcome is written on a context nothing cancels; a pull and a
\* scale leave the status alone.
Record(p) ==
  /\ ops[p].pc = "record"
  /\ IF ops[p].kind = "up"
     THEN SetStatus(ops[p].stack, IF ops[p].err = "nil" THEN "deployed" ELSE "failed")
     ELSE UNCHANGED row
  /\ Goto(p, "done")
  /\ UNCHANGED <<registry, todo, phase>>

\* Mutant: a deploy that failed does not release the stack.
DoneIfSucceeded(p) ==
  /\ ops[p].pc = "done"
  /\ IF ops[p].err = "nil" THEN R!Finish(ops[p].stack, "nil") ELSE UNCHANGED registry
  /\ ops' = [ops EXCEPT ![p] = Idle]
  /\ UNCHANGED <<row, todo, phase>>

\* The deferred calls: the claim is released, and then the channels close.
Done(p) ==
  /\ ops[p].pc = "done"
  /\ R!Finish(ops[p].stack, "nil")
  /\ ops' = [ops EXCEPT ![p] = Idle]
  /\ UNCHANGED <<row, todo, phase>>

\* Down and Act run on the request's context and claim nothing.  They write the
\* status when the engine could be asked, unless the client has gone by then.
Act(p) ==
  /\ ops[p].pc = "act"
  /\ \/ SetStatus(ops[p].stack, IF ops[p].kind = "start" THEN "deployed" ELSE "stopped")
     \/ UNCHANGED row
  /\ ops' = [ops EXCEPT ![p] = Idle]
  /\ UNCHANGED <<registry, todo, phase>>

\* stackTimeout passes.
Expire(p) ==
  /\ ops[p].pc \in Holding
  /\ ~ops[p].expired
  /\ ops' = [ops EXCEPT ![p].expired = TRUE]
  /\ UNCHANGED <<registry, row, todo, phase>>

\* POST /tasks/{id}/cancel.
CancelTask(s) ==
  /\ phase = "serving"
  /\ R!Cancel(s)
  /\ UNCHANGED <<row, ops, todo, phase>>

\* The drawer's listing, and time.
Upkeep ==
  /\ R!List \/ R!Tick
  /\ UNCHANGED <<row, ops, todo, phase>>

-----------------------------------------------------------------------------
\* The daemon dies: the registry and every operation go with it, the rows stay.
Crash ==
  /\ phase' = "starting"
  /\ tasks' = [s \in Stacks |-> R!NoTask]
  /\ canceled' = {}
  /\ ops' = [p \in Procs |-> Idle]
  /\ todo' = {}
  /\ UNCHANGED <<started, now, row>>

\* ReconcileDeploying reads the rows that say deploying.
ListDeploying ==
  /\ phase = "starting"
  /\ phase' = "reconciling"
  /\ todo' = {s \in Stacks : row[s] = "deploying"}
  /\ UNCHANGED <<registry, row, ops>>

\* And closes them one by one.
ReconcileDeploying(s) ==
  /\ phase = "reconciling" /\ s \in todo
  /\ SetStatus(s, "failed")
  /\ todo' = todo \ {s}
  /\ UNCHANGED <<registry, ops, phase>>

\* Mutant: the daemon starts serving without looking at the rows.
ServeAtOnce ==
  /\ phase = "starting"
  /\ phase' = "serving"
  /\ UNCHANGED <<registry, row, ops, todo>>

\* The router is mounted once the reconciliation has returned.
Serve ==
  /\ phase = "reconciling" /\ todo = {}
  /\ phase' = "serving"
  /\ UNCHANGED <<registry, row, ops, todo>>

Step(p) == Check(p) \/ Register(p) \/ Begin(p) \/ Plan(p) \/ Work(p) \/ Record(p) \/ Done(p)

Next ==
  \/ \E s \in Stacks : Create(s) \/ Delete(s) \/ CancelTask(s) \/ ReconcileDeploying(s)
  \/ \E p \in Procs, s \in Stacks, kind \in Claiming \cup Unclaimed : Request(p, kind, s)
  \/ \E p \in Procs : Step(p) \/ Act(p) \/ Expire(p)
  \/ Upkeep
  \/ Crash
  \/ ListDeploying
  \/ Serve

Spec == Init /\ [][Next]_vars

\* A goroutine that can run does, the deadline comes, and the engine answers a
\* call whose context has ended; it need not answer any other.  However often the
\* daemon dies, it does not die every time before the same row is reconciled.
Fairness ==
  /\ \A p \in Procs :
       /\ WF_vars(Check(p) \/ Begin(p) \/ Plan(p) \/ Record(p) \/ Done(p))
       /\ WF_vars(Expire(p))
       /\ WF_vars(Dead(p) /\ Work(p))
  /\ \A s \in Stacks : SF_vars(ReconcileDeploying(s))
  /\ WF_vars(ListDeploying)
  /\ WF_vars(Serve)

FairSpec == Spec /\ Fairness

-----------------------------------------------------------------------------
\* The registry is well formed, and an operation has a context exactly while it
\* holds a claim.
TypeOK ==
  /\ R!TypeOK
  /\ row \in [Stacks -> Statuses \cup {"none", "deleted"}]
  /\ ops \in [Procs -> Op]
  /\ todo \subseteq Stacks
  /\ phase \in {"serving", "starting", "reconciling"}
  /\ \A p \in Procs : /\ ops[p].pc \in Holding <=> ops[p].ctx > 0
                      /\ ops[p].ctx <= started
                      /\ ops[p].pc \in Holding \cup {"check", "register"}
                           => ops[p].kind \in Claiming
                      /\ ops[p].pc = "begin" => ops[p].kind = "up"

\* A stack is never left busy: a running stack task belongs to an operation that
\* is still on its way to releasing it, through cancels, overlaps and restarts.
BusyIsOwned ==
  \A s \in Stacks : R!Running(s) =>
    \E p \in Procs : /\ ops[p].pc \in Holding
                     /\ ops[p].stack = s
                     /\ ops[p].ctx = tasks[s].ctx

\* A row says "deploying" only while a deploy is on its way to overwriting it, or
\* while the daemon has yet to read its rows or to close this one.
DeployingIsOwned ==
  \A s \in Stacks : row[s] = "deploying" =>
    \/ phase = "starting"
    \/ s \in todo
    \/ \E p \in Procs : /\ ops[p].pc \in {"plan", "work", "record"}
                        /\ ops[p].kind = "up"
                        /\ ops[p].stack = s

\* A deleted stack stays deleted: the late write of a deploy or an action that
\* was running when the record went does not bring it back.
DeletedIsFinal ==
  [][\A s \in Stacks : row[s] = "deleted" => row'[s] = "deleted"]_vars

\* Every operation that holds a claim ends, if only by its deadline: an engine
\* that never answers cannot hold it.
OperationsEnd ==
  \A p \in Procs : ops[p].pc \in Holding ~> ops[p].pc = "idle"

\* A stack does not stay "deploying", whether its deploy ends, is canceled, hangs
\* or dies with the daemon.
DeployingEnds ==
  \A s \in Stacks : row[s] = "deploying" ~> row[s] # "deploying"

\* Two deploys never work on one stack at the same time: "Two deploys of one
\* stack would race each other into a half-built state, so the second is
\* refused here" (Up, stackup.go).
OneDeployAtATime ==
  \A p, q \in Procs :
    /\ ops[p].pc = "work" /\ ops[p].kind = "up"
    /\ ops[q].pc = "work" /\ ops[q].kind = "up"
    /\ ops[p].stack = ops[q].stack
    => p = q
=============================================================================
