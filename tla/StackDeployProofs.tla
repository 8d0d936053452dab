------------------------- MODULE StackDeployProofs -------------------------
(***************************************************************************)
(* No stack is left busy or deploying, for any number of stacks and of     *)
(* operations in flight.                                                   *)
(***************************************************************************)
EXTENDS StackDeploy, TLAPS

DeployInv == TypeOK /\ BusyIsOwned /\ DeployingIsOwned

\* An idle process is an operation with no context.
LEMMA IdleOp == Idle \in Op /\ Idle.pc = "idle" /\ Idle.ctx = 0
<1>1. (CHOOSE s \in Stacks : TRUE) \in Stacks
  BY DeployAssumption
<1> QED
  BY <1>1, DeployAssumption DEF Idle, Op, Pcs, Errs

LEMMA InitDeploy == Init => DeployInv
<1> SUFFICES ASSUME Init PROVE DeployInv
  OBVIOUS
<1>1. R!TypeOK
  BY DeployAssumption DEF Init, R!Init, R!TypeOK, R!Tracked, R!NoTask, R!Task, R!Progresses
<1> QED
  BY <1>1, IdleOp, DeployAssumption
     DEF Init, R!Init, DeployInv, TypeOK, BusyIsOwned, DeployingIsOwned, R!Running,
         R!NoTask, Holding, Statuses

-----------------------------------------------------------------------------
\* What the registry's methods do to its entries, as far as operations care.

\* An absent entry is a well-formed one.
LEMMA NoTaskOK == R!NoTask \in R!Task
  BY DeployAssumption DEF R!NoTask, R!Task, R!Progresses

\* StartWithID puts a running task on a new context under the id, and drops
\* finished entries at most.
LEMMA StartFx ==
  ASSUME R!TypeOK, NEW s \in Stacks, R!StartWithID(s)
  PROVE  /\ R!TypeOK'
         /\ started' = started + 1 /\ canceled' = canceled
         /\ tasks'[s].state = "running" /\ tasks'[s].ctx = started + 1
         /\ \A i \in Stacks \ {s} : tasks'[i] = tasks[i] \/ tasks'[i] = R!NoTask
<1> DEFINE new == [state |-> "running", progress |-> -1,
                   finishedAt |-> 0, ctx |-> started + 1]
           ts  == [tasks EXCEPT ![s] = new]
<1>1. PICK dropped \in R!Evictable(ts) : tasks' = R!Without(ts, dropped)
  BY DEF R!StartWithID
<1>2. dropped \subseteq R!Finished(ts)
  BY DEF R!Evictable
<1>3. started \in Nat /\ started' = started + 1 /\ started' \in 0..MaxStarts
  BY DeployAssumption DEF R!TypeOK, R!StartWithID
<1>4. new \in R!Task
  BY <1>3, DeployAssumption DEF R!Task, R!Progresses, R!TerminalStates
<1>5. ts \in [Stacks -> R!Task] /\ ts[s] = new /\ \A i \in Stacks \ {s} : ts[i] = tasks[i]
  BY <1>4 DEF R!TypeOK
<1>6. s \notin dropped
  BY <1>2, <1>5 DEF R!Finished, R!Terminal, R!TerminalStates
<1>7. tasks' \in [Stacks -> R!Task]
  BY <1>1, <1>5, NoTaskOK DEF R!Without
<1>8. tasks'[s] = new /\ \A i \in Stacks \ {s} : tasks'[i] = tasks[i] \/ tasks'[i] = R!NoTask
  BY <1>1, <1>5, <1>6 DEF R!Without
<1>9. \A i \in R!Tracked(tasks)' : tasks'[i].ctx \in 1..started'
  BY <1>3, <1>8 DEF R!Tracked, R!NoTask, R!TypeOK
<1>10. canceled' \subseteq 1..started'
  <2>1. 1..started \subseteq 1..started'
    BY <1>3
  <2> QED
    BY <2>1 DEF R!TypeOK, R!StartWithID
<1>11. R!TypeOK'
  BY <1>3, <1>7, <1>9, <1>10 DEF R!TypeOK, R!StartWithID
<1>12. canceled' = canceled
  BY DEF R!StartWithID
<1>13. tasks'[s].state = "running" /\ tasks'[s].ctx = started + 1
  BY <1>8
<1> QED
  BY <1>3, <1>8, <1>11, <1>12, <1>13

\* Finish and Cancel leave no running task under the id, and other ids alone.
LEMMA EndFx ==
  ASSUME R!TypeOK, NEW s \in Stacks, NEW err \in Errs, R!Finish(s, err) \/ R!Cancel(s)
  PROVE  /\ R!TypeOK'
         /\ started' = started
         /\ ~R!Running(s)'
         /\ \A i \in Stacks \ {s} : tasks'[i] = tasks[i]
<1>1. CASE ~R!Running(s)
  <2>1. UNCHANGED <<tasks, canceled, started, now>>
    BY <1>1 DEF R!Finish, R!Cancel
  <2> QED
    BY <1>1, <2>1 DEF R!TypeOK, R!Tracked, R!Running
<1>2. CASE R!Running(s)
  <2>1. PICK e \in R!TerminalStates, p \in R!Progresses :
          tasks' = [tasks EXCEPT ![s].state = e, ![s].progress = p, ![s].finishedAt = now]
    <3>1. CASE R!Finish(s, err)
      <4> DEFINE p == IF err = "nil" THEN 100 ELSE tasks[s].progress
      <4>1. R!Outcome(err) \in R!TerminalStates
        BY DEF R!Outcome, R!TerminalStates
      <4>2. p \in R!Progresses
        BY DEF R!TypeOK, R!Task, R!Progresses
      <4>3. tasks' = [tasks EXCEPT ![s].state = R!Outcome(err), ![s].progress = p,
                                   ![s].finishedAt = now]
        BY <1>2, <3>1 DEF R!Finish
      <4> HIDE DEF p
      <4> QED
        BY <4>1, <4>2, <4>3
    <3>2. CASE R!Cancel(s)
      <4>1. tasks[s].progress \in R!Progresses /\ "canceled" \in R!TerminalStates
        BY DEF R!TypeOK, R!Task, R!TerminalStates
      <4>2. tasks' = [tasks EXCEPT ![s].state = "canceled",
                                   ![s].progress = tasks[s].progress, ![s].finishedAt = now]
        BY <1>2, <3>2 DEF R!Cancel, R!TypeOK, R!Task
      <4> QED
        BY <4>1, <4>2
    <3> QED
      BY <3>1, <3>2
  <2>2. started' = started /\ now' = now /\ canceled' = canceled \cup {tasks[s].ctx}
    BY <1>2 DEF R!Finish, R!Cancel
  <2>3. /\ tasks' \in [Stacks -> R!Task]
        /\ \A i \in Stacks : tasks'[i].ctx = tasks[i].ctx
        /\ tasks'[s].state \in R!TerminalStates
        /\ \A i \in Stacks \ {s} : tasks'[i] = tasks[i]
    BY <2>1 DEF R!TypeOK, R!Task
  <2>4. s \in R!Tracked(tasks) /\ R!Tracked(tasks)' \subseteq R!Tracked(tasks)
    BY <1>2, <2>3 DEF R!Tracked, R!Running, R!TerminalStates
  <2>5. R!TypeOK'
    BY <2>2, <2>3, <2>4 DEF R!TypeOK, R!Tracked
  <2> QED
    BY <2>2, <2>3, <2>5 DEF R!Running, R!TerminalStates
<1> QED
  BY <1>1, <1>2

\* A listing drops entries at most, and time touches none.
LEMMA UpkeepFx ==
  ASSUME R!TypeOK, R!List \/ R!Tick
  PROVE  /\ R!TypeOK'
         /\ started' = started
         /\ \A i \in Stacks : tasks'[i] = tasks[i] \/ tasks'[i] = R!NoTask
<1>1. CASE R!List
  BY <1>1, NoTaskOK DEF R!List, R!Without, R!TypeOK, R!Tracked, R!NoTask
<1>2. CASE R!Tick
  BY <1>2, DeployAssumption DEF R!Tick, R!TypeOK, R!Tracked
<1> QED
  BY <1>1, <1>2

-----------------------------------------------------------------------------
\* Steps that leave the registry alone keep BusyIsOwned while they neither end
\* an operation nor change its stack or context.
LEMMA KeepsBusy ==
  ASSUME BusyIsOwned, UNCHANGED tasks,
         \A p \in Procs : ops[p].pc \in Holding =>
           /\ ops'[p].pc \in Holding
           /\ ops'[p].stack = ops[p].stack /\ ops'[p].ctx = ops[p].ctx
  PROVE  BusyIsOwned'
  BY DEF BusyIsOwned, R!Running

\* The same for DeployingIsOwned, where no row becomes "deploying".
LEMMA KeepsDeploying ==
  ASSUME DeployingIsOwned, UNCHANGED <<todo, phase>>,
         \A s \in Stacks : row'[s] = "deploying" => row[s] = "deploying",
         \A p \in Procs : ops[p].pc \in {"plan", "work", "record"} =>
           /\ ops'[p].pc \in {"plan", "work", "record"}
           /\ ops'[p].stack = ops[p].stack /\ ops'[p].kind = ops[p].kind
  PROVE  DeployingIsOwned'
  BY DEF DeployingIsOwned

\* Moving one operation on, without a registry call, keeps the types.
LEMMA KeepsTypes ==
  ASSUME TypeOK, UNCHANGED <<tasks, canceled, started, now, todo, phase>>,
         row' \in [Stacks -> Statuses \cup {"none", "deleted"}],
         NEW p \in Procs, NEW op \in Op, ops' = [ops EXCEPT ![p] = op],
         op.pc \in Holding <=> op.ctx > 0, op.ctx <= started,
         op.pc \in Holding \cup {"check", "register"} => op.kind \in Claiming,
         op.pc = "begin" => op.kind = "up"
  PROVE  TypeOK'
<1>1. R!TypeOK'
  BY DEF TypeOK, R!TypeOK, R!Tracked
<1> QED
  BY <1>1 DEF TypeOK

\* A status write keeps the rows' type and leaves other rows alone.
LEMMA StatusFx ==
  ASSUME TypeOK, NEW s \in Stacks, NEW status \in Statuses, SetStatus(s, status)
  PROVE  /\ row' \in [Stacks -> Statuses \cup {"none", "deleted"}]
         /\ \A i \in Stacks \ {s} : row'[i] = row[i]
         /\ row'[s] = status \/ (row'[s] = row[s] /\ row[s] \notin Statuses)
<1>1. CASE Exists(s)
  BY <1>1 DEF TypeOK, SetStatus
<1>2. CASE ~Exists(s)
  BY <1>2 DEF TypeOK, SetStatus, Exists
<1> QED
  BY <1>1, <1>2

\* Moving an operation on within its claim keeps types and owners.
LEMMA Moves ==
  ASSUME TypeOK, BusyIsOwned, UNCHANGED <<tasks, canceled, started, now, todo, phase>>,
         row' \in [Stacks -> Statuses \cup {"none", "deleted"}],
         NEW p \in Procs, NEW op \in Op, ops' = [ops EXCEPT ![p] = op],
         ops[p].pc \in Holding, op.pc \in Holding,
         op.ctx = ops[p].ctx, op.stack = ops[p].stack, op.kind = ops[p].kind,
         op.pc = "begin" => ops[p].pc = "begin"
  PROVE  TypeOK' /\ BusyIsOwned'
<1>1. /\ ops[p].ctx > 0 /\ ops[p].ctx <= started /\ ops[p].kind \in Claiming
      /\ op.pc = "begin" => op.kind = "up"
  BY DEF TypeOK
<1>2. TypeOK'
  BY <1>1, KeepsTypes
<1>3. BusyIsOwned'
  BY KeepsBusy DEF TypeOK
<1> QED
  BY <1>2, <1>3

\* Goto and Ends change one operation, and only its place and its error.
LEMMA MoveOp ==
  ASSUME ops \in [Procs -> Op], NEW p \in Procs, NEW pc \in Pcs, NEW err \in Errs,
         \/ ops' = [ops EXCEPT ![p].pc = pc]
         \/ ops' = [ops EXCEPT ![p].pc = pc, ![p].err = err]
  PROVE  \E op \in Op : /\ ops' = [ops EXCEPT ![p] = op] /\ op.pc = pc
                        /\ op.ctx = ops[p].ctx /\ op.stack = ops[p].stack
                        /\ op.kind = ops[p].kind
<1> USE DEF Op
<1>1. CASE ops' = [ops EXCEPT ![p].pc = pc]
  <2> WITNESS [ops[p] EXCEPT !.pc = pc] \in Op
  <2> QED
    BY <1>1
<1>2. CASE ops' = [ops EXCEPT ![p].pc = pc, ![p].err = err]
  <2> WITNESS [ops[p] EXCEPT !.pc = pc, !.err = err] \in Op
  <2> QED
    BY <1>2
<1> QED
  BY <1>1, <1>2

LEMMA StepDeploy == DeployInv /\ [Next]_vars => DeployInv'
<1> SUFFICES ASSUME DeployInv, [Next]_vars PROVE DeployInv'
  OBVIOUS
<1> USE DEF DeployInv
<1>0. /\ ops \in [Procs -> Op] /\ started \in Nat
      /\ row \in [Stacks -> Statuses \cup {"none", "deleted"}]
      /\ \A p \in Procs : ops[p].ctx \in Nat
  BY DeployAssumption DEF TypeOK, R!TypeOK, Op
<1>1. ASSUME NEW s \in Stacks, Create(s) \/ Delete(s) PROVE DeployInv'
  <2>1. R!TypeOK' /\ UNCHANGED <<tasks, ops, started, todo, phase>>
    BY <1>1 DEF TypeOK, R!TypeOK, R!Tracked, Create, Delete, registry
  <2>2. row' \in [Stacks -> Statuses \cup {"none", "deleted"}]
    BY <1>1 DEF Create, Delete, TypeOK, Statuses
  <2>3. \A i \in Stacks : row'[i] = "deploying" => row[i] = "deploying"
    BY <1>1 DEF Create, Delete, TypeOK
  <2> QED
    BY <2>1, <2>2, <2>3, KeepsBusy, KeepsDeploying DEF TypeOK
<1>2. ASSUME NEW s \in Stacks, CancelTask(s) PROVE DeployInv'
  <2>1. R!TypeOK' /\ started' = started /\ ~R!Running(s)'
        /\ \A i \in Stacks \ {s} : tasks'[i] = tasks[i]
    BY <1>2, EndFx DEF CancelTask, TypeOK, Errs
  <2>2. TypeOK' /\ DeployingIsOwned'
    BY <1>2, <2>1 DEF CancelTask, TypeOK, DeployingIsOwned
  <2>3. BusyIsOwned'
    BY <1>2, <2>1 DEF CancelTask, BusyIsOwned, R!Running
  <2> QED
    BY <2>2, <2>3
<1>3. ASSUME NEW s \in Stacks, ReconcileDeploying(s) PROVE DeployInv'
  <2>1. /\ UNCHANGED <<tasks, ops, started, phase>> /\ R!TypeOK'
        /\ todo' = todo \ {s}
    BY <1>3 DEF ReconcileDeploying, registry, TypeOK, R!TypeOK, R!Tracked
  <2>2. /\ row' \in [Stacks -> Statuses \cup {"none", "deleted"}]
        /\ \A i \in Stacks \ {s} : row'[i] = row[i]
        /\ row'[s] # "deploying"
    BY <1>3, StatusFx DEF ReconcileDeploying, Statuses
  <2>3. TypeOK'
    BY <2>1, <2>2 DEF TypeOK
  <2>4. BusyIsOwned'
    BY <2>1, KeepsBusy
  <2>5. DeployingIsOwned'
    BY <2>1, <2>2 DEF DeployingIsOwned
  <2> QED
    BY <2>3, <2>4, <2>5
<1>4. ASSUME NEW p \in Procs, NEW s \in Stacks, NEW kind \in Claiming \cup Unclaimed,
             Request(p, kind, s)
      PROVE  DeployInv'
  <2> DEFINE op == [ops[p] EXCEPT !.pc = IF kind \in Claiming THEN "check" ELSE "act",
                                  !.kind = kind, !.stack = s]
  <2>1. op \in Op /\ ops' = [ops EXCEPT ![p] = op] /\ op.ctx = ops[p].ctx
        /\ op.pc \notin Holding /\ ops[p].pc = "idle"
        /\ (op.pc = "check" => op.kind \in Claiming) /\ op.pc # "register"
    BY <1>0, <1>4 DEF Request, Op, Pcs, Holding, Claiming, Unclaimed
  <2>2. UNCHANGED <<tasks, canceled, started, now, row, todo, phase>>
    BY <1>4 DEF Request, registry
  <2> HIDE DEF op
  <2>3. TypeOK'
    BY <2>1, <2>2, KeepsTypes DEF TypeOK, Holding
  <2> QED
    BY <1>0, <2>1, <2>2, <2>3, KeepsBusy, KeepsDeploying DEF Holding
<1>5. ASSUME NEW p \in Procs, Check(p) PROVE DeployInv'
  <2>1. UNCHANGED <<tasks, canceled, started, now, row, todo, phase>> /\ ops[p].pc = "check"
    BY <1>5 DEF Check, registry
  <2>2. PICK op \in Op : /\ ops' = [ops EXCEPT ![p] = op]
                         /\ \/ op = Idle
                            \/ op.pc = "register" /\ op.ctx = ops[p].ctx /\ op.kind = ops[p].kind
    BY <1>0, <1>5, IdleOp DEF Check, Goto, Op, Pcs
  <2>3. TypeOK'
    <3>1. ops[p].ctx = 0 /\ ops[p].kind \in Claiming
      BY <1>0, <2>1 DEF TypeOK, Holding
    <3>2. op.ctx = 0 /\ op.pc \notin Holding /\ (op.pc = "register" => op.kind \in Claiming)
          /\ op.pc \notin {"check", "begin"}
      BY <2>2, <3>1, IdleOp DEF Holding
    <3>3. /\ op.pc \in Holding <=> op.ctx > 0
          /\ op.ctx <= started
          /\ op.pc \in Holding \cup {"check", "register"} => op.kind \in Claiming
          /\ op.pc = "begin" => op.kind = "up"
      BY <1>0, <3>2
    <3> QED
      BY <1>0, <2>1, <2>2, <3>3, KeepsTypes
  <2> QED
    BY <1>0, <2>1, <2>2, <2>3, KeepsBusy, KeepsDeploying DEF Holding
<1>6. ASSUME NEW p \in Procs, Register(p) PROVE DeployInv'
  <2> DEFINE s == ops[p].stack
  <2>1. s \in Stacks /\ ops[p].pc = "register" /\ UNCHANGED <<row, todo, phase>>
    BY <1>0, <1>6 DEF Register, Op
  <2>2. /\ R!TypeOK' /\ started' = started + 1
        /\ tasks'[s].ctx = started + 1
        /\ \A i \in Stacks \ {s} : tasks'[i] = tasks[i] \/ tasks'[i] = R!NoTask
    BY <1>6, <2>1, StartFx DEF Register, TypeOK
  <2>3. PICK op \in Op : /\ ops' = [ops EXCEPT ![p] = op]
                         /\ op.ctx = started + 1 /\ op.stack = s /\ op.kind = ops[p].kind
                         /\ op.pc \in Holding /\ (op.pc = "begin" => op.kind = "up")
    <3>1. started + 1 \in 0..MaxStarts
      BY <2>2 DEF R!TypeOK
    <3> DEFINE op == [ops[p] EXCEPT !.ctx = started + 1,
                                    !.pc = IF ops[p].kind = "up" THEN "begin" ELSE "plan"]
    <3>2. op \in Op /\ op.ctx = started + 1 /\ op.stack = s /\ op.kind = ops[p].kind
          /\ op.pc = IF ops[p].kind = "up" THEN "begin" ELSE "plan"
      BY <1>0, <3>1 DEF Op, Pcs, Holding
    <3>3. ops' = [ops EXCEPT ![p] = op]
      BY <1>0, <1>6 DEF Register, Op
    <3> HIDE DEF op
    <3> QED
      BY <3>2, <3>3 DEF Holding
  <2>4. TypeOK'
    BY <1>0, <2>1, <2>2, <2>3 DEF TypeOK
  <2>5. BusyIsOwned'
    BY <1>0, <2>1, <2>2, <2>3 DEF BusyIsOwned, R!Running, R!NoTask, Holding
  <2>6. DeployingIsOwned'
    BY <1>0, <2>1, <2>3 DEF DeployingIsOwned
  <2> QED
    BY <2>4, <2>5, <2>6
<1>7. ASSUME NEW p \in Procs, Begin(p) PROVE DeployInv'
  <2>1. /\ UNCHANGED <<tasks, canceled, started, now, todo, phase>>
        /\ ops[p].pc = "begin" /\ ops[p].stack \in Stacks
    BY <1>0, <1>7 DEF Begin, registry, Op
  <2>2. CASE Dead(p) \/ ~Exists(ops[p].stack)
    <3>1. Ends(p, "other") /\ row' = row
      BY <1>7, <2>2 DEF Begin
    <3>2. PICK op \in Op : /\ ops' = [ops EXCEPT ![p] = op] /\ op.pc = "record"
                           /\ op.ctx = ops[p].ctx /\ op.stack = ops[p].stack
                           /\ op.kind = ops[p].kind
      <4>1. "record" \in Pcs /\ "other" \in Errs
        BY DEF Pcs, Holding, Errs
      <4> QED
        BY <1>0, <3>1, <4>1, MoveOp DEF Ends
    <3>3. TypeOK' /\ BusyIsOwned'
      BY <2>1, <3>1, <3>2, Moves DEF TypeOK, Holding
    <3> QED
      BY <1>0, <2>1, <3>1, <3>2, <3>3, KeepsDeploying
  <2>3. CASE ~(Dead(p) \/ ~Exists(ops[p].stack))
    <3>1. SetStatus(ops[p].stack, "deploying") /\ Goto(p, "plan")
      BY <1>7, <2>3 DEF Begin
    <3>2. PICK op \in Op : /\ ops' = [ops EXCEPT ![p] = op] /\ op.pc = "plan"
                           /\ op.ctx = ops[p].ctx /\ op.stack = ops[p].stack
                           /\ op.kind = ops[p].kind
      <4>1. "plan" \in Pcs /\ "other" \in Errs
        BY DEF Pcs, Holding, Errs
      <4> QED
        BY <1>0, <3>1, <4>1, MoveOp DEF Goto
    <3>3. /\ row' \in [Stacks -> Statuses \cup {"none", "deleted"}]
          /\ \A i \in Stacks \ {ops[p].stack} : row'[i] = row[i]
      BY <2>1, <3>1, StatusFx DEF Statuses
    <3>4. TypeOK' /\ BusyIsOwned'
      BY <2>1, <3>2, <3>3, Moves DEF Holding
    <3>5. DeployingIsOwned'
      BY <1>0, <2>1, <3>2, <3>3 DEF DeployingIsOwned, TypeOK
    <3> QED
      BY <3>4, <3>5
  <2> QED
    BY <2>2, <2>3
<1>8. ASSUME NEW p \in Procs, Plan(p) \/ Work(p) \/ Expire(p) PROVE DeployInv'
  <2>1. UNCHANGED <<tasks, canceled, started, now, row, todo, phase>> /\ ops[p].pc \in Holding
    BY <1>8 DEF Plan, Work, Expire, registry, Holding
  <2> DEFINE Moved(op) == /\ ops' = [ops EXCEPT ![p] = op]
                          /\ op.pc \in {"work", "record"} \/ op.pc = ops[p].pc
                          /\ op.ctx = ops[p].ctx /\ op.stack = ops[p].stack
                          /\ op.kind = ops[p].kind
  <2>2. \E op \in Op : Moved(op)
    <3>1. /\ "work" \in Pcs /\ "record" \in Pcs /\ ops[p].pc \in Pcs
      BY <1>0 DEF Pcs, Holding, Op
    <3>2. ASSUME Goto(p, "work") PROVE \E op \in Op : Moved(op)
      <4>1. PICK op \in Op : /\ ops' = [ops EXCEPT ![p] = op] /\ op.pc = "work"
                             /\ op.ctx = ops[p].ctx /\ op.stack = ops[p].stack
                             /\ op.kind = ops[p].kind
        BY <1>0, <3>1, <3>2, MoveOp DEF Goto, Errs
      <4> QED
        BY <4>1
    <3>3. ASSUME NEW e \in Errs, Ends(p, e) PROVE \E op \in Op : Moved(op)
      <4>1. PICK op \in Op : /\ ops' = [ops EXCEPT ![p] = op] /\ op.pc = "record"
                             /\ op.ctx = ops[p].ctx /\ op.stack = ops[p].stack
                             /\ op.kind = ops[p].kind
        BY <1>0, <3>1, <3>3, MoveOp DEF Ends
      <4> QED
        BY <4>1
    <3>4. ASSUME Expire(p) PROVE \E op \in Op : Moved(op)
      <4>1. ops' = [ops EXCEPT ![p].expired = TRUE]
        BY <3>4 DEF Expire
      <4> DEFINE op == [ops[p] EXCEPT !.expired = TRUE]
      <4>2. op \in Op /\ Moved(op)
        BY <1>0, <4>1 DEF Op
      <4> QED
        BY <4>2
    <3> HIDE DEF Moved
    <3> QED
      BY <1>8, <3>2, <3>3, <3>4 DEF Plan, Work, Errs
  <2>3. PICK op \in Op : Moved(op)
    BY <2>2
  <2>4. TypeOK' /\ BusyIsOwned'
    BY <1>0, <2>1, <2>3, Moves DEF Holding
  <2> QED
    BY <1>0, <2>1, <2>3, <2>4, KeepsDeploying
<1>9. ASSUME NEW p \in Procs, Record(p) PROVE DeployInv'
  <2>1. /\ UNCHANGED <<tasks, canceled, started, now, todo, phase>>
        /\ ops[p].pc = "record" /\ ops[p].stack \in Stacks /\ Goto(p, "done")
    BY <1>0, <1>9 DEF Record, registry, Op
  <2>2. PICK op \in Op : /\ ops' = [ops EXCEPT ![p] = op] /\ op.pc = "done"
                         /\ op.ctx = ops[p].ctx /\ op.stack = ops[p].stack
                         /\ op.kind = ops[p].kind
    <3>1. "done" \in Pcs /\ "other" \in Errs
      BY DEF Pcs, Holding, Errs
    <3> QED
      BY <1>0, <2>1, <3>1, MoveOp DEF Goto
  <2>3. CASE ops[p].kind = "up"
    <3>1. PICK status \in {"deployed", "failed"} : SetStatus(ops[p].stack, status)
      BY <1>9, <2>3 DEF Record
    <3>2. /\ row' \in [Stacks -> Statuses \cup {"none", "deleted"}]
          /\ \A i \in Stacks \ {ops[p].stack} : row'[i] = row[i]
          /\ row'[ops[p].stack] # "deploying"
      BY <2>1, <3>1, StatusFx DEF Statuses
    <3>3. TypeOK' /\ BusyIsOwned'
      BY <2>1, <2>2, <3>2, Moves DEF Holding
    <3>4. DeployingIsOwned'
      BY <1>0, <2>1, <2>2, <3>2 DEF DeployingIsOwned
    <3> QED
      BY <3>3, <3>4
  <2>4. CASE ops[p].kind # "up"
    <3>1. row' = row
      BY <1>9, <2>4 DEF Record
    <3>2. TypeOK' /\ BusyIsOwned'
      BY <2>1, <2>2, <3>1, Moves DEF Holding, TypeOK
    <3>3. DeployingIsOwned'
      BY <1>0, <2>1, <2>2, <2>4, <3>1 DEF DeployingIsOwned
    <3> QED
      BY <3>2, <3>3
  <2> QED
    BY <2>3, <2>4
<1>10. ASSUME NEW p \in Procs, Done(p) PROVE DeployInv'
  <2>0. PICK t \in Stacks : t = ops[p].stack
    BY <1>0 DEF Op
  <2>1. /\ UNCHANGED <<row, todo, phase>> /\ ops' = [ops EXCEPT ![p] = Idle]
        /\ ops[p].pc = "done"
    BY <1>10 DEF Done
  <2>2. /\ R!TypeOK' /\ started' = started /\ ~R!Running(t)'
        /\ \A i \in Stacks \ {t} : tasks'[i] = tasks[i]
    <3>1. R!TypeOK /\ R!Finish(t, "nil") /\ "nil" \in Errs
      BY <1>10, <2>0 DEF Done, TypeOK, Errs
    <3> QED
      BY <3>1, EndFx
  <2>3. TypeOK'
    BY <1>0, <2>1, <2>2, IdleOp DEF TypeOK, Holding
  <2>4. BusyIsOwned'
    <3> SUFFICES ASSUME NEW s \in Stacks, R!Running(s)'
                 PROVE  \E q \in Procs : /\ ops'[q].pc \in Holding /\ ops'[q].stack = s
                                         /\ ops'[q].ctx = tasks'[s].ctx
      BY DEF BusyIsOwned
    <3>1. s # t /\ tasks'[s] = tasks[s]
      BY <2>2
    <3>2. R!Running(s)
      BY <3>1 DEF R!Running
    <3>3. PICK q \in Procs : /\ ops[q].pc \in Holding /\ ops[q].stack = s
                             /\ ops[q].ctx = tasks[s].ctx
      BY <3>2 DEF BusyIsOwned
    <3>4. ops'[q] = ops[q]
      BY <1>0, <2>0, <2>1, <3>1, <3>3
    <3> QED
      BY <3>1, <3>3, <3>4
  <2>5. DeployingIsOwned'
    BY <1>0, <2>1 DEF DeployingIsOwned
  <2> QED
    BY <2>3, <2>4, <2>5
<1>11. ASSUME NEW p \in Procs, Act(p) PROVE DeployInv'
  <2>1. /\ UNCHANGED <<tasks, canceled, started, now, todo, phase>>
        /\ ops' = [ops EXCEPT ![p] = Idle] /\ ops[p].pc = "act" /\ ops[p].stack \in Stacks
    BY <1>0, <1>11 DEF Act, registry, Op
  <2> DEFINE Rows == /\ row' \in [Stacks -> Statuses \cup {"none", "deleted"}]
                     /\ \A i \in Stacks : row'[i] = "deploying" => row[i] = "deploying"
  <2>2. Rows
    <3>1. CASE row' = row
      BY <3>1 DEF TypeOK
    <3>2. ASSUME NEW status \in {"deployed", "stopped"}, SetStatus(ops[p].stack, status)
          PROVE  Rows
      BY <2>1, <3>2, StatusFx DEF Statuses
    <3> QED
      BY <1>11, <3>1, <3>2 DEF Act
  <2>3. TypeOK'
    <3>1. Idle \in Op /\ Idle.ctx = 0 /\ Idle.pc \notin Holding
          /\ Idle.pc \notin {"check", "register", "begin"}
      BY IdleOp DEF Holding
    <3>2. /\ Idle.pc \in Holding <=> Idle.ctx > 0
          /\ Idle.ctx <= started
          /\ Idle.pc \in Holding \cup {"check", "register"} => Idle.kind \in Claiming
          /\ Idle.pc = "begin" => Idle.kind = "up"
      BY <1>0, <3>1
    <3> QED
      BY <1>0, <2>1, <2>2, <3>1, <3>2, KeepsTypes
  <2> QED
    BY <1>0, <2>1, <2>2, <2>3, KeepsBusy, KeepsDeploying DEF Holding
<1>12. ASSUME Upkeep PROVE DeployInv'
  BY <1>12, UpkeepFx
     DEF Upkeep, TypeOK, BusyIsOwned, DeployingIsOwned, R!Running, R!NoTask
<1>13. ASSUME Crash PROVE DeployInv'
  <2>1. R!TypeOK'
    BY <1>13, NoTaskOK DEF Crash, TypeOK, R!TypeOK, R!Tracked, R!NoTask
  <2> QED
    BY <1>0, <1>13, <2>1, IdleOp
       DEF Crash, TypeOK, BusyIsOwned, DeployingIsOwned, R!Running, R!NoTask, Holding
<1>14. ASSUME Serve PROVE DeployInv'
  <2>1. R!TypeOK'
    BY <1>14 DEF Serve, registry, TypeOK, R!TypeOK, R!Tracked
  <2> QED
    BY <1>14, <2>1 DEF Serve, registry, TypeOK, BusyIsOwned, DeployingIsOwned, R!Running
<1>15. ASSUME ListDeploying PROVE DeployInv'
  <2>1. /\ UNCHANGED <<tasks, row, ops, started>> /\ R!TypeOK'
        /\ todo' = {s \in Stacks : row[s] = "deploying"} /\ phase' = "reconciling"
    BY <1>15 DEF ListDeploying, registry, TypeOK, R!TypeOK, R!Tracked
  <2> QED
    BY <2>1, KeepsBusy DEF TypeOK, DeployingIsOwned
<1>16. CASE UNCHANGED vars
  <2>1. R!TypeOK'
    BY <1>16 DEF vars, TypeOK, R!TypeOK, R!Tracked
  <2> QED
    BY <1>16, <2>1 DEF vars, TypeOK, BusyIsOwned, DeployingIsOwned, R!Running
<1> QED
  BY <1>1, <1>2, <1>3, <1>4, <1>5, <1>6, <1>7, <1>8, <1>9, <1>10, <1>11, <1>12, <1>13,
     <1>14, <1>15, <1>16
     DEF Next, Step

\* No stack is left busy and none is left deploying: a running stack task belongs
\* to an operation that will release it, and a row says "deploying" only under a
\* deploy that will overwrite it or before the daemon has reconciled.
THEOREM DeploySafe == Spec => [](TypeOK /\ BusyIsOwned /\ DeployingIsOwned)
<1>1. Spec => []DeployInv
  BY InitDeploy, StepDeploy, PTL DEF Spec
<1> QED
  BY <1>1, PTL DEF DeployInv
=============================================================================
