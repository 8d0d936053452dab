------------------------- MODULE TaskRegistryProofs -------------------------
(***************************************************************************)
(* The registry's invariants and action properties, for every set of ids,  *)
(* every cap and every bound.                                              *)
(***************************************************************************)
EXTENDS TaskRegistry, FiniteSetTheorems, TLAPS

RegistryInv == TypeOK /\ CanceledIffTerminal /\ ContextsDistinct

\* What StartWithID may leave behind: the new task, the tasks it did not touch,
\* and nothing where evictLocked dropped a finished one.
LEMMA StartEffect ==
  ASSUME TypeOK, NEW id \in Ids, StartWithID(id)
  PROVE  /\ started' = started + 1 /\ started < MaxStarts
         /\ canceled' = canceled /\ now' = now
         /\ tasks'[id] = [state |-> "running", progress |-> -1,
                          finishedAt |-> 0, ctx |-> started + 1]
         /\ \A i \in Ids \ {id} : \/ tasks'[i] = tasks[i]
                                  \/ Terminal(tasks[i].state) /\ tasks'[i] = NoTask
         /\ tasks' \in [Ids -> Task]
<1> DEFINE new == [state |-> "running", progress |-> -1,
                   finishedAt |-> 0, ctx |-> started + 1]
           ts  == [tasks EXCEPT ![id] = new]
<1>1. PICK dropped \in Evictable(ts) : tasks' = Without(ts, dropped)
  BY DEF StartWithID
<1>2. dropped \subseteq Finished(ts)
  BY DEF Evictable
<1>3. started \in Nat /\ started < MaxStarts /\ started + 1 \in 0..MaxStarts
  BY RegistryAssumption DEF TypeOK, StartWithID
<1>4. new \in Task /\ NoTask \in Task
  BY <1>3, RegistryAssumption DEF Task, NoTask, Progresses, TerminalStates
<1>5. ts \in [Ids -> Task] /\ ts[id] = new /\ \A i \in Ids \ {id} : ts[i] = tasks[i]
  BY <1>4 DEF TypeOK
<1>6. id \notin dropped
  BY <1>2, <1>5 DEF Finished, Terminal, TerminalStates
<1>7. \A i \in dropped : Terminal(tasks[i].state)
  BY <1>2, <1>5, <1>6 DEF Finished
<1>8. tasks'[id] = new
  BY <1>1, <1>5, <1>6 DEF Without
<1>9. \A i \in Ids \ {id} : \/ tasks'[i] = tasks[i]
                            \/ Terminal(tasks[i].state) /\ tasks'[i] = NoTask
  BY <1>1, <1>5, <1>7 DEF Without
<1>10. tasks' \in [Ids -> Task]
  BY <1>1, <1>4, <1>5 DEF Without
<1> QED
  BY <1>3, <1>8, <1>9, <1>10 DEF StartWithID

\* What a listing may leave behind: a task as it was, or none where it had
\* finished longer ago than the retention.
LEMMA ListEffect ==
  ASSUME TypeOK, List
  PROVE  /\ started' = started /\ canceled' = canceled /\ now' = now
         /\ \A i \in Ids : \/ tasks'[i] = tasks[i]
                           \/ /\ Terminal(tasks[i].state) /\ tasks'[i] = NoTask
                              /\ now - tasks[i].finishedAt > Retention
         /\ tasks' \in [Ids -> Task]
<1>1. NoTask \in Task
  BY RegistryAssumption DEF Task, NoTask, Progresses
<1> QED
  BY <1>1 DEF List, Without, Expired, Finished, TypeOK

\* The three parts of the invariant hold in the empty registry.
LEMMA InitInv == Init => RegistryInv
<1> SUFFICES ASSUME Init PROVE RegistryInv
  OBVIOUS
<1>1. NoTask \in Task
  BY RegistryAssumption DEF Task, NoTask, Progresses
<1>2. Tracked(tasks) = {}
  BY DEF Init, Tracked, NoTask
<1> QED
  BY <1>1, <1>2, RegistryAssumption
     DEF Init, RegistryInv, TypeOK, CanceledIffTerminal, ContextsDistinct

\* Every method preserves the invariant.
LEMMA StepInv == RegistryInv /\ [Next]_registryVars => RegistryInv'
<1> SUFFICES ASSUME RegistryInv, [Next]_registryVars PROVE RegistryInv'
  OBVIOUS
<1> USE DEF RegistryInv
<1>1. ASSUME NEW id \in Ids, StartWithID(id) PROVE RegistryInv'
  <2>1. started \in Nat /\ started' = started + 1 /\ started' \in 0..MaxStarts
    BY <1>1, StartEffect, RegistryAssumption DEF TypeOK
  <2>2. \A i \in Tracked(tasks)' : i # id => i \in Tracked(tasks) /\ tasks'[i] = tasks[i]
    BY <1>1, StartEffect DEF Tracked, NoTask
  <2>3. TypeOK'
    <3>1. tasks' \in [Ids -> Task] /\ now' \in 0..MaxTime
      BY <1>1, StartEffect DEF TypeOK
    <3>4. 1..started \subseteq 1..started'
      BY <2>1
    <3>5. canceled' \subseteq 1..started'
      BY <1>1, <3>4, StartEffect DEF TypeOK
    <3>2. tasks'[id].ctx \in 1..started'
      BY <1>1, <2>1, StartEffect
    <3>3. \A i \in Tracked(tasks)' : tasks'[i].ctx \in 1..started'
      BY <2>1, <2>2, <3>2 DEF TypeOK
    <3> QED
      BY <2>1, <3>1, <3>3, <3>5 DEF TypeOK
  <2>4. \A i \in Tracked(tasks) : tasks[i].ctx <= started
    BY <2>1 DEF TypeOK
  <2>5. CanceledIffTerminal'
    BY <1>1, <2>1, <2>2, StartEffect
       DEF CanceledIffTerminal, TypeOK, Terminal, TerminalStates
  <2>6. ContextsDistinct'
    BY <1>1, <2>1, <2>2, <2>4, StartEffect DEF ContextsDistinct
  <2> QED
    BY <2>3, <2>5, <2>6
<1>2. ASSUME NEW id \in Ids, NEW percent \in Percents, Progress(id, percent)
      PROVE  RegistryInv'
  <2>1. percent \in Progresses
    BY DEF Progresses
  <2>2. /\ started' = started /\ canceled' = canceled /\ now' = now
        /\ tasks' \in [Ids -> Task]
        /\ \A i \in Ids : tasks'[i].state = tasks[i].state /\ tasks'[i].ctx = tasks[i].ctx
    BY <1>2, <2>1 DEF Progress, TypeOK, Task
  <2>3. Tracked(tasks)' = Tracked(tasks)
    BY <2>2 DEF Tracked
  <2> QED
    BY <2>2, <2>3 DEF TypeOK, CanceledIffTerminal, ContextsDistinct, Tracked
<1>3. ASSUME NEW id \in Ids, NEW s \in TerminalStates, NEW p \in Progresses,
             Running(id),
             tasks' = [tasks EXCEPT ![id].state = s, ![id].progress = p,
                                    ![id].finishedAt = now],
             canceled' = canceled \cup {tasks[id].ctx},
             started' = started, now' = now
      PROVE  RegistryInv'
  <2>1. /\ tasks' \in [Ids -> Task]
        /\ \A i \in Ids : tasks'[i].ctx = tasks[i].ctx
        /\ tasks'[id].state = s
        /\ \A i \in Ids \ {id} : tasks'[i] = tasks[i]
    BY <1>3 DEF TypeOK, Task
  <2>2. Tracked(tasks)' = Tracked(tasks) /\ id \in Tracked(tasks)
    BY <1>3, <2>1 DEF Tracked, Running, TerminalStates
  <2>3. TypeOK'
    BY <1>3, <2>1, <2>2 DEF TypeOK, Tracked
  <2>4. ContextsDistinct'
    BY <2>1, <2>2 DEF ContextsDistinct, Tracked
  <2>5. CanceledIffTerminal'
    <3> SUFFICES ASSUME NEW i \in Tracked(tasks)
                 PROVE  Terminal(tasks'[i].state) <=> tasks'[i].ctx \in canceled'
      BY <2>2 DEF CanceledIffTerminal
    <3>1. CASE i = id
      BY <1>3, <2>1, <3>1 DEF Terminal
    <3>2. CASE i # id
      BY <1>3, <2>1, <2>2, <3>2 DEF CanceledIffTerminal, ContextsDistinct, Tracked
    <3> QED
      BY <3>1, <3>2
  <2> QED
    BY <2>3, <2>4, <2>5
<1>4. ASSUME NEW id \in Ids, NEW err \in {"nil", "canceled", "other"}, Finish(id, err)
      PROVE  RegistryInv'
  <2>1. Outcome(err) \in TerminalStates
    BY DEF Outcome, TerminalStates
  <2>2. CASE Running(id)
    <3> DEFINE p == IF err = "nil" THEN 100 ELSE tasks[id].progress
    <3>1. p \in Progresses
      BY DEF TypeOK, Task, Progresses
    <3>2. tasks' = [tasks EXCEPT ![id].state = Outcome(err), ![id].progress = p,
                                 ![id].finishedAt = now]
      BY <1>4, <2>2 DEF Finish
    <3> QED
      BY <1>3, <1>4, <2>1, <2>2, <3>1, <3>2 DEF Finish
  <2>3. CASE ~Running(id)
    BY <1>4, <2>3 DEF Finish, TypeOK, CanceledIffTerminal, ContextsDistinct, Tracked
  <2> QED
    BY <2>2, <2>3
<1>5. ASSUME NEW id \in Ids, Cancel(id) PROVE RegistryInv'
  <2>1. CASE Running(id)
    <3>1. tasks[id].progress \in Progresses /\ "canceled" \in TerminalStates
      BY DEF TypeOK, Task, TerminalStates
    <3>2. tasks' = [tasks EXCEPT ![id].state = "canceled",
                                 ![id].progress = tasks[id].progress,
                                 ![id].finishedAt = now]
      BY <1>5, <2>1 DEF Cancel, TypeOK, Task
    <3> QED
      BY <1>3, <1>5, <2>1, <3>1, <3>2 DEF Cancel
  <2>2. CASE ~Running(id)
    BY <1>5, <2>2 DEF Cancel, TypeOK, CanceledIffTerminal, ContextsDistinct, Tracked
  <2> QED
    BY <2>1, <2>2
<1>6. ASSUME List PROVE RegistryInv'
  <2>1. \A i \in Tracked(tasks)' : i \in Tracked(tasks) /\ tasks'[i] = tasks[i]
    BY <1>6, ListEffect DEF Tracked, NoTask
  <2> QED
    BY <1>6, <2>1, ListEffect DEF TypeOK, CanceledIffTerminal, ContextsDistinct
<1>7. ASSUME Tick PROVE RegistryInv'
  BY <1>7, RegistryAssumption
     DEF Tick, TypeOK, CanceledIffTerminal, ContextsDistinct, Tracked
<1>8. CASE UNCHANGED registryVars
  BY <1>8 DEF registryVars, TypeOK, CanceledIffTerminal, ContextsDistinct, Tracked
<1> QED
  BY <1>1, <1>2, <1>4, <1>5, <1>6, <1>7, <1>8 DEF Next

\* In every state, types are right, a task is terminal exactly when its context
\* is canceled, and no two tasks share a context.
THEOREM RegistrySafe == Spec => [](TypeOK /\ CanceledIffTerminal /\ ContextsDistinct)
<1>1. Spec => []RegistryInv
  BY InitInv, StepInv, PTL DEF Spec
<1> QED
  BY <1>1, PTL DEF RegistryInv

\* A step of the registry seen from one entry: it stands as it was, or a call
\* changed it while it was running, or it was dropped after it finished, or it
\* is the new task of this step.
LEMMA EntrySteps ==
  ASSUME TypeOK, [Next]_registryVars, NEW i \in Ids
  PROVE  \/ tasks'[i] = tasks[i]
         \/ Running(i) /\ tasks'[i].state # "absent"
         \/ /\ Terminal(tasks[i].state)
            /\ tasks'[i] = NoTask
            /\ now - tasks[i].finishedAt <= Retention => started' > started
         \/ tasks'[i].state = "running" /\ tasks'[i].ctx > started
<1>1. ASSUME NEW id \in Ids, StartWithID(id) PROVE
             \/ tasks'[i] = tasks[i]
             \/ Terminal(tasks[i].state) /\ tasks'[i] = NoTask /\ started' > started
             \/ tasks'[i].state = "running" /\ tasks'[i].ctx > started
  <2>1. started \in Nat
    BY RegistryAssumption DEF TypeOK
  <2> QED
    BY <1>1, <2>1, StartEffect
<1>2. ASSUME NEW id \in Ids, NEW percent \in Percents, Progress(id, percent)
      PROVE  tasks'[i] = tasks[i] \/ (Running(i) /\ tasks'[i].state # "absent")
  BY <1>2 DEF Progress, Running, TypeOK, Task
<1>3. ASSUME NEW id \in Ids, NEW err \in {"nil", "canceled", "other"}, Finish(id, err)
      PROVE  tasks'[i] = tasks[i] \/ (Running(i) /\ tasks'[i].state # "absent")
  BY <1>3 DEF Finish, Running, Outcome, TypeOK, Task
<1>4. ASSUME NEW id \in Ids, Cancel(id)
      PROVE  tasks'[i] = tasks[i] \/ (Running(i) /\ tasks'[i].state # "absent")
  BY <1>4 DEF Cancel, Running, TypeOK, Task
<1>5. ASSUME List
      PROVE  \/ tasks'[i] = tasks[i]
             \/ /\ Terminal(tasks[i].state)
                /\ tasks'[i] = NoTask
                /\ now - tasks[i].finishedAt > Retention
  BY <1>5, ListEffect
<1>6. now \in Int /\ tasks[i].finishedAt \in Int /\ Retention \in Int
  BY RegistryAssumption DEF TypeOK, Task
<1>7. CASE Tick \/ UNCHANGED registryVars
  BY <1>7 DEF Tick, registryVars
<1> QED
  BY <1>1, <1>2, <1>3, <1>4, <1>5, <1>6, <1>7 DEF Next

\* Eviction and the retention sweep never drop running work, so it stays
\* cancelable: a running entry stays in the registry at every step.
THEOREM RunningKept == Spec => RunningIsKept
<1>1. TypeOK /\ [Next]_registryVars =>
        [\A id \in Ids : Running(id) => tasks'[id].state # "absent"]_registryVars
  BY EntrySteps DEF Running, Terminal, TerminalStates
<1> QED
  BY <1>1, RegistrySafe, PTL DEF Spec, RunningIsKept

\* A finished entry stays what it was until it is dropped or its id is started
\* again, whatever late calls of Progress, Finish and Cancel still arrive.
THEOREM FinishedFinal == Spec => FinishedIsFinal
<1>1. TypeOK /\ [Next]_registryVars =>
        [\A id \in Finished(tasks) :
           \/ tasks'[id] = tasks[id]
           \/ tasks'[id] = NoTask
           \/ tasks'[id].ctx > started]_registryVars
  BY EntrySteps DEF Finished, Running, Terminal, TerminalStates
<1> QED
  BY <1>1, RegistrySafe, PTL DEF Spec, FinishedIsFinal

\* evictLocked brings the registry down to the cap, or to running tasks only.
THEOREM CapKept == Spec => CapHolds
<1> DEFINE Cap == Cardinality(Tracked(tasks')) <= MaxTasks \/ Finished(tasks') = {}
<1>1. ASSUME TypeOK, NEW id \in Ids, StartWithID(id) PROVE Cap
  <2> DEFINE new == [state |-> "running", progress |-> -1,
                     finishedAt |-> 0, ctx |-> started + 1]
             ts  == [tasks EXCEPT ![id] = new]
  <2>1. PICK dropped \in Evictable(ts) : tasks' = Without(ts, dropped)
    BY <1>1 DEF StartWithID
  <2> HIDE DEF ts
  <2>2. dropped \subseteq Finished(ts) /\ Finished(ts) \subseteq Tracked(ts)
    BY DEF Evictable, Finished, Tracked, Terminal, TerminalStates
  <2>3. Tracked(tasks') = Tracked(ts) \ dropped /\ Finished(tasks') = Finished(ts) \ dropped
    BY <2>1, <2>2 DEF Without, Tracked, Finished, NoTask, Terminal, TerminalStates
  <2>4. IsFiniteSet(Tracked(ts))
    BY RegistryAssumption, FS_Subset DEF Tracked
  <2>5. Tracked(ts) \cap dropped = dropped
    BY <2>2
  <2>6. /\ Cardinality(Tracked(tasks')) = Cardinality(Tracked(ts)) - Cardinality(dropped)
        /\ Cardinality(Tracked(ts)) \in Nat /\ Cardinality(dropped) \in Nat
    BY <2>2, <2>3, <2>4, <2>5, FS_Difference, FS_Subset, FS_CardinalityType
  <2>7. CASE Excess(ts) <= 0
    <3>1. dropped = {}
      BY <2>7 DEF Evictable
    <3>2. Cardinality(dropped) = 0
      BY <3>1, FS_EmptySet
    <3> QED
      BY <2>6, <2>7, <3>2, RegistryAssumption DEF Excess
  <2>8. CASE ~(Excess(ts) <= 0) /\ Cardinality(dropped) = Excess(ts)
    BY <2>6, <2>8, RegistryAssumption DEF Excess
  <2>9. CASE dropped = Finished(ts)
    BY <2>3, <2>9
  <2> QED
    BY <2>7, <2>8, <2>9 DEF Evictable
<1>2. ASSUME TypeOK, Next, ~\E id \in Ids : StartWithID(id)
      PROVE  started' = started
  BY <1>2 DEF Next, Progress, Finish, Cancel, List, Tick
<1>3. TypeOK /\ [Next]_registryVars =>
        [started' > started =>
           \/ Cardinality(Tracked(tasks')) <= MaxTasks
           \/ Finished(tasks') = {}]_registryVars
  <2>1. TypeOK => started \in Nat
    BY RegistryAssumption DEF TypeOK
  <2> QED
    BY <1>1, <1>2, <2>1
<1> QED
  BY <1>3, RegistrySafe, PTL DEF Spec, CapHolds

\* Within the retention only a start over the cap drops a finished entry.
THEOREM RecentKept == Spec => RecentIsKept
<1>1. ASSUME TypeOK, [Next]_registryVars, NEW id \in Finished(tasks),
             tasks'[id] = NoTask, now - tasks[id].finishedAt <= Retention
      PROVE  started' > started
  BY <1>1, EntrySteps DEF Finished, Running, Terminal, TerminalStates, NoTask
<1>2. TypeOK /\ [Next]_registryVars =>
        [\A id \in Finished(tasks) :
           (tasks'[id] = NoTask /\ now - tasks[id].finishedAt <= Retention)
             => started' > started]_registryVars
  BY <1>1
<1> QED
  BY <1>2, RegistrySafe, PTL DEF Spec, RecentIsKept
=============================================================================
