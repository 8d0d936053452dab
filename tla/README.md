# Verification of Iskele

Iskele is a Docker management panel: one daemon, `iskeled`, that talks to the
Docker Engine, keeps its records in SQLite and serves a web interface. This
directory models the parts of it that are hard to test (work that outlives its
request, shared records, deadlines, cancels, restarts, engine calls that fail
half way) in TLA+, checks them with TLC and proves the core with TLAPS.
`PROJECT.json` maps every definition to the lines it models and lists the runs,
the mutants that show each property can fail, the findings, the hazards and the
theorems.

## The system and its parts

| Part | Source | State | Model |
|---|---|---|---|
| Task registry | `internal/service/tasks.go` | map of tasks under one mutex; a context per task | `TaskRegistry` |
| Stack operations | `service/stackup.go`, `handlers/stacks.go`, `store/stacks.go` | status column, task, goroutine | `StackDeploy` |
| What a deploy does to containers | `service/stackup.go` | the engine's containers, networks, volumes | `StackConverge` |
| Image builds | `service/build.go`, `handlers/build.go`, `store/builds.go` | row, task, goroutine | `BuildRun`, abstractly `BuildRecord` |
| Progress streams | `handlers/stacks.go`, `handlers/build.go`, `emit` | bounded channels, client | `ProgressStream` |
| Daemon start | `cmd/iskeled/main.go` | reconciliation before serving | in `StackDeploy`, `BuildRun` |
| Sessions, accounts, tickets, limiters | `service/auth.go`, `service/users.go`, `auth/`, `middleware/ratelimit.go` | rows, maps under mutexes | planned |
| Statistics multiplexer | `service/statsall.go` | goroutine per container | planned |
| Redeploy with rollback | `service/stream.go` | sequence of engine calls | planned |
| Audit trail, migrations | `store/audit.go`, `store/db.go` | rows | planned |
| Compose diff and order, ignore patterns | `compose/`, `service/context.go` | pure functions | planned |
| Engine adapter, HTTP plumbing, templates, configuration, registries, host information, web | the rest | none between requests, or pure I/O | not modelled |

How they interact: a handler asks a service for a long operation; the service
writes a row and registers a task whose context the work runs on; the work
calls the engine and emits events into a channel that the handler forwards to a
socket. The task drawer can cancel any task; the deadline ends the context; the
process can die, and at its next start closes the rows that say an operation is
in flight before it serves.

## Modules

**TaskRegistry.** `tasks` is the map, `canceled` the set of ended contexts,
`started` numbers the contexts handed out, `now` is the clock. One action per
method: `StartWithID` (which evicts over the cap), `Progress`, `Finish`,
`Cancel`, `List` (which sweeps), and `Tick`. Each is one critical section of the
mutex, hence one step.

**StackDeploy** (uses the registry as `R`, one task id per stack). A process is
an operation in flight. A deploy or pull goes `check` (claim reads the registry),
`register` (claim starts the task), `begin` (the row says deploying), `plan`,
`work` (the engine, any outcome), `record` (the outcome, written on a context
that cannot be canceled), `done` (the release). Down, stop and start claim
nothing and are `Act`. `Expire` is the deadline, `CancelTask` the drawer,
`Crash` the death of the process. The start is `ListDeploying`, which reads the
rows that say deploying into `todo`, `ReconcileDeploying`, which closes them one
by one, and `Serve`, which comes when the reconciliation has returned: what the
status column says then is a consequence, not a guard. Every database statement
and registry call is a step of its own, so that operations interleave where the
code lets them.

**StackConverge.** `shape` says how many services the stack has and how many
replicas each may be given, `file` is what the compose file asks for, `engine`
maps a container name to the container under it, `op` is the one operation in
flight with the list of containers it took (`seen`). The steps are those of `up`
and `upService`: networks, volumes, list, service by service the image, then
replica by replica leave, start, replace or create, connect and launch, then the
surplus; `BeginAll` and `ActOn` are down, stop, start and restart. Each engine
call may fail, the listings included. A definition stands for the configuration
hash; `whole` says whether the container was joined to all its networks. Services
are numbered in dependency order. `Outside` is another client of the engine, or
the container itself: a container goes, starts, exits, or is put under a free
name or in place of another by a different compose client. Such a container is
what an imported stack consists of: it carries none of the daemon's labels, so it
has no hash that could be current, is never surplus (`Surplus`) and has no rank
(`Ahead`).

**BuildRecord** promises what the history is for: a build is opened once, closed
once with one outcome, and dropped at most after that. **BuildRun** is the code:
`Start` inserts the row, `Begin` registers the task (for a socket; a build run by
a deploy has none), `EngineEnds` and `Interrupted` end the work, `Record` writes
the row, `CloseStream` closes the channels, `Report` finishes the task. `AskCancel`,
`CancelTask` and `CloseRow` are the three steps of a cancel request: read the
row, cancel the task, close the row if there was no task. `Prune` is retention;
`Crash`, `ListRunning`, `ReconcileRunning`, `Serve` the restart.

**ProgressStream.** A worker, its event and error channels, a handler and a
client who may leave. `kind` says whose handler reads: a stack's returns when
the client is gone, a build's reads on and drops the frames. A stack's handler
writes the error when it reads it; a build's keeps it until both channels are
drained and sends it in `LastFrame`. `Cancel` ends the worker's context only;
`Expire` also ends the context a build's frames are sent on, because both are
children of the one with the deadline.

## Runs

| Run | Checks | Bounds |
|---|---|---|
| `registry` | a running task is never dropped, a finished one never changes, a context ends exactly with its task, the cap, the retention | 3 ids over a cap of 2 |
| `stack_deploy` | a busy task and a deploying row belong to an operation that will release them; a deleted record stays deleted; operations end; no row stays deploying | 1 stack, 2 operations, 2 claims, cap 1 |
| `build_run` | outcome before close, running rows are ours, tasks are owned, and `FirstOutcomeStands`: BuildRun implements BuildRecord | 2 builds over a cap of 1, so that a task can be evicted |
| `build_run_live` | a build that began gets an outcome | the same, clock stopped |
| `converge` | convergence, what is right or another service's is untouched, dependencies first, down leaves nothing, and nothing is touched that was neither listed nor made | 1 service of 2 replicas, 2 of 1, or 1 that may set `container_name`; 2 definitions, 2 networks, one of them external |
| `stream` | no event is lost, who stays learns the outcome, a build is not held up, all ends | 5 events, capacity 2 |

Two operations, builds or services are enough because every property relates at
most two of them; the caps are below that number so that eviction, a full channel
and a surplus replica happen. The proofs remove the bounds for the registry,
StackDeploy and BuildRun. Symmetry is used only in runs without liveness.
`MaxStarts`, `MaxTime` and `Events` are bounds of the model. `Outside` may do
anything before an operation has taken its list, and one thing after. The
properties that say what an operation achieves hold of one that was not disturbed
after its list; `OnlyKnownTouched` is about the disturbed ones. The stack's own
networks and volumes come and go between operations; an external one is there from
the start or never.

### Disagreements found

Each is a run that expects a violation; the quotations are in `PROJECT.json`.

- `stack_deploy_overlap`: two deploys of one stack can run together, because
  `claim` looks up and registers in two critical sections, and because a cancel
  frees the claim while the canceled deploy is still unwinding.
- `build_cancel_closes`: a cancel that finds no task closes the row as "the
  daemon restarted" although the build runs: it belongs to a deploy, has not
  registered yet, or was evicted.
- `converge_leftover`: a container another compose client made, beyond the count
  of the file, keeps running after a successful up, because the surplus goes by
  the daemon's labels. By the same rule a service that is given a
  `container_name` keeps its old container.
- `converge_whole`: a container whose later networks could not be joined is
  started by the next deploy as it is.
- `converge_refused`: a deploy whose external volume is missing fails after it has
  created the stack's networks.
- `stream_stack_held`: a stack operation whose client left blocks on the full
  event channel until its deadline.

Three more things were seen while modelling and are not runs. The release of a
claim finishes the task with a nil error whatever happened (`stackup.go:124`). A
build stopped by its deadline reports its task as succeeded (`build.go:271`), and
its client gets no last frame. The containers of an imported stack have no rank,
so they are stopped and started by name (`stackup.go:744`).

### Fairness

Goroutines that can run do (weak fairness on their steps), and deadlines come
(the contexts are made with a timeout). The engine is only assumed to let go of
a request whose context has ended, which the HTTP client guarantees; it may hang
in any other. Strong fairness is assumed of the two reconciliations,
`ReconcileDeploying` and `ReconcileRunning`, of a given row: the daemon may die any
number of times, but not each time before it gets to that row. Nothing is assumed
of clients, cancels or crashes. StackConverge has no clock and states no liveness:
that an operation ends, though the engine hangs, is `OperationsEnd` of StackDeploy.

## Proofs

Proved for every value of the constants:

- `TaskRegistryProofs`: `RegistrySafe` (the invariant: types, a task is terminal
  exactly when its context is canceled, contexts are distinct), and from it the
  action properties `RunningKept`, `FinishedFinal`, `CapKept`, `RecentKept`.
  Distinctness is what makes the second conjunct inductive: a `Finish` cancels one
  context, and must not cancel another task's. The lemmas `StartEffect` and
  `EntrySteps` say what a call can do to an entry.
- `StackDeployProofs`: `DeploySafe`. The invariant is `TypeOK`, `BusyIsOwned` and
  `DeployingIsOwned` together; the first ties a context to a held claim, which is
  what lets the release of an older operation be told from a newer claim. Between
  the listing of a start and its end the rows in `todo` are the ones still without
  an owner; that none is left when the daemon serves follows from the invariant.
- `BuildRunProofs`: `HistoryKept`, the refinement of `BuildRecord` (each action
  maps to a step or a stutter on `status`), and `BuildSafe`. `OutcomeBeforeClose`
  is strengthened to `OutcomeWritten`, which holds one step earlier, from the
  moment the row is written. `TaskIsOwned` is not inductive alone: `NotStarted` (no goroutine before its row) and `SocketTask`
  (a build of a deploy has no task) are added.

The assumptions are those named in the modules (`RegistryAssumption`,
`DeployAssumption`, `BuildAssumption`): finite sets of ids and natural bounds.
Left to TLC: all liveness, which is out of the prover's reach, `DeletedIsFinal`,
StackConverge and ProgressStream.

## Left out

- SQLite statements are atomic and succeed on a live context. A failed
  reconciliation is only logged by the daemon, which then serves with stale rows;
  the models do not cover that.
- The list of one reconciliation stops at 500 rows; `RunningIsOurs` is stated for
  as many builds as the limit.
- StackConverge has one operation at a time, though `stack_deploy_overlap` shows
  that two can overlap; an up or scale of a file that parses; and one replica
  where it uses a `container_name`.
- Log archives, context packing, request parsing, rendering of frames.

## Plan

1. `Sessions`: bootstrap, login with the limiter, refresh rotation, logout,
   disabling, the last administrator; abstractly, one live pair per session.
2. `StatsMux`: rescan, follow, forget, stopAll; channel closed after the last
   sender, no container left without a follower.
3. `Redeploy`: every engine call may fail; the operator is left with a container.
4. `TicketStore`, `RateLimiter`, audit paging with retention, migrations.
5. Operators: compose diff, service order, ignore patterns, against reference
   definitions.
6. Proofs: StackConverge's `OthersUntouched` and type invariant, ProgressStream's
   `OutcomeSeen` and `BuildNotHeld`, `DeletedIsFinal`, the safety of the new
   modules.
