--------------------------- MODULE StackConverge ---------------------------
(***************************************************************************)
(* What one stack operation does to the engine (internal/service/          *)
(* stackup.go): up, scale, down, stop, start and restart against the       *)
(* containers and the resources of a stack, one engine call per step, each *)
(* of which may fail.  The containers are listed once and then worked from *)
(* that list, while other clients of the engine go on.                     *)
(*                                                                         *)
(* Services are numbered in the dependency order of the compose file.  A   *)
(* container sits under its name: <<s, r>> is the default name of replica  *)
(* r of service s, <<s, 0>> the name a container_name gives it.  A         *)
(* container made by another compose client, which is what an imported     *)
(* stack consists of, belongs to the stack but carries no definition hash, *)
(* no service and no replica number.                                       *)
(***************************************************************************)
EXTENDS Integers, Sequences, FiniteSets

CONSTANTS Shapes,        \* bound: for each service, the most replicas it is given
          Definitions,   \* what a service can be defined as: the values of configHash
          Networks, Volumes,
          External,      \* the resources declared external
          Named          \* bound: the shapes whose services may set container_name

ASSUME ConvergeAssumption ==
  /\ Shapes \subseteq Seq(Nat \ {0}) /\ << >> \notin Shapes
  /\ IsFiniteSet(Networks) /\ IsFiniteSet(Volumes)
  /\ External \subseteq Networks \cup Volumes
  /\ Named \subseteq Shapes

VARIABLES shape,      \* the shape of the stack
          file,       \* what the compose file asks for
          engine,     \* the container under each name
          resources,  \* the networks and volumes that exist
          op          \* the operation in flight

vars == <<shape, file, engine, resources, op>>

Services == DOMAIN shape
Naming == IF shape \in Named THEN BOOLEAN ELSE {FALSE}
Names == UNION {{s} \X ((IF TRUE \in Naming THEN 0 ELSE 1)..shape[s]) : s \in Services}

\* A container runs or it does not; the code looks no closer.  Replica 0 stands for
\* a container without the labels of the daemon.
States == {"running", "stopped"}
NoContainer == [def |-> "", state |-> "absent", whole |-> FALSE, replica |-> 0]
Imported(state) == [def |-> "", state |-> state, whole |-> TRUE, replica |-> 0]
Container(n) ==
  [def : Definitions, state : States, whole : BOOLEAN, replica : 1..shape[n[1]]]
    \cup {Imported(state) : state \in States}

\* A service of the file: its definition, how many replicas, and whether it sets
\* container_name.  A count of zero is read as one.
Service(s) == [def : Definitions, replicas : 1..shape[s], named : Naming]

Present(n) == engine[n] # NoContainer

\* An entry of the list an operation took: the container, and whether the one
\* with that id is still there.
Listing == [n \in Names |-> [was |-> engine[n], alive |-> Present(n)]]

\* left: the listed containers still to be acted on; created: the container just made,
\* while the one with that id is there; made: the resources made, until the list is
\* taken; failures: whether something could not be acted on; parsed: whether the file
\* could be read.
Idle == [pc |-> "idle", kind |-> "none", services |-> {}, plan |-> file, recreate |-> FALSE,
         seen |-> [n \in Names |-> [was |-> NoContainer, alive |-> FALSE]],
         svc |-> 0, replica |-> 0, left |-> {}, created |-> {}, made |-> {},
         failures |-> FALSE, parsed |-> TRUE, disturbed |-> FALSE]

-----------------------------------------------------------------------------
Init ==
  /\ shape \in Shapes
  /\ file \in {f \in [Services -> UNION {Service(s) : s \in Services}] :
                 \A s \in Services : f[s] \in Service(s)}
  /\ engine = [n \in Names |-> NoContainer]
  /\ resources \in SUBSET External
  /\ op = Idle

\* The operator edits the file.
Edit(s, service) ==
  /\ op.pc = "idle"
  /\ file' = [file EXCEPT ![s] = service]
  /\ op' = [op EXCEPT !.plan = file']
  /\ UNCHANGED <<shape, engine, resources>>

\* up and scale read the file; a scale works on one service, with the count asked
\* for, and makes no network or volume.
Begin(kind, services, recreate, count) ==
  /\ op.pc = "idle"
  /\ kind = "up" => count = 0
  /\ kind = "scale" => ~recreate /\ Cardinality(services) = 1
  /\ op' = [op EXCEPT
       !.pc = IF kind = "up" THEN "networks" ELSE "list",
       !.kind = kind, !.services = services, !.recreate = recreate,
       !.plan = [s \in Services |->
                   IF kind = "scale" /\ s \in services THEN [file[s] EXCEPT !.replicas = count]
                   ELSE file[s]]]
  /\ UNCHANGED <<shape, file, engine, resources>>

\* The operation returns its error, and with it goes what it had listed.
Fails == op' = [Idle EXCEPT !.pc = "failed", !.kind = op.kind, !.made = op.made]

\* ensureNetworks and ensureVolumes: what is missing is created, one by one; a
\* missing one that is external, or a call that fails, the listing included, ends
\* the operation.
Ensure(stage, wanted, next) ==
  /\ op.pc = stage
  /\ \/ wanted \subseteq resources /\ op' = [op EXCEPT !.pc = next] /\ UNCHANGED resources
     \/ \E res \in wanted \ (resources \cup External) :
          /\ resources' = resources \cup {res}
          /\ op' = [op EXCEPT !.made = @ \cup {res}]
     \/ /\ wanted # {} /\ (wanted \cap op.made = {} \/ ~(wanted \subseteq resources))
        /\ Fails /\ UNCHANGED resources
  /\ UNCHANGED <<shape, file, engine>>

EnsureNetworks == Ensure("networks", Networks, "volumes")

EnsureVolumes == Ensure("volumes", Volumes, "list")

\* containersOf: one listing, from which the operation works to its end.
List ==
  /\ op.pc = "list"
  /\ \/ op' = [op EXCEPT !.pc = "service", !.seen = Listing, !.made = {}]
     \/ Fails
  /\ UNCHANGED <<shape, file, engine, resources>>

\* Mutant: the services come in the reverse order.
NextServiceReversed ==
  /\ op.pc = "service"
  /\ \E s \in op.services \cup {0} :
       /\ \A t \in op.services : op.svc = 0 \/ t < op.svc => s >= t
       /\ s # 0 => op.svc = 0 \/ s < op.svc
       /\ \/ s = 0 /\ op' = [op EXCEPT !.pc = "done"]
          \/ s # 0 /\ op' = [op EXCEPT !.pc = "image", !.svc = s, !.replica = 1]
  /\ UNCHANGED <<shape, file, engine, resources>>

\* The services in dependency order; the context is looked at between two of them.
NextService ==
  /\ op.pc = "service"
  /\ \E s \in op.services \cup {0} :
       /\ \A t \in op.services : t > op.svc => s # 0 /\ s <= t
       /\ s # 0 => s > op.svc
       /\ \/ s = 0 /\ op' = [op EXCEPT !.pc = "done"]
          \/ s # 0 /\ op' = [op EXCEPT !.pc = "image", !.svc = s, !.replica = 1]
          \/ s # 0 /\ Fails
  /\ UNCHANGED <<shape, file, engine, resources>>

\* buildFor or pullFor: the image is there before the first container is touched.
PrepareImage ==
  /\ op.pc = "image"
  /\ (op' = [op EXCEPT !.pc = "replica"]) \/ Fails
  /\ UNCHANGED <<shape, file, engine, resources>>

-----------------------------------------------------------------------------
\* upService, replica by replica.  The name comes from the plan; what was under it
\* from the list.
Wanted == op.plan[op.svc]

NameOf(s, r) == IF op.plan[s].named THEN <<s, 0>> ELSE <<s, r>>

Here == NameOf(op.svc, op.replica)

Found == op.seen[Here].was # NoContainer

\* Mutant: the definition is never found to be the same.
CurrentNever == FALSE

\* The listed container was made from the definition the plan has.
Current == Found /\ ~op.recreate /\ op.seen[Here].was.def = Wanted.def

NextReplica == op' = [op EXCEPT !.pc = "replica", !.replica = op.replica + 1, !.created = {}]

Goto(pc) == op' = [op EXCEPT !.pc = pc]

\* Mutant: only the containers that run count.
SurplusRunning(s) ==
  {n \in Names : n[1] = s /\ op.seen[n].was.state = "running"
                 /\ op.seen[n].was.replica > op.plan[s].replicas}

\* Mutant: the service label is not looked at.
SurplusOfAny(s) ==
  {n \in Names : op.seen[n].was.replica > op.plan[s].replicas}

\* The listed containers labelled with the service and with a number the plan no
\* longer reaches.  One without the labels is skipped.
Surplus(s) ==
  {n \in Names : n[1] = s /\ op.seen[n].was.replica > op.plan[s].replicas}

\* What the list says decides: leave it, start it, replace it or create it.
Decide ==
  /\ op.pc = "replica"
  /\ IF op.replica > Wanted.replicas
     THEN op' = [op EXCEPT !.pc = "surplus", !.left = Surplus(op.svc)]
     ELSE IF Current /\ op.seen[Here].was.state = "running" THEN NextReplica
     ELSE IF Current THEN Goto("start")
     ELSE IF Found THEN Goto("remove") ELSE Goto("create")
  /\ UNCHANGED <<shape, file, engine, resources>>

\* Same definition, not running: it is started, or else replaced.
StartCurrent ==
  /\ op.pc = "start"
  /\ \/ /\ op.seen[Here].alive
        /\ engine' = [engine EXCEPT ![Here].state = "running"]
        /\ NextReplica
     \/ Goto("remove") /\ UNCHANGED engine
  /\ UNCHANGED <<shape, file, resources>>

\* Mutant: the container is removed by its name.
RemoveNamed(n) == engine' = [engine EXCEPT ![n] = NoContainer]

\* removeContainer goes by the listed id: a container that is gone counts as
\* removed, one that has taken its name since is not touched.
RemoveListed(n) ==
  engine' = IF op.seen[n].alive THEN [engine EXCEPT ![n] = NoContainer] ELSE engine

Unlisted(n) == [op.seen EXCEPT ![n].alive = FALSE]

RemoveCurrent ==
  /\ op.pc = "remove"
  /\ \/ RemoveListed(Here) /\ op' = [op EXCEPT !.pc = "create", !.seen = Unlisted(Here)]
     \/ Fails /\ UNCHANGED engine
  /\ UNCHANGED <<shape, file, resources>>

\* Mutant: replicas are numbered from zero.
CreateFromZero ==
  /\ op.pc = "create"
  /\ \/ /\ ~Present(Here)
        /\ engine' = [engine EXCEPT ![Here] =
             [def |-> Wanted.def, state |-> "stopped",
              whole |-> Cardinality(Networks) <= 1, replica |-> op.replica - 1]]
        /\ op' = [op EXCEPT !.pc = "connect", !.created = {Here}]
     \/ Fails /\ UNCHANGED engine
  /\ UNCHANGED <<shape, file, resources>>

\* createReplica: created on the first network; a name that is taken is a conflict.
Create ==
  /\ op.pc = "create"
  /\ \/ /\ ~Present(Here)
        /\ engine' = [engine EXCEPT ![Here] =
             [def |-> Wanted.def, state |-> "stopped",
              whole |-> Cardinality(Networks) <= 1, replica |-> op.replica]]
        /\ op' = [op EXCEPT !.pc = "connect", !.created = {Here}]
     \/ Fails /\ UNCHANGED engine
  /\ UNCHANGED <<shape, file, resources>>

\* Then joined to the others.
Connect ==
  /\ op.pc = "connect"
  /\ IF Cardinality(Networks) <= 1 THEN Goto("launch") /\ UNCHANGED engine
     ELSE \/ /\ Here \in op.created
             /\ engine' = [engine EXCEPT ![Here].whole = TRUE]
             /\ Goto("launch")
          \/ Fails /\ UNCHANGED engine
  /\ UNCHANGED <<shape, file, resources>>

\* And started; one that would not start is left for the operator to inspect.
Launch ==
  /\ op.pc = "launch"
  /\ \/ /\ Here \in op.created
        /\ engine' = [engine EXCEPT ![Here].state = "running"]
        /\ NextReplica
     \/ Fails /\ UNCHANGED engine
  /\ UNCHANGED <<shape, file, resources>>

\* removeSurplus, one by one; a failure ends the operation.
RemoveSurplus ==
  /\ op.pc = "surplus"
  /\ \/ op.left = {} /\ Goto("service") /\ UNCHANGED engine
     \/ \E n \in op.left :
          /\ RemoveListed(n)
          /\ op' = [op EXCEPT !.seen = Unlisted(n), !.left = @ \ {n}]
     \/ op.left # {} /\ Fails /\ UNCHANGED engine
  /\ UNCHANGED <<shape, file, resources>>

-----------------------------------------------------------------------------
\* Mutant: only the running containers are listed.
BeginAllRunning(kind, parsed) ==
  /\ op.pc = "idle"
  /\ op' = [op EXCEPT !.pc = "all", !.kind = kind, !.seen = Listing, !.parsed = parsed,
                      !.left = {n \in Names : engine[n].state = "running"}]
  /\ UNCHANGED <<shape, file, engine, resources>>

\* Down and Act list the containers, and go on past what fails.  The file is read
\* for the order and the resources; one that does not parse gives neither.
BeginAll(kind, parsed) ==
  /\ op.pc = "idle"
  /\ \/ op' = [op EXCEPT !.pc = "all", !.kind = kind, !.seen = Listing, !.parsed = parsed,
                         !.left = {n \in Names : Present(n)}]
     \/ op' = [op EXCEPT !.pc = "failed", !.kind = kind]
  /\ UNCHANGED <<shape, file, engine, resources>>

Ranked(n) == op.seen[n].was.replica > 0

\* orderContainers: start goes with the dependencies, stop and restart against them.
\* Containers without a service label come last, both ways.  Between two of one rank
\* the code goes by name, which the model leaves open.
Ahead(m, n) ==
  /\ Ranked(m)
  /\ Ranked(n) => IF op.kind = "start" THEN m[1] < n[1] ELSE m[1] > n[1]

\* Down takes the list as it comes, and so does what has no file to go by.
Turn(n) ==
  /\ n \in op.left
  /\ op.kind # "down" /\ op.parsed => \A m \in op.left : ~Ahead(m, n)

ActOn(n) ==
  /\ op.pc = "all" /\ Turn(n)
  /\ \/ /\ IF op.kind = "down" THEN RemoveListed(n)
           ELSE /\ op.seen[n].alive
                /\ engine' = [engine EXCEPT ![n].state =
                                IF op.kind = "stop" THEN "stopped" ELSE "running"]
        /\ op' = [op EXCEPT !.left = @ \ {n},
                            !.seen = IF op.kind = "down" THEN Unlisted(n) ELSE @]
     \/ op' = [op EXCEPT !.left = @ \ {n}, !.failures = TRUE] /\ UNCHANGED engine
  /\ UNCHANGED <<shape, file, resources>>

\* After the containers down removes, as far as it is asked to and can, what the file
\* declares and does not call external.
AllActed ==
  /\ op.pc = "all" /\ op.left = {}
  /\ \E gone \in IF op.kind = "down" /\ op.parsed
                 THEN SUBSET ((Networks \cup Volumes) \ External) ELSE {{}} :
       resources' = resources \ gone
  /\ Goto("done")
  /\ UNCHANGED <<shape, file, engine>>

\* The operation is over, one way or the other.
End ==
  /\ op.pc \in {"done", "failed"}
  /\ op' = Idle
  /\ UNCHANGED <<shape, file, engine, resources>>

-----------------------------------------------------------------------------
\* Other clients of the engine, and the containers themselves: at most one such
\* event once an operation has its list (a bound).  A container goes, another compose
\* client makes one under a free name or in place of one, or one starts or exits.
Unlisting == {"idle", "networks", "volumes", "list"}

Disturbs(seen, created) ==
  op' = [op EXCEPT !.seen = seen, !.created = created, !.disturbed = op.pc \notin Unlisting]

Outside(n) ==
  /\ ~op.disturbed /\ op.pc \notin {"done", "failed"}
  /\ \/ /\ Present(n)
        /\ engine' = [engine EXCEPT ![n] = NoContainer]
        /\ Disturbs(Unlisted(n), op.created \ {n})
     \/ /\ engine' = [engine EXCEPT ![n] = Imported("running")]
        /\ Disturbs(Unlisted(n), op.created \ {n})
     \/ \E state \in States \ {engine[n].state} :
          /\ Present(n)
          /\ engine' = [engine EXCEPT ![n].state = state]
          /\ Disturbs(op.seen, op.created)
  /\ UNCHANGED <<shape, file, resources>>

\* The stack's own networks and volumes come and go between operations; the external
\* ones are there from the start or never (bounds).
OutsideResource(res) ==
  /\ op.pc = "idle"
  /\ resources' = IF res \in resources THEN resources \ {res} ELSE resources \cup {res}
  /\ UNCHANGED <<shape, file, engine, op>>

Step ==
  \/ EnsureNetworks \/ EnsureVolumes \/ List \/ NextService \/ PrepareImage
  \/ Decide \/ StartCurrent \/ RemoveCurrent \/ Create \/ Connect \/ Launch \/ RemoveSurplus
  \/ \E n \in Names : ActOn(n)
  \/ AllActed \/ End

Next ==
  \/ \E s \in Services : \E service \in Service(s) : Edit(s, service)
  \/ \E kind \in {"up", "scale"}, services \in SUBSET Services \ {{}}, recreate \in BOOLEAN :
       \E count \in UNION {0..shape[s] : s \in services} : Begin(kind, services, recreate, count)
  \/ \E kind \in {"down", "stop", "start", "restart"}, parsed \in BOOLEAN : BeginAll(kind, parsed)
  \/ Step
  \/ \E n \in Names : Outside(n)
  \/ \E res \in (Networks \cup Volumes) \ External : OutsideResource(res)

Spec == Init /\ [][Next]_vars

-----------------------------------------------------------------------------
\* Every variable has its type, and what an operation remembers is in range: a
\* container it holds for listed or created is there.
TypeOK ==
  /\ shape \in Shapes
  /\ \A s \in Services : file[s] \in Service(s)
  /\ \A n \in Names : engine[n] \in Container(n) \cup {NoContainer}
  /\ resources \subseteq Networks \cup Volumes /\ op.made \subseteq resources
  /\ op.services \subseteq Services /\ op.svc \in Services \cup {0}
  /\ op.svc # 0 => op.replica \in 0..shape[op.svc] + 1
  /\ op.left \subseteq Names /\ op.created \subseteq {n \in Names : Present(n)}
  /\ \A n \in Names : op.seen[n].alive => Present(n)

Runs(s, r) ==
  LET c == engine[NameOf(s, r)] IN c.state = "running" /\ c.def = op.plan[s].def

Undisturbed == op.kind \in {"up", "scale"} /\ ~op.disturbed

\* An up or a scale that nobody interferes with and that reports success has
\* brought its services to what was asked: every replica runs from the plan's
\* definition, in place of whatever was under its name, and no container the daemon
\* made is left over above the count, whatever an earlier operation that failed half
\* way had left.
Converged ==
  op.pc = "done" /\ Undisturbed =>
    \A s \in op.services :
      /\ \A r \in 1..op.plan[s].replicas : Runs(s, r)
      /\ \A n \in Names : n[1] = s => engine[n].replica <= op.plan[s].replicas

\* A deploy leaves alone what is already right: a container listed as running
\* from the plan's definition is the same container, untouched, to the end.
UpToDateKept ==
  op.pc # "idle" /\ Undisturbed /\ ~op.recreate =>
    \A s \in Services : \A r \in 1..op.plan[s].replicas :
      LET listed == op.seen[NameOf(s, r)] IN
        listed.was.state = "running" /\ listed.was.def = op.plan[s].def
          => listed.alive /\ engine[NameOf(s, r)] = listed.was

\* A deploy of some services, or the scale of one, touches no container of
\* another.
OthersUntouched ==
  op.svc # 0 /\ Undisturbed =>
    \A n \in Names : n[1] \notin op.services => engine[n] = op.seen[n].was

\* No container of a service is made or started before every replica of the
\* services ahead of it in the dependency order, as far as selected, runs.
DependencyFirst ==
  op.pc \in {"start", "create", "connect", "launch"} /\ Undisturbed =>
    \A s \in op.services : s < op.svc =>
      \A r \in 1..op.plan[s].replicas : Runs(s, r)

\* A down that reports no failure leaves no container of the stack.
DownLeavesNothing ==
  op.pc = "done" /\ op.kind = "down" /\ ~op.failures /\ ~op.disturbed =>
    \A n \in Names : ~Present(n)

\* An operation removes, starts, stops and joins only containers it listed or made:
\* one that another client has put under the same name since is not touched.
OnlyKnownTouched ==
  [][op.pc \notin Unlisting /\ op'.disturbed = op.disturbed =>
       \A n \in Names : Present(n) /\ engine'[n] # engine[n] =>
         op.seen[n].alive \/ n \in op.created]_vars

\* After an up of the whole stack no container of it runs that the file does not ask
\* for: "upService brings one service to the state the compose file asks for"
\* (stackup.go), and of an imported stack "The next `up` is what brings them in line
\* with the file" (Import, discover.go).
NoLeftovers ==
  op.pc = "done" /\ op.kind = "up" /\ Undisturbed /\ op.services = Services =>
    \A n \in Names : engine[n].state = "running" =>
      \E r \in 1..op.plan[n[1]].replicas : n = NameOf(n[1], r)

\* A deploy that cannot go ahead, because something it calls external is missing,
\* has made nothing: "Everything that can be refused is refused before anything is
\* created, so a stack that cannot deploy leaves no half-built remains behind" (up,
\* stackup.go).
RefusedLeavesNothing ==
  op.pc = "failed" /\ op.kind = "up" /\ ~(External \subseteq resources) => op.made = {}

\* What an up reports as deployed is on every network its service declares: "Same
\* definition, not running: starting it is enough" (upService, stackup.go).
DeployedIsWhole ==
  op.pc = "done" /\ op.kind = "up" /\ Undisturbed =>
    \A s \in op.services : \A r \in 1..op.plan[s].replicas : engine[NameOf(s, r)].whole
=============================================================================
