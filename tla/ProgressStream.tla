--------------------------- MODULE ProgressStream ---------------------------
(***************************************************************************)
(* The progress of a long operation on its way to the browser: the         *)
(* goroutine that works and emits events into a bounded channel, the       *)
(* handler that forwards them, and the client, who may leave.  A stack's   *)
(* handler (internal/server/handlers/stacks.go) returns when the client    *)
(* leaves; a build's (internal/server/handlers/build.go) reads on and      *)
(* drops what it cannot send.                                              *)
(***************************************************************************)
EXTENDS Integers

CONSTANTS Capacity,    \* of the event channel
          Events       \* bound: how many events the operation has to emit

ASSUME StreamAssumption ==
  Capacity \in Nat \ {0} /\ Events \in Nat

VARIABLES kind,      \* "stack" or "build": whose handler reads
          work,      \* the goroutine: "work", "emit" or how it ended
          left,      \* events it has yet to emit
          canceled,  \* whether its task was canceled
          expired,   \* whether the deadline has passed
          buffered,  \* events in their channel
          pending,   \* whether the error is in its channel
          closed,    \* the channels that are closed
          waits,     \* what the handler has yet to see; nothing when it has returned
          failure,   \* the error a build's handler keeps for its last frame
          client,    \* "here" or "gone"
          shown,     \* events the client has received
          told       \* the last frame the client has received: "none", "error" or "done"

vars == <<kind, work, left, canceled, expired, buffered, pending, closed, waits, failure,
          client, shown, told>>
context == <<canceled, expired>>
reader == <<kind, waits, failure, client, shown, told>>

Ended == {"failed", "succeeded", "canceled"}

\* ctx.Err() # nil for the worker: a child of the context with the deadline.
Dead == canceled \/ expired

Init ==
  /\ kind \in {"stack", "build"}
  /\ work = "work" /\ left = Events /\ canceled = FALSE /\ expired = FALSE
  /\ buffered = 0 /\ pending = FALSE /\ closed = {}
  /\ waits = {"events", "errs"} \cup IF kind = "build" THEN {"frame"} ELSE {}
  /\ failure = FALSE /\ client = "here" /\ shown = 0 /\ told = "none"

-----------------------------------------------------------------------------
\* The next piece of work: it has something to report, it was the last, or it
\* fails, which puts the error in its channel.  A build whose context has ended
\* stops with no error.
Work ==
  /\ work = "work"
  /\ \/ left > 0 /\ work' = "emit" /\ UNCHANGED pending
     \/ kind = "build" /\ Dead /\ work' = "canceled" /\ UNCHANGED pending
     \/ /\ kind = "build" => ~Dead
        /\ \/ left = 0 /\ work' = "succeeded" /\ UNCHANGED pending
           \/ work' = "failed" /\ pending' = TRUE
  /\ UNCHANGED <<left, context, buffered, closed, reader>>

\* Mutant: the event is sent whatever becomes of the context.
EmitAlways ==
  /\ work = "emit"
  /\ buffered < Capacity /\ buffered' = buffered + 1
  /\ left' = left - 1
  /\ work' = "work"
  /\ UNCHANGED <<context, pending, closed, reader>>

\* Mutant: an event that finds the channel full is dropped (select with a default).
EmitOrDrop ==
  /\ work = "emit"
  /\ buffered' = IF buffered < Capacity THEN buffered + 1 ELSE buffered
  /\ left' = left - 1
  /\ work' = "work"
  /\ UNCHANGED <<context, pending, closed, reader>>

\* emit: the event goes into the channel, or is given up once the context has ended.
Emit ==
  /\ work = "emit"
  /\ \/ buffered < Capacity /\ buffered' = buffered + 1
     \/ Dead /\ UNCHANGED buffered
  /\ left' = left - 1
  /\ work' = "work"
  /\ UNCHANGED <<context, pending, closed, reader>>

\* The deferred closes: the error channel first.
Close ==
  /\ work \in Ended /\ "events" \notin closed
  /\ closed' = closed \cup IF "errs" \in closed THEN {"events"} ELSE {"errs"}
  /\ UNCHANGED <<work, left, context, buffered, pending, reader>>

\* The task is canceled.
Cancel ==
  /\ ~canceled /\ "errs" \notin closed
  /\ canceled' = TRUE
  /\ UNCHANGED <<work, left, expired, buffered, pending, closed, reader>>

\* The deadline passes: for a stack until the worker releases its context, for a
\* build until the handler returns.
Expire ==
  /\ ~expired /\ IF kind = "stack" THEN "errs" \notin closed ELSE waits # {}
  /\ expired' = TRUE
  /\ UNCHANGED <<work, left, canceled, buffered, pending, closed, reader>>

-----------------------------------------------------------------------------
Leave ==
  /\ client = "here"
  /\ client' = "gone"
  /\ UNCHANGED <<kind, work, left, context, buffered, pending, closed, waits, failure, shown, told>>

\* Mutant: a build's handler returns with its client, too.
ReturnAlways ==
  /\ waits # {} /\ client = "gone"
  /\ waits' = {}
  /\ UNCHANGED <<kind, work, left, context, buffered, pending, closed, failure, client, shown, told>>

\* The stack's handler returns: its request is over, or a write has failed.
Return ==
  /\ kind = "stack" /\ waits # {} /\ client = "gone"
  /\ waits' = {}
  /\ UNCHANGED <<kind, work, left, context, buffered, pending, closed, failure, client, shown, told>>

\* Mutant: a build's frames are sent on the context of its task.
SendsOnTask == client = "here" /\ (kind = "build" => ~Dead)

\* Whether a frame reaches the client.  A build's are sent on a context of their own,
\* which a cancel does not end and the deadline does.
Sends == client = "here" /\ (kind = "build" => ~expired)

\* An event is forwarded; the build's handler drops it when it cannot be sent.
ReadEvent ==
  /\ "events" \in waits /\ buffered > 0
  /\ buffered' = buffered - 1
  /\ shown' = IF Sends THEN shown + 1 ELSE shown
  /\ waits' \in IF client = "gone" /\ kind = "stack" THEN {waits, {}} ELSE {waits}
  /\ UNCHANGED <<kind, work, left, context, pending, closed, failure, client, told>>

\* The stack's handler writes the error at once and returns; the build's keeps it.
ReadError ==
  /\ "errs" \in waits /\ pending
  /\ pending' = FALSE
  /\ IF kind = "stack"
     THEN /\ told' = IF Sends THEN "error" ELSE told
          /\ waits' = {} /\ UNCHANGED failure
     ELSE failure' = TRUE /\ UNCHANGED <<told, waits>>
  /\ UNCHANGED <<kind, work, left, context, buffered, closed, client, shown>>

\* A closed channel that is empty is waited for no more.
ReadClosed(channel) ==
  /\ channel \in waits \cap closed
  /\ IF channel = "events" THEN buffered = 0 ELSE ~pending
  /\ waits' = waits \ {channel}
  /\ UNCHANGED <<kind, work, left, context, buffered, pending, closed, failure, client, shown, told>>

\* Both channels are drained, and the build's handler sends how it ended.
LastFrame ==
  /\ waits = {"frame"}
  /\ waits' = {}
  /\ told' = IF ~Sends THEN told ELSE IF failure THEN "error" ELSE "done"
  /\ UNCHANGED <<kind, work, left, context, buffered, pending, closed, failure, client, shown>>

Handler ==
  \/ Return \/ ReadEvent \/ ReadError \/ LastFrame
  \/ \E channel \in {"events", "errs"} : ReadClosed(channel)

Over == work \in Ended /\ "events" \in closed

\* When both are done the request is over.
Rest == Over /\ waits = {} /\ UNCHANGED vars

Next == Work \/ Emit \/ Close \/ Cancel \/ Expire \/ Leave \/ Handler \/ Rest

Spec == Init /\ [][Next]_vars

\* Both goroutines are scheduled and the deadline comes; nobody need cancel or leave.
FairSpec == Spec /\ WF_vars(Work \/ Emit \/ Close) /\ WF_vars(Expire) /\ WF_vars(Handler)

-----------------------------------------------------------------------------
\* Every variable has its type, and no event is lost or counted twice: while the
\* worker's context lives and the client stays, each event is yet to be emitted,
\* in the channel or at the client.
TypeOK ==
  /\ kind \in {"stack", "build"} /\ client \in {"here", "gone"}
  /\ work \in {"work", "emit"} \cup Ended /\ left \in 0..Events
  /\ canceled \in BOOLEAN /\ expired \in BOOLEAN
  /\ pending \in BOOLEAN /\ failure \in BOOLEAN /\ told \in {"none", "error", "done"}
  /\ closed \subseteq {"events", "errs"} /\ waits \subseteq {"events", "errs", "frame"}
  /\ buffered \in 0..Capacity /\ shown \in 0..Events
  /\ shown + buffered + left <= Events
  /\ ~Dead /\ client = "here" => shown + buffered + left = Events

\* A client who stays to the end learns how it ended: the error if there is one,
\* otherwise every event the worker did not give up, and of a build the last frame,
\* canceled or not ("the client still has to be told why", Build, handlers/build.go).
\* The client of a build past its deadline is told nothing.
OutcomeSeen ==
  waits = {} /\ client = "here" =>
    /\ work \in Ended
    /\ kind = "stack" \/ ~expired =>
         /\ work = "failed" => told = "error"
         /\ work = "succeeded" => shown = Events \/ Dead
         /\ kind = "build" => told # "none"

\* Operation and request both end, whoever leaves.
StreamEnds == <>(Over /\ waits = {})

Held == "events" \notin waits /\ work = "emit" /\ buffered = Capacity /\ ~Dead

\* A build never waits for a reader that is gone: the handler drains the channel
\* after its client has left (Build, handlers/build.go).
BuildNotHeld == kind = "build" => ~Held

\* Nor does a stack operation: "closing the tab stops the frames, not the work"
\* (Up, handlers/stacks.go).
StackNotHeld == kind = "stack" => ~Held
=============================================================================
