-------------------------- MODULE CaptureRebinding --------------------------
(***************************************************************************)
(* decide of capture-api, the one place that changes what a capture        *)
(* binding is doing.  Each operator is one input: it takes a binding and   *)
(* gives the binding after it with the effect the caller has to execute.   *)
(*                                                                         *)
(* An input gives one binding at most one effect, and bindings share only  *)
(* the default routes and the shutdown flag, so the operators are about    *)
(* one binding.  An operation id and a stream epoch are allocated together *)
(* and compared only inside one binding: both are its generation, counted  *)
(* per binding.  The effect ids, which nothing reads, and the attempt in   *)
(* the waiting reason, a copy of retry_attempt, are left out.              *)
(***************************************************************************)
EXTENDS Integers

CONSTANTS
  Endpoints,       \* the audio endpoints of the machine
  Pids,            \* the processes a process loopback may capture
  Routes,          \* the (flow, role) pairs that have a default endpoint
  NoTarget,        \* None: no default endpoint, no process found
  MaxAttempts      \* MAX_RETRY_ATTEMPTS

ASSUME TargetsAssumption ==
  /\ NoTarget \notin Endpoints \union Pids
  /\ Endpoints \intersect Pids = {}

ASSUME AttemptsAssumption == MaxAttempts \in Nat

Targets == Endpoints \union Pids

-----------------------------------------------------------------------------
(* The state of one binding. *)

Selections ==
  [mode : {"pinned"}, endpoint : Endpoints]
  \union [mode : {"follow"}, route : Routes]
  \union [mode : {"process"}, pid : Pids \union {NoTarget}]

WaitReasons == {"DeviceUnavailable", "ProcessNotFound", "RetryableFailure"}
AfterStops == {"ResolveAndStart", "WaitForDevice", "WaitForProcess", "RemainStopped"}

Stopped == [state |-> "stopped"]
Starting(gen, target) == [state |-> "starting", gen |-> gen, target |-> target]
Running(gen, target) == [state |-> "running", gen |-> gen, target |-> target]
Stopping(gen, next) == [state |-> "stopping", gen |-> gen, next |-> next]
Waiting(reason) == [state |-> "waiting", reason |-> reason]
Failed == [state |-> "failed"]

Lifecycles ==
  [state : {"stopped", "failed"}]
  \union [state : {"starting", "running"}, gen : Nat, target : Targets]
  \union [state : {"stopping"}, gen : Nat, next : AfterStops]
  \union [state : {"waiting"}, reason : WaitReasons]

Binding ==
  [selection : Selections, lifecycle : Lifecycles, attempt : Nat, nextGen : Nat]

NewBinding(selection) ==
  [selection |-> selection, lifecycle |-> Stopped, attempt |-> 0, nextGen |-> 0]

\* The generation a lifecycle is about is g, and it is in that state.
Is(b, state, g) == b.lifecycle.state = state /\ b.lifecycle.gen = g

AcceptsEpoch(b, g) == Is(b, "running", g)

-----------------------------------------------------------------------------
(* Effects, and a decision: the binding after an input and its effect. *)

NoEffect == [act |-> "none"]
StartCapture(gen, target) == [act |-> "start", gen |-> gen, target |-> target]
StopCapture(gen) == [act |-> "stop", gen |-> gen]
ScheduleRetry(id) == [act |-> "retry", id |-> id]

Decision(b, effect) == [binding |-> b, effect |-> effect]
Ignore(b) == Decision(b, NoEffect)
Move(b, lifecycle) == [b EXCEPT !.lifecycle = lifecycle]

ResolveTarget(selection, routes) ==
  CASE selection.mode = "pinned" -> selection.endpoint
    [] selection.mode = "follow" -> routes[selection.route]
    [] selection.mode = "process" -> selection.pid

EvenWhileStopping(b) == \* mistake
  b.lifecycle.state \in {"stopped", "waiting", "stopping"}
MayStart(b) == b.lifecycle.state \in {"stopped", "waiting"}

\* Mistakes: the target is not checked; shutdown is not.
StartUnresolved(b, routes, shutdown) ==
  IF shutdown \/ ~MayStart(b) THEN Ignore(b)
  ELSE Decision([Move(b, Starting(b.nextGen, ResolveTarget(b.selection, routes)))
                   EXCEPT !.nextGen = @ + 1],
                StartCapture(b.nextGen, ResolveTarget(b.selection, routes)))
StartAnyway(b, routes, shutdown) ==
  IF ~MayStart(b) \/ ResolveTarget(b.selection, routes) = NoTarget THEN Ignore(b)
  ELSE StartUnresolved(b, routes, FALSE)

StartBinding(b, routes, shutdown) ==
  LET target == ResolveTarget(b.selection, routes)
  IN CASE shutdown \/ ~MayStart(b) -> Ignore(b)
       [] ~shutdown /\ MayStart(b) /\ target = NoTarget ->
            Ignore(Move(b, Waiting("DeviceUnavailable")))
       [] ~shutdown /\ MayStart(b) /\ target # NoTarget ->
            Decision([Move(b, Starting(b.nextGen, target)) EXCEPT !.nextGen = @ + 1],
                     StartCapture(b.nextGen, target))

StopBinding(b, next) ==
  IF b.lifecycle.state = "running"
  THEN Decision(Move(b, Stopping(b.lifecycle.gen, next)), StopCapture(b.lifecycle.gen))
  ELSE Ignore(b)

-----------------------------------------------------------------------------
(* The inputs. *)

UserStart(b, routes, shutdown) == StartBinding(b, routes, shutdown)
UserStop(b) == StopBinding(b, "RemainStopped")
ShutdownRequested(b) == StopBinding(b, "RemainStopped")

\* `routes` already holds the new default; `route` is the one that changed.
DefaultEndpointChanged(b, route, routes, shutdown) ==
  LET follows == b.selection.mode = "follow" /\ b.selection.route = route
  IN CASE follows /\ b.lifecycle.state = "running"
          /\ b.lifecycle.target # ResolveTarget(b.selection, routes) ->
            StopBinding(b, "ResolveAndStart")
       [] follows /\ b.lifecycle.state = "waiting" -> StartBinding(b, routes, shutdown)
       [] OTHER -> Ignore(b)

EndpointRemoved(b, endpoint) ==
  IF b.lifecycle.state = "running" /\ b.lifecycle.target = endpoint
  THEN StopBinding(b, "WaitForDevice")
  ELSE Ignore(b)

EndpointAdded(b, endpoint, routes, shutdown) ==
  IF /\ b.lifecycle.state = "waiting"
     /\ b.selection.mode = "pinned" /\ b.selection.endpoint = endpoint
  THEN StartBinding(b, routes, shutdown)
  ELSE Ignore(b)

Captures(b, pid) == b.lifecycle.state = "running" /\ b.lifecycle.target = pid

ProcessExited(b, pid) ==
  IF Captures(b, pid) THEN StopBinding(b, "WaitForProcess") ELSE Ignore(b)

ProcessRestarted(b, oldPid, newPid) ==
  IF Captures(b, oldPid)
  THEN StopBinding([b EXCEPT !.selection.pid = newPid], "ResolveAndStart")
  ELSE Ignore(b)

AnyGeneration(b, gen) == \* mistake: the report's generation is not compared
  IF b.lifecycle.state = "starting"
  THEN Ignore([Move(b, Running(gen, b.lifecycle.target)) EXCEPT !.attempt = 0])
  ELSE Ignore(b)

\* Admitted only for the generation that is starting; it ends a series of
\* failures.  The target reported is the one the start effect named.
WorkerStarted(b, gen) ==
  IF Is(b, "starting", gen)
  THEN Ignore([Move(b, Running(gen, b.lifecycle.target)) EXCEPT !.attempt = 0])
  ELSE Ignore(b)

AfterStop(b, next, routes, shutdown) ==
  CASE next = "RemainStopped" -> Ignore(Move(b, Stopped))
    [] next = "WaitForDevice" -> Ignore(Move(b, Waiting("DeviceUnavailable")))
    [] next = "WaitForProcess" -> Ignore(Move(b, Waiting("ProcessNotFound")))
    [] next = "ResolveAndStart" -> StartBinding(Move(b, Stopped), routes, shutdown)

WorkerStopped(b, gen, routes, shutdown) ==
  IF Is(b, "stopping", gen)
  THEN AfterStop(b, b.lifecycle.next, routes, shutdown)
  ELSE Ignore(b)

OneMore(attempt) == attempt > MaxAttempts + 1 \* mistake
GivesUp(attempt) == attempt > MaxAttempts

WorkerFailed(b, gen) ==
  LET counted == [b EXCEPT !.attempt = @ + 1]
  IN CASE ~(Is(b, "starting", gen) \/ Is(b, "running", gen)) -> Ignore(b)
       [] (Is(b, "starting", gen) \/ Is(b, "running", gen)) /\ GivesUp(counted.attempt) ->
            Ignore(Move(counted, Failed))
       [] OTHER ->
            Decision(Move(counted, Waiting("RetryableFailure")), ScheduleRetry(counted.attempt))

RetryTimerFired(b, id, routes, shutdown) ==
  IF b.lifecycle = Waiting("RetryableFailure") /\ b.attempt = id
  THEN StartBinding(b, routes, shutdown)
  ELSE Ignore(b)

=============================================================================
