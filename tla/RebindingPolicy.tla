-------------------------- MODULE RebindingPolicy ---------------------------
(***************************************************************************)
(* The rebinding policy of capture-api against every caller that executes  *)
(* its effects truthfully: a worker reports that it started, failed or     *)
(* stopped only when it did.  A report may be delivered late, out of       *)
(* order, more than once or never, retry timers fire in any order, and     *)
(* devices, defaults, processes and the user do what they like.            *)
(***************************************************************************)
EXTENDS CaptureRebinding, FiniteSets

CONSTANTS
  Kinds,           \* the bindings
  InitialSelections, \* the selections a binding of each kind may begin with
  MaxGen           \* bound: workers one binding may start

ASSUME KindsAssumption ==
  /\ InitialSelections \in [Kinds -> SUBSET Selections]
  /\ MaxGen \in Nat

Gens == 0 .. MaxGen - 1

\* What has happened to the worker of one generation.
Facts == {"issued", "started", "failed", "told", "stopped"}

VARIABLES
  bindings,        \* DecisionState::bindings
  routes,          \* DecisionState::default_routes
  shutdown,        \* DecisionState::shutdown
  worker,          \* what has happened to each worker of each binding
  timers,          \* pending retry timers: their id and the generation that failed
  tries            \* starts of a binding since one last succeeded

vars == <<bindings, routes, shutdown, worker, timers, tries>>

TypeOK ==
  /\ bindings \in [Kinds -> Binding]
  /\ routes \in [Routes -> Endpoints \union {NoTarget}]
  /\ shutdown \in BOOLEAN
  /\ worker \in [Kinds -> [Gens -> SUBSET Facts]]
  /\ timers \in [Kinds -> SUBSET [id : Nat, of : Gens]]
  /\ tries \in [Kinds -> Nat]

Init ==
  /\ \E selection \in [Kinds -> Selections] :
       /\ \A k \in Kinds : selection[k] \in InitialSelections[k]
       /\ bindings = [k \in Kinds |-> NewBinding(selection[k])]
  /\ routes \in [Routes -> Endpoints \union {NoTarget}]
  /\ shutdown = FALSE
  /\ worker = [k \in Kinds |-> [g \in Gens |-> {}]]
  /\ timers = [k \in Kinds |-> {}]
  /\ tries = [k \in Kinds |-> 0]

-----------------------------------------------------------------------------
(* The caller executes the effects of a decision. *)

Record(k, g, fact) == worker' = [worker EXCEPT ![k][g] = @ \union {fact}]

Commanded(history, effect) ==
  CASE effect.act = "start" -> [history EXCEPT ![effect.gen] = {"issued"}]
    [] effect.act = "stop" -> [history EXCEPT ![effect.gen] = @ \union {"told"}]
    [] OTHER -> history

\* The timers of a retry effect; the failure is the newest generation's.
Scheduled(b, effect) ==
  IF effect.act = "retry" THEN {[id |-> effect.id, of |-> b.nextGen - 1]} ELSE {}

TriesAfter(n, d) ==
  CASE d.effect.act = "start" -> n + 1
    [] d.effect.act # "start" /\ d.binding.lifecycle.state = "running" -> 0
    [] OTHER -> n

\* `pending` are the timers left once the one that fired, if any, is gone.
Execute(decision, pending) ==
  /\ \A k \in Kinds : decision[k].binding.nextGen <= MaxGen
  /\ bindings' = [k \in Kinds |-> decision[k].binding]
  /\ worker' = [k \in Kinds |-> Commanded(worker[k], decision[k].effect)]
  /\ timers' = [k \in Kinds |->
                  pending[k] \union Scheduled(decision[k].binding, decision[k].effect)]
  /\ tries' = [k \in Kinds |-> TriesAfter(tries[k], decision[k])]

\* An input to one binding, and one every binding sees.
Only(k, d) == [j \in Kinds |-> IF j = k THEN d ELSE Ignore(bindings[j])]
DecideOne(k, d) == Execute(Only(k, d), timers) /\ UNCHANGED <<routes, shutdown>>

-----------------------------------------------------------------------------
(* The workers. *)

Live(k, g) == "issued" \in worker[k][g] /\ worker[k][g] \intersect {"failed", "stopped"} = {}

WorkerOpens(k, g) ==
  /\ Live(k, g)
  /\ "started" \notin worker[k][g]
  /\ Record(k, g, "started")
  /\ UNCHANGED <<bindings, routes, shutdown, timers, tries>>

WorkerDies(k, g) ==
  /\ Live(k, g)
  /\ Record(k, g, "failed")
  /\ UNCHANGED <<bindings, routes, shutdown, timers, tries>>

\* A worker that was told to stop has ended, on its own or because it was told.
WorkerEnds(k, g) ==
  /\ "told" \in worker[k][g]
  /\ Record(k, g, "stopped")
  /\ UNCHANGED <<bindings, routes, shutdown, timers, tries>>

-----------------------------------------------------------------------------
(* The inputs of decide. *)

ReportStarted(k, g) ==
  /\ "started" \in worker[k][g]
  /\ DecideOne(k, WorkerStarted(bindings[k], g))

ReportFailed(k, g) ==
  /\ "failed" \in worker[k][g]
  /\ DecideOne(k, WorkerFailed(bindings[k], g))

ReportStopped(k, g) ==
  /\ "stopped" \in worker[k][g]
  /\ DecideOne(k, WorkerStopped(bindings[k], g, routes, shutdown))

Start(k) == DecideOne(k, UserStart(bindings[k], routes, shutdown))
Stop(k) == DecideOne(k, UserStop(bindings[k]))

TimerFires(k, t) ==
  /\ t \in timers[k]
  /\ Execute(Only(k, RetryTimerFired(bindings[k], t.id, routes, shutdown)),
             [timers EXCEPT ![k] = @ \ {t}])
  /\ UNCHANGED <<routes, shutdown>>

Shutdown ==
  /\ shutdown' = TRUE
  /\ Execute([k \in Kinds |-> ShutdownRequested(bindings[k])], timers)
  /\ UNCHANGED routes

DefaultChanges(r, e) ==
  /\ routes' = [routes EXCEPT ![r] = e]
  /\ Execute([k \in Kinds |-> DefaultEndpointChanged(bindings[k], r, routes', shutdown)],
             timers)
  /\ UNCHANGED shutdown

Removed(e) ==
  /\ Execute([k \in Kinds |-> EndpointRemoved(bindings[k], e)], timers)
  /\ UNCHANGED <<routes, shutdown>>

Added(e) ==
  /\ Execute([k \in Kinds |-> EndpointAdded(bindings[k], e, routes, shutdown)], timers)
  /\ UNCHANGED <<routes, shutdown>>

Exited(p) ==
  /\ Execute([k \in Kinds |-> ProcessExited(bindings[k], p)], timers)
  /\ UNCHANGED <<routes, shutdown>>

Restarted(p, q) ==
  /\ Execute([k \in Kinds |-> ProcessRestarted(bindings[k], p, q)], timers)
  /\ UNCHANGED <<routes, shutdown>>

Next ==
  \/ \E k \in Kinds, g \in Gens :
       \/ WorkerOpens(k, g)
       \/ WorkerDies(k, g)
       \/ WorkerEnds(k, g)
       \/ ReportStarted(k, g)
       \/ ReportFailed(k, g)
       \/ ReportStopped(k, g)
  \/ \E k \in Kinds : Start(k) \/ Stop(k) \/ \E t \in timers[k] : TimerFires(k, t)
  \/ \E r \in Routes, e \in Endpoints \union {NoTarget} : DefaultChanges(r, e)
  \/ \E e \in Endpoints : Removed(e) \/ Added(e)
  \/ \E p \in Pids : Exited(p) \/ \E q \in Pids \ {p} : Restarted(p, q)
  \/ Shutdown

Spec == Init /\ [][Next]_vars

-----------------------------------------------------------------------------
(* What the policy promises. *)

\* The README: "never starts a new worker while one is still stopping".  A
\* worker is live from its start effect until it has failed or stopped, so at
\* no time do two workers of one binding hold the device.
OneWorker ==
  \A k \in Kinds : \A g, h \in Gens : Live(k, g) /\ Live(k, h) => g = h

\* The README: "Retries are capped".  However devices, defaults, timers and the
\* user interleave, a binding that never gets a worker running starts one at
\* most MAX_RETRY_ATTEMPTS + 1 times.
RetriesCapped == \A k \in Kinds : tries[k] <= MaxAttempts + 1

\* A worker that was told to stop is never again the one whose audio is
\* admitted: no late report takes a binding back to a generation it has left.
NoWayBack ==
  [][\A k \in Kinds : \A g \in Gens :
       "told" \in worker[k][g] => ~AcceptsEpoch(bindings'[k], g)]_vars

\* After shutdown no input makes a caller start another worker, not even the
\* completion of a stop that was to be followed by a start.
NoStartAfterShutdown ==
  [][shutdown => \A k \in Kinds : bindings'[k].nextGen = bindings[k].nextGen]_vars

=============================================================================
