-------------------------- MODULE CaptureSupervisor -------------------------
(***************************************************************************)
(* WindowsSupervisor: it executes the decisions of CaptureRebinding with   *)
(* one capture thread per worker, from start_all to the return of          *)
(* run_until_shutdown.  Threads report over one bounded channel, by        *)
(* binding only; joiner threads, retry timers, the device watch and the    *)
(* user's stop have channels of their own, and select takes any that is    *)
(* ready.                                                                  *)
(*                                                                         *)
(* The supervisor pins every binding to an endpoint of its own, so a       *)
(* binding is named by its endpoint here.  Default device changes, which a *)
(* pinned binding ignores, stall reports, which are only logged, and       *)
(* failures to create or set a Win32 event are left out.                   *)
(***************************************************************************)
EXTENDS CaptureRebinding, Sequences, FiniteSets

CONSTANTS
  NoWorker,        \* no handle is registered for a binding
  NoGen,           \* the frame sink has seen nothing of a binding
  ChannelSize,     \* capacity of the capture event channel (256 in the code)
  Faults,          \* what may fail besides unplugging: open, capture, disconnect
  MaxGen,          \* bound: workers one binding may start
  MaxPlugs         \* bound: how often devices are plugged or unplugged

Gens == 0 .. MaxGen - 1

ASSUME SupervisorAssumption ==
  /\ NoWorker \notin Nat
  /\ NoGen \notin Nat
  /\ ChannelSize \in Nat \ {0}
  /\ Faults \subseteq {"open", "capture", "disconnect"}
  /\ MaxGen \in Nat \ {0}
  /\ MaxPlugs \in Nat

VARIABLES
  bindings,        \* state.bindings
  workers,         \* the generation of each registered WorkerHandle
  joining,         \* joiner threads that have not reported back
  timers,          \* how many retry timers of each id sleep, per binding
  channel,         \* capture_tx .. capture_rx
  loop,            \* run_until_shutdown: selecting, draining the joins, returned
  sink,            \* collector: the worker the format in use is of, the last frame's
  thread,          \* where each capture thread is
  stop,            \* the workers whose StopSignal is set
  watch,           \* device events not yet handled
  plugged,         \* whether each endpoint is there
  plugs            \* how often that has changed

decided    == <<bindings, workers, joining, timers>>
supervisor == <<decided, loop, sink>>
devices    == <<watch, plugged, plugs>>
vars == <<supervisor, channel, thread, stop, devices>>

Places ==
  {"none", "opening", "capturing", "disconnected", "lost", "failing", "stopped", "ended"}
Reports == {"Started", "Frame", "Disconnected", "Error", "DeviceLost", "StoppedByRequest"}
Events == [report : Reports, endpoint : Endpoints, gen : Gens]
Joins == [endpoint : Endpoints, gen : Nat, thread : Gens]

TypeOK ==
  /\ bindings \in [Endpoints -> Binding]
  /\ workers \in [Endpoints -> Gens \union {NoWorker}]
  /\ joining \in SUBSET Joins
  /\ timers \in [Endpoints -> [1 .. MaxAttempts -> Nat]]
  /\ channel \in Seq(Events) /\ Len(channel) <= ChannelSize
  /\ loop \in {"run", "drain", "over"}
  /\ sink \in [Endpoints -> [format : Gens \union {NoGen}, frame : Gens \union {NoGen}]]
  /\ thread \in [Endpoints -> [Gens -> Places]]
  /\ stop \in [Endpoints -> SUBSET Gens]
  /\ watch \in Seq([endpoint : Endpoints, added : BOOLEAN])
  /\ plugged \in [Endpoints -> BOOLEAN]
  /\ plugs \in Nat

\* DecisionState::shutdown
shutdown == loop # "run"

\* No binding follows a default.
NoRoutes == [r \in Routes |-> NoTarget]

PinDevices(e) == NewBinding([mode |-> "pinned", endpoint |-> e])

\* start_all: one StartCapture per binding, the threads spawned.
Init ==
  /\ bindings = [e \in Endpoints |-> UserStart(PinDevices(e), NoRoutes, FALSE).binding]
  /\ workers = [e \in Endpoints |-> 0]
  /\ joining = {}
  /\ timers = [e \in Endpoints |-> [id \in 1 .. MaxAttempts |-> 0]]
  /\ channel = <<>>
  /\ loop = "run"
  /\ sink = [e \in Endpoints |-> [format |-> NoGen, frame |-> NoGen]]
  /\ thread = [e \in Endpoints |-> [g \in Gens |-> IF g = 0 THEN "opening" ELSE "none"]]
  /\ stop = [e \in Endpoints |-> {}]
  /\ watch = <<>>
  /\ plugged = [e \in Endpoints |-> TRUE]
  /\ plugs = 0

-----------------------------------------------------------------------------
(* The devices and their IMMNotificationClient callbacks. *)

Plug(e) ==
  /\ plugs < MaxPlugs
  /\ plugs' = plugs + 1
  /\ plugged' = [plugged EXCEPT ![e] = ~@]
  /\ watch' = Append(watch, [endpoint |-> e, added |-> ~plugged[e]])
  /\ UNCHANGED <<supervisor, channel, thread, stop>>

-----------------------------------------------------------------------------
(* Capture threads: spawn_capture_thread, init_and_capture, run_capture_loop. *)

Go(e, g, place) == thread' = [thread EXCEPT ![e][g] = place]

Unbounded == TRUE \* mistake: an unbounded channel

\* send blocks while the channel is full; once the supervisor is dropped it
\* fails at once, and the failure is ignored.
Room == loop = "over" \/ Len(channel) < ChannelSize
Put(report, e, g) ==
  channel' = IF loop = "over" THEN channel
             ELSE Append(channel, [report |-> report, endpoint |-> e, gen |-> g])
Send(report, e, g) == Room /\ Put(report, e, g)
TrySend(report, e, g) == IF Room THEN Put(report, e, g) ELSE UNCHANGED channel

OpenDevice(e, g) ==
  /\ thread[e][g] = "opening"
  /\ plugged[e]
  /\ Send("Started", e, g)
  /\ Go(e, g, "capturing")
  /\ UNCHANGED <<supervisor, stop, devices>>

OpenFails(e, g) ==
  /\ thread[e][g] = "opening"
  /\ ~plugged[e] \/ "open" \in Faults
  /\ Go(e, g, "failing")
  /\ UNCHANGED <<supervisor, channel, stop, devices>>

InLoop(e, g) == thread[e][g] \in {"capturing", "disconnected"}

\* try_send: on a full channel the frame is counted as dropped; once the
\* supervisor is gone the thread takes that as a request to stop.
CaptureFrame(e, g) ==
  /\ InLoop(e, g)
  /\ plugged[e]
  /\ IF loop = "over"
     THEN Go(e, g, "stopped") /\ UNCHANGED channel
     ELSE Send("Frame", e, g) /\ UNCHANGED thread
  /\ UNCHANGED <<supervisor, stop, devices>>

CaptureFails(e, g) ==
  /\ InLoop(e, g)
  /\ "capture" \in Faults
  /\ Go(e, g, "failing")
  /\ UNCHANGED <<supervisor, channel, stop, devices>>

\* OnSessionDisconnected runs on a thread of the OS.
SessionDisconnected(e, g) ==
  /\ thread[e][g] = "capturing"
  /\ "disconnect" \in Faults
  /\ TrySend("Disconnected", e, g)
  /\ Go(e, g, "disconnected")
  /\ UNCHANGED <<supervisor, stop, devices>>

NoticeLoss(e, g) ==
  /\ InLoop(e, g)
  /\ ~plugged[e] \/ thread[e][g] = "disconnected"
  /\ Go(e, g, "lost")
  /\ UNCHANGED <<supervisor, channel, stop, devices>>

\* Stopping the audio client of a device that is gone is an error.
NoticeStop(e, g) ==
  /\ InLoop(e, g)
  /\ g \in stop[e]
  /\ Go(e, g, IF plugged[e] THEN "stopped" ELSE "failing")
  /\ UNCHANGED <<supervisor, channel, stop, devices>>

LastReport == [lost |-> "DeviceLost", failing |-> "Error", stopped |-> "StoppedByRequest"]

Exit(e, g) ==
  /\ thread[e][g] \in DOMAIN LastReport
  /\ Send(LastReport[thread[e][g]], e, g)
  /\ Go(e, g, "ended")
  /\ UNCHANGED <<supervisor, stop, devices>>

-----------------------------------------------------------------------------
(* execute: what the supervisor does for a decision on each binding. *)

Starts(d) == d.effect.act = "start"
Stops(e, d) == d.effect.act = "stop" /\ workers[e] # NoWorker

Joiner(e, gen) == [endpoint |-> e, gen |-> gen, thread |-> workers[e]]

Asleep(decision, sleeping) ==
  [e \in Endpoints |->
     [id \in 1 .. MaxAttempts |->
        IF decision[e].effect = ScheduleRetry(id)
        THEN sleeping[e][id] + 1 ELSE sleeping[e][id]]]

Execute(decision, joins, sleeping) ==
  /\ \A e \in Endpoints : decision[e].binding.nextGen <= MaxGen
  /\ bindings' = [e \in Endpoints |-> decision[e].binding]
  /\ workers' = [e \in Endpoints |->
                   CASE Starts(decision[e]) -> decision[e].effect.gen
                     [] Stops(e, decision[e]) -> NoWorker
                     [] OTHER -> workers[e]]
  /\ thread' = [e \in Endpoints |->
                  IF Starts(decision[e])
                  THEN [thread[e] EXCEPT ![decision[e].effect.gen] = "opening"]
                  ELSE thread[e]]
  /\ stop' = [e \in Endpoints |->
                stop[e] \union {g \in {workers[e]} : Stops(e, decision[e])}]
  /\ joining' = joins \union {Joiner(e, decision[e].effect.gen) :
                                e \in {f \in Endpoints : Stops(f, decision[f])}}
  /\ timers' = Asleep(decision, sleeping)

Only(e, d) == [f \in Endpoints |-> IF f = e THEN d ELSE Ignore(bindings[f])]

-----------------------------------------------------------------------------
(* handle_capture_event, for the oldest event of the channel. *)

Receive(reports, e) ==
  /\ loop = "run"
  /\ channel # <<>>
  /\ Head(channel).report \in reports
  /\ Head(channel).endpoint = e
  /\ channel' = Tail(channel)
  /\ UNCHANGED <<loop, devices>>

AnyFrame(e) == TRUE \* mistake: no epoch check
Admitted(e) == AcceptsEpoch(bindings[e], Head(channel).gen)

HandleFrame(e) ==
  /\ Receive({"Frame"}, e)
  /\ sink' = IF Admitted(e) THEN [sink EXCEPT ![e].frame = Head(channel).gen] ELSE sink
  /\ UNCHANGED <<decided, thread, stop>>

\* The format goes to the sink unseen; the start is the registered worker's.
HandleStarted(e) ==
  /\ Receive({"Started"}, e)
  /\ sink' = [sink EXCEPT ![e].format = Head(channel).gen]
  /\ IF workers[e] # NoWorker
     THEN Execute(Only(e, WorkerStarted(bindings[e], workers[e])), joining, timers)
     ELSE UNCHANGED <<decided, thread, stop>>

DecideFailure(e) ==
  LET d == WorkerFailed(bindings[e], workers[e])
  IN /\ bindings' = [bindings EXCEPT ![e] = d.binding]
     /\ timers' = Asleep(Only(e, d), timers)

Unregister(e) == workers' = [workers EXCEPT ![e] = NoWorker]

\* Mistakes: the failed worker is not reaped; it is removed and not joined.
NotReaped(e) == DecideFailure(e) /\ UNCHANGED <<workers, joining>>
NotJoined(e) == DecideFailure(e) /\ Unregister(e) /\ UNCHANGED joining

\* reap_dead_worker: the handle is removed and joined, its thread not told to stop.
FailWorker(e) ==
  /\ DecideFailure(e)
  /\ Unregister(e)
  /\ joining' = joining \union {Joiner(e, workers[e])}

LostIsInformational == {"Error", "Disconnected"} \* mistake: DeviceLost is only logged
Fatal == {"Error", "Disconnected", "DeviceLost"}

HandleFailure(e) ==
  /\ Receive(Fatal, e)
  /\ IF workers[e] # NoWorker THEN FailWorker(e) ELSE UNCHANGED decided
  /\ UNCHANGED <<sink, thread, stop>>

\* Only logged: the join result is what completes a stop.
HandleStopped(e) ==
  /\ Receive(Reports \ (Fatal \union {"Frame", "Started"}), e)
  /\ UNCHANGED <<decided, sink, thread, stop>>

-----------------------------------------------------------------------------
(* The other channels of the loop. *)

HandleDeviceWatch(e) ==
  /\ loop = "run"
  /\ watch # <<>>
  /\ Head(watch).endpoint = e
  /\ watch' = Tail(watch)
  /\ Execute(Only(e, IF Head(watch).added
                     THEN EndpointAdded(bindings[e], e, NoRoutes, shutdown)
                     ELSE EndpointRemoved(bindings[e], e)),
             joining, timers)
  /\ UNCHANGED <<loop, sink, channel, plugged, plugs>>

Joinable(j) == j \in joining /\ thread[j.endpoint][j.thread] = "ended"

HandleJoinResult(j) ==
  /\ loop \in {"run", "drain"}
  /\ Joinable(j)
  /\ Execute(Only(j.endpoint, WorkerStopped(bindings[j.endpoint], j.gen, NoRoutes, shutdown)),
             joining \ {j}, timers)
  /\ loop' = IF loop = "drain" /\ joining' = {} THEN "over" ELSE loop
  /\ UNCHANGED <<sink, channel, devices>>

HandleRetryTimer(e, id) ==
  /\ loop = "run"
  /\ timers[e][id] > 0
  /\ Execute(Only(e, RetryTimerFired(bindings[e], id, NoRoutes, shutdown)),
             joining, [timers EXCEPT ![e][id] = @ - 1])
  /\ UNCHANGED <<loop, sink, channel, devices>>

\* The user stops the recording; the joins are drained, or there are none.
HandleShutdown ==
  /\ loop = "run"
  /\ Execute([e \in Endpoints |-> ShutdownRequested(bindings[e])], joining, timers)
  /\ loop' = IF joining' = {} THEN "over" ELSE "drain"
  /\ UNCHANGED <<sink, channel, devices>>

WaitsForEver(j) == FALSE \* mistake: recv without a timeout

\* A thread that can go on does so within the ten seconds of the drain: it runs
\* out only when every thread waited for is held up.
HeldUp(j) ==
  LET place == thread[j.endpoint][j.thread]
  IN \/ place \in DOMAIN LastReport /\ ~Room
     \/ place = "capturing" /\ plugged[j.endpoint] /\ j.thread \notin stop[j.endpoint]
     \/ place = "opening" /\ plugged[j.endpoint] /\ ~Room

DrainTimeout ==
  /\ loop = "drain"
  /\ \A j \in joining : HeldUp(j)
  /\ loop' = "over"
  /\ UNCHANGED <<decided, sink, channel, thread, stop, devices>>

-----------------------------------------------------------------------------
ThreadStep(e, g) ==
  \/ OpenDevice(e, g)
  \/ OpenFails(e, g)
  \/ CaptureFrame(e, g)
  \/ CaptureFails(e, g)
  \/ SessionDisconnected(e, g)
  \/ NoticeLoss(e, g)
  \/ NoticeStop(e, g)
  \/ Exit(e, g)

HandleEvent(e) == HandleFrame(e) \/ HandleStarted(e) \/ HandleFailure(e) \/ HandleStopped(e)

Next ==
  \/ \E e \in Endpoints :
       \/ Plug(e)
       \/ \E g \in Gens : ThreadStep(e, g)
       \/ HandleEvent(e)
       \/ HandleDeviceWatch(e)
       \/ \E id \in 1 .. MaxAttempts : HandleRetryTimer(e, id)
  \/ \E j \in joining : HandleJoinResult(j)
  \/ HandleShutdown
  \/ DrainTimeout

Spec == Init /\ [][Next]_vars

\* A thread that is not capturing undisturbed goes on.
Proceed(e, g) ==
  OpenDevice(e, g) \/ OpenFails(e, g) \/ NoticeLoss(e, g) \/ NoticeStop(e, g) \/ Exit(e, g)

\* select is random among the channels that are ready, so none is passed over
\* for ever; of several senders blocked on a full channel each gets a slot.
Fairness ==
  /\ WF_vars(\E e \in Endpoints : HandleEvent(e))
  /\ WF_vars(\E e \in Endpoints : HandleDeviceWatch(e))
  /\ WF_vars(\E j \in joining : HandleJoinResult(j))
  /\ WF_vars(DrainTimeout)
  /\ \A e \in Endpoints : \A g \in Gens : SF_vars(Proceed(e, g))

FairSpec == Spec /\ Fairness

-----------------------------------------------------------------------------
(* What the supervisor promises. *)

\* "self.workers holds at most one handle per binding -- the one decide() is
\* currently Starting/Running for": events carry no generation, so everything
\* that is fed to decide about a worker rests on this.
RegistryMatches ==
  \A e \in Endpoints : \A g \in Gens :
    workers[e] = g <=> Is(bindings[e], "starting", g) \/ Is(bindings[e], "running", g)

\* No JoinHandle is dropped: until the loop returns, every thread that has not
\* ended is registered or waited for by a joiner.
EveryThreadOwned ==
  loop # "over" =>
    \A e \in Endpoints : \A g \in Gens :
      thread[e][g] \notin {"none", "ended"} =>
        workers[e] = g \/ \E j \in joining : j.endpoint = e /\ j.thread = g

\* A start never overwrites a registered worker, which execute only logs.
NoOverwrite ==
  [][\A e \in Endpoints :
       workers[e] # NoWorker /\ workers'[e] # NoWorker => workers'[e] = workers[e]]_vars

\* Rebinding, retries and late events never mix an older generation's audio
\* into the track after a newer one's.
FramesInOrder ==
  [][\A e \in Endpoints : sink[e].frame # NoGen => sink'[e].frame >= sink[e].frame]_vars

\* A worker whose thread has ended does not stay the binding's worker: the
\* binding does not remain "running" with nobody capturing.
DeadWorkerNoticed ==
  \A e \in Endpoints : \A g \in Gens :
    workers[e] = g /\ thread[e][g] = "ended" ~> workers[e] # g \/ loop # "run"

\* Once the user stops the recording, run_until_shutdown returns.
ShutdownEnds == loop = "drain" ~> loop = "over"

-----------------------------------------------------------------------------
(* What comments and documents say and the code does not do. *)

\* "A worker that failed on its own ... is already dying without a StopCapture
\* effect": a thread that is joined has been told to stop or is ending.
JoinedThreadsEnd ==
  \A j \in joining :
    \/ j.thread \in stop[j.endpoint]
    \/ thread[j.endpoint][j.thread] \notin {"opening", "capturing"}

=============================================================================
