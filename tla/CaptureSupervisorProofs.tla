----------------------- MODULE CaptureSupervisorProofs ----------------------
(***************************************************************************)
(* Proofs about CaptureSupervisor, for any endpoints, any number of        *)
(* retries, any channel and any number of workers: the registry of worker  *)
(* handles follows decide, no thread is lost, and frames keep their order. *)
(***************************************************************************)
EXTENDS CaptureSupervisor, TLAPS

Worker == Gens \union {NoWorker}

Owning(b) == b.lifecycle.state \in {"starting", "running", "stopping"}

\* The binding and the handle registered for it: the lifecycle is about the
\* newest generation, and the handle is that of a starting or running one.
Fits(b, w) ==
  /\ b.nextGen <= MaxGen
  /\ Owning(b) => b.lifecycle.gen + 1 = b.nextGen
  /\ \A g \in Gens : w = g <=> Is(b, "starting", g) \/ Is(b, "running", g)

\* A decision d that is executed for a binding: it starts the next worker when
\* none is registered, stops the registered one, or leaves the registry alone.
Outcome(b, w, d) ==
  d.binding.nextGen <= MaxGen =>
    /\ d.binding \in Binding
    /\ d.effect.act # "retry"
    /\ \/ /\ d.effect.act \notin {"start", "stop"}
          /\ d.binding.nextGen = b.nextGen
          /\ Fits(d.binding, w)
       \/ /\ d.effect.act = "start"
          /\ d.effect.gen = b.nextGen
          /\ d.binding.nextGen = b.nextGen + 1
          /\ w = NoWorker
          /\ Fits(d.binding, b.nextGen)
       \/ /\ d.effect.act = "stop"
          /\ d.effect.gen \in Nat
          /\ d.binding.nextGen = b.nextGen
          /\ w # NoWorker
          /\ Fits(d.binding, NoWorker)

Frames(e) ==
  sink[e].frame # NoGen => sink[e].frame < bindings[e].nextGen

\* A thread exists exactly for the generations given out.
Spawned(e) == \A g \in Gens : thread[e][g] = "none" <=> g >= bindings[e].nextGen

IInv ==
  /\ TypeOK
  /\ \A e \in Endpoints : Fits(bindings[e], workers[e]) /\ Frames(e) /\ Spawned(e)
  /\ EveryThreadOwned

-----------------------------------------------------------------------------
(* The decisions, about one binding and its handle. *)

LEMMA GensAre == Gens \subseteq Nat /\ NoWorker \notin Gens /\ 0 \in Gens
BY SupervisorAssumption DEF Gens

LEMMA IgnoreOutcome ==
  ASSUME NEW b \in Binding, NEW w \in Worker, Fits(b, w)
  PROVE  Outcome(b, w, Ignore(b))
<1>1. Ignore(b).binding = b /\ Ignore(b).effect.act = "none"
  BY DEF Ignore, Decision, NoEffect
<1> QED
  BY <1>1 DEF Outcome

LEMMA IdleOutcome ==
  ASSUME NEW b \in Binding, NEW w \in Worker, Fits(b, w), w = NoWorker,
         NEW c \in Binding, c.nextGen = b.nextGen, ~Owning(c)
  PROVE  Outcome(b, w, Ignore(c)) /\ Fits(c, w)
<1>1. Ignore(c).binding = c /\ Ignore(c).effect.act = "none"
  BY DEF Ignore, Decision, NoEffect
<1>2. Fits(c, w)
  BY GensAre DEF Fits, Owning, Is
<1> QED
  BY <1>1, <1>2 DEF Outcome

LEMMA Unregistered ==
  ASSUME NEW b \in Binding, NEW w \in Worker, Fits(b, w),
         b.lifecycle.state \notin {"starting", "running"}
  PROVE  w = NoWorker
BY DEF Fits, Worker, Is

LEMMA StartOutcome ==
  ASSUME NEW b \in Binding, NEW w \in Worker, NEW s \in BOOLEAN, Fits(b, w)
  PROVE  Outcome(b, w, StartBinding(b, NoRoutes, s))
<1> DEFINE target == ResolveTarget(b.selection, NoRoutes)
<1>1. CASE s \/ ~MayStart(b)
  BY <1>1, IgnoreOutcome DEF StartBinding
<1>2. CASE ~s /\ MayStart(b) /\ target = NoTarget
  <2> DEFINE c == Move(b, Waiting("DeviceUnavailable"))
  <2>1. StartBinding(b, NoRoutes, s) = Ignore(c)
    BY <1>2 DEF StartBinding
  <2>2. c \in Binding /\ c.nextGen = b.nextGen /\ ~Owning(c)
    BY DEF Move, Waiting, Binding, Lifecycles, WaitReasons, Owning
  <2>3. w = NoWorker
    BY <1>2, Unregistered DEF MayStart
  <2> QED
    BY <2>1, <2>2, <2>3, IdleOutcome
<1>3. CASE ~s /\ MayStart(b) /\ target # NoTarget
  <2> DEFINE m == Move(b, Starting(b.nextGen, target))
             c == [m EXCEPT !.nextGen = @ + 1]
             f == StartCapture(b.nextGen, target)
  <2>1. StartBinding(b, NoRoutes, s) = Decision(c, f)
    BY <1>3 DEF StartBinding
  <2>2. target \in Targets
    BY <1>3 DEF ResolveTarget, NoRoutes, Binding, Selections, Targets
  <2>3. Starting(b.nextGen, target) \in Lifecycles
    BY <2>2 DEF Starting, Lifecycles, Binding
  <2>4. m \in Binding /\ m.lifecycle = Starting(b.nextGen, target) /\ m.nextGen = b.nextGen
    BY <2>3 DEF Move, Binding
  <2> HIDE DEF m
  <2>5. /\ c \in Binding /\ c.lifecycle = Starting(b.nextGen, target)
        /\ c.nextGen = b.nextGen + 1
    BY <2>4 DEF Binding
  <2>6. c.lifecycle.state = "starting" /\ c.lifecycle.gen = b.nextGen
    BY <2>5 DEF Starting
  <2>7. /\ Decision(c, f).binding = c
        /\ Decision(c, f).effect.act = "start" /\ Decision(c, f).effect.gen = b.nextGen
    BY DEF Decision, StartCapture
  <2> HIDE DEF c, f
  <2>8. w = NoWorker
    BY <1>3, Unregistered DEF MayStart
  <2>9. c.nextGen <= MaxGen => Fits(c, b.nextGen)
    BY <2>5, <2>6 DEF Fits, Owning, Is
  <2> QED
    BY <2>1, <2>5, <2>7, <2>8, <2>9 DEF Outcome
<1> HIDE DEF target
<1> QED
  BY <1>1, <1>2, <1>3

LEMMA StopOutcome ==
  ASSUME NEW b \in Binding, NEW w \in Worker, NEW next \in AfterStops, Fits(b, w)
  PROVE  Outcome(b, w, StopBinding(b, next))
<1>1. CASE b.lifecycle.state # "running"
  BY <1>1, IgnoreOutcome DEF StopBinding
<1>2. CASE b.lifecycle.state = "running"
  <2> DEFINE gen == b.lifecycle.gen
             c == Move(b, Stopping(gen, next))
             f == StopCapture(gen)
  <2>1. StopBinding(b, next) = Decision(c, f)
    BY <1>2 DEF StopBinding
  <2>2. gen \in Nat /\ gen + 1 = b.nextGen
    BY <1>2 DEF Binding, Lifecycles, Fits, Owning
  <2>3. gen \in Gens
    BY <2>2, SupervisorAssumption DEF Fits, Gens
  <2>4. w = gen
    BY <1>2, <2>3 DEF Fits, Is
  <2>5. Stopping(gen, next) \in Lifecycles
    BY <2>2 DEF Stopping, Lifecycles
  <2>6. c \in Binding /\ c.lifecycle = Stopping(gen, next) /\ c.nextGen = b.nextGen
    BY <2>5 DEF Move, Binding
  <2>7. c.lifecycle.state = "stopping" /\ c.lifecycle.gen = gen
    BY <2>6 DEF Stopping
  <2>8. /\ Decision(c, f).binding = c
        /\ Decision(c, f).effect.act = "stop" /\ Decision(c, f).effect.gen = gen
    BY DEF Decision, StopCapture
  <2> HIDE DEF gen, c, f
  <2>9. Fits(c, NoWorker)
    BY <2>2, <2>6, <2>7, GensAre DEF Fits, Owning, Is
  <2> QED
    BY <2>1, <2>2, <2>3, <2>4, <2>6, <2>8, <2>9, GensAre DEF Outcome
<1> QED
  BY <1>1, <1>2

LEMMA StartedOutcome ==
  ASSUME NEW b \in Binding, NEW w \in Gens, Fits(b, w)
  PROVE  Outcome(b, w, WorkerStarted(b, w))
<1>1. CASE ~Is(b, "starting", w)
  BY <1>1, IgnoreOutcome DEF WorkerStarted, Worker
<1>2. CASE Is(b, "starting", w)
  <2> DEFINE l == Running(w, b.lifecycle.target)
             m == Move(b, l)
             c == [m EXCEPT !.attempt = 0]
  <2>1. WorkerStarted(b, w) = Ignore(c)
    BY <1>2 DEF WorkerStarted
  <2>2. l \in Lifecycles /\ l.state = "running" /\ l.gen = w
    BY <1>2, GensAre DEF Is, Binding, Lifecycles, Running
  <2> HIDE DEF l
  <2>3. m \in Binding /\ m.lifecycle = l /\ m.nextGen = b.nextGen
    BY <2>2 DEF Move, Binding
  <2> HIDE DEF m
  <2>4. c \in Binding /\ c.lifecycle = l /\ c.nextGen = b.nextGen
    BY <2>3 DEF Binding
  <2> HIDE DEF c
  <2>5. Fits(c, w)
    BY <1>2, <2>2, <2>4 DEF Fits, Owning, Is
  <2>6. Ignore(c).binding = c /\ Ignore(c).effect.act = "none"
    BY DEF Ignore, Decision, NoEffect
  <2> QED
    BY <2>1, <2>4, <2>5, <2>6 DEF Outcome
<1> QED
  BY <1>1, <1>2

LEMMA StoppedOutcome ==
  ASSUME NEW b \in Binding, NEW w \in Worker, NEW gen \in Nat, NEW s \in BOOLEAN,
         Fits(b, w)
  PROVE  Outcome(b, w, WorkerStopped(b, gen, NoRoutes, s))
<1>1. CASE ~Is(b, "stopping", gen)
  BY <1>1, IgnoreOutcome DEF WorkerStopped
<1>2. CASE Is(b, "stopping", gen)
  <2> DEFINE next == b.lifecycle.next
  <2>1. WorkerStopped(b, gen, NoRoutes, s) = AfterStop(b, next, NoRoutes, s)
    BY <1>2 DEF WorkerStopped
  <2>2. next \in AfterStops
    BY <1>2 DEF Is, Binding, Lifecycles
  <2>3. w = NoWorker
    BY <1>2, Unregistered DEF Is
  <2>4. ASSUME NEW l \in {Stopped, Waiting("DeviceUnavailable"), Waiting("ProcessNotFound")}
        PROVE  /\ Move(b, l) \in Binding
               /\ Move(b, l).nextGen = b.nextGen
               /\ ~Owning(Move(b, l))
    <3>1. l \in Lifecycles /\ l.state \in {"stopped", "waiting"}
      BY DEF Stopped, Waiting, Lifecycles, WaitReasons
    <3> QED
      BY <3>1 DEF Move, Binding, Owning
  <2>5. \A l \in {Stopped, Waiting("DeviceUnavailable"), Waiting("ProcessNotFound")} :
          Outcome(b, w, Ignore(Move(b, l))) /\ Fits(Move(b, l), w)
    BY <2>3, <2>4, IdleOutcome
  <2>6. Outcome(b, w, StartBinding(Move(b, Stopped), NoRoutes, s))
    <3>1. Outcome(Move(b, Stopped), w, StartBinding(Move(b, Stopped), NoRoutes, s))
      BY <2>4, <2>5, StartOutcome
    <3> QED
      BY <2>4, <3>1 DEF Outcome
  <2> HIDE DEF next, Outcome
  <2>7. Outcome(b, w, AfterStop(b, next, NoRoutes, s))
    BY <2>2, <2>5, <2>6 DEF AfterStop, AfterStops
  <2> QED
    BY <2>1, <2>7
<1> QED
  BY <1>1, <1>2

LEMMA InputOutcomes ==
  ASSUME NEW b \in Binding, NEW w \in Worker, NEW s \in BOOLEAN, Fits(b, w)
  PROVE  /\ Outcome(b, w, ShutdownRequested(b))
         /\ \A e \in Endpoints : /\ Outcome(b, w, EndpointRemoved(b, e))
                                 /\ Outcome(b, w, EndpointAdded(b, e, NoRoutes, s))
         /\ \A id \in Nat : Outcome(b, w, RetryTimerFired(b, id, NoRoutes, s))
<1>1. /\ Outcome(b, w, Ignore(b))
      /\ Outcome(b, w, StartBinding(b, NoRoutes, s))
      /\ \A next \in AfterStops : Outcome(b, w, StopBinding(b, next))
  BY IgnoreOutcome, StartOutcome, StopOutcome
<1>2. {"RemainStopped", "WaitForDevice"} \subseteq AfterStops
  BY DEF AfterStops
<1> HIDE DEF Outcome
<1> QED
  BY <1>1, <1>2 DEF ShutdownRequested, EndpointRemoved, EndpointAdded, RetryTimerFired

\* A failure of the registered worker, which is reaped: nothing is started.
LEMMA FailureFits ==
  ASSUME NEW b \in Binding, NEW w \in Gens, Fits(b, w)
  PROVE  /\ WorkerFailed(b, w).binding \in Binding
         /\ WorkerFailed(b, w).binding.nextGen = b.nextGen
         /\ Fits(WorkerFailed(b, w).binding, NoWorker)
<1> DEFINE counted == [b EXCEPT !.attempt = @ + 1]
<1>1. Is(b, "starting", w) \/ Is(b, "running", w)
  BY DEF Fits
<1>2. counted \in Binding /\ counted.nextGen = b.nextGen
  BY DEF Binding
<1> HIDE DEF counted
<1>3. ASSUME NEW l \in {Failed, Waiting("RetryableFailure")}
      PROVE  /\ Move(counted, l) \in Binding
             /\ Move(counted, l).nextGen = b.nextGen
             /\ Fits(Move(counted, l), NoWorker)
  <2>1. l \in Lifecycles /\ l.state \in {"failed", "waiting"}
    BY DEF Failed, Waiting, Lifecycles, WaitReasons
  <2>2. /\ Move(counted, l) \in Binding
        /\ Move(counted, l).nextGen = b.nextGen
        /\ Move(counted, l).lifecycle = l
    BY <1>2, <2>1 DEF Move, Binding
  <2>3. Fits(Move(counted, l), NoWorker)
    BY <2>1, <2>2, GensAre DEF Fits, Owning, Is
  <2> QED
    BY <2>2, <2>3
<1>4. \E l \in {Failed, Waiting("RetryableFailure")} :
        WorkerFailed(b, w).binding = Move(counted, l)
  BY <1>1 DEF WorkerFailed, Ignore, Decision, counted
<1> QED
  BY <1>3, <1>4

-----------------------------------------------------------------------------
(* The steps of the supervisor. *)

\* The parts of the state that no worker's fate depends on.
Surroundings ==
  /\ channel \in Seq(Events) /\ Len(channel) <= ChannelSize
  /\ loop \in {"run", "drain", "over"}
  /\ sink \in [Endpoints -> [format : Gens \union {NoGen}, frame : Gens \union {NoGen}]]
  /\ watch \in Seq([endpoint : Endpoints, added : BOOLEAN])
  /\ plugged \in [Endpoints -> BOOLEAN]
  /\ plugs \in Nat

\* What a step does.
Steady ==
  /\ IInv'
  /\ \A e \in Endpoints :
       workers[e] # NoWorker /\ workers'[e] # NoWorker => workers'[e] = workers[e]
  /\ \A e \in Endpoints : sink[e].frame # NoGen => sink'[e].frame >= sink[e].frame

SameFrames == \A e \in Endpoints : sink'[e].frame = sink[e].frame

LEMMA InOrder ==
  ASSUME TypeOK, SameFrames
  PROVE  \A e \in Endpoints : sink[e].frame # NoGen => sink'[e].frame >= sink[e].frame
<1> SUFFICES ASSUME NEW e \in Endpoints, sink[e].frame # NoGen
             PROVE  sink'[e].frame >= sink[e].frame
  OBVIOUS
<1>1. sink[e].frame \in Gens
  BY DEF TypeOK
<1>2. sink[e].frame \in Nat
  BY <1>1, GensAre
<1> QED
  BY <1>2 DEF SameFrames

LEMMA Executing ==
  ASSUME IInv, NEW d, NEW joins,
         NEW sleeping \in [Endpoints -> [1 .. MaxAttempts -> Nat]],
         \A e \in Endpoints : Outcome(bindings[e], workers[e], d[e]),
         joins \subseteq joining,
         \A j \in joining \ joins : thread[j.endpoint][j.thread] = "ended",
         Execute(d, joins, sleeping),
         loop # "over", Surroundings', SameFrames
  PROVE  Steady
<1>1. /\ bindings \in [Endpoints -> Binding]
      /\ workers \in [Endpoints -> Worker]
      /\ thread \in [Endpoints -> [Gens -> Places]]
      /\ stop \in [Endpoints -> SUBSET Gens]
      /\ joining \in SUBSET Joins
      /\ TypeOK
  BY DEF IInv, TypeOK, Worker
<1>2. \A e \in Endpoints : d[e].binding.nextGen <= MaxGen
  BY DEF Execute
<1>3. ASSUME NEW e \in Endpoints
      PROVE  /\ bindings'[e] = d[e].binding
             /\ workers'[e] = CASE Starts(d[e]) -> d[e].effect.gen
                                [] Stops(e, d[e]) -> NoWorker
                                [] OTHER -> workers[e]
             /\ thread'[e] = IF Starts(d[e])
                             THEN [thread[e] EXCEPT ![d[e].effect.gen] = "opening"]
                             ELSE thread[e]
             /\ stop'[e] = stop[e] \union {g \in {workers[e]} : Stops(e, d[e])}
  BY DEF Execute
<1>4. joins \subseteq joining'
  BY DEF Execute
\* The three outcomes, one binding at a time.
<1>5. ASSUME NEW e \in Endpoints, d[e].effect.act \notin {"start", "stop"}
      PROVE  /\ bindings'[e] \in Binding /\ bindings'[e].nextGen = bindings[e].nextGen
             /\ Fits(bindings'[e], workers'[e])
             /\ workers'[e] = workers[e] /\ thread'[e] = thread[e] /\ stop'[e] = stop[e]
  <2>1. ~Starts(d[e]) /\ ~Stops(e, d[e])
    BY <1>5 DEF Starts, Stops
  <2> QED
    BY <1>2, <1>3, <1>5, <2>1 DEF Outcome
<1>6. ASSUME NEW e \in Endpoints, d[e].effect.act = "start"
      PROVE  /\ bindings'[e] \in Binding /\ bindings'[e].nextGen = bindings[e].nextGen + 1
             /\ bindings[e].nextGen \in Gens
             /\ Fits(bindings'[e], workers'[e])
             /\ workers[e] = NoWorker /\ workers'[e] = bindings[e].nextGen
             /\ thread'[e] = [thread[e] EXCEPT ![bindings[e].nextGen] = "opening"]
             /\ stop'[e] = stop[e]
  <2>1. Starts(d[e]) /\ ~Stops(e, d[e])
    BY <1>6 DEF Starts, Stops
  <2>2. /\ d[e].effect.gen = bindings[e].nextGen
        /\ d[e].binding.nextGen = bindings[e].nextGen + 1
        /\ d[e].binding \in Binding
        /\ workers[e] = NoWorker
        /\ Fits(d[e].binding, bindings[e].nextGen)
    BY <1>2, <1>6 DEF Outcome
  <2>3. bindings[e].nextGen \in Gens
    BY <1>1, <1>2, <2>2, SupervisorAssumption DEF Gens, Binding
  <2> QED
    BY <1>3, <2>1, <2>2, <2>3
<1>7. ASSUME NEW e \in Endpoints, d[e].effect.act = "stop"
      PROVE  /\ bindings'[e] \in Binding /\ bindings'[e].nextGen = bindings[e].nextGen
             /\ d[e].effect.gen \in Nat
             /\ Fits(bindings'[e], workers'[e])
             /\ workers[e] \in Gens /\ workers'[e] = NoWorker
             /\ thread'[e] = thread[e]
             /\ stop'[e] = stop[e] \union {workers[e]}
             /\ Joiner(e, d[e].effect.gen) \in joining'
  <2>1. ~Starts(d[e]) /\ Stops(e, d[e])
    BY <1>2, <1>7 DEF Starts, Stops, Outcome
  <2>2. Joiner(e, d[e].effect.gen) \in joining'
    BY <2>1 DEF Execute
  <2> QED
    BY <1>1, <1>2, <1>3, <1>7, <2>1, <2>2 DEF Outcome, Worker
<1>8. TypeOK'
  <2>1. bindings' \in [Endpoints -> Binding]
    BY <1>5, <1>6, <1>7 DEF Execute
  <2>2. workers' \in [Endpoints -> Gens \union {NoWorker}]
    <3>1. \A e \in Endpoints : workers'[e] \in Gens \union {NoWorker}
      BY <1>1, <1>5, <1>6, <1>7 DEF Worker
    <3> QED
      BY <3>1 DEF Execute
  <2>3. thread' \in [Endpoints -> [Gens -> Places]]
    <3>1. ASSUME NEW e \in Endpoints
          PROVE  thread'[e] \in [Gens -> Places]
      <4>1. thread[e] \in [Gens -> Places]
        BY <1>1
      <4>2. [thread[e] EXCEPT ![bindings[e].nextGen] = "opening"] \in [Gens -> Places]
        BY <4>1 DEF Places
      <4> QED
        BY <1>5, <1>6, <1>7, <4>1, <4>2
    <3> QED
      BY <3>1 DEF Execute
  <2>4. stop' \in [Endpoints -> SUBSET Gens]
    <3>1. ASSUME NEW e \in Endpoints
          PROVE  stop'[e] \subseteq Gens
      <4>1. stop[e] \subseteq Gens
        BY <1>1
      <4>2. CASE d[e].effect.act = "stop"
        BY <1>7, <4>1, <4>2
      <4>3. CASE d[e].effect.act # "stop"
        BY <1>5, <1>6, <4>1, <4>3
      <4> QED
        BY <4>2, <4>3
    <3> QED
      BY <3>1 DEF Execute
  <2>5. joining' \in SUBSET Joins
    <3>1. ASSUME NEW e \in Endpoints, Stops(e, d[e])
          PROVE  Joiner(e, d[e].effect.gen) \in Joins
      BY <1>7, <3>1 DEF Stops, Joiner, Joins
    <3> QED
      BY <1>1, <3>1 DEF Execute
  <2>6. timers' \in [Endpoints -> [1 .. MaxAttempts -> Nat]]
    <3>1. timers' = Asleep(d, sleeping)
      BY DEF Execute
    <3>2. \A e \in Endpoints : \A id \in 1 .. MaxAttempts : sleeping[e][id] \in Nat
      OBVIOUS
    <3> QED
      BY <3>1, <3>2 DEF Asleep
  <2> QED
    BY <2>1, <2>2, <2>3, <2>4, <2>5, <2>6 DEF TypeOK, Surroundings
<1>9. ASSUME NEW e \in Endpoints
      PROVE  Frames(e)' /\ Spawned(e)'
  <2>1. Frames(e) /\ Spawned(e) /\ sink'[e].frame = sink[e].frame
    BY DEF IInv, SameFrames
  <2>2. bindings[e].nextGen \in Nat /\ sink[e].frame \in Gens \union {NoGen}
    BY <1>1 DEF Binding, TypeOK
  <2>3. CASE d[e].effect.act # "start"
    BY <1>5, <1>7, <2>1, <2>3 DEF Frames, Spawned
  <2>4. CASE d[e].effect.act = "start"
    <3>1. bindings'[e].nextGen = bindings[e].nextGen + 1
      BY <1>6, <2>4
    <3>2. sink[e].frame # NoGen => sink[e].frame \in Nat
      BY <2>2, GensAre
    <3>3. Frames(e)'
      BY <2>1, <2>2, <3>1, <3>2 DEF Frames
    <3>4. /\ thread'[e] = [thread[e] EXCEPT ![bindings[e].nextGen] = "opening"]
          /\ thread[e] \in [Gens -> Places] /\ bindings[e].nextGen \in Gens
      BY <1>1, <1>6, <2>4
    <3>5. ASSUME NEW g \in Gens
          PROVE  thread'[e][g] = "none" <=> g >= bindings[e].nextGen + 1
      <4>1. g \in Nat
        BY GensAre
      <4>2. CASE g = bindings[e].nextGen
        BY <2>2, <3>4, <4>2
      <4>3. CASE g # bindings[e].nextGen
        <5>1. thread'[e][g] = thread[e][g]
          BY <3>4, <4>3
        <5> QED
          BY <2>1, <2>2, <4>1, <4>3, <5>1 DEF Spawned
      <4> QED
        BY <4>2, <4>3
    <3>6. Spawned(e)'
      BY <3>1, <3>5 DEF Spawned
    <3> QED
      BY <3>3, <3>6
  <2> QED
    BY <2>3, <2>4
<1>10. ASSUME NEW e \in Endpoints, NEW g \in Gens, thread'[e][g] \notin {"none", "ended"}
       PROVE  workers'[e] = g \/ \E j \in joining' : j.endpoint = e /\ j.thread = g
  <2>1. CASE d[e].effect.act = "start" /\ g = bindings[e].nextGen
    BY <1>6, <2>1
  <2>2. CASE ~(d[e].effect.act = "start" /\ g = bindings[e].nextGen)
    <3>1. thread'[e][g] = thread[e][g]
      <4>1. thread[e] \in [Gens -> Places]
        BY <1>1
      <4>2. CASE d[e].effect.act = "start"
        BY <1>6, <2>2, <4>1, <4>2
      <4>3. CASE d[e].effect.act # "start"
        BY <1>5, <1>7, <4>3
      <4> QED
        BY <4>2, <4>3
    <3>2. workers[e] = g \/ \E j \in joining : j.endpoint = e /\ j.thread = g
      BY <1>10, <3>1 DEF IInv, EveryThreadOwned
    <3>3. CASE workers[e] = g
      <4>1. workers[e] # NoWorker
        BY <3>3, GensAre
      <4>2. CASE d[e].effect.act = "stop"
        BY <1>7, <3>3, <4>2 DEF Joiner
      <4> QED
        BY <1>5, <1>6, <3>3, <4>1, <4>2
    <3>4. CASE \E j \in joining : j.endpoint = e /\ j.thread = g
      <4>1. PICK j \in joining : j.endpoint = e /\ j.thread = g
        BY <3>4
      <4>2. j \in joins
        BY <1>10, <3>1, <4>1
      <4> QED
        BY <1>4, <4>1, <4>2
    <3> QED
      BY <3>2, <3>3, <3>4
  <2> QED
    BY <2>1, <2>2
<1>11. IInv'
  BY <1>5, <1>6, <1>7, <1>8, <1>9, <1>10 DEF IInv, EveryThreadOwned
<1>12. \A e \in Endpoints :
         workers[e] # NoWorker /\ workers'[e] # NoWorker => workers'[e] = workers[e]
  BY <1>5, <1>6, <1>7
<1> QED
  BY <1>1, <1>11, <1>12, InOrder DEF Steady

-----------------------------------------------------------------------------
(* The steps of the threads and the devices. *)

LEMMA Sending ==
  ASSUME TypeOK, NEW report \in Reports, NEW e \in Endpoints, NEW g \in Gens,
         Send(report, e, g) \/ TrySend(report, e, g)
  PROVE  channel' \in Seq(Events) /\ Len(channel') <= ChannelSize
<1>1. channel \in Seq(Events) /\ Len(channel) <= ChannelSize
  BY DEF TypeOK
<1>2. CASE channel' = channel
  BY <1>1, <1>2
<1>3. CASE Room /\ loop # "over" /\ channel' = Append(channel, [report |-> report, endpoint |-> e, gen |-> g])
  <2>1. [report |-> report, endpoint |-> e, gen |-> g] \in Events
    BY DEF Events
  <2>2. Len(channel) < ChannelSize
    BY <1>3 DEF Room
  <2> HIDE DEF Events
  <2> QED
    BY <1>1, <1>3, <2>1, <2>2, SupervisorAssumption
<1> QED
  BY <1>2, <1>3 DEF Send, TrySend, Put

LEMMA Threading ==
  ASSUME IInv, NEW e \in Endpoints, NEW g \in Gens, NEW place \in Places,
         place # "none",
         thread[e][g] \notin {"none", "ended"},
         Go(e, g, place),
         channel' \in Seq(Events) /\ Len(channel') <= ChannelSize,
         UNCHANGED <<supervisor, stop, devices>>
  PROVE  Steady
<1> USE DEF supervisor, decided, devices
<1>1. TypeOK /\ thread \in [Endpoints -> [Gens -> Places]]
  BY DEF IInv, TypeOK
<1>2. thread' \in [Endpoints -> [Gens -> Places]]
  BY <1>1 DEF Go
<1>3. \A f \in Endpoints : \A h \in Gens :
        thread'[f][h] = IF f = e /\ h = g THEN place ELSE thread[f][h]
  BY <1>1 DEF Go
<1>4. TypeOK'
  BY <1>1, <1>2 DEF TypeOK
<1>5. \A f \in Endpoints : Fits(bindings'[f], workers'[f]) /\ Frames(f)' /\ Spawned(f)'
  <2> TAKE f \in Endpoints
  <2>1. Fits(bindings[f], workers[f]) /\ Frames(f) /\ Spawned(f)
    BY DEF IInv
  <2>2. Spawned(f)'
    BY <1>3, <2>1 DEF Spawned
  <2> QED
    BY <2>1, <2>2 DEF Frames
<1>6. EveryThreadOwned'
  BY <1>3 DEF IInv, EveryThreadOwned
<1>7. SameFrames
  BY DEF SameFrames
<1> QED
  BY <1>1, <1>4, <1>5, <1>6, <1>7, InOrder DEF Steady, IInv

\* Steps that leave bindings, workers and threads as they are.
LEMMA Quiet ==
  ASSUME IInv, UNCHANGED <<decided, thread, stop>>, Surroundings',
         loop = "over" => loop' = "over",
         \A e \in Endpoints :
           \/ sink'[e].frame = sink[e].frame
           \/ /\ sink'[e].frame \in Gens
              /\ sink'[e].frame < bindings[e].nextGen
              /\ sink[e].frame # NoGen => sink'[e].frame >= sink[e].frame
  PROVE  Steady
<1> USE DEF decided
<1>1. TypeOK /\ TypeOK'
  BY DEF IInv, TypeOK, Surroundings
<1>2. \A e \in Endpoints : Fits(bindings'[e], workers'[e]) /\ Frames(e)' /\ Spawned(e)'
  <2> TAKE e \in Endpoints
  <2>1. Fits(bindings[e], workers[e]) /\ Frames(e) /\ Spawned(e)
    BY DEF IInv
  <2>2. Frames(e)'
    BY <2>1 DEF Frames
  <2>3. Spawned(e)'
    BY <2>1 DEF Spawned
  <2> QED
    BY <2>1, <2>2, <2>3
<1>3. EveryThreadOwned'
  BY DEF IInv, EveryThreadOwned
<1>4. \A e \in Endpoints : sink[e].frame # NoGen => sink'[e].frame >= sink[e].frame
  <2> SUFFICES ASSUME NEW e \in Endpoints, sink[e].frame # NoGen
               PROVE  sink'[e].frame >= sink[e].frame
    OBVIOUS
  <2>1. sink[e].frame \in Gens
    BY <1>1 DEF TypeOK
  <2>2. sink[e].frame \in Nat
    BY <2>1, GensAre
  <2> QED
    BY <2>2
<1> QED
  BY <1>1, <1>2, <1>3, <1>4 DEF Steady, IInv

LEMMA ThreadSteps ==
  ASSUME IInv, NEW e \in Endpoints, NEW g \in Gens, ThreadStep(e, g)
  PROVE  Steady
<1>1. TypeOK /\ channel \in Seq(Events) /\ Len(channel) <= ChannelSize
  BY DEF IInv, TypeOK
<1>2. CASE OpenDevice(e, g)
  BY <1>1, <1>2, Sending, Threading DEF OpenDevice, Reports, Places
<1>3. CASE OpenFails(e, g)
  BY <1>1, <1>3, Threading DEF OpenFails, Places
<1>4. CASE CaptureFrame(e, g)
  <2>1. CASE loop = "over"
    BY <1>1, <1>4, <2>1, Threading DEF CaptureFrame, InLoop, Places
  <2>2. CASE loop # "over"
    <3>1. Send("Frame", e, g) /\ UNCHANGED <<thread, supervisor, stop, devices>>
      BY <1>4, <2>2 DEF CaptureFrame
    <3>2. channel' \in Seq(Events) /\ Len(channel') <= ChannelSize
      BY <1>1, <3>1, Sending DEF Reports
    <3>3. Surroundings'
      BY <1>1, <3>1, <3>2 DEF Surroundings, TypeOK, supervisor, devices
    <3> QED
      BY <3>1, <3>3, Quiet DEF supervisor
  <2> QED
    BY <2>1, <2>2
<1>5. CASE CaptureFails(e, g)
  BY <1>1, <1>5, Threading DEF CaptureFails, InLoop, Places
<1>6. CASE SessionDisconnected(e, g)
  BY <1>1, <1>6, Sending, Threading DEF SessionDisconnected, Reports, Places
<1>7. CASE NoticeLoss(e, g)
  BY <1>1, <1>7, Threading DEF NoticeLoss, InLoop, Places
<1>8. CASE NoticeStop(e, g)
  BY <1>1, <1>8, Threading DEF NoticeStop, InLoop, Places
<1>9. CASE Exit(e, g)
  <2>1. thread[e][g] \in {"lost", "failing", "stopped"}
    BY <1>9 DEF Exit, LastReport
  <2>2. LastReport[thread[e][g]] \in Reports
    BY <2>1 DEF LastReport, Reports
  <2>3. Send(LastReport[thread[e][g]], e, g)
    BY <1>9 DEF Exit
  <2>4. channel' \in Seq(Events) /\ Len(channel') <= ChannelSize
    BY <1>1, <2>2, <2>3, Sending
  <2> QED
    BY <1>9, <2>1, <2>4, Threading DEF Exit, Places
<1> QED
  BY <1>2, <1>3, <1>4, <1>5, <1>6, <1>7, <1>8, <1>9 DEF ThreadStep

LEMMA PlugSteps ==
  ASSUME IInv, NEW e \in Endpoints, Plug(e)
  PROVE  Steady
<1>1. TypeOK
  BY DEF IInv
<1>2. [endpoint |-> e, added |-> ~plugged[e]] \in [endpoint : Endpoints, added : BOOLEAN]
  BY <1>1 DEF TypeOK
<1>3. watch' \in Seq([endpoint : Endpoints, added : BOOLEAN])
  BY <1>1, <1>2 DEF TypeOK, Plug
<1>4. plugged' \in [Endpoints -> BOOLEAN] /\ plugs' \in Nat
  BY <1>1 DEF TypeOK, Plug
<1>5. Surroundings'
  BY <1>1, <1>3, <1>4 DEF Surroundings, TypeOK, Plug, supervisor
<1> QED
  BY <1>5, Quiet DEF Plug, supervisor

-----------------------------------------------------------------------------
(* The handlers of the loop. *)

LEMMA ExecutingOne ==
  ASSUME IInv, NEW e \in Endpoints, NEW d, NEW joins,
         NEW sleeping \in [Endpoints -> [1 .. MaxAttempts -> Nat]],
         Outcome(bindings[e], workers[e], d),
         joins \subseteq joining,
         \A j \in joining \ joins : thread[j.endpoint][j.thread] = "ended",
         Execute(Only(e, d), joins, sleeping),
         loop # "over", Surroundings', SameFrames
  PROVE  Steady
<1>1. ASSUME NEW f \in Endpoints
      PROVE  Outcome(bindings[f], workers[f], Only(e, d)[f])
  <2>1. Outcome(bindings[f], workers[f], Ignore(bindings[f]))
    BY IgnoreOutcome DEF IInv, TypeOK, Worker
  <2>2. Only(e, d)[f] = IF f = e THEN d ELSE Ignore(bindings[f])
    BY DEF Only
  <2> HIDE DEF Outcome
  <2> QED
    BY <2>1, <2>2
<1> HIDE DEF Outcome
<1> QED
  BY <1>1, Executing

\* What a handler knows before it runs.
LEMMA Known ==
  ASSUME IInv
  PROVE  /\ TypeOK /\ Surroundings
         /\ \A e \in Endpoints : /\ bindings[e] \in Binding
                                 /\ workers[e] \in Worker
                                 /\ Fits(bindings[e], workers[e])
         /\ timers \in [Endpoints -> [1 .. MaxAttempts -> Nat]]
         /\ shutdown \in BOOLEAN
BY DEF IInv, TypeOK, Worker, Surroundings, shutdown

LEMMA Receiving ==
  ASSUME TypeOK, NEW reports, NEW e \in Endpoints, Receive(reports, e)
  PROVE  /\ Head(channel) \in Events
         /\ channel' \in Seq(Events) /\ Len(channel') <= ChannelSize
         /\ loop = "run" /\ loop' = loop
         /\ UNCHANGED devices
         /\ sink' \in [Endpoints ->
              [format : Gens \union {NoGen}, frame : Gens \union {NoGen}]] => Surroundings'
<1>1. channel \in Seq(Events) /\ Len(channel) <= ChannelSize /\ channel # <<>>
  BY DEF TypeOK, Receive
<1> HIDE DEF Events
<1>2. Head(channel) \in Events
  BY <1>1
<1>3. channel' \in Seq(Events) /\ Len(channel') <= ChannelSize
  BY <1>1, SupervisorAssumption DEF Receive
<1> QED
  BY <1>2, <1>3 DEF Receive, devices, TypeOK, Surroundings

LEMMA FrameSteps ==
  ASSUME IInv, NEW e \in Endpoints, HandleFrame(e)
  PROVE  Steady
<1>1. TypeOK /\ Frames(e) /\ Fits(bindings[e], workers[e]) /\ bindings[e] \in Binding
  BY Known DEF IInv
<1> DEFINE gen == Head(channel).gen
<1>2. gen \in Gens /\ gen \in Nat
  BY <1>1, Receiving, GensAre DEF HandleFrame, Events
<1>3. sink' \in [Endpoints -> [format : Gens \union {NoGen}, frame : Gens \union {NoGen}]]
  BY <1>1, <1>2 DEF HandleFrame, TypeOK
<1>4. Surroundings' /\ loop' = loop
  BY <1>1, <1>3, Receiving DEF HandleFrame
<1>5. ASSUME NEW f \in Endpoints, sink'[f].frame # sink[f].frame
      PROVE  /\ sink'[f].frame \in Gens
             /\ sink'[f].frame < bindings[f].nextGen
             /\ sink[f].frame # NoGen => sink'[f].frame >= sink[f].frame
  <2>1. f = e /\ Admitted(e) /\ sink'[e].frame = gen
    BY <1>1, <1>5 DEF HandleFrame, TypeOK
  <2>2. gen + 1 = bindings[e].nextGen
    BY <1>1, <2>1 DEF Admitted, AcceptsEpoch, Is, Fits, Owning
  <2>3. sink[e].frame # NoGen => sink[e].frame \in Nat /\ sink[e].frame < bindings[e].nextGen
    BY <1>1, GensAre DEF TypeOK, Frames
  <2> HIDE DEF gen
  <2> QED
    BY <1>2, <2>1, <2>2, <2>3
<1> QED
  BY <1>4, <1>5, Quiet DEF HandleFrame

LEMMA StartedSteps ==
  ASSUME IInv, NEW e \in Endpoints, HandleStarted(e)
  PROVE  Steady
<1>1. TypeOK
  BY Known
<1>2. Head(channel).gen \in Gens
  BY <1>1, Receiving DEF HandleStarted, Events
<1>3. sink' \in [Endpoints -> [format : Gens \union {NoGen}, frame : Gens \union {NoGen}]]
  BY <1>1, <1>2 DEF HandleStarted, TypeOK
<1>4. Surroundings' /\ loop' = loop /\ loop # "over"
  BY <1>1, <1>3, Receiving DEF HandleStarted
<1>5. SameFrames
  BY <1>1 DEF HandleStarted, TypeOK, SameFrames
<1>6. CASE workers[e] # NoWorker
  <2>1. Outcome(bindings[e], workers[e], WorkerStarted(bindings[e], workers[e]))
    BY <1>6, Known, StartedOutcome DEF Worker
  <2>2. Execute(Only(e, WorkerStarted(bindings[e], workers[e])), joining, timers)
    BY <1>6 DEF HandleStarted
  <2> HIDE DEF Outcome, Execute
  <2> QED
    BY <1>4, <1>5, <2>1, <2>2, Known, ExecutingOne
<1>7. CASE workers[e] = NoWorker
  BY <1>4, <1>5, <1>7, Quiet DEF HandleStarted, SameFrames
<1> QED
  BY <1>6, <1>7

LEMMA FailureSteps ==
  ASSUME IInv, NEW e \in Endpoints, HandleFailure(e)
  PROVE  Steady
<1>1. TypeOK /\ Surroundings' /\ loop' = loop /\ SameFrames
  <2>1. TypeOK /\ UNCHANGED sink
    BY Known DEF HandleFailure
  <2>2. sink' \in [Endpoints -> [format : Gens \union {NoGen}, frame : Gens \union {NoGen}]]
    BY <2>1 DEF TypeOK
  <2> QED
    BY <2>1, <2>2, Receiving DEF HandleFailure, SameFrames
<1>2. CASE workers[e] = NoWorker
  BY <1>1, <1>2, Quiet DEF HandleFailure, SameFrames
<1>3. CASE workers[e] # NoWorker
  <2> DEFINE w == workers[e]  d == WorkerFailed(bindings[e], w)
  <2>1. w \in Gens
    BY <1>3, Known DEF Worker
  <2>2. /\ d.binding \in Binding
        /\ d.binding.nextGen = bindings[e].nextGen
        /\ Fits(d.binding, NoWorker)
    BY <2>1, Known, FailureFits
  <2>3. /\ bindings' = [bindings EXCEPT ![e] = d.binding]
        /\ timers' = Asleep(Only(e, d), timers)
        /\ workers' = [workers EXCEPT ![e] = NoWorker]
        /\ joining' = joining \union {Joiner(e, w)}
        /\ UNCHANGED <<thread, stop>>
    BY <1>3 DEF HandleFailure, FailWorker, DecideFailure, Unregister
  <2> HIDE DEF d
  <2>4. \A f \in Endpoints :
          /\ bindings'[f] = IF f = e THEN d.binding ELSE bindings[f]
          /\ workers'[f] = IF f = e THEN NoWorker ELSE workers[f]
    BY <1>1, <2>3 DEF TypeOK
  <2>5. Joiner(e, w) \in Joins
    BY <2>1, GensAre DEF Joiner, Joins
  <2>6. timers' \in [Endpoints -> [1 .. MaxAttempts -> Nat]]
    <3>1. timers \in [Endpoints -> [1 .. MaxAttempts -> Nat]]
      BY Known
    <3>2. \A f \in Endpoints : \A id \in 1 .. MaxAttempts : timers[f][id] \in Nat
      BY <3>1
    <3> QED
      BY <2>3, <3>2 DEF Asleep
  <2>7. TypeOK'
    BY <1>1, <2>2, <2>3, <2>5, <2>6 DEF TypeOK, Surroundings
  <2>8. \A f \in Endpoints : Fits(bindings'[f], workers'[f]) /\ Frames(f)' /\ Spawned(f)'
    <3> TAKE f \in Endpoints
    <3>1. Fits(bindings[f], workers[f]) /\ Frames(f) /\ Spawned(f)
      BY DEF IInv
    <3>2. Fits(bindings'[f], workers'[f]) /\ bindings'[f].nextGen = bindings[f].nextGen
      BY <2>2, <2>4, <3>1
    <3>3. Frames(f)' /\ Spawned(f)'
      BY <1>1, <2>3, <3>1, <3>2 DEF Frames, Spawned, SameFrames
    <3> QED
      BY <3>2, <3>3
  <2>9. EveryThreadOwned'
    <3> SUFFICES ASSUME NEW f \in Endpoints, NEW g \in Gens, loop # "over",
                        thread[f][g] \notin {"none", "ended"}
                 PROVE  workers'[f] = g \/ \E j \in joining' : j.endpoint = f /\ j.thread = g
      BY <1>1, <2>3 DEF EveryThreadOwned
    <3>1. workers[f] = g \/ \E j \in joining : j.endpoint = f /\ j.thread = g
      BY DEF IInv, EveryThreadOwned
    <3>2. Joiner(e, w).endpoint = e /\ Joiner(e, w).thread = w
      BY DEF Joiner
    <3> QED
      BY <2>3, <2>4, <3>1, <3>2
  <2>10. IInv'
    BY <2>7, <2>8, <2>9 DEF IInv
  <2> QED
    BY <1>1, <2>4, <2>10, InOrder DEF Steady
<1> QED
  BY <1>2, <1>3

LEMMA StoppedSteps ==
  ASSUME IInv, NEW e \in Endpoints, HandleStopped(e)
  PROVE  Steady
<1>1. TypeOK /\ UNCHANGED sink
  BY Known DEF HandleStopped
<1>2. sink' \in [Endpoints -> [format : Gens \union {NoGen}, frame : Gens \union {NoGen}]]
  BY <1>1 DEF TypeOK
<1>3. Surroundings' /\ loop' = loop
  BY <1>1, <1>2, Receiving DEF HandleStopped
<1> QED
  BY <1>1, <1>3, Quiet DEF HandleStopped

LEMMA WatchSteps ==
  ASSUME IInv, NEW e \in Endpoints, HandleDeviceWatch(e)
  PROVE  Steady
<1> DEFINE d == IF Head(watch).added
                THEN EndpointAdded(bindings[e], e, NoRoutes, shutdown)
                ELSE EndpointRemoved(bindings[e], e)
<1>1. Outcome(bindings[e], workers[e], d)
  <2> HIDE DEF Outcome
  <2>1. /\ Outcome(bindings[e], workers[e], EndpointRemoved(bindings[e], e))
        /\ Outcome(bindings[e], workers[e], EndpointAdded(bindings[e], e, NoRoutes, shutdown))
    BY Known, InputOutcomes
  <2> QED
    BY <2>1
<1>2. Execute(Only(e, d), joining, timers)
  BY DEF HandleDeviceWatch
<1>3. watch' \in Seq([endpoint : Endpoints, added : BOOLEAN])
  BY Known DEF HandleDeviceWatch, TypeOK
<1>4. Surroundings' /\ SameFrames /\ loop # "over"
  BY Known, <1>3 DEF HandleDeviceWatch, Surroundings, SameFrames
<1> HIDE DEF d, Outcome, Execute
<1> QED
  BY <1>1, <1>2, <1>4, Known, ExecutingOne

LEMMA JoinSteps ==
  ASSUME IInv, NEW j \in joining, HandleJoinResult(j)
  PROVE  Steady
<1> DEFINE e == j.endpoint
           d == WorkerStopped(bindings[e], j.gen, NoRoutes, shutdown)
<1>1. e \in Endpoints /\ j.gen \in Nat
  BY Known DEF TypeOK, Joins
<1>2. Outcome(bindings[e], workers[e], d)
  BY <1>1, Known, StoppedOutcome
<1>3. /\ Execute(Only(e, d), joining \ {j}, timers)
      /\ loop # "over" /\ loop' \in {loop, "over"}
      /\ thread[j.endpoint][j.thread] = "ended"
      /\ UNCHANGED <<sink, channel, devices>>
  BY DEF HandleJoinResult, Joinable
<1>4. Surroundings' /\ SameFrames
  BY <1>3, Known DEF Surroundings, SameFrames, devices
<1>5. \A i \in joining \ (joining \ {j}) : thread[i.endpoint][i.thread] = "ended"
  BY <1>3
<1> HIDE DEF d, e, Outcome, Execute
<1> QED
  BY <1>1, <1>2, <1>3, <1>4, <1>5, Known, ExecutingOne

LEMMA TimerSteps ==
  ASSUME IInv, NEW e \in Endpoints, NEW id \in 1 .. MaxAttempts, HandleRetryTimer(e, id)
  PROVE  Steady
<1> DEFINE d == RetryTimerFired(bindings[e], id, NoRoutes, shutdown)
           sleeping == [timers EXCEPT ![e][id] = @ - 1]
<1>1. id \in Nat
  BY AttemptsAssumption
<1>2. Outcome(bindings[e], workers[e], d)
  <2> HIDE DEF Outcome
  <2> QED
    BY <1>1, Known, InputOutcomes
<1>3. sleeping \in [Endpoints -> [1 .. MaxAttempts -> Nat]]
  <2>1. timers \in [Endpoints -> [1 .. MaxAttempts -> Nat]]
    BY Known
  <2>2. timers[e][id] \in Nat /\ timers[e][id] > 0
    BY <2>1 DEF HandleRetryTimer
  <2>3. timers[e][id] - 1 \in Nat
    BY <2>2
  <2> QED
    BY <2>1, <2>3
<1>4. Execute(Only(e, d), joining, sleeping) /\ loop # "over"
  BY DEF HandleRetryTimer
<1>5. Surroundings' /\ SameFrames
  BY Known DEF HandleRetryTimer, Surroundings, SameFrames, devices
<1> HIDE DEF d, sleeping, Outcome, Execute
<1> QED
  BY <1>2, <1>3, <1>4, <1>5, ExecutingOne

LEMMA ShutdownSteps ==
  ASSUME IInv, HandleShutdown
  PROVE  Steady
<1> DEFINE d == [e \in Endpoints |-> ShutdownRequested(bindings[e])]
<1>1. ASSUME NEW e \in Endpoints
      PROVE  Outcome(bindings[e], workers[e], d[e])
  <2> HIDE DEF Outcome
  <2>1. Outcome(bindings[e], workers[e], ShutdownRequested(bindings[e]))
    BY Known, InputOutcomes
  <2> QED
    BY <2>1
<1>2. Execute(d, joining, timers) /\ loop # "over"
  BY DEF HandleShutdown
<1>3. Surroundings' /\ SameFrames
  BY Known DEF HandleShutdown, Surroundings, SameFrames, devices
<1> HIDE DEF d, Outcome, Execute
<1> QED
  BY <1>1, <1>2, <1>3, Known, Executing

LEMMA Initially == Init => IInv
<1> SUFFICES ASSUME Init PROVE IInv
  OBVIOUS
<1>1. ASSUME NEW e \in Endpoints
      PROVE  /\ bindings[e] \in Binding
             /\ bindings[e].nextGen = 1
             /\ bindings[e].lifecycle.state = "starting"
             /\ bindings[e].lifecycle.gen = 0
  <2> DEFINE b == PinDevices(e)
  <2>1. /\ b \in Binding /\ b.nextGen = 0 /\ b.lifecycle = Stopped
        /\ b.selection = [mode |-> "pinned", endpoint |-> e]
    BY DEF PinDevices, NewBinding, Binding, Stopped, Lifecycles, Selections
  <2>2. MayStart(b)
    BY <2>1 DEF MayStart, Stopped
  <2>3. ResolveTarget(b.selection, NoRoutes) = e /\ e # NoTarget
    BY <2>1, TargetsAssumption DEF ResolveTarget
  <2> HIDE DEF b
  <2>4. UserStart(b, NoRoutes, FALSE).binding
          = [Move(b, Starting(0, e)) EXCEPT !.nextGen = @ + 1]
    BY <2>1, <2>2, <2>3 DEF UserStart, StartBinding, Decision
  <2>5. Starting(0, e) \in Lifecycles
    BY DEF Starting, Lifecycles, Targets
  <2>6. /\ Move(b, Starting(0, e)) \in Binding
        /\ Move(b, Starting(0, e)).lifecycle = Starting(0, e)
        /\ Move(b, Starting(0, e)).nextGen = 0
    BY <2>1, <2>5 DEF Move, Binding
  <2>7. bindings[e] = [Move(b, Starting(0, e)) EXCEPT !.nextGen = @ + 1]
    BY <2>4 DEF Init, b
  <2>8. /\ bindings[e] \in Binding /\ bindings[e].nextGen = 1
        /\ bindings[e].lifecycle = Starting(0, e)
    BY <2>6, <2>7 DEF Binding
  <2>9. Starting(0, e).state = "starting" /\ Starting(0, e).gen = 0
    BY DEF Starting
  <2> QED
    BY <2>8, <2>9
<1>2. ASSUME NEW e \in Endpoints
      PROVE  Fits(bindings[e], workers[e])
  <2>1. workers[e] = 0 /\ bindings[e].nextGen = 1
    BY <1>1 DEF Init
  <2> QED
    BY <1>1, <2>1, SupervisorAssumption DEF Fits, Owning, Is
<1>3. TypeOK
  <2>1. bindings \in [Endpoints -> Binding]
    BY <1>1 DEF Init
  <2>2. thread \in [Endpoints -> [Gens -> Places]]
    BY DEF Init, Places
  <2>3. workers \in [Endpoints -> Gens \union {NoWorker}]
    BY GensAre DEF Init
  <2>4. channel \in Seq(Events) /\ Len(channel) = 0
    BY DEF Init
  <2>5. watch \in Seq([endpoint : Endpoints, added : BOOLEAN])
    BY DEF Init
  <2>6. /\ joining \in SUBSET Joins
        /\ timers \in [Endpoints -> [1 .. MaxAttempts -> Nat]]
        /\ loop \in {"run", "drain", "over"}
        /\ sink \in [Endpoints -> [format : Gens \union {NoGen}, frame : Gens \union {NoGen}]]
        /\ stop \in [Endpoints -> SUBSET Gens]
        /\ plugged \in [Endpoints -> BOOLEAN]
        /\ plugs \in Nat
    BY DEF Init
  <2> QED
    BY <2>1, <2>2, <2>3, <2>4, <2>5, <2>6, SupervisorAssumption DEF TypeOK
<1>4. \A e \in Endpoints : Frames(e) /\ Spawned(e)
  <2> TAKE e \in Endpoints
  <2>1. Frames(e)
    BY DEF Init, Frames
  <2>2. ASSUME NEW g \in Gens
        PROVE  thread[e][g] = "none" <=> g >= 1
    <3>1. g \in Nat /\ thread[e][g] = IF g = 0 THEN "opening" ELSE "none"
      BY GensAre DEF Init
    <3> QED
      BY <3>1
  <2> QED
    BY <1>1, <2>1, <2>2 DEF Spawned
<1>5. EveryThreadOwned
  BY DEF Init, EveryThreadOwned
<1> QED
  BY <1>2, <1>3, <1>4, <1>5 DEF IInv

LEMMA Stepping == IInv /\ [Next]_vars => Steady
<1> SUFFICES ASSUME IInv, [Next]_vars PROVE Steady
  OBVIOUS
<1>1. ASSUME DrainTimeout PROVE Steady
  <2>1. Surroundings'
    BY <1>1, Known DEF DrainTimeout, Surroundings, devices
  <2> QED
    BY <1>1, <2>1, Quiet DEF DrainTimeout
<1>2. CASE UNCHANGED vars
  <2>1. Surroundings'
    BY <1>2, Known DEF vars, supervisor, devices, Surroundings
  <2> QED
    BY <1>2, <2>1, Quiet DEF vars, supervisor
<1>3. ASSUME NEW e \in Endpoints, HandleEvent(e) PROVE Steady
  BY <1>3, FrameSteps, StartedSteps, FailureSteps, StoppedSteps DEF HandleEvent
<1> QED
  BY <1>1, <1>2, <1>3, PlugSteps, ThreadSteps, WatchSteps, JoinSteps, TimerSteps,
     ShutdownSteps DEF Next

-----------------------------------------------------------------------------
(* The theorems. *)

THEOREM Invariance == Spec => []IInv
<1>1. IInv /\ [Next]_vars => IInv'
  BY Stepping DEF Steady
<1> QED
  BY Initially, <1>1, PTL DEF Spec

\* Whatever the threads, the devices and the user do, the supervisor's state
\* keeps its form and the event channel its capacity.
THEOREM TypeCorrect == Spec => []TypeOK
<1>1. IInv => TypeOK
  BY DEF IInv
<1> QED
  BY Invariance, <1>1, PTL

\* The handle registered for a binding is the worker decide has it starting or
\* running for, although events name the binding only.
THEOREM RegistryIsRight == Spec => []RegistryMatches
<1>1. IInv => RegistryMatches
  BY DEF IInv, Fits, RegistryMatches
<1> QED
  BY Invariance, <1>1, PTL

\* No thread is lost: each that lives is registered or has a joiner.
THEOREM ThreadsAreOwned == Spec => []EveryThreadOwned
<1>1. IInv => EveryThreadOwned
  BY DEF IInv
<1> QED
  BY Invariance, <1>1, PTL

\* The case execute only logs, a start over a registered handle, never happens.
THEOREM NothingOverwritten == Spec => NoOverwrite
<1>1. IInv /\ [Next]_vars =>
        [\A e \in Endpoints :
           workers[e] # NoWorker /\ workers'[e] # NoWorker => workers'[e] = workers[e]]_vars
  BY Stepping DEF Steady
<1> QED
  BY Invariance, <1>1, PTL DEF Spec, NoOverwrite

\* The frames of one binding reach the collector by generation.
THEOREM FramesKeepOrder == Spec => FramesInOrder
<1>1. IInv /\ [Next]_vars =>
        [\A e \in Endpoints : sink[e].frame # NoGen => sink'[e].frame >= sink[e].frame]_vars
  BY Stepping DEF Steady
<1> QED
  BY Invariance, <1>1, PTL DEF Spec, FramesInOrder

=============================================================================
