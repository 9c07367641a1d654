------------------------ MODULE RebindingPolicyProofs -----------------------
(***************************************************************************)
(* Proofs about RebindingPolicy, for any number of bindings, endpoints,    *)
(* processes, retries and workers.  The invariant says of one binding what *)
(* its lifecycle has to do with the history of its workers; every input of *)
(* decide is shown to keep it, once, for the binding alone.                *)
(***************************************************************************)
EXTENDS RebindingPolicy, TLAPS

Histories == [Gens -> SUBSET Facts]
Timers == [id : Nat, of : Gens]

Alive(w, g) == "issued" \in w[g] /\ w[g] \intersect {"failed", "stopped"} = {}

Owning(b) == b.lifecycle.state \in {"starting", "running", "stopping"}
Admits(b, g) == Is(b, "starting", g) \/ Is(b, "running", g)

\* A live worker is the one the lifecycle is about; generations not yet given
\* out have no history; a worker told to stop is neither starting nor running.
Tracked(b, w) ==
  /\ \A g \in Gens : Alive(w, g) => Owning(b) /\ b.lifecycle.gen = g
  /\ \A g \in Gens : g >= b.nextGen => w[g] = {}
  /\ \A g \in Gens : "told" \in w[g] => ~Admits(b, g)
  /\ Owning(b) => b.lifecycle.gen < b.nextGen
  /\ b.nextGen <= MaxGen

\* retry_attempt counts at least the starts since one succeeded.
Counted(b, n) ==
  /\ b.lifecycle.state \in {"stopped", "running", "stopping"} => b.attempt = 0 /\ n = 0
  /\ b.lifecycle.state = "starting" => n <= b.attempt + 1 /\ b.attempt <= MaxAttempts
  /\ b.lifecycle.state = "waiting" => n <= b.attempt /\ b.attempt <= MaxAttempts
  /\ b.lifecycle.state = "failed" => n <= MaxAttempts + 1

\* Only a process loopback captures a process.
Kept(b) ==
  b.lifecycle.state \in {"starting", "running"} /\ b.lifecycle.target \in Pids
    => b.selection.mode = "process"

Good(b, w, n) == Tracked(b, w) /\ Counted(b, n) /\ Kept(b)

\* What every decision d about a binding does.
Sound(b, w, n, s, d) ==
  /\ s => d.binding.nextGen = b.nextGen
  /\ d.binding.nextGen <= MaxGen =>
       /\ d.binding \in Binding
       /\ Commanded(w, d.effect) \in Histories
       /\ TriesAfter(n, d) \in Nat
       /\ Scheduled(d.binding, d.effect) \subseteq Timers
       /\ Good(d.binding, Commanded(w, d.effect), TriesAfter(n, d))
       /\ \A g \in Gens : "told" \in w[g] => ~AcceptsEpoch(d.binding, g)

IInv ==
  /\ TypeOK
  /\ \A k \in Kinds : Good(bindings[k], worker[k], tries[k])

-----------------------------------------------------------------------------
(* The decisions, about one binding. *)

LEMMA Ignoring ==
  ASSUME NEW b \in Binding, NEW w \in Histories, NEW n \in Nat, NEW s \in BOOLEAN,
         Good(b, w, n)
  PROVE  Sound(b, w, n, s, Ignore(b))
<1>1. /\ Ignore(b).binding = b
      /\ Ignore(b).effect = NoEffect
  BY DEF Ignore, Decision
<1>2. Commanded(w, NoEffect) = w /\ Scheduled(b, NoEffect) = {}
  BY DEF Commanded, Scheduled, NoEffect
<1>3. TriesAfter(n, Ignore(b)) = n
  BY <1>1 DEF TriesAfter, NoEffect, Good, Counted
<1> QED
  BY <1>1, <1>2, <1>3 DEF Sound, Good, Tracked, Admits, AcceptsEpoch

LEMMA Starts ==
  ASSUME NEW b \in Binding, NEW w \in Histories, NEW n \in Nat, NEW s \in BOOLEAN,
         NEW rt \in [Routes -> Endpoints \union {NoTarget}],
         Good(b, w, n)
  PROVE  Sound(b, w, n, s, StartBinding(b, rt, s))
<1> DEFINE target == ResolveTarget(b.selection, rt)
<1> DEFINE d == StartBinding(b, rt, s)
<1>1. CASE s \/ ~MayStart(b)
  <2>1. d = Ignore(b)
    BY <1>1 DEF StartBinding
  <2> QED
    BY <2>1, Ignoring
<1>2. CASE ~s /\ MayStart(b) /\ target = NoTarget
  <2> DEFINE c == Move(b, Waiting("DeviceUnavailable"))
  <2>1. d = Ignore(c)
    BY <1>2 DEF StartBinding
  <2>2. /\ c \in Binding
        /\ c.lifecycle = Waiting("DeviceUnavailable")
        /\ c.attempt = b.attempt /\ c.nextGen = b.nextGen /\ c.selection = b.selection
    BY DEF Move, Waiting, Binding, Lifecycles, WaitReasons
  <2>3. c.lifecycle.state = "waiting"
    BY <2>2 DEF Waiting
  <2>4. Good(c, w, n)
    <3> HIDE DEF c
    <3>1. Tracked(c, w)
      BY <1>2, <2>2, <2>3 DEF Good, Tracked, MayStart, Owning, Admits, Is
    <3>2. Counted(c, n)
      BY <1>2, <2>2, <2>3, AttemptsAssumption DEF Good, Counted, MayStart
    <3> QED
      BY <2>3, <3>1, <3>2 DEF Good, Kept
  <2> HIDE DEF c
  <2> QED
    BY <2>1, <2>2, <2>3, <2>4, Ignoring DEF Sound, Ignore, Decision, TriesAfter, NoEffect
<1>3. CASE ~s /\ MayStart(b) /\ target # NoTarget
  <2> DEFINE c == [Move(b, Starting(b.nextGen, target)) EXCEPT !.nextGen = @ + 1]
             e == StartCapture(b.nextGen, target)
  <2>1. d = Decision(c, e)
    BY <1>3 DEF StartBinding
  <2>2. d.binding = c /\ d.effect = e
    BY <2>1 DEF Decision
  <2>3. target \in Targets
    BY <1>3 DEF ResolveTarget, Binding, Selections, Targets
  <2>4. b.nextGen \in Nat
    BY DEF Binding
  <2>5. /\ c \in Binding
        /\ c.lifecycle = Starting(b.nextGen, target)
        /\ c.attempt = b.attempt /\ c.nextGen = b.nextGen + 1
        /\ c.selection = b.selection
    <3>1. Starting(b.nextGen, target) \in Lifecycles
      BY <2>3, <2>4 DEF Starting, Lifecycles
    <3>2. /\ Move(b, Starting(b.nextGen, target)) \in Binding
          /\ Move(b, Starting(b.nextGen, target)).lifecycle = Starting(b.nextGen, target)
          /\ Move(b, Starting(b.nextGen, target)).attempt = b.attempt
          /\ Move(b, Starting(b.nextGen, target)).nextGen = b.nextGen
          /\ Move(b, Starting(b.nextGen, target)).selection = b.selection
      BY <3>1 DEF Move, Binding
    <3> QED
      BY <3>2 DEF Binding
  <2>6. /\ c.lifecycle.state = "starting" /\ c.lifecycle.gen = b.nextGen
        /\ c.lifecycle.target = target
    BY <2>5 DEF Starting
  <2>7. e.act = "start" /\ e.gen = b.nextGen
    BY DEF StartCapture
  <2>8. TriesAfter(n, d) = n + 1 /\ Scheduled(c, e) = {}
    BY <2>2, <2>7 DEF TriesAfter, Scheduled
  <2>9. ASSUME c.nextGen <= MaxGen
        PROVE  /\ Commanded(w, e) \in Histories
               /\ Good(c, Commanded(w, e), n + 1)
               /\ \A g \in Gens : "told" \in w[g] => ~AcceptsEpoch(c, g)
    <3> DEFINE v == Commanded(w, e)
    <3>1. b.nextGen \in Gens
      BY <2>4, <2>5, <2>9, KindsAssumption DEF Gens
    <3>2. v = [w EXCEPT ![b.nextGen] = {"issued"}]
      BY <2>7 DEF Commanded
    <3>3. /\ v \in Histories
          /\ v[b.nextGen] = {"issued"}
          /\ \A g \in Gens : g # b.nextGen => v[g] = w[g]
      BY <3>1, <3>2 DEF Histories, Facts
    <3>4. \A g \in Gens : Alive(w, g) => FALSE
      BY <1>3 DEF Good, Tracked, MayStart, Owning
    <3>5. \A g \in Gens : Alive(v, g) => g = b.nextGen
      BY <3>3, <3>4 DEF Alive
    <3>6. \A g \in Gens : "told" \in v[g] => ~Admits(c, g)
      BY <2>6, <3>3 DEF Admits, Is
    <3>7. \A g \in Gens : g >= c.nextGen => v[g] = {}
      BY <2>4, <2>5, <3>3 DEF Good, Tracked, Gens
    <3>8. Tracked(c, v)
      BY <2>4, <2>5, <2>6, <2>9, <3>5, <3>6, <3>7 DEF Tracked, Owning
    <3>9. Counted(c, n + 1)
      BY <1>3, <2>5, <2>6, AttemptsAssumption DEF Good, Counted, MayStart, Binding
    <3>10. Kept(c)
      BY <1>3, <2>5, <2>6, TargetsAssumption
        DEF Kept, ResolveTarget, Binding, Selections
    <3>11. \A g \in Gens : "told" \in w[g] => ~AcceptsEpoch(c, g)
      BY <2>6 DEF AcceptsEpoch, Is
    <3> HIDE DEF v
    <3> QED
      BY <3>3, <3>8, <3>9, <3>10, <3>11 DEF Good, v
  <2> HIDE DEF c, e, d
  <2>10. Sound(b, w, n, s, d)
    BY <1>3, <2>2, <2>5, <2>8, <2>9 DEF Sound
  <2> QED
    BY <2>10 DEF d
<1> HIDE DEF target, d
<1>4. (s \/ ~MayStart(b)) \/ (~s /\ MayStart(b) /\ target = NoTarget)
        \/ (~s /\ MayStart(b) /\ target # NoTarget)
  OBVIOUS
<1> QED
  BY <1>1, <1>2, <1>3, <1>4 DEF d

LEMMA Stops ==
  ASSUME NEW b \in Binding, NEW w \in Histories, NEW n \in Nat, NEW s \in BOOLEAN,
         NEW next \in AfterStops,
         Good(b, w, n)
  PROVE  Sound(b, w, n, s, StopBinding(b, next))
<1>1. CASE b.lifecycle.state # "running"
  BY <1>1, Ignoring DEF StopBinding
<1>2. CASE b.lifecycle.state = "running"
  <2> DEFINE gen == b.lifecycle.gen
             c == Move(b, Stopping(gen, next))
             e == StopCapture(gen)
             v == Commanded(w, e)
  <2>1. StopBinding(b, next) = Decision(c, e)
    BY <1>2 DEF StopBinding
  <2>2. gen \in Nat /\ gen < b.nextGen /\ b.nextGen <= MaxGen
    BY <1>2 DEF Binding, Lifecycles, Good, Tracked, Owning
  <2>3. gen \in Gens
    BY <2>2, KindsAssumption DEF Gens, Binding
  <2>4. /\ c \in Binding
        /\ c.lifecycle = Stopping(gen, next)
        /\ c.attempt = b.attempt /\ c.nextGen = b.nextGen
    <3>1. Stopping(gen, next) \in Lifecycles
      BY <2>2 DEF Stopping, Lifecycles
    <3> QED
      BY <3>1 DEF Move, Binding
  <2>5. c.lifecycle.state = "stopping" /\ c.lifecycle.gen = gen
    BY <2>4 DEF Stopping
  <2>6. e.act = "stop" /\ e.gen = gen
    BY DEF StopCapture
  <2> HIDE DEF gen, c, e
  <2>7. v = [w EXCEPT ![gen] = @ \union {"told"}]
    BY <2>6 DEF Commanded
  <2>8. /\ v \in Histories
        /\ v[gen] = w[gen] \union {"told"}
        /\ \A g \in Gens : g # gen => v[g] = w[g]
    BY <2>3, <2>7 DEF Histories, Facts
  <2> HIDE DEF v
  <2>9. \A g \in Gens : Alive(v, g) => Alive(w, g)
    BY <2>8 DEF Alive
  <2>10. \A g \in Gens : g >= c.nextGen => v[g] = {}
    BY <2>2, <2>4, <2>8 DEF Good, Tracked, Gens, Binding
  <2>11. \A g \in Gens : Alive(w, g) => g = gen
    BY DEF Good, Tracked, gen
  <2>12. Tracked(c, v)
    BY <2>2, <2>4, <2>5, <2>9, <2>10, <2>11 DEF Tracked, Owning, Admits, Is
  <2>13. Counted(c, n) /\ Kept(c)
    BY <1>2, <2>4, <2>5 DEF Good, Counted, Kept
  <2>14. Scheduled(c, e) = {}
    BY <2>6 DEF Scheduled
  <2>15. TriesAfter(n, Decision(c, e)) = n
    BY <2>5, <2>6 DEF TriesAfter, Decision
  <2>16. \A g \in Gens : ~AcceptsEpoch(c, g)
    BY <2>5 DEF AcceptsEpoch, Is
  <2>17. Decision(c, e).binding = c /\ Decision(c, e).effect = e
    BY DEF Decision
  <2> QED
    BY <2>1, <2>4, <2>8, <2>12, <2>13, <2>14, <2>15, <2>16, <2>17 DEF Sound, Good, v
<1> QED
  BY <1>1, <1>2

-----------------------------------------------------------------------------
(* The inputs from the devices, the processes, the timers and the user. *)

LEMMA Inputs ==
  ASSUME NEW b \in Binding, NEW w \in Histories, NEW n \in Nat, NEW s \in BOOLEAN,
         NEW rt \in [Routes -> Endpoints \union {NoTarget}],
         Good(b, w, n)
  PROVE  /\ Sound(b, w, n, s, UserStart(b, rt, s))
         /\ Sound(b, w, n, s, UserStop(b))
         /\ Sound(b, w, n, s, ShutdownRequested(b))
         /\ \A r \in Routes : Sound(b, w, n, s, DefaultEndpointChanged(b, r, rt, s))
         /\ \A e \in Endpoints : /\ Sound(b, w, n, s, EndpointRemoved(b, e))
                                 /\ Sound(b, w, n, s, EndpointAdded(b, e, rt, s))
         /\ \A p \in Pids : Sound(b, w, n, s, ProcessExited(b, p))
         /\ \A id \in Nat : Sound(b, w, n, s, RetryTimerFired(b, id, rt, s))
<1>1. /\ Sound(b, w, n, s, Ignore(b))
      /\ Sound(b, w, n, s, StartBinding(b, rt, s))
      /\ \A next \in AfterStops : Sound(b, w, n, s, StopBinding(b, next))
  BY Ignoring, Starts, Stops
<1>2. {"RemainStopped", "ResolveAndStart", "WaitForDevice", "WaitForProcess"} \subseteq AfterStops
  BY DEF AfterStops
<1> HIDE DEF Sound
<1>3. \A r \in Routes : Sound(b, w, n, s, DefaultEndpointChanged(b, r, rt, s))
  BY <1>1, <1>2 DEF DefaultEndpointChanged
<1>4. \A e \in Endpoints : Sound(b, w, n, s, EndpointRemoved(b, e))
  BY <1>1, <1>2 DEF EndpointRemoved
<1>5. \A e \in Endpoints : Sound(b, w, n, s, EndpointAdded(b, e, rt, s))
  BY <1>1 DEF EndpointAdded
<1>6. \A p \in Pids : Sound(b, w, n, s, ProcessExited(b, p))
  BY <1>1, <1>2 DEF ProcessExited
<1>7. \A id \in Nat : Sound(b, w, n, s, RetryTimerFired(b, id, rt, s))
  BY <1>1 DEF RetryTimerFired
<1> QED
  BY <1>1, <1>2, <1>3, <1>4, <1>5, <1>6, <1>7 DEF UserStart, UserStop, ShutdownRequested

LEMMA Restarts ==
  ASSUME NEW b \in Binding, NEW w \in Histories, NEW n \in Nat, NEW s \in BOOLEAN,
         NEW p \in Pids, NEW q \in Pids,
         Good(b, w, n)
  PROVE  Sound(b, w, n, s, ProcessRestarted(b, p, q))
<1>1. CASE ~Captures(b, p)
  BY <1>1, Ignoring DEF ProcessRestarted
<1>2. CASE Captures(b, p)
  <2> DEFINE c == [b EXCEPT !.selection.pid = q]
  <2>1. ProcessRestarted(b, p, q) = StopBinding(c, "ResolveAndStart")
    BY <1>2 DEF ProcessRestarted
  <2>2. b.selection.mode = "process"
    BY <1>2 DEF Captures, Good, Kept
  <2>3. b.selection \in [mode : {"process"}, pid : Pids \union {NoTarget}]
    BY <2>2 DEF Binding, Selections
  <2>4. [b.selection EXCEPT !.pid = q] \in [mode : {"process"}, pid : Pids \union {NoTarget}]
    BY <2>3
  <2>5. /\ c \in Binding
        /\ c.lifecycle = b.lifecycle /\ c.attempt = b.attempt /\ c.nextGen = b.nextGen
        /\ c.selection.mode = "process"
    BY <2>3, <2>4 DEF Binding, Selections
  <2> HIDE DEF c
  <2>6. Tracked(c, w)
    BY <2>5 DEF Good, Tracked, Owning, Admits, Is
  <2>7. Good(c, w, n)
    BY <2>5, <2>6 DEF Good, Counted, Kept
  <2>8. Sound(c, w, n, s, StopBinding(c, "ResolveAndStart"))
    BY <2>5, <2>7, Stops DEF AfterStops
  <2> QED
    BY <2>1, <2>5, <2>8 DEF Sound
<1> QED
  BY <1>1, <1>2

-----------------------------------------------------------------------------
(* The reports of the workers. *)

LEMMA Settles ==
  ASSUME NEW b \in Binding, NEW w \in Histories, NEW n \in Nat, NEW s \in BOOLEAN,
         Good(b, w, n),
         NEW c \in Binding,
         c.nextGen = b.nextGen,
         \A g \in Gens : ~AcceptsEpoch(c, g),
         c.lifecycle.state # "running",
         Good(c, w, n)
  PROVE  Sound(b, w, n, s, Ignore(c))
<1>1. Ignore(c).binding = c /\ Ignore(c).effect.act = "none"
  BY DEF Ignore, Decision, NoEffect
<1>2. /\ Commanded(w, Ignore(c).effect) = w /\ Scheduled(c, Ignore(c).effect) = {}
      /\ TriesAfter(n, Ignore(c)) = n
  BY <1>1 DEF Commanded, Scheduled, TriesAfter
<1> QED
  BY <1>1, <1>2 DEF Sound

LEMMA StartedReports ==
  ASSUME NEW b \in Binding, NEW w \in Histories, NEW n \in Nat, NEW s \in BOOLEAN,
         NEW g \in Gens,
         Good(b, w, n)
  PROVE  Sound(b, w, n, s, WorkerStarted(b, g))
<1>1. CASE ~Is(b, "starting", g)
  BY <1>1, Ignoring DEF WorkerStarted
<1>2. CASE Is(b, "starting", g)
  <2> DEFINE target == b.lifecycle.target
             c == [Move(b, Running(g, target)) EXCEPT !.attempt = 0]
  <2>1. WorkerStarted(b, g) = Ignore(c)
    BY <1>2 DEF WorkerStarted
  <2>2. target \in Targets
    BY <1>2 DEF Is, Binding, Lifecycles
  <2>3. /\ c \in Binding
        /\ c.lifecycle = Running(g, target)
        /\ c.attempt = 0 /\ c.nextGen = b.nextGen /\ c.selection = b.selection
    <3>1. Running(g, target) \in Lifecycles
      BY <2>2 DEF Running, Lifecycles, Gens
    <3>2. /\ Move(b, Running(g, target)) \in Binding
          /\ Move(b, Running(g, target)).lifecycle = Running(g, target)
          /\ Move(b, Running(g, target)).nextGen = b.nextGen
          /\ Move(b, Running(g, target)).selection = b.selection
      BY <3>1 DEF Move, Binding
    <3> QED
      BY <3>2 DEF Binding
  <2>4. /\ c.lifecycle.state = "running" /\ c.lifecycle.gen = g
        /\ c.lifecycle.target = target
    BY <2>3 DEF Running
  <2> HIDE DEF c
  <2>5. Ignore(c).binding = c /\ Ignore(c).effect.act = "none"
    BY DEF Ignore, Decision, NoEffect
  <2>6. /\ Commanded(w, Ignore(c).effect) = w /\ Scheduled(c, Ignore(c).effect) = {}
        /\ TriesAfter(n, Ignore(c)) = 0
    BY <2>4, <2>5 DEF Commanded, Scheduled, TriesAfter
  <2>7. "told" \notin w[g]
    BY <1>2 DEF Good, Tracked, Admits
  <2>8. Tracked(c, w)
    BY <1>2, <2>3, <2>4, <2>7 DEF Good, Tracked, Owning, Admits, Is
  <2>9. Good(c, w, 0)
    BY <1>2, <2>3, <2>4, <2>8 DEF Good, Counted, Kept, Is
  <2>10. \A h \in Gens : "told" \in w[h] => ~AcceptsEpoch(c, h)
    BY <2>8 DEF Tracked, Admits, AcceptsEpoch
  <2> QED
    BY <2>1, <2>3, <2>5, <2>6, <2>9, <2>10 DEF Sound
<1> QED
  BY <1>1, <1>2

LEMMA StoppedReports ==
  ASSUME NEW b \in Binding, NEW w \in Histories, NEW n \in Nat, NEW s \in BOOLEAN,
         NEW rt \in [Routes -> Endpoints \union {NoTarget}],
         NEW g \in Gens, "stopped" \in w[g],
         Good(b, w, n)
  PROVE  Sound(b, w, n, s, WorkerStopped(b, g, rt, s))
<1>1. CASE ~Is(b, "stopping", g)
  BY <1>1, Ignoring DEF WorkerStopped
<1>2. CASE Is(b, "stopping", g)
  <2> DEFINE next == b.lifecycle.next
  <2>1. WorkerStopped(b, g, rt, s) = AfterStop(b, next, rt, s)
    BY <1>2 DEF WorkerStopped
  <2>2. next \in AfterStops
    BY <1>2 DEF Is, Binding, Lifecycles
  <2>3. \A h \in Gens : ~Alive(w, h)
    BY <1>2 DEF Good, Tracked, Alive, Is
  <2>4. b.attempt = 0 /\ n = 0
    BY <1>2 DEF Good, Counted, Is
  <2>5. ASSUME NEW l \in {Stopped, Waiting("DeviceUnavailable"), Waiting("ProcessNotFound")}
        PROVE  /\ Move(b, l) \in Binding
               /\ Move(b, l).nextGen = b.nextGen
               /\ \A h \in Gens : ~AcceptsEpoch(Move(b, l), h)
               /\ Move(b, l).lifecycle.state # "running"
               /\ Good(Move(b, l), w, n)
    <3>1. l \in Lifecycles /\ l.state \in {"stopped", "waiting"}
      BY DEF Stopped, Waiting, Lifecycles, WaitReasons
    <3>2. /\ Move(b, l) \in Binding
          /\ Move(b, l).lifecycle = l /\ Move(b, l).nextGen = b.nextGen
          /\ Move(b, l).attempt = 0 /\ Move(b, l).selection = b.selection
      BY <2>4, <3>1 DEF Move, Binding
    <3>3. Tracked(Move(b, l), w)
      BY <2>3, <3>1, <3>2 DEF Good, Tracked, Owning, Admits, Is
    <3>4. Counted(Move(b, l), n)
      BY <2>4, <3>1, <3>2, AttemptsAssumption DEF Counted
    <3> QED
      BY <3>1, <3>2, <3>3, <3>4 DEF Good, Kept, AcceptsEpoch, Is
  <2>6. \A l \in {Stopped, Waiting("DeviceUnavailable"), Waiting("ProcessNotFound")} :
          Sound(b, w, n, s, Ignore(Move(b, l)))
    BY <2>5, Settles
  <2>7. Sound(b, w, n, s, StartBinding(Move(b, Stopped), rt, s))
    <3>1. Sound(Move(b, Stopped), w, n, s, StartBinding(Move(b, Stopped), rt, s))
      BY <2>5, Starts
    <3> QED
      BY <2>5, <3>1 DEF Sound
  <2> HIDE DEF next
  <2>8. Sound(b, w, n, s, AfterStop(b, next, rt, s))
    <3> HIDE DEF Sound
    <3> QED
      BY <2>2, <2>6, <2>7 DEF AfterStop, AfterStops
  <2> QED
    BY <2>1, <2>8
<1> QED
  BY <1>1, <1>2

LEMMA FailedReports ==
  ASSUME NEW b \in Binding, NEW w \in Histories, NEW n \in Nat, NEW s \in BOOLEAN,
         NEW g \in Gens, "failed" \in w[g],
         Good(b, w, n)
  PROVE  Sound(b, w, n, s, WorkerFailed(b, g))
<1> DEFINE counted == [b EXCEPT !.attempt = @ + 1]
<1>1. CASE ~Admits(b, g)
  BY <1>1, Ignoring DEF WorkerFailed, Admits
<1>2. /\ counted \in Binding
      /\ counted.attempt = b.attempt + 1 /\ counted.nextGen = b.nextGen
      /\ counted.selection = b.selection
  BY DEF Binding
<1>3. ASSUME Admits(b, g)
      PROVE  \A h \in Gens : ~Alive(w, h)
  BY <1>3 DEF Good, Tracked, Alive, Admits, Is
<1>4. ASSUME Admits(b, g)
      PROVE  n <= b.attempt + 1 /\ b.attempt <= MaxAttempts
  BY <1>4, AttemptsAssumption DEF Good, Counted, Admits, Is, Binding
<1>5. CASE Admits(b, g) /\ GivesUp(counted.attempt)
  <2> DEFINE c == Move(counted, Failed)
  <2>1. WorkerFailed(b, g) = Ignore(c)
    BY <1>5 DEF WorkerFailed, Admits
  <2>2. /\ c \in Binding
        /\ c.lifecycle.state = "failed" /\ c.nextGen = b.nextGen
    BY <1>2 DEF Move, Failed, Binding, Lifecycles
  <2>3. Tracked(c, w)
    BY <1>3, <1>5, <2>2 DEF Good, Tracked, Owning, Admits, Is
  <2>4. Counted(c, n)
    BY <1>4, <1>5, <2>2, AttemptsAssumption DEF Counted, Binding
  <2> HIDE DEF c
  <2>5. Good(c, w, n) /\ \A h \in Gens : ~AcceptsEpoch(c, h)
    BY <2>2, <2>3, <2>4 DEF Good, Kept, AcceptsEpoch, Is
  <2> QED
    BY <2>1, <2>2, <2>5, Settles
<1>6. CASE Admits(b, g) /\ ~GivesUp(counted.attempt)
  <2> DEFINE c == Move(counted, Waiting("RetryableFailure"))
             e == ScheduleRetry(counted.attempt)
  <2>1. WorkerFailed(b, g) = Decision(c, e)
    BY <1>6 DEF WorkerFailed, Admits
  <2>2. /\ c \in Binding
        /\ c.lifecycle.state = "waiting" /\ c.nextGen = b.nextGen
        /\ c.attempt = b.attempt + 1
    BY <1>2 DEF Move, Waiting, Binding, Lifecycles, WaitReasons
  <2>3. Decision(c, e).binding = c /\ Decision(c, e).effect = e
    BY DEF Decision
  <2>4. e.act = "retry" /\ e.id = b.attempt + 1
    BY <1>2 DEF ScheduleRetry
  <2>5. Tracked(c, w)
    BY <1>3, <1>6, <2>2 DEF Good, Tracked, Owning, Admits, Is
  <2> HIDE DEF c, e
  <2>6. /\ Commanded(w, e) = w
        /\ TriesAfter(n, Decision(c, e)) = n
    BY <2>2, <2>3, <2>4 DEF Commanded, TriesAfter
  <2>7. Counted(c, n)
    <3>1. b.attempt + 1 <= MaxAttempts
      BY <1>2, <1>6, AttemptsAssumption DEF GivesUp, Binding
    <3> QED
      BY <1>4, <1>6, <2>2, <3>1 DEF Counted
  <2>8. Scheduled(c, e) \subseteq Timers
    <3>1. Owning(b) /\ b.lifecycle.gen = g
      BY <1>6 DEF Admits, Is, Owning
    <3>2. b.nextGen - 1 \in Gens
      BY <3>1, KindsAssumption DEF Good, Tracked, Gens, Binding
    <3>3. Scheduled(c, e) = {[id |-> b.attempt + 1, of |-> b.nextGen - 1]}
      BY <2>2, <2>4 DEF Scheduled
    <3> QED
      BY <3>2, <3>3 DEF Timers, Binding
  <2>9. Good(c, w, n) /\ \A h \in Gens : ~AcceptsEpoch(c, h)
    BY <2>2, <2>5, <2>7 DEF Good, Kept, AcceptsEpoch, Is
  <2> QED
    BY <2>1, <2>2, <2>3, <2>6, <2>8, <2>9 DEF Sound
<1> HIDE DEF counted
<1> QED
  BY <1>1, <1>5, <1>6

-----------------------------------------------------------------------------
(* The steps of the specification. *)

\* What a step does: it keeps the invariant and takes back no stop, no shutdown.
Steady ==
  /\ IInv'
  /\ \A k \in Kinds : \A g \in Gens :
       "told" \in worker[k][g] => ~AcceptsEpoch(bindings'[k], g)
  /\ shutdown => \A k \in Kinds : bindings'[k].nextGen = bindings[k].nextGen

LEMMA Executing ==
  ASSUME IInv,
         NEW d, NEW pending \in [Kinds -> SUBSET Timers],
         \A k \in Kinds : Sound(bindings[k], worker[k], tries[k], shutdown, d[k]),
         routes' \in [Routes -> Endpoints \union {NoTarget}],
         shutdown' \in BOOLEAN,
         Execute(d, pending)
  PROVE  Steady
<1>1. \A k \in Kinds : d[k].binding.nextGen <= MaxGen
  BY DEF Execute
<1>2. \A k \in Kinds :
        /\ bindings'[k] = d[k].binding
        /\ worker'[k] = Commanded(worker[k], d[k].effect)
        /\ timers'[k] = pending[k] \union Scheduled(d[k].binding, d[k].effect)
        /\ tries'[k] = TriesAfter(tries[k], d[k])
  BY DEF Execute
<1>3. \A k \in Kinds :
        /\ d[k].binding \in Binding
        /\ Commanded(worker[k], d[k].effect) \in Histories
        /\ TriesAfter(tries[k], d[k]) \in Nat
        /\ Scheduled(d[k].binding, d[k].effect) \subseteq Timers
        /\ Good(d[k].binding, Commanded(worker[k], d[k].effect), TriesAfter(tries[k], d[k]))
        /\ \A g \in Gens : "told" \in worker[k][g] => ~AcceptsEpoch(d[k].binding, g)
  BY <1>1 DEF Sound
<1>4. shutdown => \A k \in Kinds : d[k].binding.nextGen = bindings[k].nextGen
  BY DEF Sound
<1>5. TypeOK'
  <2>1. bindings' \in [Kinds -> Binding]
    BY <1>3 DEF Execute
  <2>2. worker' \in [Kinds -> Histories]
    BY <1>3 DEF Execute
  <2>3. timers' \in [Kinds -> SUBSET Timers]
    BY <1>3 DEF Execute
  <2>4. tries' \in [Kinds -> Nat]
    BY <1>3 DEF Execute
  <2> QED
    BY <2>1, <2>2, <2>3, <2>4 DEF TypeOK, Histories, Timers
<1>6. \A k \in Kinds : Good(bindings'[k], worker'[k], tries'[k])
  BY <1>2, <1>3
<1>7. IInv'
  BY <1>5, <1>6 DEF IInv
<1> QED
  BY <1>2, <1>3, <1>4, <1>7 DEF Steady

LEMMA ExecutingOne ==
  ASSUME IInv, NEW k \in Kinds, NEW d, NEW pending \in [Kinds -> SUBSET Timers],
         Sound(bindings[k], worker[k], tries[k], shutdown, d),
         UNCHANGED <<routes, shutdown>>,
         Execute(Only(k, d), pending)
  PROVE  Steady
<1>1. ASSUME NEW j \in Kinds
      PROVE  Sound(bindings[j], worker[j], tries[j], shutdown, Only(k, d)[j])
  <2>1. Sound(bindings[j], worker[j], tries[j], shutdown, Ignore(bindings[j]))
    BY Ignoring DEF IInv, TypeOK, Histories
  <2>2. Only(k, d)[j] = IF j = k THEN d ELSE Ignore(bindings[j])
    BY DEF Only
  <2> HIDE DEF Sound
  <2> QED
    BY <2>1, <2>2
<1>2. routes' \in [Routes -> Endpoints \union {NoTarget}] /\ shutdown' \in BOOLEAN
  BY DEF IInv, TypeOK
<1> HIDE DEF Sound
<1> QED
  BY <1>1, <1>2, Executing

\* What happens to a worker changes nothing that decide knows.
LEMMA Recording ==
  ASSUME IInv, NEW k \in Kinds, NEW g \in Gens, NEW fact \in Facts,
         fact # "issued", fact # "told",
         Live(k, g) \/ "told" \in worker[k][g],
         Record(k, g, fact),
         UNCHANGED <<bindings, routes, shutdown, timers, tries>>
  PROVE  Steady
<1> DEFINE w == worker[k]  v == worker'[k]
<1>1. /\ worker' = [worker EXCEPT ![k][g] = @ \union {fact}]
      /\ worker \in [Kinds -> Histories]
  BY DEF Record, IInv, TypeOK, Histories
<1>2. /\ worker' \in [Kinds -> Histories]
      /\ v[g] = w[g] \union {fact}
      /\ \A h \in Gens : h # g => v[h] = w[h]
      /\ \A j \in Kinds : j # k => worker'[j] = worker[j]
  BY <1>1 DEF Histories
<1>3. TypeOK'
  BY <1>2 DEF IInv, TypeOK, Histories
<1>4. Good(bindings[k], w, tries[k])
  BY DEF IInv
<1>5. w[g] # {}
  BY DEF Live
<1> HIDE DEF w, v
<1>6. Tracked(bindings[k], v)
  <2>1. \A h \in Gens : Alive(v, h) => Alive(w, h)
    BY <1>2 DEF Alive
  <2>2. \A h \in Gens : "told" \in v[h] => "told" \in w[h]
    BY <1>2
  <2>3. \A h \in Gens : w[h] = {} => v[h] = {}
    BY <1>2, <1>5
  <2> QED
    BY <1>4, <2>1, <2>2, <2>3 DEF Good, Tracked
<1>7. Good(bindings[k], v, tries[k])
  BY <1>4, <1>6 DEF Good
<1>8. \A j \in Kinds : Good(bindings'[j], worker'[j], tries'[j])
  BY <1>2, <1>7 DEF IInv, v
<1>9. IInv'
  BY <1>3, <1>8 DEF IInv
<1>10. \A j \in Kinds : \A h \in Gens :
         "told" \in worker[j][h] => ~AcceptsEpoch(bindings'[j], h)
  BY DEF IInv, Good, Tracked, Admits, AcceptsEpoch
<1> QED
  BY <1>9, <1>10 DEF Steady

LEMMA Initially == Init => IInv
<1> SUFFICES ASSUME Init PROVE IInv
  OBVIOUS
<1>1. PICK selection \in [Kinds -> Selections] :
        bindings = [k \in Kinds |-> NewBinding(selection[k])]
  BY DEF Init
<1>2. \A k \in Kinds : bindings[k] \in Binding
  BY <1>1 DEF NewBinding, Binding, Stopped, Lifecycles
<1>3. TypeOK
  BY <1>1, <1>2 DEF Init, TypeOK
<1>4. ASSUME NEW k \in Kinds
      PROVE  Good(bindings[k], worker[k], tries[k])
  <2>1. /\ bindings[k].lifecycle.state = "stopped"
        /\ bindings[k].attempt = 0 /\ bindings[k].nextGen = 0
    BY <1>1 DEF NewBinding, Stopped
  <2>2. tries[k] = 0 /\ \A g \in Gens : worker[k][g] = {}
    BY DEF Init
  <2>3. Tracked(bindings[k], worker[k])
    BY <2>1, <2>2, KindsAssumption DEF Tracked, Alive, Owning
  <2> QED
    BY <2>1, <2>2, <2>3 DEF Good, Counted, Kept
<1> QED
  BY <1>3, <1>4 DEF IInv

LEMMA Stepping == IInv /\ [Next]_vars => Steady
<1> SUFFICES ASSUME IInv, [Next]_vars PROVE Steady
  OBVIOUS
<1>1. /\ \A k \in Kinds : /\ bindings[k] \in Binding
                          /\ worker[k] \in Histories
                          /\ tries[k] \in Nat
                          /\ Good(bindings[k], worker[k], tries[k])
      /\ routes \in [Routes -> Endpoints \union {NoTarget}]
      /\ shutdown \in BOOLEAN
      /\ timers \in [Kinds -> SUBSET Timers]
  BY DEF IInv, TypeOK, Histories, Timers
<1>2. ASSUME NEW k \in Kinds, NEW g \in Gens,
             \/ WorkerOpens(k, g) \/ WorkerDies(k, g) \/ WorkerEnds(k, g)
      PROVE  Steady
  BY <1>2, Recording DEF WorkerOpens, WorkerDies, WorkerEnds, Facts
<1>3. ASSUME NEW k \in Kinds, NEW g \in Gens,
             \/ ReportStarted(k, g) \/ ReportFailed(k, g) \/ ReportStopped(k, g)
      PROVE  Steady
  <2> HIDE DEF Sound
  <2>1. CASE ReportStarted(k, g)
    BY <1>1, <2>1, StartedReports, ExecutingOne DEF ReportStarted, DecideOne
  <2>2. CASE ReportFailed(k, g)
    BY <1>1, <2>2, FailedReports, ExecutingOne DEF ReportFailed, DecideOne
  <2>3. CASE ReportStopped(k, g)
    BY <1>1, <2>3, StoppedReports, ExecutingOne DEF ReportStopped, DecideOne
  <2> QED
    BY <1>3, <2>1, <2>2, <2>3
<1>4. ASSUME NEW k \in Kinds, Start(k) \/ Stop(k)
      PROVE  Steady
  <2>1. /\ Sound(bindings[k], worker[k], tries[k], shutdown,
                 UserStart(bindings[k], routes, shutdown))
        /\ Sound(bindings[k], worker[k], tries[k], shutdown, UserStop(bindings[k]))
    BY <1>1, Inputs
  <2> QED
    BY <1>1, <1>4, <2>1, ExecutingOne DEF Start, Stop, DecideOne
<1>5. ASSUME NEW k \in Kinds, NEW t \in timers[k], TimerFires(k, t)
      PROVE  Steady
  <2>1. t.id \in Nat
    BY <1>1 DEF Timers
  <2>2. Sound(bindings[k], worker[k], tries[k], shutdown,
              RetryTimerFired(bindings[k], t.id, routes, shutdown))
    BY <1>1, <2>1, Inputs
  <2>3. [timers EXCEPT ![k] = @ \ {t}] \in [Kinds -> SUBSET Timers]
    BY <1>1
  <2> QED
    BY <1>5, <2>2, <2>3, ExecutingOne DEF TimerFires
<1>6. CASE Shutdown
  <2> DEFINE d == [k \in Kinds |-> ShutdownRequested(bindings[k])]
  <2>1. ASSUME NEW k \in Kinds
        PROVE  Sound(bindings[k], worker[k], tries[k], shutdown, d[k])
    BY <1>1, Inputs
  <2> HIDE DEF d
  <2>2. Execute(d, timers) /\ shutdown' \in BOOLEAN /\ routes' = routes
    BY <1>6 DEF Shutdown, d
  <2> QED
    BY <1>1, <2>1, <2>2, Executing
<1>7. ASSUME NEW r \in Routes, NEW e \in Endpoints \union {NoTarget}, DefaultChanges(r, e)
      PROVE  Steady
  <2> DEFINE d == [k \in Kinds |->
                     DefaultEndpointChanged(bindings[k], r, routes', shutdown)]
  <2>1. routes' \in [Routes -> Endpoints \union {NoTarget}]
    BY <1>1, <1>7 DEF DefaultChanges
  <2>2. ASSUME NEW k \in Kinds
        PROVE  Sound(bindings[k], worker[k], tries[k], shutdown, d[k])
    BY <1>1, <2>1, Inputs
  <2> HIDE DEF d
  <2>3. Execute(d, timers) /\ shutdown' \in BOOLEAN
    BY <1>1, <1>7 DEF DefaultChanges, d
  <2> QED
    BY <1>1, <2>1, <2>2, <2>3, Executing
<1>8. ASSUME NEW e \in Endpoints, Removed(e) \/ Added(e)
      PROVE  Steady
  <2> DEFINE d == [k \in Kinds |-> EndpointRemoved(bindings[k], e)]
             a == [k \in Kinds |-> EndpointAdded(bindings[k], e, routes, shutdown)]
  <2>1. ASSUME NEW k \in Kinds
        PROVE  /\ Sound(bindings[k], worker[k], tries[k], shutdown, d[k])
               /\ Sound(bindings[k], worker[k], tries[k], shutdown, a[k])
    BY <1>1, Inputs
  <2> HIDE DEF d, a
  <2>2. Execute(d, timers) \/ Execute(a, timers)
    BY <1>8 DEF Removed, Added, d, a
  <2>3. routes' = routes /\ shutdown' = shutdown
    BY <1>8 DEF Removed, Added
  <2> QED
    BY <1>1, <2>1, <2>2, <2>3, Executing
<1>9. ASSUME NEW p \in Pids, Exited(p)
      PROVE  Steady
  <2> DEFINE d == [k \in Kinds |-> ProcessExited(bindings[k], p)]
  <2>1. ASSUME NEW k \in Kinds
        PROVE  Sound(bindings[k], worker[k], tries[k], shutdown, d[k])
    BY <1>1, Inputs
  <2> HIDE DEF d
  <2>2. Execute(d, timers) /\ routes' = routes /\ shutdown' = shutdown
    BY <1>9 DEF Exited, d
  <2> QED
    BY <1>1, <2>1, <2>2, Executing
<1>10. ASSUME NEW p \in Pids, NEW q \in Pids, Restarted(p, q)
       PROVE  Steady
  <2> DEFINE d == [k \in Kinds |-> ProcessRestarted(bindings[k], p, q)]
  <2>1. ASSUME NEW k \in Kinds
        PROVE  Sound(bindings[k], worker[k], tries[k], shutdown, d[k])
    BY <1>1, Restarts
  <2> HIDE DEF d
  <2>2. Execute(d, timers) /\ routes' = routes /\ shutdown' = shutdown
    BY <1>10 DEF Restarted, d
  <2> QED
    BY <1>1, <2>1, <2>2, Executing
<1>11. CASE UNCHANGED vars
  <2>1. IInv'
    BY <1>11 DEF vars, IInv, TypeOK
  <2>2. \A k \in Kinds : \A g \in Gens :
          "told" \in worker[k][g] => ~AcceptsEpoch(bindings'[k], g)
    BY <1>1, <1>11 DEF vars, Good, Tracked, Admits, AcceptsEpoch
  <2> QED
    BY <1>11, <2>1, <2>2 DEF vars, Steady
<1> QED
  BY <1>2, <1>3, <1>4, <1>5, <1>6, <1>7, <1>8, <1>9, <1>10, <1>11 DEF Next

-----------------------------------------------------------------------------
(* The theorems. *)

THEOREM Invariance == Spec => []IInv
<1>1. IInv /\ [Next]_vars => IInv'
  BY Stepping DEF Steady
<1> QED
  BY Initially, <1>1, PTL DEF Spec

\* Every binding, route, history and retry timer keeps its form, whatever the
\* order in which reports, timers and devices reach decide.
THEOREM TypeCorrect == Spec => []TypeOK
<1>1. IInv => TypeOK
  BY DEF IInv
<1> QED
  BY Invariance, <1>1, PTL

\* decide never has two workers of one binding alive: a live worker is the one
\* the lifecycle names, and a start is admitted only from a state that names none.
THEOREM OneWorkerAlive == Spec => []OneWorker
<1>1. IInv => OneWorker
  <2> SUFFICES ASSUME IInv, NEW k \in Kinds, NEW g \in Gens, NEW h \in Gens,
                      Live(k, g), Live(k, h)
               PROVE  g = h
    BY DEF OneWorker
  <2>1. Alive(worker[k], g) /\ Alive(worker[k], h)
    BY DEF Live, Alive
  <2> QED
    BY <2>1 DEF IInv, Good, Tracked
<1> QED
  BY Invariance, <1>1, PTL

\* A binding without success starts at most MAX_RETRY_ATTEMPTS + 1 workers.
THEOREM Capped == Spec => []RetriesCapped
<1>1. IInv => RetriesCapped
  <2> SUFFICES ASSUME IInv, NEW k \in Kinds
               PROVE  tries[k] <= MaxAttempts + 1
    BY DEF RetriesCapped
  <2>1. /\ Counted(bindings[k], tries[k]) /\ tries[k] \in Nat
        /\ bindings[k].attempt \in Nat
        /\ bindings[k].lifecycle.state \in
             {"stopped", "starting", "running", "stopping", "waiting", "failed"}
    BY DEF IInv, TypeOK, Good, Binding, Lifecycles
  <2> QED
    BY <2>1, AttemptsAssumption DEF Counted
<1> QED
  BY Invariance, <1>1, PTL

\* No step admits again the audio of a worker that was told to stop.
THEOREM Forward == Spec => NoWayBack
<1>1. IInv /\ [Next]_vars =>
        [\A k \in Kinds : \A g \in Gens :
           "told" \in worker[k][g] => ~AcceptsEpoch(bindings'[k], g)]_vars
  BY Stepping DEF Steady
<1> QED
  BY Invariance, <1>1, PTL DEF Spec, NoWayBack

\* After shutdown no step starts a worker.
THEOREM ShutdownIsFinal == Spec => NoStartAfterShutdown
<1>1. IInv /\ [Next]_vars =>
        [shutdown => \A k \in Kinds : bindings'[k].nextGen = bindings[k].nextGen]_vars
  BY Stepping DEF Steady
<1> QED
  BY Invariance, <1>1, PTL DEF Spec, NoStartAfterShutdown

=============================================================================
