-------------------------- MODULE RecordingControl --------------------------
(***************************************************************************)
(* Starting and stopping a recording.  The window and every connection of  *)
(* the control server run commands at once on one AppState, whose fields   *)
(* have a lock each: start_recording looks at `current`, sets it and reads *)
(* it again in three critical sections; stop takes the ActiveRecording and *)
(* then waits for its capture task.                                        *)
(*                                                                         *)
(* The recording itself is SessionLifecycle, its tasks are TranscriptFlow; *)
(* here a capture runs and has an outcome, a task waits to be told.        *)
(***************************************************************************)
EXTENDS Naturals, FiniteSets

CONSTANTS
    Sessions,     \* session ids; at most so many recordings (bound)
    NoSession,
    Window,       \* the caller with the consent checkbox
    Connections   \* of the control server

ASSUME ControlAssumption ==
    NoSession \notin Sessions /\ IsFiniteSet(Sessions) /\ Window \notin Connections

VARIABLES
    consent,      \* consent_confirmed
    current,      \* the ActiveRecording, by its session
    capture,      \* session -> its capture task: "none", "running", "ended"
    told,         \* sessions whose shutdown channel was sent to, or dropped
    outcome,      \* session -> the result of its capture task
    tasks,        \* session -> its tasks that still listen
    pc,           \* caller -> the next step of its command
    held,         \* caller -> the session its command is about
    lastError,    \* of whom: "none", "stop" (not recording), or a session
    lastSummary   \* the session of the last summary

recording == <<capture, told, outcome>>
shown == <<lastError, lastSummary>>
controlVars == <<consent, current, recording, tasks, pc, held, shown>>

Callers == Connections \cup {Window}
Outcomes == {"ok", "failed", "panicked"}
SessionTasks == {"ui", "hint", "summary", "rhai"}
StartSteps == {"starting", "watching", "spawning"}

ControlInit ==
    /\ consent = FALSE /\ current = NoSession
    /\ capture = [s \in Sessions |-> "none"] /\ told = {}
    /\ outcome = [s \in Sessions |-> "none"]
    /\ tasks = [s \in Sessions |-> {}]
    /\ pc = [c \in Callers |-> "idle"] /\ held = [c \in Callers |-> NoSession]
    /\ lastError = "none" /\ lastSummary = NoSession

----------------------------------------------------------------------------
Goes(c, step) == pc' = [pc EXCEPT ![c] = step]

\* actions::confirm_consent, from the checkbox.
Confirm ==
    /\ ~consent /\ consent' = TRUE
    /\ UNCHANGED <<current, recording, tasks, pc, held, shown>>

NotRecording == current = NoSession

\* The checks of start_recording.  A connection confirms by itself, and that
\* is all a refused start leaves behind (Confirm).  Another start may be past
\* these checks and not have set `current` yet.
AskStart(c) ==
    /\ pc[c] = "idle"
    /\ consent' = (consent \/ c # Window)
    /\ consent' /\ NotRecording
    /\ Cardinality({d \in Callers : pc[d] = "starting"}) < Cardinality({s \in Sessions : capture[s] = "none"})
    /\ lastError' = "none"
    /\ Goes(c, "starting")
    /\ UNCHANGED <<current, recording, tasks, held, lastSummary>>

\* Mistake: somebody else keeps a sender of the shutdown channel.
SenderKept == told

\* A recording that is replaced is dropped, and with it the only sender of its
\* shutdown channel, which ends its capture like the signal does.
SenderDropped == IF current = NoSession THEN told ELSE told \cup {current}

\* recording::start
Register(c) ==
    /\ pc[c] = "starting"
    /\ \E s \in Sessions :
          /\ capture[s] = "none"
          /\ capture' = [capture EXCEPT ![s] = "running"]
          /\ held' = [held EXCEPT ![c] = s]
          /\ current' = s
    /\ told' = SenderDropped
    /\ Goes(c, "watching")
    /\ UNCHANGED <<consent, outcome, tasks, shown>>

\* The transcript and the hints of the window, if there is still an
\* ActiveRecording to take the buffers from.
Watch(c) ==
    /\ pc[c] = "watching"
    /\ \E with \in SUBSET {"hint"} :
          tasks' = IF current = NoSession THEN tasks
                   ELSE [tasks EXCEPT ![held[c]] = {"ui"} \cup with]
    /\ Goes(c, "spawning")
    /\ UNCHANGED <<consent, current, recording, held, shown>>

SpawnTasks(c) ==
    /\ pc[c] = "spawning"
    /\ tasks' = [tasks EXCEPT ![held[c]] = @ \cup {"summary", "rhai"}]
    /\ held' = [held EXCEPT ![c] = NoSession]
    /\ Goes(c, "idle")
    /\ UNCHANGED <<consent, current, recording, shown>>

----------------------------------------------------------------------------
\* recording::stop without a recording: an error that stop_recording keeps.
NothingToStop(c) ==
    /\ pc[c] = "idle" /\ current = NoSession
    /\ lastError' = "stop"
    /\ UNCHANGED <<consent, current, recording, tasks, pc, held, lastSummary>>

TakeIt == current' = NoSession

\* `take`, and the shutdown signal.
Take(c) ==
    /\ pc[c] = "idle" /\ current # NoSession
    /\ held' = [held EXCEPT ![c] = current]
    /\ TakeIt
    /\ told' = told \cup {current}
    /\ Goes(c, "joining")
    /\ UNCHANGED <<consent, capture, outcome, tasks, shown>>

\* Mistake: the tasks are told only when the capture went well.
IfOk(s) == IF outcome[s] = "ok" THEN [tasks EXCEPT ![s] = {}] ELSE tasks

\* publish_session_stopped
TellTasks(s) == [tasks EXCEPT ![s] = {}]

\* The capture task has ended: its tasks are told, and the caller.
Joined(c) ==
    LET s == held[c] IN
    /\ pc[c] = "joining" /\ capture[s] = "ended"
    /\ tasks' = TellTasks(s)
    /\ IF outcome[s] = "ok" THEN lastSummary' = s /\ UNCHANGED lastError
                            ELSE lastError' = s /\ UNCHANGED lastSummary
    /\ held' = [held EXCEPT ![c] = NoSession]
    /\ Goes(c, "idle")
    /\ UNCHANGED <<consent, current, recording>>

\* The capture task: it ends well only when told, and fails or panics at will.
CaptureEnds(s) ==
    /\ capture[s] = "running"
    /\ \E o \in Outcomes :
          /\ o = "ok" => s \in told
          /\ outcome' = [outcome EXCEPT ![s] = o]
    /\ capture' = [capture EXCEPT ![s] = "ended"]
    /\ UNCHANGED <<consent, current, told, tasks, pc, held, shown>>

Call(c) == AskStart(c) \/ NothingToStop(c) \/ Take(c)
Proceed(c) == Register(c) \/ Watch(c) \/ SpawnTasks(c) \/ Joined(c)

ControlNext ==
    \/ Confirm
    \/ \E c \in Callers : Call(c) \/ Proceed(c)
    \/ \E s \in Sessions : CaptureEnds(s)

ControlSpec == ControlInit /\ [][ControlNext]_controlVars

\* A command goes on, and a capture that was told to stop ends.
ControlFairSpec ==
    /\ ControlSpec
    /\ \A c \in Callers : WF_controlVars(Proceed(c))
    /\ \A s \in Sessions : WF_controlVars(s \in told /\ CaptureEnds(s))

----------------------------------------------------------------------------
ControlTypeOK ==
    /\ consent \in BOOLEAN /\ current \in Sessions \cup {NoSession}
    /\ capture \in [Sessions -> {"none", "running", "ended"}] /\ told \subseteq Sessions
    /\ outcome \in [Sessions -> Outcomes \cup {"none"}]
    /\ tasks \in [Sessions -> SUBSET SessionTasks]
    /\ pc \in [Callers -> StartSteps \cup {"idle", "joining"}]
    /\ held \in [Callers -> Sessions \cup {NoSession}]
    /\ lastError \in Sessions \cup {"none", "stop"}
    /\ lastSummary \in Sessions \cup {NoSession}

\* No capture runs on that nobody can stop: a start that overtook another one
\* ends the recording it puts out of its place.
NoRunaway == \A s \in Sessions : capture[s] = "running" => current = s \/ s \in told

\* Of several stops at once one gets the recording and waits for it, and it is
\* not there for a start to replace while the stop waits.
OneStopEach ==
    \A c \in Callers : pc[c] = "joining" =>
        /\ held[c] # current
        /\ \A d \in Callers : pc[d] = "joining" /\ held[c] = held[d] => c = d

ControlInv == ControlTypeOK /\ NoRunaway /\ OneStopEach

\* A stop that has taken a recording ends every task of its session, however
\* the capture went, if the start has spawned them all by then.
TasksEnd ==
    \A s \in Sessions :
        (\E c \in Callers : held[c] = s /\ pc[c] = "joining")
          /\ (\A c \in Callers : held[c] = s => pc[c] = "joining") ~> tasks[s] = {}
=============================================================================
