--------------------------- MODULE TranscriptFlow ---------------------------
(***************************************************************************)
(* The transcript of one session on its way from the live transcription    *)
(* to those who use it: rows in the session store, events through the      *)
(* local broker, and the tasks that start_recording spawns: the window's   *)
(* transcript (ui), the automatic summary (summary), the plugins (rhai)    *)
(* and the hint timer (debounce).                                          *)
(*                                                                         *)
(* A segment is its counter; the tracks count apart and are alike, so      *)
(* there is one.  `log` is every message a subject ever carried; a         *)
(* receiver is a position in it and loses what is Capacity behind.         *)
(***************************************************************************)
EXTENDS Naturals, Sequences, FiniteSets, Functions, SequencesExt

CONSTANTS
    Teams,         \* sets of tasks; one of them is spawned
    Capacity,      \* of a broadcast channel (DEFAULT_CAPACITY)
    MaxSegments,   \* final transcripts (bound)
    MaxUpdates,    \* messages after which no interim is heard (bound)
    RowChoices     \* may the sessions row be there while recording

ASSUME FlowAssumption ==
    /\ \A team \in Teams : team \subseteq {"ui", "summary", "rhai", "debounce"}
    /\ Capacity \in Nat \ {0} /\ {MaxSegments, MaxUpdates} \subseteq Nat
    /\ RowChoices \subseteq BOOLEAN /\ RowChoices # {}

VARIABLES
    row,          \* the session has its row, so transcripts can be stored
    recording,    \* of the session: "on", "finalized", "over", "stopped"
    counter,      \* segment_counter of the live transcription
    event,        \* the transcript it is handling: "none", "interim", "final"
    step,         \* what is next for it: "store", "updated", "finalized"
    rows,         \* the transcript_segments of the session
    finals,       \* segments published as finalized
    log,          \* subject -> Seq of messages
    task,         \* consumer -> its task
    at,           \* consumer -> subject -> messages behind it
    snapshot,     \* the ui's SegmentSnapshot: segment -> is it final
    buffer,       \* the TranscriptBuffer of the window: a set of rows
    turns,        \* Seq of turns of the summary
    plugin,       \* Seq of turns the summary plugin collected
    ends,         \* calls of the plugins' on_session_end
    timer,        \* the debounce timer is set
    hints,        \* hints asked for
    summaries     \* who inserted a summary

producer == <<row, recording, counter, event, step, rows, finals>>
uiVars == <<snapshot, buffer>>
pluginVars == <<plugin, ends, timer, hints>>
vars == <<producer, log, task, at, uiVars, turns, pluginVars, summaries>>

Consumers == DOMAIN task

Subjects == {"updated", "finalized", "ended", "stopped"}

\* What each task subscribes to.  (The plugins also get "updated", but no
\* default plugin has the hook.)
Feeds(c) ==
    CASE c = "ui" -> {"updated", "stopped"}
      [] c = "debounce" -> {"finalized", "stopped"}
      [] OTHER -> {"finalized", "ended", "stopped"}

Segment(id, final) == [id |-> id, final |-> final]
Ids == 0..MaxSegments

Init ==
    /\ row \in RowChoices
    /\ recording = "on" /\ counter = 0 /\ event = "none" /\ step = "store"
    /\ rows = {} /\ finals = {}
    /\ log = [s \in Subjects |-> <<>>]
    /\ \E team \in Teams :
          /\ task = [c \in team |-> "spawned"]
          /\ at = [c \in team |-> [s \in Subjects |-> 0]]
    /\ snapshot = <<>> /\ buffer = {} /\ turns = <<>> /\ plugin = <<>>
    /\ ends = 0 /\ timer = FALSE /\ hints = 0 /\ summaries = {}

----------------------------------------------------------------------------
(* The broker.                                                             *)

Subscribed(c) == task[c] \in {"loading", "running"}

\* A message without a receiver is gone.
Publish(s, m) ==
    log' = IF \E c \in Consumers : Subscribed(c) /\ s \in Feeds(c)
           THEN [log EXCEPT ![s] = Append(@, m)] ELSE log

\* A fresh receiver starts behind the last message.
Fresh(s) == Len(log[s])

Unread(c, s) == at[c][s] < Len(log[s])
Lagged(c, s) == Len(log[s]) - at[c][s] > Capacity

----------------------------------------------------------------------------
(* The live transcription: a transcript is stored, then published.         *)

\* Until finalize has returned, and also after: the last transcripts are
\* still in the event channels when SessionEnd is published.
Hears(kind) ==
    /\ recording \in {"on", "finalized"} /\ event = "none" /\ counter < MaxSegments
    /\ kind = "interim" => Len(log["updated"]) < MaxUpdates
    /\ event' = kind /\ step' = "store"
    /\ UNCHANGED <<row, recording, counter, rows, finals, log, task, at, uiVars, turns, pluginVars, summaries>>

Store ==
    /\ event # "none" /\ step = "store"
    /\ rows' = IF row THEN rows \cup {Segment(counter, event = "final")} ELSE rows
    /\ step' = "updated"
    /\ UNCHANGED <<row, recording, counter, event, finals, log, task, at, uiVars, turns, pluginVars, summaries>>

PublishUpdated ==
    /\ event # "none" /\ step = "updated"
    /\ Publish("updated", Segment(counter, event = "final"))
    /\ step' = IF event = "final" THEN "finalized" ELSE "store"
    /\ event' = IF event = "final" THEN event ELSE "none"
    /\ UNCHANGED <<row, recording, counter, rows, finals, task, at, uiVars, turns, pluginVars, summaries>>

\* Mistake: the counter is not moved on.
SameCounter == UNCHANGED counter

NextCounter == counter' = counter + 1

PublishFinalized ==
    /\ event # "none" /\ step = "finalized"
    /\ Publish("finalized", Segment(counter, TRUE))
    /\ finals' = finals \cup {counter}
    /\ NextCounter
    /\ event' = "none" /\ step' = "store"
    /\ UNCHANGED <<row, recording, rows, task, at, uiVars, turns, pluginVars, summaries>>

\* UtteranceEnded(SessionEnd); not on a platform without live transcription.
SessionEnd ==
    /\ recording = "on" /\ event = "none"
    /\ recording' = "finalized"
    /\ Publish("ended", Segment(counter, TRUE))
    /\ UNCHANGED <<row, counter, event, step, rows, finals, task, at, uiVars, turns, pluginVars, summaries>>

\* run_live_transcription returns, or there is none, or its task panics.
CaptureOver ==
    /\ recording \in {"on", "finalized"} /\ event = "none"
    /\ recording' = "over"
    /\ UNCHANGED <<row, counter, event, step, rows, finals, log, task, at, uiVars, turns, pluginVars, summaries>>

\* Mistake: a capture that failed ends the function before it publishes.
OnlyIfCaptured == IF finals # {} THEN Publish("stopped", Segment(0, TRUE)) ELSE UNCHANGED log

PublishStopped == Publish("stopped", Segment(0, TRUE))

\* recording::stop, whether the capture task succeeded or not.
Stop ==
    /\ recording = "over"
    /\ PublishStopped
    /\ recording' = "stopped"
    /\ UNCHANGED <<row, counter, event, step, rows, finals, task, at, uiVars, turns, pluginVars, summaries>>

----------------------------------------------------------------------------
(* The tasks.                                                              *)

Becomes(c, t) == task' = [task EXCEPT ![c] = t]
Moves(c, s, n) == at' = [at EXCEPT ![c][s] = n]

\* Mistake: what is in the store already is not looked at.
NoLoad(c) ==
    /\ task[c] = "spawned"
    /\ at' = [at EXCEPT ![c] = [s \in Subjects |-> Fresh(s)]]
    /\ Becomes(c, "running")

\* The summary subscribes before it looks at the store.
Joins(c) ==
    /\ task[c] = "spawned"
    /\ at' = [at EXCEPT ![c] = [s \in Subjects |-> Fresh(s)]]
    /\ Becomes(c, IF c = "summary" THEN "loading" ELSE "running")

Start(c) == Joins(c) /\ UNCHANGED <<producer, log, uiVars, turns, pluginVars, summaries>>

\* A turn is known by the live counter or, from the store, by its times:
\* segment_id_for and segment_id_for_segment never agree.
Turn(from, id) == [from |-> from, id |-> id]

insert_if_new(seq, t) == IF t \in ToSet(seq) THEN seq ELSE Append(seq, t)

\* Final rows in their order, those not yet known.
Load(seq) ==
    LET new == {r.id : r \in {q \in rows : q.final}} \ {t.id : t \in {u \in ToSet(seq) : u.from = "row"}}
    IN  seq \o [i \in 1..Cardinality(new) |->
                  Turn("row", CHOOSE id \in new : Cardinality({j \in new : j < id}) = i - 1)]

\* load_finalized_from_store; the window takes every row there is.
Reload(c) ==
    /\ task[c] = "loading"
    /\ turns' = IF c = "summary" THEN Load(turns) ELSE turns
    /\ buffer' = IF c = "ui" THEN rows ELSE buffer
    /\ snapshot' = IF c = "ui" THEN <<>> ELSE snapshot
    /\ Becomes(c, "running")
    /\ UNCHANGED <<producer, log, at, pluginVars, summaries>>

\* Mistake: a receiver that fell behind goes on from where it is.
GoesOn(c) == "running"

\* A task with the store at hand makes up for what it missed.
AfterLag(c) == IF c \in {"ui", "summary"} THEN "loading" ELSE "running"

\* RecvError::Lagged: a fresh receiver takes the place of the old one.
Lag(c, s) ==
    /\ task[c] = "running" /\ s \in Feeds(c) /\ Lagged(c, s)
    /\ Moves(c, s, Fresh(s))
    /\ Becomes(c, AfterLag(c))
    /\ UNCHANGED <<producer, log, uiVars, turns, pluginVars, summaries>>

\* select! takes any message there is, and those it leaves when it ends are
\* never read.
Receives(c, s) ==
    /\ c \in Consumers /\ task[c] = "running" /\ Unread(c, s) /\ ~Lagged(c, s)
    /\ Moves(c, s, at[c][s] + 1)
    /\ UNCHANGED <<producer, log>>

Message(c, s) == log[s][at[c][s] + 1]

UiUpdated ==
    LET m == Message("ui", "updated")
        shown == [id \in DOMAIN snapshot \cup {m.id} |-> IF id = m.id THEN m.final ELSE snapshot[id]]
    IN  /\ Receives("ui", "updated")
        /\ snapshot' = shown
        /\ buffer' = {Segment(id, shown[id]) : id \in DOMAIN shown}
        /\ UNCHANGED <<task, turns, pluginVars, summaries>>

UiStopped ==
    /\ Receives("ui", "stopped")
    /\ Becomes("ui", "ended")
    /\ UNCHANGED <<uiVars, turns, pluginVars, summaries>>

SummaryTurn ==
    /\ Receives("summary", "finalized")
    /\ turns' = insert_if_new(turns, Turn("live", Message("summary", "finalized").id))
    /\ UNCHANGED <<task, uiVars, pluginVars, summaries>>

\* Whichever of the two comes first.
SummaryEnds ==
    /\ \E s \in {"ended", "stopped"} : Receives("summary", s)
    /\ Becomes("summary", IF turns = <<>> THEN "ended" ELSE "summarizing")
    /\ UNCHANGED <<uiVars, turns, pluginVars, summaries>>

\* The model answers or fails; a summary needs the session's row as well.
Summarized ==
    /\ "summary" \in Consumers /\ task["summary"] = "summarizing"
    /\ \/ row /\ summaries' = summaries \cup {"summary"}
       \/ UNCHANGED summaries
    /\ Becomes("summary", "ended")
    /\ UNCHANGED <<producer, log, at, uiVars, turns, pluginVars>>

PluginTurn ==
    /\ Receives("rhai", "finalized")
    /\ plugin' = insert_if_new(plugin, Turn("live", Message("rhai", "finalized").id))
    /\ UNCHANGED <<task, uiVars, turns, ends, timer, hints, summaries>>

\* Mistake: the loop does not end with SessionEnd.
KeepsListening(s) == IF s = "ended" THEN "running" ELSE "ended"

AfterEnd(s) == "ended"

\* on_session_end: summary.rhai reads the store only if it has no turn.
PluginEnds ==
    \E s \in {"ended", "stopped"} :
        /\ Receives("rhai", s)
        /\ ends' = ends + 1
        /\ plugin' = IF plugin = <<>> THEN Load(plugin) ELSE plugin
        /\ \/ row /\ plugin' # <<>> /\ summaries' = summaries \cup {"rhai"}
           \/ UNCHANGED summaries
        /\ Becomes("rhai", AfterEnd(s))
        /\ UNCHANGED <<uiVars, turns, timer, hints>>

\* HintDebounce::on_event sets the timer anew.
DebounceEvent ==
    /\ Receives("debounce", "finalized")
    /\ timer' = TRUE
    /\ UNCHANGED <<task, uiVars, turns, plugin, ends, hints, summaries>>

\* HintDebounce::on_timeout; without the plugins' scope nothing is asked.
DebounceFires ==
    /\ timer /\ task["debounce"] = "running" /\ hints < MaxSegments
    /\ timer' = FALSE
    /\ hints' = IF "rhai" \in Consumers /\ task["rhai"] # "ended" THEN hints + 1 ELSE hints
    /\ UNCHANGED <<producer, log, task, at, uiVars, turns, plugin, ends, summaries>>

DebounceStopped ==
    /\ Receives("debounce", "stopped")
    /\ Becomes("debounce", "ended") /\ timer' = FALSE
    /\ UNCHANGED <<uiVars, turns, plugin, ends, hints, summaries>>

\* The program goes on without a recording.
Idle == recording = "stopped" /\ UNCHANGED vars

Produce ==
    \/ \E kind \in {"interim", "final"} : Hears(kind)
    \/ Store \/ PublishUpdated \/ PublishFinalized \/ SessionEnd \/ CaptureOver \/ Stop

Step(c) ==
  /\ c \in Consumers
  /\ \/ Start(c) \/ Reload(c)
     \/ \E s \in Subjects : Lag(c, s)
     \/ c = "ui" /\ (UiUpdated \/ UiStopped)
     \/ c = "summary" /\ (SummaryTurn \/ SummaryEnds \/ Summarized)
     \/ c = "rhai" /\ (PluginTurn \/ PluginEnds)
     \/ c = "debounce" /\ (DebounceEvent \/ DebounceFires \/ DebounceStopped)

Next == Produce \/ (\E c \in Consumers : Step(c)) \/ Idle

Spec == Init /\ [][Next]_vars

\* Tasks are scheduled, and the stop button ends in a call of stop.
FairSpec == Spec /\ (\A c \in UNION Teams : WF_vars(Step(c))) /\ WF_vars(Stop)
----------------------------------------------------------------------------
TypeOK ==
    /\ row \in BOOLEAN /\ recording \in {"on", "finalized", "over", "stopped"}
    /\ counter \in Ids /\ event \in {"none", "interim", "final"}
    /\ step \in {"store", "updated", "finalized"}
    /\ rows \subseteq [id : Ids, final : BOOLEAN] /\ buffer \subseteq [id : Ids, final : BOOLEAN]
    /\ finals \subseteq Ids
    /\ log \in [Subjects -> Seq([id : Ids, final : BOOLEAN])]
    /\ Consumers \in Teams
    /\ Range(task) \subseteq {"spawned", "loading", "running", "summarizing", "ended"}
    /\ \A c \in Consumers, s \in Subjects : at[c][s] \in 0..Len(log[s])
    /\ DOMAIN snapshot \subseteq Ids /\ Range(snapshot) \subseteq BOOLEAN
    /\ {turns, plugin} \subseteq Seq([from : {"live", "row"}, id : Ids])
    /\ ends \in Nat /\ timer \in BOOLEAN /\ hints \in 0..MaxSegments
    /\ summaries \subseteq {"summary", "rhai"}

\* Where transcripts are stored, the summary's task misses no final segment:
\* not by joining late, not by lagging, at whatever step the producer is.
NothingSkipped ==
    row /\ "summary" \in Consumers /\ task["summary"] = "running" =>
        \A id \in finals :
            \/ \E t \in ToSet(turns) : t.id = id
            \/ \E i \in (at["summary"]["finalized"] + 1)..Len(log["finalized"]) :
                  log["finalized"][i].id = id

Inv == TypeOK /\ NothingSkipped

\* The window's snapshot is the latest word on every segment it has: an
\* interim never replaces a final.
FinalStays ==
    [][\A id \in DOMAIN snapshot : snapshot[id] /\ id \in DOMAIN snapshot' => snapshot'[id]]_vars

\* The plugins' on_session_end runs once, by SessionEnd or by the stop,
\* whichever comes first, and has run when their task is over.
SessionEndsOnce ==
    "rhai" \in Consumers => ends <= 1 /\ (task["rhai"] = "ended" <=> ends = 1)

\* No task is still on its way to its subscriptions.
TasksRun == \A c \in Consumers : task[c] # "spawned"

\* Every task of the session that had subscribed when the capture was over ends
\* once recording::stop has returned.
TasksEnd == recording = "over" /\ TasksRun ~> \A c \in Consumers : task[c] = "ended"
=============================================================================
