------------------------- MODULE LiveTranscription -------------------------
(***************************************************************************)
(* run_live_transcription of app-service: one task that sends the audio of *)
(* both tracks to a speech-to-text session each, reads the events of both, *)
(* reconnects what was lost and records every outage as a gap row, beside  *)
(* the tasks that connect and the tasks inside each provider's session.    *)
(*                                                                         *)
(* Audio, texts, times and backoffs are data.  An utterance is a number: a *)
(* provider sends partials of it and then its final.  A gap row is its id. *)
(***************************************************************************)
EXTENDS Naturals, Sequences, FiniteSets

CONSTANTS
    Tracks,         \* TrackKind: the microphone and the remote audio
    RowChoices,     \* may the sessions row exist while the session is recorded?
    MaxUtterances,  \* [Tracks -> Nat] utterances of a track
    MaxGaps,        \* gap rows of a track that are open at a time
    MaxQueued       \* events waiting in the channel of a track

ASSUME TracksAssumption == IsFiniteSet(Tracks) /\ Tracks # {}
ASSUME RowAssumption == RowChoices \subseteq BOOLEAN /\ RowChoices # {}
ASSUME BoundAssumption == MaxUtterances \in [Tracks -> Nat] /\ MaxGaps \in Nat /\ MaxQueued \in Nat \ {0}

VARIABLES
    \* the task of run_live_transcription
    loop,        \* where it is
    capturing,   \* the audio channel has senders, or chunks nobody read
    audioOpen,   \* audio_open: the end of the audio was not read yet
    session,     \* [Tracks -> BOOLEAN] the loop holds a session
    events,      \* [Tracks -> BOOLEAN] self_events / remote_events is Some
    interim,     \* [Tracks -> utterance, 0 for none] last_interim
    counter,     \* [Tracks -> Nat] segment counter
    retryAt,     \* [Tracks -> BOOLEAN] ReconnectState.retry_at is Some
    attempt,     \* [Tracks -> AttemptStates] the task of in_flight
    gapId,       \* [Tracks -> gap id, 0 for none] open_gap_id
    finalizing,  \* [Tracks -> BOOLEAN] finalize of the session is awaited
    \* the provider's session behind the events channel
    sender,      \* [Tracks -> BOOLEAN] its writer task takes audio
    reader,      \* [Tracks -> BOOLEAN] its reader task holds the channel
    queue,       \* [Tracks -> Seq(Event)] the channel
    spoken,      \* [Tracks -> Nat] utterances whose final was sent
    \* what others see
    status,      \* [Tracks -> Statuses] TranscriptionStatus
    sessionRow,  \* the sessions row exists: rows that refer to it are accepted
    openGaps,    \* [Tracks -> SUBSET Nat] rows of transcription_gaps without an end
    finalRows,   \* [Tracks -> SUBSET Nat] utterances with a final row in the store
    published,   \* [Tracks -> Seq(Nat)] segment ids of SegmentFinalized
    sessionEnd   \* UtteranceEnded(SessionEnd) was published

linkVars == <<sender, reader, queue, spoken>>
storeVars == <<sessionRow, openGaps, finalRows>>
busVars == <<published, sessionEnd>>
vars == <<loop, capturing, audioOpen, session, events, interim, counter, retryAt, attempt, gapId,
          finalizing, linkVars, status, storeVars, busVars>>

Statuses == {"NotConfigured", "Connecting", "Connected", "Error"}
AttemptStates == {"none", "spawned", "connecting", "connected", "failed"}
Partial(u) == [kind |-> "partial", of |-> u]
Final(u) == [kind |-> "final", of |-> u]
Failure(retryable) == [kind |-> "error", of |-> IF retryable THEN 1 ELSE 0]
Event == [kind : {"partial", "final", "error"}, of : Nat]
Loops == {"configuring", "connecting", "looping", "finalizing", "draining", "done"}

Nothing == [t \in Tracks |-> FALSE]
Zero == [t \in Tracks |-> 0]

Init ==
    /\ loop = "configuring" /\ capturing = TRUE /\ audioOpen = TRUE
    /\ session = Nothing /\ events = Nothing /\ retryAt = Nothing /\ finalizing = Nothing
    /\ interim = Zero /\ counter = Zero /\ gapId = Zero
    /\ attempt = [t \in Tracks |-> "none"]
    /\ sender = Nothing /\ reader = Nothing /\ spoken = Zero
    /\ queue = [t \in Tracks |-> <<>>]
    /\ status = [t \in Tracks |-> "NotConfigured"]
    /\ sessionRow \in RowChoices
    /\ openGaps = [t \in Tracks |-> {}]
    /\ finalRows = [t \in Tracks |-> {}]
    /\ published = [t \in Tracks |-> <<>>] /\ sessionEnd = FALSE

----------------------------------------------------------------------------
(* Start: no provider, or both tracks connect at the same time.            *)

NoProvider ==
    /\ loop = "configuring"
    /\ loop' = "draining"
    /\ status' = [t \in Tracks |-> "NotConfigured"]
    /\ UNCHANGED <<capturing, audioOpen, session, events, interim, counter, retryAt, attempt, gapId,
                   finalizing, linkVars, storeVars, busVars>>

ConnectBoth ==
    /\ loop = "configuring"
    /\ loop' = "connecting"
    /\ status' = [t \in Tracks |-> "Connecting"]
    /\ attempt' = [t \in Tracks |-> "connecting"]
    /\ UNCHANGED <<capturing, audioOpen, session, events, interim, counter, retryAt, gapId,
                   finalizing, linkVars, storeVars, busVars>>

\* Mistake: a failure is not shown.
FailsQuietly(t, ok) ==
    /\ attempt[t] = "connecting"
    /\ attempt' = [attempt EXCEPT ![t] = IF ok THEN "connected" ELSE "failed"]
    /\ status' = IF ok THEN [status EXCEPT ![t] = "Connected"] ELSE status
    /\ UNCHANGED <<loop, capturing, audioOpen, session, events, interim, counter, retryAt, gapId,
                   finalizing, linkVars, storeVars, busVars>>

\* start_session answered, failed or timed out.
Connects(t, ok) ==
    /\ attempt[t] = "connecting"
    /\ attempt' = [attempt EXCEPT ![t] = IF ok THEN "connected" ELSE "failed"]
    /\ status' = [status EXCEPT ![t] = IF ok THEN "Connected" ELSE "Error"]
    /\ UNCHANGED <<loop, capturing, audioOpen, session, events, interim, counter, retryAt, gapId,
                   finalizing, linkVars, storeVars, busVars>>

\* A track that did not connect runs without transcription from here on.
EnterLoop ==
    LET up == [t \in Tracks |-> attempt[t] = "connected"]
    IN  /\ loop = "connecting"
        /\ \A t \in Tracks : attempt[t] \in {"connected", "failed"}
        /\ loop' = IF \E t \in Tracks : up[t] THEN "looping" ELSE "draining"
        /\ session' = up /\ events' = up /\ sender' = up /\ reader' = up
        /\ attempt' = [t \in Tracks |-> "none"]
        /\ UNCHANGED <<capturing, audioOpen, interim, counter, retryAt, gapId, finalizing,
                       queue, spoken, status, storeVars, busVars>>

----------------------------------------------------------------------------
(* The provider: the server answers, and its two tasks end when the        *)
(* connection is gone, each in its own time.                               *)

Push(t, e) ==
    /\ reader[t] /\ Len(queue[t]) < MaxQueued
    /\ queue' = [queue EXCEPT ![t] = Append(@, e)]

ProviderFrame ==
    UNCHANGED <<loop, capturing, audioOpen, session, events, interim, counter, retryAt, attempt, gapId,
                finalizing, status, storeVars, busVars>>

Recognizes(t, final) ==
    /\ spoken[t] < MaxUtterances[t]
    /\ Push(t, IF final THEN Final(spoken[t] + 1) ELSE Partial(spoken[t] + 1))
    /\ spoken' = [spoken EXCEPT ![t] = IF final THEN @ + 1 ELSE @]
    /\ UNCHANGED <<sender, reader>> /\ ProviderFrame

ProviderFails(t, retryable) ==
    /\ Push(t, Failure(retryable))
    /\ UNCHANGED <<sender, reader, spoken>> /\ ProviderFrame

\* The writer task ends: the next send_audio is SttError::SessionClosed.
SenderEnds(t) ==
    /\ sender[t]
    /\ sender' = [sender EXCEPT ![t] = FALSE]
    /\ UNCHANGED <<reader, queue, spoken>> /\ ProviderFrame

\* The server closed the connection or the network reported its loss.
ReaderEnds(t) ==
    /\ reader[t]
    /\ reader' = [reader EXCEPT ![t] = FALSE]
    /\ UNCHANGED <<sender, queue, spoken>> /\ ProviderFrame

----------------------------------------------------------------------------
(* Outages.                                                                *)

Armed(t) == retryAt[t] \/ attempt[t] # "none"

\* The next row id; the ids of rows that were closed are used again.
FreshId(t) == {id \in 1..MaxGaps : id \notin openGaps[t] /\ \A i \in 1..(id - 1) : i \in openGaps[t]}

\* open_gap: the insert is refused while the row it refers to is missing.
OpenGap(t) ==
    IF sessionRow
    THEN \E id \in FreshId(t) :
           /\ gapId' = [gapId EXCEPT ![t] = id]
           /\ openGaps' = [openGaps EXCEPT ![t] = @ \cup {id}]
    ELSE UNCHANGED <<gapId, openGaps>>

\* note_disconnect_and_maybe_reconnect, after the session was dropped.
Disconnect(t, isError, retryable) ==
    /\ session' = [session EXCEPT ![t] = FALSE]
    /\ sender' = [sender EXCEPT ![t] = FALSE]
    /\ status' = IF isError THEN [status EXCEPT ![t] = "Error"] ELSE status
    /\ IF Armed(t)
       THEN UNCHANGED <<retryAt, gapId, openGaps>>
       ELSE /\ OpenGap(t)
            /\ retryAt' = [retryAt EXCEPT ![t] = retryable]

NoDisconnect == UNCHANGED <<session, sender, status, retryAt, gapId, openGaps>>

\* close_open_gap for the tracks of ts: ended, or discarded when it was short.
CloseGaps(ts) ==
    /\ gapId' = [t \in Tracks |-> IF t \in ts THEN 0 ELSE gapId[t]]
    /\ openGaps' = [t \in Tracks |-> IF t \in ts THEN openGaps[t] \ {gapId[t]} ELSE openGaps[t]]

----------------------------------------------------------------------------
(* The select loop.                                                        *)

\* A chunk, or the Remote track's keepalive, could not be sent: the queue to
\* the writer task is full (retryable) or the task has ended (it is not).
SendFails(t, full) ==
    /\ loop = "looping" /\ capturing /\ session[t]
    /\ full \/ ~sender[t]
    /\ Disconnect(t, TRUE, full)
    /\ UNCHANGED <<loop, capturing, audioOpen, events, interim, counter, attempt, finalizing,
                   reader, queue, spoken, sessionRow, finalRows, busVars>>

\* Mistake: it fires although the audio has ended.
RetryAnyTime(t) ==
    /\ loop = "looping" /\ retryAt[t] /\ attempt[t] = "none"
    /\ retryAt' = [retryAt EXCEPT ![t] = FALSE]
    /\ attempt' = [attempt EXCEPT ![t] = "spawned"]
    /\ UNCHANGED <<loop, capturing, audioOpen, session, events, interim, counter, gapId,
                   finalizing, linkVars, status, storeVars, busVars>>

\* retry_at is due: a task is spawned that connects.
RetryFires(t) ==
    /\ loop = "looping" /\ audioOpen /\ retryAt[t] /\ attempt[t] = "none"
    /\ retryAt' = [retryAt EXCEPT ![t] = FALSE]
    /\ attempt' = [attempt EXCEPT ![t] = "spawned"]
    /\ UNCHANGED <<loop, capturing, audioOpen, session, events, interim, counter, gapId,
                   finalizing, linkVars, status, storeVars, busVars>>

\* attempt_reconnect, a task of its own.
AttemptStarts(t) ==
    /\ attempt[t] = "spawned"
    /\ attempt' = [attempt EXCEPT ![t] = "connecting"]
    /\ status' = [status EXCEPT ![t] = "Connecting"]
    /\ UNCHANGED <<loop, capturing, audioOpen, session, events, interim, counter, retryAt, gapId,
                   finalizing, linkVars, storeVars, busVars>>

\* The new session and its channel replace the old ones, whatever the old
\* channel still held.
Reconnected(t) ==
    /\ loop = "looping" /\ attempt[t] = "connected"
    /\ attempt' = [attempt EXCEPT ![t] = "none"]
    /\ session' = [session EXCEPT ![t] = TRUE]
    /\ events' = [events EXCEPT ![t] = TRUE]
    /\ sender' = [sender EXCEPT ![t] = TRUE]
    /\ reader' = [reader EXCEPT ![t] = TRUE]
    /\ queue' = [queue EXCEPT ![t] = <<>>]
    /\ CloseGaps({t})
    /\ retryAt' = [retryAt EXCEPT ![t] = FALSE]
    /\ UNCHANGED <<loop, capturing, audioOpen, interim, counter, finalizing, spoken, status,
                   sessionRow, finalRows, busVars>>

AttemptFailed(t) ==
    /\ loop = "looping" /\ attempt[t] = "failed"
    /\ attempt' = [attempt EXCEPT ![t] = "none"]
    /\ UNCHANGED <<loop, capturing, audioOpen, session, events, interim, counter,
                   finalizing, linkVars, status, sessionRow, finalRows, busVars>>

\* Mistake: no further attempt.
NotRearmed(t) == AttemptFailed(t) /\ UNCHANGED <<retryAt, gapId, openGaps>>

\* note_reconnect_failure.
ReconnectFailed(t) ==
    /\ AttemptFailed(t)
    /\ retryAt' = [retryAt EXCEPT ![t] = TRUE]
    /\ UNCHANGED <<gapId, openGaps>>

InsertFinal(t, u) ==
    finalRows' = IF sessionRow THEN [finalRows EXCEPT ![t] = @ \cup {u}] ELSE finalRows

\* Mistake: an error of an outage already noted counts as another one.
AnyError(t, e) == e.kind = "error"

IsDisconnect(t, e) == e.kind = "error" /\ session[t]

NextSegment(t) == counter' = [counter EXCEPT ![t] = @ + 1]

\* note_event, the disconnect of an error while there is a session, persist_event.
ReadEvent(t) ==
    LET e == Head(queue[t])
    IN  /\ loop = "looping" /\ events[t] /\ queue[t] # <<>>
        /\ queue' = [queue EXCEPT ![t] = Tail(@)]
        /\ IF IsDisconnect(t, e) THEN Disconnect(t, TRUE, e.of = 1) ELSE NoDisconnect
        /\ CASE e.kind = "final" ->
                  /\ interim' = [interim EXCEPT ![t] = 0]
                  /\ InsertFinal(t, e.of)
                  /\ published' = [published EXCEPT ![t] = Append(@, counter[t])]
                  /\ NextSegment(t)
             [] e.kind = "partial" ->
                  /\ interim' = [interim EXCEPT ![t] = e.of]
                  /\ UNCHANGED <<finalRows, published, counter>>
             [] OTHER -> UNCHANGED <<interim, finalRows, published, counter>>
        /\ UNCHANGED <<loop, capturing, audioOpen, events, attempt, finalizing,
                       reader, spoken, sessionRow, sessionEnd>>

\* Mistake: the closed channel is asked again.
KeepReceiver(t) == UNCHANGED events

DropReceiver(t) == events' = [events EXCEPT ![t] = FALSE]

\* The channel is closed and empty: what is still unconfirmed becomes a final
\* row, which is not published.
ChannelClosed(t) ==
    /\ loop = "looping" /\ events[t] /\ queue[t] = <<>> /\ ~reader[t]
    /\ DropReceiver(t)
    /\ IF interim[t] # 0 THEN InsertFinal(t, interim[t]) ELSE UNCHANGED finalRows
    /\ interim' = [interim EXCEPT ![t] = 0]
    /\ IF session[t] THEN Disconnect(t, FALSE, TRUE) ELSE NoDisconnect
    /\ UNCHANGED <<loop, capturing, audioOpen, counter, attempt, finalizing, reader, queue, spoken,
                   sessionRow, busVars>>

----------------------------------------------------------------------------
(* Stop.                                                                   *)

\* Capture has ended and the collector dropped its sender.
CaptureEnds ==
    /\ capturing
    /\ capturing' = FALSE
    /\ UNCHANGED <<loop, audioOpen, session, events, interim, counter, retryAt, attempt, gapId,
                   finalizing, linkVars, status, storeVars, busVars>>

\* The None of audio_rx: attempts are aborted, gaps closed, sessions finalized.
AudioEnds ==
    /\ loop = "looping" /\ audioOpen /\ ~capturing
    /\ loop' = "finalizing" /\ audioOpen' = FALSE
    /\ attempt' = [t \in Tracks |-> "none"]
    /\ CloseGaps(Tracks)
    /\ finalizing' = session
    /\ session' = Nothing /\ sender' = Nothing
    /\ UNCHANGED <<capturing, events, interim, counter, retryAt, reader, queue, spoken, status,
                   sessionRow, finalRows, busVars>>

\* finalize_with_timeout: answered, failed or timed out.
FinalizeReturns(t) ==
    /\ finalizing[t]
    /\ finalizing' = [finalizing EXCEPT ![t] = FALSE]
    /\ UNCHANGED <<loop, capturing, audioOpen, session, events, interim, counter, retryAt, attempt,
                   gapId, linkVars, status, storeVars, busVars>>

PublishSessionEnd ==
    /\ loop = "finalizing" /\ finalizing = Nothing
    /\ loop' = "looping"
    /\ sessionEnd' = TRUE
    /\ UNCHANGED <<capturing, audioOpen, session, events, interim, counter, retryAt, attempt, gapId,
                   finalizing, linkVars, status, storeVars, published>>

\* The loop's condition, or drain, ends the function.
Returns ==
    /\ \/ loop = "looping" /\ ~audioOpen /\ events = Nothing
       \/ loop = "draining" /\ ~capturing
    /\ loop' = "done"
    /\ UNCHANGED <<capturing, audioOpen, session, events, interim, counter, retryAt, attempt, gapId,
                   finalizing, linkVars, status, storeVars, busVars>>

Ended == loop = "done" /\ UNCHANGED vars

----------------------------------------------------------------------------
Provider(t) ==
    \/ \E b \in BOOLEAN : Recognizes(t, b) \/ ProviderFails(t, b)
    \/ SenderEnds(t) \/ ReaderEnds(t)

Attempt(t) == AttemptStarts(t) \/ \E ok \in BOOLEAN : Connects(t, ok)

Track(t) ==
    \/ \E full \in BOOLEAN : SendFails(t, full)
    \/ RetryFires(t) \/ Reconnected(t) \/ ReconnectFailed(t)
    \/ ReadEvent(t) \/ ChannelClosed(t) \/ FinalizeReturns(t)

Next ==
    \/ NoProvider \/ ConnectBoth \/ EnterLoop
    \/ CaptureEnds \/ AudioEnds \/ PublishSessionEnd \/ Returns \/ Ended
    \/ \E t \in Tracks : Provider(t) \/ Attempt(t) \/ Track(t)

Spec == Init /\ [][Next]_vars

(***************************************************************************)
(* Fairness.  tokio::select! polls its branches in a random order, so a    *)
(* branch that stays ready is taken; timers fire; start_session and        *)
(* finalize are bounded by a timeout; tasks are scheduled.                 *)
(***************************************************************************)
Scheduling ==
    /\ WF_vars(NoProvider \/ ConnectBoth) /\ WF_vars(EnterLoop)
    /\ WF_vars(AudioEnds) /\ WF_vars(PublishSessionEnd) /\ WF_vars(Returns)
    /\ \A t \in Tracks :
         /\ WF_vars(AttemptStarts(t)) /\ WF_vars(\E ok \in BOOLEAN : Connects(t, ok))
         /\ WF_vars(RetryFires(t)) /\ WF_vars(Reconnected(t)) /\ WF_vars(ReconnectFailed(t))
         /\ WF_vars(ReadEvent(t)) /\ WF_vars(ChannelClosed(t)) /\ WF_vars(FinalizeReturns(t))

\* A network that recovers: an attempt repeated for ever succeeds.
Network == \A t \in Tracks : SF_vars(Connects(t, TRUE))

FairSpec == Spec /\ Scheduling /\ Network
----------------------------------------------------------------------------
TypeOK ==
    /\ loop \in Loops /\ {capturing, audioOpen, sessionRow, sessionEnd} \subseteq BOOLEAN
    /\ {session, events, retryAt, finalizing, sender, reader} \subseteq [Tracks -> BOOLEAN]
    /\ {interim, counter, gapId, spoken} \subseteq [Tracks -> Nat]
    /\ attempt \in [Tracks -> AttemptStates] /\ status \in [Tracks -> Statuses]
    /\ queue \in [Tracks -> Seq(Event)] /\ \A t \in Tracks : Len(queue[t]) <= MaxQueued
    /\ openGaps \in [Tracks -> SUBSET Nat] /\ finalRows \in [Tracks -> SUBSET Nat]
    /\ published \in [Tracks -> Seq(Nat)]

Recording == loop = "looping" /\ audioOpen

\* Every outage has exactly one gap row: the row that is open is the one the
\* loop remembers, so that it will be closed (open_gap, close_open_gap).
OneOpenGap == \A t \in Tracks : openGaps[t] = IF gapId[t] = 0 THEN {} ELSE {gapId[t]}

\* While a recording goes on, a gap row is open exactly when a track that had
\* been connected is down, be it waiting, reconnecting or given up; none is
\* left open once the recording ended (the None arm of audio_rx).
GapWhileDown ==
    /\ sessionRow /\ Recording =>
         \A t \in Tracks : gapId[t] # 0 => ~session[t]
    /\ sessionRow /\ Recording =>
         \A t \in Tracks : ~session[t] /\ (Armed(t) \/ events[t]) => gapId[t] # 0
    /\ ~audioOpen => \A t \in Tracks : openGaps[t] = {}

Inv == TypeOK /\ OneOpenGap /\ GapWhileDown

\* A track has a session or at most one attempt to get one (in_flight,
\* retry_at), and neither once the audio has ended: no second connection is
\* opened beside the first, and none for nobody to close.
OneConnection ==
    \A t \in Tracks :
      /\ session[t] => ~Armed(t)
      /\ ~(retryAt[t] /\ attempt[t] # "none")
      /\ ~audioOpen => ~session[t] /\ attempt[t] = "none"

\* A track that is down for the rest of the recording says so.
GivenUpIsShown ==
    Recording => \A t \in Tracks : ~session[t] /\ ~Armed(t) => status[t] = "Error"

\* A lost track is connected again on a network that recovers.
DownIsReconnected == \A t \in Tracks : retryAt[t] ~> (session[t] \/ ~capturing)

\* Once the capture has ended and every connection with it, nothing else keeps
\* run_live_transcription: no attempt, finalize or queued event.
ReturnsOnceClosed == <>[](~capturing /\ reader = Nothing) => <>(loop = "done")

\* A connection over which nothing more comes does not hold up the recording's
\* stop, as FINALIZE_TIMEOUT and finalize_with_timeout have it.
ReturnsAfterCapture ==
    <>[](~capturing /\ \A t \in Tracks : queue[t] = <<>>) => <>(loop = "done")

\* Every transcript published as final has its row in transcript_segments.
FinalsAreStored == \A t \in Tracks : Len(published[t]) <= Cardinality(finalRows[t])

=============================================================================
