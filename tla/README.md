# TLA+ model of the recorder

The recorder captures the two sides of a one-on-one call, cuts them into Opus
segments on disk, keeps a ledger of sessions and segments in SQLite, uploads the
segments to an API, and meanwhile transcribes the call live. This directory models
it in TLA+: state machines translated from the Rust source, TLC configurations that
check them on small instances, and TLAPS proofs for every instance. Paths below are
relative to the repository root, which the project calls `src/`.

Run `tlc -config X.cfg M` for the runs of the table below and `tlapm M.tla` for the
proofs. `PROJECT.json` is the machine-readable index: components, runs, the mutants
that show each property can fail, the lines each definition models, the findings, the
hazards and the theorems.

## The system

### Components, their state and what makes them correct

| component (crate or file) | state it keeps | operations | correct when |
|---|---|---|---|
| session lifecycle (`app-service/session_lifecycle.rs`, `pipeline.rs`) | the locals of `run_pipeline`: which segments are left, `remote` | begin, commit and upload both tracks, late registration, end, finalize | a session closes only with everything on the API; every exit leaves a state recovery understands |
| startup recovery (`recover_incomplete_sessions`, `segment-store/recovery.rs`) | the list of sessions to take | reconcile, select, scan, register, drain, finalize | takes every interrupted session and no live one; loses no committed file |
| upload worker (`upload_worker.rs`) | pass count, one query result per pass | `upload_pending_once`, `run_until_drained` | ends; Completed means received |
| segment store (`segment-store`) | directories of `.partial` and `.opus` files | commit in six steps, scan | a row only for a renamed file; a scan completes what a crash cut |
| session ledger (`session-store`) | SQLite: sessions, segments, upload_status, transcripts, gaps, summaries | transactions, `reconcile_on_startup`, queries by state | rows are never taken back; Finalized is final |
| upload client (`upload-client/client.rs`) | a token cache | four calls with retry, backoff and one token refresh | bounded retries; one refresh per call |
| upload API (`upload-client/mock_server.rs` is the repository's word on it) | sessions, segments by idempotency key, finalized | create, upload, finalize, status | idempotent; finalize refused while segments are missing |
| capture sessions (`windows_session.rs`, `macos_session.rs`, frame collectors) | frames of both tracks in memory | start, stop, drain | no frame lost between stop and drain |
| recording control (desktop `actions.rs`, `recording.rs`, `control_server.rs`, `desktop-cli`) | the current recording and its stop handle | start, stop, status, from the window and the CLI | one recording at a time; a stop reaches it |
| capture rebinding policy (`capture-api/rebinding.rs`) | per binding: selection, lifecycle, retry count; default routes, shutdown | `decide(state, input)` | one worker per binding; bounded retries; no late report revives a worker |
| capture supervisors (`windows_supervisor.rs`, `macos_supervisor.rs`) | the policy's state, worker handles, joiners, timers, channels | run the effects of `decide` | the handle is the binding's worker; every thread is joined; shutdown ends |
| capture threads (`capture-windows`, `capture-macos`) | one thread per worker | open, capture, notice loss or stop, report | frames keep their order |
| audio timeline (`audio-timeline`, `timeline_adapter.rs`, `segmenter.rs`) | per track the output and the host time it reaches | ingest, pad, segment | audio is where its host time puts it; segments of one number belong together |
| live transcription (`live_transcription.rs`) | per track a session, an attempt to reconnect, the open gap | connect, send, read, reconnect, close | one connection and one gap row per outage; it returns |
| silence gate and clock (`silence_gate.rs`, `timestamp_mapper.rs`) | pre-roll ring, counters and checkpoints of a session | gate, send, keep alive, carry over a reconnect | speech is sent whole and its transcripts get the time of the audio |
| speech-to-text sessions (`stt-*`) | per session a command channel, a writer and a reader task | send audio, keep alive, finalize | what was accepted is sent once, in order; finalize waits for its transcripts |
| gap re-transcription (`retranscribe.rs`) | gaps in the ledger | re-transcribe, discard | each gap filled once |
| transcript events (`transcript-event`) | ids of segments, turns seen | name, aggregate, validate | a turn is counted once |
| local broker (`local-broker`) | subjects and bounded channels | publish, subscribe | a subscriber sees what follows its subscription, or knows it lagged |
| event consumers (desktop `ui_consumer.rs`, `hint_consumer.rs`, `summary_consumer.rs`) | a view of the transcript | receive, reload after lag | the view converges to the store |
| plugin engine (`rhai-engine`) | a task per session, scopes, a debounce timer | run a session, fire the timer | `on_session_end` runs once; every task ends |
| local whisper, summaries, capture backends, credentials, screens | - | calls of services and of the OS | protocol translation |

### How they interact

A start (window or CLI) creates a capture session. Its capture task collects the frames
of both tracks in memory, and feeds the live transcription, which writes transcripts and
gaps to the ledger and publishes events on the local broker; the consumers and the plugin
engine subscribe there. When the recording is stopped the capture task joins its
collector and calls `run_pipeline`, which writes the segments, registers them in the
ledger and uploads them through the client. `end_session` drains what is left and
finalizes. In parallel, and started with the application, recovery works through the
sessions that earlier processes left, over the same ledger, directories and API.

On Windows the capture itself is run by `WindowsSupervisor`: one loop that selects over
the capture threads' events, the operating system's device events, the results of joiner
threads, retry timers and the stop of the recording, feeds each to `decide` and executes
the effects: spawn a capture thread, stop and join one, set a timer.

### What is hard here

* Crashes between any two of: file write, rename, ledger row, request, answer, ledger update.
* Two workers over one ledger: recovery and the pipeline of the running process.
* A network that loses answers, delivers late or twice, and a finalize call that
  is checked by the API by counting.
* Bounded retries at three levels (call, pass, restart) and which sessions the third
  level takes up.
* Live transcription: one outage noticed three ways, reconnects that race with audio and with stop,
  a clock that counts what was sent while silence is not.
* Capture events that name a binding and not the generation of its worker; stops, starts,
  losses and returns of a device that cross each other; timers that outlive their failure.
* The double start of a recording.
* Lag in bounded broadcast channels, and tasks that subscribe late or never hear the last message.

Every hazard is listed in `PROJECT.json` at the line where it bites, with the
properties that cover it, or the reason why none does.

## Modules

| module | what it is |
|---|---|
| `SessionLifecycle` | pipelines, recovery, upload worker, segment store, ledger and API together, with crashes |
| `SessionDelivery` | the abstract promise: the ledger of a session grows, the API holds nothing else, a session is closed only when the API holds all of it |
| `MCSessionLifecycle` | the TLC instance |
| `SessionLifecycleProofs` | the TLAPS proofs |
| `CaptureRebinding` | `decide`: one operator per input, from a binding to a binding and an effect |
| `RebindingPolicy` | `CaptureRebinding` against any executor that reports truthfully, for every kind of selection |
| `CaptureSupervisor` | `CaptureRebinding` executed by the Windows supervisor, with its threads, channels and the devices |
| `LiveTranscription` | `run_live_transcription`: two tracks, their sessions, reconnects, gap rows, the end |
| `RemoteClock` | the Remote track's silence gate, keep-alives and timestamps over outages |
| `SttSession` | one session of the Deepgram, AssemblyAI, Google or OpenAI adapter with its two tasks and its server |
| `TranscriptFlow` | a transcript's way through store and broker to the window, the summary, the plugins and the hint timer |
| `RecordingControl` | start and stop from the window and any number of control connections |
| `AudioTimeline` | collected packets, aligned and padded |
| `MCRebindingPolicy`, `MCCaptureSupervisor`, `MCLiveTranscription`, `MCRemoteClock`, `MCSttSession`, `MCTranscriptFlow`, `MCRecordingControl`, `MCAudioTimeline` | TLC instances |
| `RebindingPolicyProofs`, `CaptureSupervisorProofs`, `LiveTranscriptionProofs`, `RemoteClockProofs`, `SttSessionProofs`, `TranscriptFlowProofs` | the TLAPS proofs, a module per component |
| `RecordingProofs` | the TLAPS proofs of `AudioTimeline` and of `RecordingControl` |

How they fit together. `RecordingControl` starts and stops what `CaptureSupervisor` captures and
`SessionLifecycle` stores; `AudioTimeline` is what lies between the two. `LiveTranscription` hears the
same frames, speaks to `SttSession` through the session it holds, and `RemoteClock` is the part of it
that stamps the Remote track; `TranscriptFlow` starts where it persists and publishes an event. Each
module treats its neighbour as any behaviour the neighbour may show: the provider in
`LiveTranscription` may fail or fall silent at any step, the capture in `RecordingControl` ends at any
time and with any result.

### SessionLifecycle and the code

State. `captureState`, `remoteId` and `uploadStatus` are the ledger's columns. `files`
is a segment's file in its track directory. `srvSessions`, `received`, `srvFinalized` are
the API's records; `sent` and `finalizeSent` are the requests that may still reach it:
they only grow, so a request may arrive late, twice or never. `pc` says where a worker
is; `captured`, `linked`, `todo`, `current`, `passes`, `expected`, `queue` and `task` are
the locals of the functions, and are gone after a crash.

Workers. One per session (its capture task, which turns into `run_pipeline`) and
`Recovery`. Both end in `finalize_and_upload`, written once for a worker `w` on a
session `s` (`BeginPass` ... `FinalizeFails`).

| actions | code |
|---|---|
| `StartRecording`, `CaptureAudio`, `StopRecording`, `CaptureFails` | `actions.rs`, `recording.rs`, frame collector, `run_windows_capture_session` |
| `CreateRow`, `BeginRegistered`, `BeginUnregistered`, `SetRecording` | `begin_session` |
| `WritePartial`, `RenameSegment`, `RegisterSegment`, `CommitFails`, `StartUpload` | `commit_segment`, `register_segment`, `commit_and_upload_track` |
| `FinishTracks`, `LateRegistered`, `LateUnregistered` | `run_pipeline`'s end, `finalize_local_only_session` |
| `SetStopping`, `SetFinalizing` | `end_session` |
| `BeginPass`, `DrainUpload`, `UploadAccepted`, `UploadFails`, `EndPass`, `SendFinalize`, `FinalizeAccepted`, `FinalizeFails` | `upload_pending_once`, `run_until_drained`, `finalize_and_upload` |
| `Reconcile`, `SelectUnregistered`, `TakeSession`, `ScanSelf`, `ScanRemote`, `LookupRemote`, `RecoveryRegistered`, `RecoveryUnregistered`, `FinishRecovery` | `recover_incomplete_sessions` and the store's queries |
| `ServerStores`, `ServerFinalizes` | the API, from its mock server |
| `Crash`, `Restart` | the process ends at any point, or the user quits an idle application |

Step size. A step lies between two points another worker or a crash can see: one
transaction, one file operation, one answer. An answer and the ledger write after it are
one step, because a crash between them leaves what a lost answer leaves. `Scan` takes a
directory in one step: its entries are independent, and the subset of entries it got to
before an error is chosen freely.

Abstractions. A segment is a pair of a track and a sequence number, its audio is not
modelled. The ids, times and checksums that the ledger stores beside are left out. SQLite
errors are left out (they end the worker as `CommitFails` does). `"commit"` in `Faults`
stands for the I/O errors of a commit, `"scan"` for those of a scan, `"reject"` for 4xx
answers, `"capture"` for a capture that ends in an error. `Audible` bounds which tracks of a
session hold audio.

`PromptRecovery`. Nothing in the code makes a recording wait for the recovery that the
window's start spawned; in practice its first transaction takes milliseconds and a user
seconds. The constant says whether a behaviour may use that gap. The runs
have TRUE; what FALSE leads to is told under Findings.

### CaptureRebinding and the code

`decide` changes one binding at a time, and bindings share only the default routes and the
shutdown flag. So an input is an operator on one binding, and gives a *decision*: the
binding after it and its effect. Operation ids and stream epochs are allocated together and
compared only within one binding; both are the binding's *generation*, counted per binding.
`StartBinding`, `StopBinding` and the arms of `handle_observation` keep the source's names.
`Resolving`, which no code enters, has no counterpart.

### RebindingPolicy

The policy has no worker of its own, so the specification gives it every caller that
is truthful: `worker` records what has happened to each generation (`issued`,
`started`, `failed`, `told`, `stopped`), and a fact, once true, may be reported at any later
time, in any order, any number of times or never. Retry timers fire in any order. `Start`,
`Stop`, `Shutdown`, `DefaultChanges`, `Removed`, `Added`, `Exited`, `Restarted` are the
inputs of the same names; `tries` counts starts since a success. A worker that was told to
stop reports `stopped` also when it had failed before, as the join result does.

### CaptureSupervisor and the code

State. `bindings`, `workers`, `timers` (sleeping retry timers, counted by id), `joining`
(joiner threads, `pending_joins` of them) and `loop` (selecting, draining, returned) are the
supervisor's. `channel` is the bounded event channel, `watch` the unbounded channel of device
events, `thread` is where each capture thread is, `stop` its stop signal, `sink` what the
frame collector has last been given. The supervisor pins each binding to an endpoint of its
own, so an endpoint names its binding. An event of the channel carries its generation in the
model; only `HandleFrame` reads it, since only a frame record has `capture_epoch`.

| actions | code |
|---|---|
| `Plug` | the notification callbacks of `device_watch.rs` |
| `OpenDevice`, `OpenFails` | `init_and_capture` up to `StreamStarted` |
| `CaptureFrame`, `CaptureFails`, `SessionDisconnected`, `NoticeLoss`, `NoticeStop` | `run_capture_loop` and the session callback |
| `Exit` | the last report of `spawn_capture_thread` |
| `HandleFrame`, `HandleStarted`, `HandleFailure`, `HandleStopped` | `handle_capture_event` |
| `HandleDeviceWatch`, `HandleJoinResult`, `HandleRetryTimer`, `HandleShutdown` | the other arms of `run_until_shutdown` |
| `DrainTimeout` | `drain_pending_joins` giving up after ten seconds |

One turn of the loop is one step, with everything `execute` and `reap_dead_worker` do in
it: no other thread touches the supervisor's state. A thread's blocking `send` is a guard, its
`try_send` is not. A frame dropped on a full channel is a stuttering step. Left out: stall
reports, which are only logged; changes of the default device, which a pinned binding
ignores; failures to create or set a Win32 event, which end the loop with an error.

### LiveTranscription and the code

State. `session`, `events`, `interim`, `counter`, `retryAt`, `attempt`, `gapId` are the loop's locals of
the same meaning (`self_events`, `last_interim`, `ReconnectState`, `open_gap_id`); `status` is the
`TranscriptionStatus` the window shows; `openGaps`, `finalRows` and `sessionRow` are the store's rows.
`sender`, `reader` and `queue` are the provider's session behind the event channel, which may say
anything a real one may: partials, finals, errors of both kinds, the end of either task.

| actions | code |
|---|---|
| `NoProvider`, `ConnectBoth`, `Connects`, `EnterLoop` | the part of `run_live_transcription` before the loop, `start_session_with_timeout` |
| `SendFails` | the send of a chunk or of a keep-alive |
| `RetryFires`, `AttemptStarts`, `Reconnected`, `ReconnectFailed` | the retry and reconnect arms, `attempt_reconnect`, `note_reconnect_failure` |
| `ReadEvent`, `ChannelClosed` | the event arms, `persist_event`, `persist_pending_interim` |
| `AudioEnds`, `FinalizeReturns`, `PublishSessionEnd`, `Returns` | the end of the audio, `finalize_with_timeout`, the loop's condition |

`Disconnect` is `note_disconnect_and_maybe_reconnect` with `open_gap`, `CloseGaps` is
`close_open_gap`. Texts, backoff times and which provider is configured are data.

### RemoteClock and the code

A window of the gate is the unit of audio and of time; its level is a free choice of quiet, between
and loud (both thresholds of the hysteresis). `gate`, `hang`, `pre_roll` are `SilenceGate`'s,
`samples_sent`, `total_injected`, `net_offset`, `checkpoints` are `RemoteGateState`'s and
`TimestampMapper`'s. `sent` says which window the provider got at which position of its clock,
`lost` and `loud` what happened to the audio: they are what the properties compare with.
`handle_chunk` is the whole of it, including a send that fails; `keep_alive`, `Disconnected`,
`apply_reconnect_offset` the other operations; `Skipped` and `WindowLost` are audio that never gets there.

### SttSession and the code

`provider` chooses the adapter, and the four differ where their code does: AssemblyAI cuts frames of a minimum
size from a buffer (`SendBuffered`, `Restore` when the channel is full), the other three send every chunk; OpenAI waits for the answer to a commit of its own (`Commit`, `FlagDraining`, `Answers`), Google
ends by closing its stream. `commands` is the bounded channel to the writer task, `downlink` what the server
has sent. The server (`EndTurn`, `Transcribe`, `Done`, `LinkFails`) is external. One session is one life: a
reconnect makes a new one.

### TranscriptFlow and the code

The producer is `persist_event` cut at its three effects (row, `SegmentUpdated`, `SegmentFinalized`), then
`SessionEnd` and the `stopped` message of `recording::stop`. `log` and `at` are the broker's
subjects and each receiver's place in them: a receiver more than `Capacity` behind lags, and
subscribes anew. A consumer is a task with its subscriptions, its first look at the store and its state
(`snapshot`, `turns`, `plugin`, `timer`). `Publish` without a receiver keeps nothing, as the broker
does. `row` says whether the store accepts rows, which it does not while the session is recorded (see
`no_session_row`); both are checked.

### RecordingControl and the code

A caller is the window or a connection of the control server, with its place `pc` in `start_recording` or
`stop_recording`. `current` is `AppState`'s `recording`, whose mutex is held for one step at a time. `Register` is
`recording::start`, which spawns the capture, `SpawnTasks` the session's tasks; `Take`, `Joined` the two
halves of `stop` around the await. `CaptureEnds` is the capture task, which ends by itself, by the signal,
or because the handle was dropped (`SenderDropped`). `ControlInit`, `ControlNext`, `ControlSpec` and so on are
named apart from `AudioTimeline`'s, since `RecordingProofs` extends both.

### AudioTimeline and the code

Time is counted in ticks, `TicksPerSample` to a sample, so that times fall between samples. `StreamStarted`
and `Frame` are `collect_frames`, `ingest` is `TimelineAligner::ingest` in `align_track`'s loop, `finalize_up_to` the padding.
`segment_pcm` then cuts the output every so many samples, which no property is about. Packets are taken in the order in which they arrive, whatever their times. An output is its length; `placed`
records where each packet went, what was kept of it, and by how much packets overlapped before it.

## Runs

| run | question | instance | result |
|---|---|---|---|
| `sessions` | what may ledger, disk and API say of each other; is anything final taken back; is `SessionDelivery` implemented; do tasks end; is an offline session registered later | 2 sessions, one with a segment of each track and one silent, 2 passes, 1 crash, recordings and commits that fail, uploads rejected for good | 5 invariants, an action property, the refinement and 2 liveness properties hold |
| `rebinding` | one worker per binding, bounded retries, nothing revived, nothing started after shutdown | 1 binding of any selection, 2 endpoints, 2 processes, 4 workers, 2 retries | hold |
| `supervisor` | is the registry right, every thread owned, do frames keep order, is a dead worker noticed, does shutdown end | 1 device, 2 workers, 1 retry, 2 plug events, channel of 2, every fault | hold |
| `orphaned_thread` | is a thread that is reaped dying (windows_supervisor.rs) | 1 device, unplugged and plugged again | violated |
| `live` | one connection and one gap per outage, are losses shown or mended, does it return once the connections are closed | 2 tracks, one of which speaks, every failure | hold |
| `no_session_row` | is every final stored (live_transcription.rs) | the same, with the row as it is while recording | violated |
| `stt_session` | is what was accepted sent once and in order; does finalize return, and is its Ok true | 4 adapters, a channel of 1, frames of 2 chunks, up to 6 chunks | hold |
| `remote_clock` | do transcripts get the time of the audio; is speech sent whole | 7 windows, hangover and pre-roll of 2, 2 outages, 1 lost window | hold |
| `transcript_flow` | is nothing final missed or taken back; does `on_session_end` run once; do tasks end | a channel of 1, 3 segments, 4 updates, three teams of consumers | hold |
| `control` | can a recording run on unreachable; does one stop get it; do its tasks end | the window and 2 connections, 2 recordings | hold |
| `audio_timeline` | is audio where its time puts it, counted from its track's first packet; is it kept | 2 tracks of 3 and 1 packets, 2 intervals, jitter of half samples | holds |
| `hung_stop` | can a connection that says nothing hold up the stop (live_transcription.rs) | as `live` | violated |

`Inv` of a module is its type invariant with the named invariants under it, so that a run says both at once:
`OneOpenGap` and `GapWhileDown` (`LiveTranscription`), `HeardInOrder` (`SttSession`), `StampedByCapture`
(`RemoteClock`), `NothingSkipped` (`TranscriptFlow`), `NoRunaway` and `OneStopEach` (`RecordingControl`, where it is `ControlInv`),
`PlacedByTime`, `LengthMatchesClock` and `KeptWhole` (`AudioTimeline`).

### Bounds and why they suffice

Two sessions let recovery work on one while a pipeline
works on the other, and let one session's failure end the loop over both; sessions share
nothing else, so a third adds no kind of interference, and the second may be silent: what it does to the first
it does by running, failing or being taken by recovery, not by its audio. Segments of a session differ only
in order, so two, one of each track, tell counts from sets and show a first and a last. Two passes show a pass
after a failed one, and the bound reached. Scans that fail are left out, because `NoFileLeftBehind` is
false with them (see Findings); the proofs of the other safety properties include them. One crash puts an interruption at every point; crashes of the recovery
that follows are reached through `Restart` and, with `MaxCrashes` 1, through a crash
during the first recovery. The proofs drop all of these bounds.

Bindings do not interact inside `decide`, so one suffices for the
policy. In the supervisor they share the channel; the two workers one binding can have at
a time, one of them being joined, already fill it for each other. Four workers in
`rebinding` let `RetriesCapped` be exceeded. A channel of two slots is full after two
reports; the code's 256 differs in how long that takes. Here too the proofs drop the bounds.
The supervisor's runs do not check deadlock: when `run_until_shutdown` has returned and
the threads have ended, nothing is left to do.

`live`: the second track never speaks (its texts would only repeat the first's) but connects, fails and
reconnects with it; one utterance can be heard before an outage, be cut by it or come after it; one
queued event is enough to be lost with the old channel; two gap ids, so that one can be left open beside another.
`stt_session`: a channel of one is full in the middle of two frames, which four to six chunks make; four
chunks where the adapter has no buffer. `remote_clock`: seven windows hold a pre-roll, speech, a
hangover and an outage; two outages make the second one's clock start from the first's. `transcript_flow`:
a channel of one lags with the second message, three segments leave one before, in and after a lag; the
three teams are the tasks that share no subject they write to. `control`: two recordings and three callers
let a start meet a start, a stop a stop, and a third caller either. `audio_timeline`: three packets have a gap,
an overlap or a step back and what comes after, and three roundings; the other track, whose packet may be later than
all of them, makes the end of the recording differ from the end of a track. A sample is two ticks, so both intervals,
three and five, are broken numbers of samples; `SmoothPercent` is 40 instead of 5, so that a packet of three samples is
stretched to two without a discontinuity and cut to two with one.

### Fairness

`TasksRun` is weak fairness of each task: a tokio multi-thread runtime polls
every ready task and each await ends, because HTTP calls have timeouts. `TasksEnd`
needs nothing else. `LocalOnlyIsRegistered` holds under two conditions it names: the user stops a recording and
reopens an idle application (`UserActs`), and registration, tried again and again for that
session, succeeds (`RegistrationSucceeds`, strong, since a try ends in either answer). Nothing is assumed of
the other session's calls.

`Fairness` of `CaptureSupervisor` is weak fairness of each channel of the loop (crossbeam's
`select` picks at random among the ready ones) and of the drain's timeout, and strong
fairness of each thread's `Proceed`: to open or fail, to notice a stop or a loss, to report and
end. It is strong because senders blocked on a full channel take turns as slots become free.
Frames, plug events, faults, retry timers and the user's stop are not assumed to happen.

`Scheduling` of `LiveTranscription` is weak fairness of each arm of the loop (`tokio::select!` polls its
branches in random order) and of the tasks that connect and finalize, which have timeouts. `Network`, needed for
`DownIsReconnected`, says that an attempt repeated for ever succeeds. Nothing is assumed of the server's
closing a connection: `ReturnsOnceClosed` has it as its premise, and without it the function may hang (`hung_stop`).
`FairSpec` of `SttSession` is weak fairness of the two tasks, of `finalize` and of the server, which answers unless
the connection is lost. In `TranscriptFlow` every task is scheduled and the stop button is
pressed in the end; in `RecordingControl` a command goes on and a capture that was told to stop ends (its
shutdown is what `ShutdownEnds` says of the supervisor).

## Findings

With a run that shows them:

* **A thread is orphaned** (`orphaned_thread`): after one unplugging and replugging the old
  thread's `DeviceLost` is charged to the new worker, which is joined without being told to
  stop. The source's comment knows of a race of two generation changes; these two are the
  stop and the restart of one replugging. The audio of the orphan is refused (`FramesInOrder`
  holds), but it holds the device, and shutdown waits for it until the drain times out.
* **Live transcripts and gaps are not stored** (`no_session_row`): their rows refer to a sessions row that
  `run_pipeline` creates only after the capture, and with it the transcription, has ended. Every insert is
  refused by the foreign key and only logged. Gap re-transcription has therefore nothing to work on.
* **A silent connection holds up the stop** (`hung_stop`): the loop (`live_transcription.rs:832`) waits for its event
  channels, which the session's reader task holds until the server closes the connection, also after `finalize` timed
  out. What FINALIZE_TIMEOUT is meant to prevent happens all the same, and nothing is stored until the function returns.

Seen while modelling, without a run of their own:

Session lifecycle

* Recovery throws the error of `scan_and_recover` away (`session_lifecycle.rs:114`) and finalizes the session, also without
  a segment that lies complete on the disk. The comment there has in mind a directory that does not exist, which is
  no error of the scan. With `"scan"` in `Faults`, `NoFileLeftBehind` is false.
* When the uploads of a recovered session use up their passes, finalize is refused and `?` (`session_lifecycle.rs:127`)
  leaves the session Failed with its remote id. No later start selects such a session, while `design.md:58` and `:939`
  want unsent segments sent after a restart.
* Segments are committed after the capture ended (`windows_session.rs:130`), so a crash loses the
  whole recording; design.md 3.2 bounds the loss by one segment.
* `run_until_drained` returns Ok at `max_passes`, so `finalize_session` is also sent with uploads
  outstanding; the comment of `recorder-domain/upload.rs:29` excludes that. The API's count check
  keeps such a session from closing short (`FinalizedIsComplete`).
* Recovery takes a session from Failed to Finalized directly; the diagram of design.md 10 goes
  through Finalizing.
* A recording begun before recovery has reconciled may be taken by it: `OneWorkerPerSession`
  is false with `PromptRecovery` FALSE. The comment at `ui.rs:613` says recovery comes before any
  recording, but it is spawned in the background.

Capture

* A default that changes during a start is missed (`rebinding.rs:657`): the comment at line 564 says the start's
  completion reacts to it; that arm does not.
* If the capture thread notices an unplugging before the device watch does, the retries are used up while the
  device is away and its return is ignored (`windows_supervisor.rs:392`; `capture-api/README.md:25` says the binding waits).
* `retry_id` is the attempt number, which starts over after a success (`rebinding.rs:744`): a
  timer that slept through a success starts the worker of a later series early.
* `EndpointAdded` is considered for Waiting bindings only (`rebinding.rs:602`): a device that is
  back before its worker has stopped is waited for although it is there.

Audio timeline

* The tracks are not aligned with each other: a track starts with its first packet (`aligner.rs:97`), so
  segments of one number, and the ends of both tracks, differ by what lies between the first packets. `segmenter.rs:1` and
  `aligner.rs:149` say they do not. A track without a packet is padded from the zero of the host clock, and
  `total_duration_ms` counts from there too.
* The interval of a track's last stream is used for all its packets (`windows_frame_collector.rs:136`), so a change to a
  device with a shorter interval truncates what came before; `capture-windows/src/lib.rs:55` calls it fixed for the
  frames of its own stream. `KeptWhole` excludes that case.
* The output grows by rounded lengths and is never compared with host time again: a period that is no whole
  number of samples (10.1587 ms of a 44.1 kHz device) shifts the track by part of a sample with every packet,
  and a packet that comes early shifts all that follow. `PlacedByTime` bounds it by packets and overlaps.

Live transcription

* A reconnect drops events still queued on the old channel and the interim they would have confirmed.
* The final that a closed channel's interim becomes is stored but not published (`live_transcription.rs:1397`), and `SessionEnd`
  is published before the last finals are read (`:901`).
* A track that does not connect at first is neither retried nor recorded as a gap.
* Audio held in the pre-roll over an outage is stamped with the time after it; audio that was lost makes later
  stamps early by its length. `StampedByCapture` says exactly this much.
* OpenAI's `finalize` may return for the transcript of a turn other than its own commit's (`stt-openai/src/lib.rs:382`).

Transcript events

* `segment_id_for` and `segment_id_for_segment` never name a segment alike, so after a lag or a late start
  the summary counts turns twice; `aggregator.rs` promises "without double-counting".
* The window, after a lag, goes on with only the new segments and may show interim rows as text. The plugin's task does not
  reload after a lag. Every revision is 0, which the validator reports as not monotonic.
* The summary's task and the default plugin both save a summary.
* `publish` removes a subject it found without receivers while a subscriber may be joining it (`local-broker/src/lib.rs:81`);
  no order of the application's own subscriptions was found that meets it.

Recording control

* Two starts at once both pass the check of `current` (`actions.rs:28`); the second drops the first's handle
  (`recording.rs:124`), whose capture then ends, but its result is told to nobody and its `stopped` message is never
  published. The tasks of the window listen to nothing else; those of the summary and the plugins also end by
  `SessionEnd`, which the live transcription publishes where a provider is configured. `TasksEnd` speaks of recordings
  that a stop has taken.
* Of two starts at once the first may find the second's recording as `current` and give its own window task that recording's
  transcript buffer (`actions.rs:45`).
* A stop that overtakes the spawning of the session's tasks leaves them waiting; the property excludes it.
* A start is possible while the stop before it still finalizes; that stop's error is then shown as the new recording's.
* Quit in the tray is `process::exit(0)` (`ui.rs:311`) and loses a recording that is going on.

Gap re-transcription

* Rows are inserted one by one and the gap is discarded last, so a failure in between makes a retry insert them
  again; the source's comment knows this for the last step. The window forgets that a request is running when the
  selection changes (`ui.rs:606`), so a gap can be sent twice.

## Proofs

### Session lifecycle

`SessionLifecycleProofs` is for every finite set of sessions, every set of tracks, every
bound and every set of faults. The assumptions are those on the constants
(`SessionsAssumption`, `BoundsAssumption`, `FaultsAssumption`, `NoSegmentAssumption`),
which TLC evaluates in every run.

* `TypeCorrect`: `Spec => []TypeOK`. `TypeOK` is not inductive: that a pass count stays
  at most `MaxPasses` follows from where a worker is (`PassesBounded`), that the files and
  rows a worker touches exist from `SegmentInHand` and `SessionInHand`.
* `RowsHaveFiles`: `Spec => []LedgerHasFiles`, with two facts about segments in hand: what
  is not committed yet has neither file nor row (`FreshSegments`), and a segment whose row is
  being inserted was renamed (`RenamedFirst`).
* `OneWorker`: `PromptRecovery => (Spec => []OneWorkerPerSession)`. Recovery holds only
  Failed sessions (`RecoveryHasFailed`), a live pipeline's session is neither Failed nor
  Finalized (`LiveIsNotFailed`), and no pipeline is live while recovery has yet to reconcile
  (`RecoveryIsFirst`). Without the assumption it is false.
* `Complete`: `PromptRecovery => (Spec => []FinalizedIsComplete)`. The API compares a count;
  the proof needs that it holds nothing outside the ledger (`ReceiptChain`: completed => received => sent => has a
  row, with `UploadsHaveRows` for the segments a worker is about to send), that the count is
  still current when the answer comes (`CountIsCurrent`), which `OneWorker` gives, and that a
  finite set has no proper subset of its size.
* `FinalIsFinal`: `PromptRecovery => (Spec => FinalizedStays)`.
* `Implements`: `PromptRecovery => (Spec => DeliverySpec)`, step by step: `RegisterSegment`
  and the scans are `Commit`, the first storing of a segment is `Deliver`,
  `FinalizeAccepted` is `Close`, everything else stutters.
* `NothingLeftBehind`: `PromptRecovery /\ "scan" \notin Faults => (Spec => []NoFileLeftBehind)`.
  `OrphansFound` says where a committed file without a row can be: in the hands of the pipeline
  that is registering it, or in a session that recovery has not scanned yet, and then the session is not
  finalized. A scan that fails is ignored by its caller, so without the second assumption it is false (see Findings).

The frame lemmas (`RowsChange`, `ReceivedChanges`, `FinalizedChanges`, `ServerFinalizedGrows`,
`CallChanges`, `UploadsOfWorker`) say once which actions can change the state the last three
theorems are about.

### Capture rebinding

`RebindingPolicyProofs` is for any set of bindings and selections, any endpoints, processes
and routes, any number of retries and workers; the assumptions are `TargetsAssumption`,
`AttemptsAssumption` and `KindsAssumption`. The invariant `Good` is about one binding and the
history of its workers. `Tracked`: a live worker is the one the lifecycle names, generations
not yet given out have no history, a worker told to stop is neither starting nor
running. `Counted`: `retry_attempt` bounds the starts since a success. `Kept`: only a process
loopback captures a process, which types the change of a pid. A lemma per input shows that its
decision is `Sound`: it keeps `Good`, admits no worker told to stop, starts nothing after
shutdown. `Executing` carries that over to all bindings. From it: `TypeCorrect`,
`OneWorkerAlive`, `Capped`, `Forward`, `ShutdownIsFinal`.

### Capture supervisor

`CaptureSupervisorProofs` is for any endpoints, channel, faults and numbers of workers and
retries, under `SupervisorAssumption` and the two above. `RegistryMatches` is not
inductive: a start needs that no handle is registered, a stop that one is. `Fits` adds that a
lifecycle is about the newest generation; `Spawned`, that a generation has a thread when it
has been given out, so that a start takes no thread's place; `Frames`, that the last frame
admitted is no newer than the newest generation. `Outcome` says what a decision may ask
of the supervisor, `Executing` that the supervisor then keeps the invariant, `Threading` and
`Quiet` treat the steps of threads and the steps that concern no worker. From it:
`TypeCorrect`, `RegistryIsRight`, `ThreadsAreOwned`, `NothingOverwritten`, `FramesKeepOrder`.

### Recording control

The second part of `RecordingProofs` is for any finite set of sessions and any set of control connections beside the window
(`ControlAssumption`). `ControlInv` is inductive with `Started` beside it: whatever a caller holds and whatever is current
is a capture that was started. One lemma per step of a command shows that it keeps both. From it: `NoneOutOfReach`
(`ControlSpec => []ControlInv`).

### Live transcription

`LiveTranscriptionProofs` is for any finite set of tracks, any numbers of utterances and gaps and any event channel.
The three invariants are stated for one track and strengthened by `Fresh` (before the loop a track has nothing but
its first attempt), `FailureShown` (an attempt that failed has said so) and `AudioOpen` (where the loop is while the
audio is open). Since tracks share no state but the loop's, a step is shown to keep `Good(t)` of its own track, and
to leave the others alone. From it: `OneGapPerOutage` (`Spec => []Inv`), `OneConnectionEach`
(`Spec => []OneConnection`), `NotGivenUpInSilence` (`Spec => []GivenUpIsShown`).

### Remote clock

`RemoteClockProofs` is for recordings of any length, any pre-roll and hangover and any number of outages
(`WindowsAssumption`). `StampedByCapture` looks at the mapper's set of checkpoints; `OffsetAt` says which offset they
give a position, and `RecordedCheckpoint` what a new one changes. The invariant: `Clock`, the provider's position, the offset
and what is held back add up to the time of the recording; `Checked`, the checkpoints give every window of this
session its stamp and whatever is sent next the current offset; `HeldBack`, the pre-roll lies gapless, but for losses,
before the present window; `Handled`, every window of this session is sent, lost, held back or older than a
pre-roll; `Past`, all of it was captured before now.
From it: `StampsAreRight` (`Spec => []Inv`) and `NoOnsetClipped` (`Spec => []SpeechIsSent`).

### Speech-to-text sessions

`SttSessionProofs` is for any set of the four adapters, any frame sizes, any capacity of the command channel and any
amount of audio (`ProvidersAssumption`, `FrameAssumption`). That the server hears a prefix of what was accepted says
nothing of the audio still under way, so the invariant says where all of it is: `Laid(begin, commands, pending,
accepted)` gives *cuts* such that each queued command carries what lies between two of them and `pending` what lies
behind the last. `LaidGrows`, `LaidFrames` (several frames leave the buffer at once, also when only some fit into the
channel), `LaidWrites` and `LaidAll` say what a chunk, a flush, a send and an empty queue do to the cuts.
`NothingLost` states it while the connection works and, later, once the end of the audio has been sent.

`CompleteWhenOk` needs the order of the ends: the command that ends the audio is the last (`CloseIsLast`), nothing is queued
once it was sent (`EndIsLast`), the server's "done" is its last word and follows its last transcript (`DoneIsLast`); and
it needs to know where each chunk is that the server heard: in the buffer of the server, in a turn at work, in a result on its way or
settled (`AllTraced`). `DrainedOk` puts them together at the moment the reader signals; `TailIsShort` is `finalize`'s part.
From it: `ArrivesInOrder` (`Spec => []Inv`) and `OkIsComplete` (`Spec => []CompleteWhenOk`). What OpenAI's Ok means is weaker:
everything accepted has been heard, but not that every turn has its result (see Findings).

### Audio timeline

The first part of `RecordingProofs` is for any finite set of tracks, any packets, intervals and resolution of the clock
(`TracksAssumption`, `UnitsAssumption`, `PacketsAssumption`, `BoundAssumption`). Lemmas bound what a conversion adds:
`RoundingError`, `SilenceError` (half a sample each). `TrackOK`, which
relates a track's packets, length and clock, is kept by the placing of a packet (`PlacingKeeps`), by which errors add
up sample by sample, and by the padding at the end (`PaddingKeeps`). From it: `TimelineIsRight` (`Spec => []Inv`).
It is a statement about each track for itself, counted from the track's first packet; of two tracks together the code
promises more than it keeps (see Findings). `KeptWhole` follows from what `Kept` returns and from the interval being fixed
once the capture is over.

### Transcript flow

`TranscriptFlowProofs` is for any set of teams, any capacity of the channels and any number of segments
(`FlowAssumption`). `Load` numbers the rows by counting smaller ones: `EveryRank` shows that this misses none, `LoadHasAll` that
a load has every final row. The invariant: `Stored`, what is published as finalized, or about to be, is in the store;
`Ordered`, in the log of updates ids never decrease and grow behind a final; `Shown`, what the window shows as final
it has received as final. The producer only appends (`Published`, `ProducerSide`); a task moves no other task and no
position backwards (`ConsumerSide`). From it: `NoneMissing` (`Spec => []Inv`), `FinalNotTakenBack`
(`Spec => FinalStays`), `HookRunsOnce` (`Spec => []SessionEndsOnce`).

### Left to TLC

Every invariant and every action property of the passing runs is proved. Only model-checked are the liveness properties
(`TasksEnd`, `LocalOnlyIsRegistered`, `DeadWorkerNoticed`, `ShutdownEnds`, `DownIsReconnected`, `ReturnsOnceClosed`,
`FinalizeResolves`), which are out of the prover's reach with fairness. `NothingOverwritten` is proved of a property that no run
repeats, since `RegistryMatches` already fails when a handle is overwritten.

## Not modelled

* macOS capture supervisor and backend: the same policy with one stream for two bindings; planned.
* Upload client: a sequential retry loop with one refresh of its token. A call is one step of `SessionLifecycle`.
* Gap re-transcription: a sequential call on rows that do not come to exist, see Findings.
* Validator of transcript events: its verdict is only logged.
* Hot reload of plugins, manual summaries, the script language; summaries themselves.
* Local whisper: a blocking worker over a buffer of samples; planned.
* Capture backends below the capture loop, resampling, Opus, JSON and protobuf: calls of the system, and data.
* Screens, settings, credentials and exports: presentation, and single reads and writes of the system's stores.
* Spikes: experiments that the application does not use.

## Plan

Done: `SessionLifecycle` with `SessionDelivery`, `CaptureRebinding`, `RebindingPolicy`, `CaptureSupervisor`,
`LiveTranscription`, `RemoteClock`, `SttSession`, `TranscriptFlow`, `RecordingControl`, `AudioTimeline`. Next, in this order:

1. `UploadClient`: `send_with_retry` with its token cache and backoff against an
   idempotent API; attempts and refreshes are bounded.
2. The macOS supervisor, whose two bindings share one stream.
3. `SegmentStore`: commit and scan at the granularity of fsync and power loss.
4. `ChunkBuffer` of local whisper, and the dispatcher of the plugins.

Not planned, with the reason, in `PROJECT.json`: the macOS capture backend, the wire
formats of the providers, the calls of summaries, screens and settings, credentials, and the spikes.
