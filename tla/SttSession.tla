----------------------------- MODULE SttSession -----------------------------
(***************************************************************************)
(* One session of a speech-to-text provider (the SttSession of stt-api) as *)
(* its four adapters build it: the caller queues commands on a bounded     *)
(* channel, a writer task sends them, a reader task turns what the server  *)
(* says into events, and finalize waits for the reader's "drained" signal. *)
(*                                                                         *)
(* A chunk of audio is its number.  The server gathers what it hears into  *)
(* turns, sets of chunks, and transcribes them; events carry the turn.     *)
(***************************************************************************)
EXTENDS Naturals, Sequences, FiniteSets, SequencesExt

CONSTANTS
    Providers,  \* the adapters of this instance
    Target,     \* chunks of a full frame (assemblyai TARGET_CHUNK_MS)
    Minimum,    \* chunks of the shortest frame (assemblyai MIN_CHUNK_MS)
    Capacity,   \* of the command channel
    MaxChunks   \* chunks the caller sends, of each adapter (bound)

ASSUME ProvidersAssumption ==
    Providers \subseteq {"deepgram", "assemblyai", "google", "openai"} /\ Providers # {}
ASSUME FrameAssumption ==
    /\ Target \in Nat \ {0} /\ Minimum \in 1..Target
    /\ Capacity \in Nat \ {0} /\ MaxChunks \in [Providers -> Nat]

VARIABLES
    provider,   \* the adapter of this session
    caller,     \* what the owner of the session is doing
    chunks,     \* number of chunks offered to send_audio
    accepted,   \* Seq of the chunks send_audio took
    pending,    \* Seq of chunks waiting to fill a frame (assemblyai)
    commands,   \* Seq(Command) the channel to the writer task
    writer,     \* the writer task, or the outbound stream, runs
    draining,   \* the AtomicBool of openai: its commit is being sent
    link,       \* the connection works
    heard,      \* Seq of the chunks the server got
    buffer,     \* chunks of no turn yet
    working,    \* Seq of turns being transcribed
    closing,    \* the server saw the end of the audio
    downlink,   \* Seq(Message) from the server
    reader,     \* the reader task runs
    expected,   \* expected_item_id of openai's reader, {} for None
    drained,    \* what the oneshot to finalize holds
    settled     \* chunks whose transcript, or failure, is in the events channel

sessionVars == <<provider, caller, chunks, accepted, pending>>
serverVars == <<heard, buffer, working, closing>>
readerVars == <<reader, expected, drained, settled>>
vars == <<sessionVars, commands, writer, draining, link, serverVars, downlink, readerVars>>

Chunk == UNION {1..MaxChunks[p] : p \in Providers}
Turns == SUBSET Chunk
Audio(frame) == [kind |-> "audio", of |-> frame]
Control == [kind |-> "control", of |-> <<>>]
Close == [kind |-> "close", of |-> <<>>]
Command == [kind : {"audio", "control", "close"}, of : Seq(Chunk)]
Message == [kind : {"committed", "completed", "failed", "error", "done"}, of : Turns]
Say(k, turn) == [kind |-> k, of |-> turn]
Callers == {"sending", "flushing", "closing", "waiting", "ok", "error", "dropped"}

Init ==
    /\ provider \in Providers
    /\ caller = "sending" /\ chunks = 0 /\ accepted = <<>> /\ pending = <<>>
    /\ commands = <<>> /\ writer = TRUE /\ draining = FALSE /\ link = TRUE
    /\ heard = <<>> /\ buffer = {} /\ working = <<>> /\ closing = FALSE
    /\ downlink = <<>>
    /\ reader = TRUE /\ expected = {} /\ drained = "none" /\ settled = {}

----------------------------------------------------------------------------
(* The caller: try_send while recording, send and wait in finalize.        *)

Room == Capacity - Len(commands)
Queue(cmds) == commands' = commands \o cmds

\* The adapters that send every chunk as it comes.  A keep-alive of silent
\* audio (google, openai) is a chunk like any other.
SendChunk ==
    /\ caller = "sending" /\ provider # "assemblyai" /\ chunks < MaxChunks[provider]
    /\ chunks' = chunks + 1
    /\ IF writer /\ Room > 0
       THEN Queue(<<Audio(<<chunks + 1>>)>>) /\ accepted' = Append(accepted, chunks + 1)
       ELSE UNCHANGED <<commands, accepted>>
    /\ UNCHANGED <<provider, caller, pending, writer, draining, link, serverVars, downlink, readerVars>>

\* Mistake: the frame that did not fit is dropped.
FrameLost(audio, n) == SubSeq(audio, (n + 1) * Target + 1, Len(audio))

\* What is left for the next call after n frames were queued.
Restore(audio, n) == SubSeq(audio, n * Target + 1, Len(audio))

\* Full frames are queued until the channel is full; the rest stays pending.
\* When the writer task has ended the first frame is gone with the error.
SendBuffered ==
    LET audio == Append(pending, chunks + 1)
        full == Len(audio) \div Target
        n == IF full <= Room THEN full ELSE Room
        frame(i) == SubSeq(audio, (i - 1) * Target + 1, i * Target)
    IN  /\ caller = "sending" /\ provider = "assemblyai" /\ chunks < MaxChunks[provider]
        /\ chunks' = chunks + 1
        /\ IF writer \/ full = 0
           THEN /\ accepted' = Append(accepted, chunks + 1)
                /\ Queue([i \in 1..n |-> Audio(frame(i))])
                /\ pending' = IF n < full THEN Restore(audio, n) ELSE SubSeq(audio, full * Target + 1, Len(audio))
           ELSE pending' = SubSeq(audio, Target + 1, Len(audio)) /\ UNCHANGED <<accepted, commands>>
        /\ UNCHANGED <<provider, caller, writer, draining, link, serverVars, downlink, readerVars>>

\* Deepgram's KeepAlive frame; assemblyai has none.
KeepAlive ==
    /\ caller = "sending" /\ provider = "deepgram" /\ writer /\ Room > 0
    /\ Queue(<<Control>>)
    /\ UNCHANGED <<sessionVars, writer, draining, link, serverVars, downlink, readerVars>>

Becomes(c) ==
    /\ caller' = c
    /\ UNCHANGED <<provider, chunks, accepted, writer, draining, link, serverVars, downlink, readerVars>>

\* finalize: assemblyai first flushes a tail that is long enough.
Finalize ==
    /\ caller = "sending"
    /\ Becomes(IF provider = "assemblyai" /\ Len(pending) >= Minimum THEN "flushing" ELSE "closing")
    /\ UNCHANGED <<pending, commands>>

FlushTail ==
    /\ caller = "flushing" /\ writer /\ Room > 0
    /\ Queue(<<Audio(pending)>>) /\ pending' = <<>>
    /\ Becomes("closing")

QueueClose ==
    /\ caller = "closing" /\ writer /\ Room > 0
    /\ Queue(<<Close>>)
    /\ Becomes("waiting") /\ UNCHANGED pending

SessionClosed ==
    /\ caller \in {"flushing", "closing"} /\ ~writer
    /\ Becomes("error") /\ UNCHANGED <<pending, commands>>

FinalizeReturns ==
    /\ caller = "waiting" /\ drained # "none"
    /\ Becomes(drained) /\ UNCHANGED <<pending, commands>>

\* The live transcription drops a session whose send_audio failed, and one
\* whose finalize takes longer than FINALIZE_TIMEOUT.
Drop ==
    /\ caller \in {"sending", "flushing", "closing", "waiting"}
    /\ Becomes("dropped") /\ UNCHANGED <<pending, commands>>

----------------------------------------------------------------------------
(* The writer task.                                                        *)

Leave == caller \in {"ok", "error", "dropped"}

\* openai sets the flag before it sends its commit.
FlagDraining(cmd) == draining' = (draining \/ (provider = "openai" /\ cmd.kind = "close"))

Hear(frame) ==
    /\ heard' = heard \o frame
    /\ buffer' = buffer \cup ToSet(frame)
    /\ UNCHANGED <<working, closing, downlink>>

\* CloseStream, Terminate, the half-close of a gRPC stream.
EndOfAudio == closing' = TRUE /\ UNCHANGED <<heard, buffer, working, downlink>>

\* input_audio_buffer.commit: a turn of what is there, or an error.
Commit ==
    /\ downlink' = Append(downlink, IF buffer = {} THEN Say("error", {}) ELSE Say("committed", buffer))
    /\ working' = IF buffer = {} THEN working ELSE Append(working, buffer)
    /\ buffer' = {}
    /\ UNCHANGED <<heard, closing>>

Write ==
    LET cmd == Head(commands)
    IN  /\ writer /\ link /\ commands # <<>>
        /\ commands' = Tail(commands)
        /\ FlagDraining(cmd)
        /\ CASE cmd.kind = "audio" -> Hear(cmd.of)
             [] cmd.kind = "close" /\ provider = "openai" -> Commit
             [] cmd.kind = "close" /\ provider # "openai" -> EndOfAudio
             [] OTHER -> UNCHANGED <<serverVars, downlink>>
        /\ writer' = ~(provider = "google" /\ cmd.kind = "close")
        /\ UNCHANGED <<sessionVars, link, readerVars>>

\* On a broken connection a command vanishes, or its error ends the task.
WriteFails ==
    /\ writer /\ ~link
    /\ \/ writer' = FALSE /\ commands' = <<>>
       \/ commands # <<>> /\ commands' = Tail(commands) /\ UNCHANGED writer
    /\ UNCHANGED <<sessionVars, draining, link, serverVars, downlink, readerVars>>

\* The channel is closed and empty.  Only google's stream tells the server.
WriterEnds ==
    /\ writer /\ link /\ commands = <<>> /\ Leave
    /\ writer' = FALSE
    /\ closing' = (closing \/ provider = "google")
    /\ UNCHANGED <<sessionVars, commands, draining, link, heard, buffer, working, downlink, readerVars>>

----------------------------------------------------------------------------
(* The server.                                                             *)

\* Its voice activity detection ends a turn.
EndTurn ==
    /\ link /\ buffer # {}
    /\ working' = Append(working, buffer)
    /\ buffer' = {}
    /\ downlink' = IF provider = "openai" THEN Append(downlink, Say("committed", buffer)) ELSE downlink
    /\ UNCHANGED <<sessionVars, commands, writer, draining, link, heard, closing, readerVars>>

\* openai transcribes turns apart from each other, the others in order.
Transcribe(i, k) ==
    /\ link /\ i \in DOMAIN working
    /\ i = 1 \/ provider = "openai"
    /\ k = "completed" \/ provider = "openai"
    /\ downlink' = Append(downlink, Say(k, working[i]))
    /\ working' = RemoveAt(working, i)
    /\ UNCHANGED <<sessionVars, commands, writer, draining, link, heard, buffer, closing, readerVars>>

\* Metadata, Termination, the end of the gRPC stream: after the last transcript.
Done ==
    /\ link /\ closing /\ buffer = {} /\ working = <<>>
    /\ ~\E i \in DOMAIN downlink : downlink[i].kind = "done"
    /\ reader
    /\ downlink' = Append(downlink, Say("done", {}))
    /\ UNCHANGED <<sessionVars, commands, writer, draining, link, serverVars, readerVars>>

LinkFails ==
    /\ link /\ reader
    /\ link' = FALSE
    /\ UNCHANGED <<sessionVars, commands, writer, draining, serverVars, downlink, readerVars>>

----------------------------------------------------------------------------
(* The reader task.                                                        *)

\* Mistake: an error is never the answer to a commit.
OnlyItsTurn(m) == provider = "openai" /\ m.kind \in {"completed", "failed"} /\ draining /\ expected = m.of

\* openai: the turn that was expected has its result, or the commit was refused.
Answers(m) ==
    /\ provider = "openai" /\ draining
    /\ \/ m.kind \in {"completed", "failed"} /\ expected = m.of
       \/ m.kind = "error" /\ expected = {}

\* Mistake: the signal does not wait for the transcripts under way.
AnyTranscript(m) == m.kind \in {"completed", "done"}

Drained(m) == m.kind = "done" \/ Answers(m)

Read ==
    LET m == Head(downlink)
    IN  /\ reader /\ downlink # <<>>
        /\ downlink' = Tail(downlink)
        /\ settled' = IF m.kind \in {"completed", "failed"} THEN settled \cup m.of ELSE settled
        /\ expected' = IF m.kind = "committed" /\ draining THEN m.of ELSE expected
        /\ drained' = IF Drained(m) THEN "ok" ELSE drained
        /\ reader' = ~Drained(m)
        /\ UNCHANGED <<sessionVars, commands, writer, draining, link, serverVars>>

\* The connection ended before the signal.
ReadFails ==
    /\ reader /\ ~link /\ downlink = <<>>
    /\ reader' = FALSE
    /\ drained' = "error"
    /\ UNCHANGED <<sessionVars, commands, writer, draining, link, serverVars, downlink, expected, settled>>

Ended == Leave /\ ~writer /\ UNCHANGED vars

Server == EndTurn \/ Done \/ \E i \in DOMAIN working, k \in {"completed", "failed"} : Transcribe(i, k)

Next ==
    \/ SendChunk \/ SendBuffered \/ KeepAlive
    \/ Finalize \/ FlushTail \/ QueueClose \/ SessionClosed \/ FinalizeReturns \/ Drop
    \/ Write \/ WriteFails \/ WriterEnds
    \/ Server \/ LinkFails
    \/ Read \/ ReadFails \/ Ended

Spec == Init /\ [][Next]_vars

\* The tasks are scheduled and the server answers, or the connection is lost.
FairSpec ==
    /\ Spec
    /\ WF_vars(FlushTail) /\ WF_vars(QueueClose) /\ WF_vars(SessionClosed) /\ WF_vars(FinalizeReturns)
    /\ WF_vars(Write) /\ WF_vars(WriteFails) /\ WF_vars(Read) /\ WF_vars(ReadFails)
    /\ WF_vars(Server)
----------------------------------------------------------------------------
TypeOK ==
    /\ provider \in Providers /\ caller \in Callers
    /\ chunks \in 0..MaxChunks[provider] /\ accepted \in Seq(Chunk) /\ pending \in Seq(Chunk)
    /\ commands \in Seq(Command) /\ Len(commands) <= Capacity
    /\ {writer, draining, link, closing, reader} \subseteq BOOLEAN
    /\ heard \in Seq(Chunk) /\ working \in Seq(Turns)
    /\ {buffer, expected, settled} \subseteq Turns
    /\ downlink \in Seq(Message) /\ drained \in {"none", "ok", "error"}

\* Every chunk send_audio accepted reaches the server in its place, once,
\* unless the connection breaks: also the frame that found the channel full.
HeardInOrder == IsPrefix(heard, accepted)

Inv == TypeOK /\ HeardInOrder

\* finalize returns Ok only when the server has heard every chunk accepted, but for
\* a tail too short for a frame, and when each has its transcript.  (openai's may
\* return for a turn that is not the one its commit made.)
CompleteWhenOk ==
    caller = "ok" =>
       /\ accepted = heard \o pending
       /\ Len(pending) < Minimum
       /\ provider # "openai" => ToSet(heard) \subseteq settled

\* finalize returns when the server answers or the connection is lost.
FinalizeResolves == caller \in {"flushing", "closing", "waiting"} ~> Leave
=============================================================================
