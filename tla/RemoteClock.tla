----------------------------- MODULE RemoteClock ----------------------------
(***************************************************************************)
(* Which audio of the remote track is sent to the speech-to-text provider, *)
(* and how the provider's own clock is mapped back to the recording's:     *)
(* SilenceGate, TimestampMapper and the accounting of RemoteGateState.     *)
(*                                                                         *)
(* The unit of audio and of time is one window of the gate; a chunk from   *)
(* the capture side is one window.  A window is named by the time it was   *)
(* captured, so the windows 0..now-1 exist, and `sent` remembers which of  *)
(* them is at which position of the current session's audio.  Reading the  *)
(* mapper changes nothing, so it has no action: the invariants speak of    *)
(* every answer it could give.                                             *)
(***************************************************************************)
EXTENDS Integers, Sequences, FiniteSets, Functions, SequencesExt

CONSTANTS
    Hangover,       \* GateConfig::hangover_ms, in windows
    PreRoll,        \* GateConfig::pre_roll_ms, in windows
    Duration,       \* windows of the recording (bound)
    MaxHeartbeats,  \* keep-alives that inject audio, of each session (bound)
    MaxOutages,     \* disconnections (bound)
    MaxLost         \* windows that never reach the track's loop (bound)

ASSUME WindowsAssumption ==
    {Hangover, PreRoll, Duration, MaxHeartbeats, MaxOutages, MaxLost} \subseteq Nat

VARIABLES
    now,              \* windows captured so far
    gate,             \* State of SilenceGate
    hang,             \* windows since the hangover began
    pre_roll,         \* Seq of the windows held back
    session,          \* "up", "down" while reconnecting, "gone" after giving up
    samples_sent,     \* of this session, through send_audio
    total_injected,   \* of this session, through keep_alive
    net_offset,       \* windows dropped less windows injected
    checkpoints,      \* of TimestampMapper: a set of [at, offset]
    disconnected_at,  \* when this outage began
    connected_at,     \* when this session began
    sent,             \* position of this session's audio -> window
    lost,             \* windows that were captured and not handed over
    loud,             \* windows of speech handled and not failed
    outages           \* number of disconnections

gateVars == <<gate, hang, pre_roll>>
clockVars == <<samples_sent, total_injected, net_offset, checkpoints>>
vars == <<now, gateVars, session, clockVars, disconnected_at, connected_at, sent, lost, loud, outages>>

Checkpoint(p, o) == [at |-> p, offset |-> o]

Init ==
    /\ now = 0 /\ gate = "silent" /\ hang = 0 /\ pre_roll = <<>>
    /\ session = "up" /\ samples_sent = 0 /\ total_injected = 0 /\ net_offset = 0
    /\ checkpoints = {} /\ disconnected_at = 0 /\ connected_at = 0
    /\ sent = <<>> /\ lost = {} /\ loud = {} /\ outages = 0

----------------------------------------------------------------------------
(* TimestampMapper.                                                        *)

\* A later checkpoint at the same position replaces the earlier one.
record_checkpoint(p, o) == {c \in checkpoints : c.at # p} \cup {Checkpoint(p, o)}

\* The last checkpoint at or before a position says how far off it is.
to_wallclock(p) ==
    LET before == {c \in checkpoints : c.at <= p}
        last == CHOOSE c \in before : \A d \in before : d.at <= c.at
        time == IF before = {} THEN p ELSE p + last.offset
    IN  IF time < 0 THEN 0 ELSE time

----------------------------------------------------------------------------
(* SilenceGate.                                                            *)

Levels == {"loud", "medium", "quiet"}  \* against the two RMS thresholds

next_state(level) ==
    CASE gate = "speaking" -> IF level = "quiet" THEN "hangover" ELSE "speaking"
      [] gate = "hangover" /\ level # "loud" /\ hang + 1 >= Hangover -> "silent"
      [] gate = "hangover" /\ level # "loud" /\ hang + 1 < Hangover -> "hangover"
      [] gate = "silent" /\ level # "loud" -> "silent"
      [] OTHER -> "speaking"

push_pre_roll(w) ==
    IF PreRoll = 0 THEN <<>>
    ELSE IF Len(pre_roll) = PreRoll THEN Append(Tail(pre_roll), w)
    ELSE Append(pre_roll, w)

\* Mistake: what was held back is forgotten when speech sets in.
OnsetClipped(w) == <<w>>

\* What is sent when speech sets in: what was held back, then the window.
Stitched(w) == pre_roll \o <<w>>

\* Windows dropped for good when one more is held back.
Evicted == IF Len(pre_roll) = PreRoll THEN 1 ELSE 0

----------------------------------------------------------------------------
(* RemoteGateState.                                                        *)

\* How far the provider's own clock has come.
Position == samples_sent + total_injected

\* note_disconnect: a retryable error arms a reconnect, another one gives up.
Disconnects(at) ==
    /\ outages < MaxOutages
    /\ outages' = outages + 1
    /\ \/ session' = "down" /\ disconnected_at' = at
       \/ session' = "gone" /\ disconnected_at' = 0

Connected == UNCHANGED <<session, disconnected_at, outages>>

\* send_gated: a chunk whose send failed has moved the counters all the same.
SendGated(windows) ==
    /\ samples_sent' = samples_sent + Len(windows)
    /\ checkpoints' = record_checkpoint(Position + Len(windows), net_offset)
    /\ \/ /\ sent' = [p \in DOMAIN sent \cup Position..(Position + Len(windows) - 1) |->
                        IF p < Position THEN sent[p] ELSE windows[p - Position + 1]]
          /\ Connected
       \/ UNCHANGED sent /\ Disconnects(now + 1)
    /\ UNCHANGED <<total_injected, net_offset>>

record_drop(n) ==
    /\ net_offset' = net_offset + n
    /\ checkpoints' = IF n = 0 THEN checkpoints ELSE record_checkpoint(Position, net_offset + n)
    /\ Connected /\ UNCHANGED <<samples_sent, total_injected, sent>>

handle_chunk(level) ==
    LET next == next_state(level)
    IN  /\ session = "up" /\ now < Duration
        /\ now' = now + 1
        /\ gate' = next
        /\ hang' = IF gate = "hangover" /\ next = "hangover" THEN hang + 1 ELSE 0
        /\ \/ next = "silent" /\ pre_roll' = push_pre_roll(now) /\ record_drop(Evicted)
           \/ next # "silent" /\ gate = "silent" /\ pre_roll' = <<>> /\ SendGated(Stitched(now))
           \/ next # "silent" /\ gate # "silent" /\ UNCHANGED pre_roll /\ SendGated(<<now>>)
        /\ loud' = IF level = "loud" /\ session' = "up" THEN loud \cup {now} ELSE loud
        /\ UNCHANGED <<connected_at, lost>>

\* Nothing was sent for a while (also because nothing was captured).
keep_alive ==
    /\ session = "up" /\ total_injected < MaxHeartbeats
    /\ \/ /\ net_offset' = net_offset - 1
          /\ total_injected' = total_injected + 1
          /\ checkpoints' = record_checkpoint(Position + 1, net_offset - 1)
          /\ Connected
       \/ Disconnects(now) /\ UNCHANGED <<net_offset, total_injected, checkpoints>>
    /\ UNCHANGED <<now, gateVars, samples_sent, connected_at, sent, lost, loud>>

\* The provider reports an error or closes the channel.
Disconnected ==
    /\ session = "up"
    /\ Disconnects(now)
    /\ UNCHANGED <<now, gateVars, clockVars, connected_at, sent, lost, loud>>

\* A window captured without a session goes no further.
Skipped ==
    /\ session # "up" /\ now < Duration
    /\ now' = now + 1
    /\ UNCHANGED <<gateVars, session, clockVars, disconnected_at, connected_at, sent, lost, loud, outages>>

\* The channel from the capture side was full (the sessions were still being
\* opened), or the device was away and there was nothing to capture.
WindowLost ==
    /\ session = "up" /\ now < Duration /\ Cardinality(lost) < MaxLost
    /\ now' = now + 1
    /\ lost' = lost \cup {now}
    /\ UNCHANGED <<gateVars, session, clockVars, disconnected_at, connected_at, sent, loud, outages>>

\* Mistake: the counters were reset before they were read.
AfterReset == net_offset + (now - disconnected_at)

\* Where the new session's clock starts, by the old one's and the outage.
CarryOver == Position + net_offset + (now - disconnected_at)

apply_reconnect_offset ==
    /\ session = "down"
    /\ session' = "up"
    /\ net_offset' = CarryOver
    /\ checkpoints' = {Checkpoint(0, CarryOver)}
    /\ samples_sent' = 0 /\ total_injected' = 0
    /\ disconnected_at' = 0 /\ connected_at' = now
    /\ sent' = <<>>
    /\ UNCHANGED <<now, gateVars, lost, loud, outages>>

Ended == now = Duration /\ UNCHANGED vars

Next ==
    \/ \E level \in Levels : handle_chunk(level)
    \/ keep_alive \/ Disconnected \/ Skipped \/ WindowLost \/ apply_reconnect_offset \/ Ended

Spec == Init /\ [][Next]_vars
----------------------------------------------------------------------------
TypeOK ==
    /\ now \in 0..Duration
    /\ gate \in {"speaking", "hangover", "silent"} /\ hang \in Nat
    /\ pre_roll \in Seq(0..Duration) /\ Len(pre_roll) <= PreRoll
    /\ session \in {"up", "down", "gone"}
    /\ samples_sent \in Nat /\ total_injected \in Nat /\ net_offset \in Int
    /\ checkpoints \subseteq [at : Nat, offset : Int]
    /\ {disconnected_at, connected_at} \subseteq 0..now
    /\ sent \in [DOMAIN sent -> 0..Duration] /\ DOMAIN sent \subseteq Nat
    /\ lost \subseteq 0..Duration /\ loud \subseteq 0..Duration /\ outages \in 0..MaxOutages

\* Audio captured during this session gets its own time back from the mapper,
\* less the audio that was lost before it, through any mix of silence,
\* heartbeats, failed sends and reconnects.
StampedByCapture ==
    \A p \in DOMAIN sent : sent[p] >= connected_at =>
        to_wallclock(p) = sent[p] - Cardinality({w \in lost : w < sent[p]})

Inv == TypeOK /\ StampedByCapture

\* Speech is sent, and with it the pre-roll of whatever this session got
\* right before it: the gate clips no onset.
SpeechIsSent ==
    \A w \in loud : w >= connected_at =>
        \A before \in 0..PreRoll :
            w - before >= connected_at /\ w - before \notin lost => w - before \in Range(sent)
=============================================================================
