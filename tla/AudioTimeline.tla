--------------------------- MODULE AudioTimeline ---------------------------
(***************************************************************************)
(* From the frames of a recording to the output that is cut into segments: *)
(* collect_frames gathers both tracks in memory, align_track places every  *)
(* packet by its host time and pads the end.                               *)
(*                                                                         *)
(* Samples are data: an output is its length.  Time is counted in ticks,   *)
(* TicksPerSample to a sample, so that times and intervals fall between    *)
(* samples as the nanoseconds of the code do.                              *)
(***************************************************************************)
EXTENDS Integers, SequencesExt

CONSTANTS
    Tracks,            \* TrackKind
    TicksPerSample,    \* ticks of a sample at the nominal rate
    Intervals,         \* nominal_frame_interval_ns of the devices, in ticks
    Contents,          \* packets after normalize_to_mono: samples, discontinuity
    SmoothPercent,     \* MAX_SMOOTH_RATIO_DEVIATION; the code has 5
    MaxTime,           \* bound on the host time
    MaxPackets         \* [Tracks -> Nat] packets of a track

ASSUME TracksAssumption == IsFiniteSet(Tracks) /\ Tracks # {}
ASSUME UnitsAssumption == TicksPerSample \in Nat \ {0} /\ SmoothPercent \in Nat
ASSUME PacketsAssumption ==
    Intervals \subseteq Nat \ {0} /\ Contents \subseteq [samples : Nat, discontinuity : BOOLEAN]
ASSUME BoundAssumption == MaxTime \in Nat /\ MaxPackets \in [Tracks -> Nat]

VARIABLES
    phase,     \* capturing, aligning, padded
    interval,  \* [Tracks -> ticks] the interval of the track's last stream, 0 for none
    frames,    \* [Tracks -> Seq(Packet)] frames not yet aligned
    total,     \* total_duration_ns
    out,       \* [Tracks -> Nat] samples of the aligner's output
    next,      \* [Tracks -> ticks, NoTime for None] next_expected_ns
    early,     \* [Tracks -> ticks] by how much packets overlapped the ones before
    placed     \* [Tracks -> Seq] where the packets went

vars == <<phase, interval, frames, total, out, next, early, placed>>

NoTime == -1
Packet == [at : Nat, samples : Nat, own : Nat, discontinuity : BOOLEAN]
Place == [at : Nat, pos : Nat, early : Nat, samples : Nat, kept : Nat, own : Nat]

Larger(a, b) == IF a > b THEN a ELSE b
Smaller(a, b) == IF a < b THEN a ELSE b
Distance(a, b) == Larger(a - b, b - a)

Init ==
    /\ phase = "capturing" /\ total = 0
    /\ interval = [t \in Tracks |-> 0] /\ out = [t \in Tracks |-> 0] /\ early = [t \in Tracks |-> 0]
    /\ next = [t \in Tracks |-> NoTime]
    /\ frames = [t \in Tracks |-> <<>>] /\ placed = [t \in Tracks |-> <<>>]

----------------------------------------------------------------------------
(* collect_frames: a rebinding starts another stream of the track, whose    *)
(* interval replaces the one before.                                        *)

aligner == <<out, next, early, placed>>

StreamStarted(t, i) ==
    /\ phase = "capturing"
    /\ interval' = [interval EXCEPT ![t] = i]
    /\ UNCHANGED <<phase, frames, total, aligner>>

\* Packets are kept in the order in which they arrive; their host times are
\* the device's and are compared with nothing here.
Frame(t, time, c) ==
    /\ phase = "capturing" /\ interval[t] # 0 /\ Len(frames[t]) < MaxPackets[t]
    /\ frames' = [frames EXCEPT ![t] = Append(@,
                    [at |-> time, samples |-> c.samples, own |-> interval[t],
                     discontinuity |-> c.discontinuity])]
    /\ UNCHANGED <<phase, interval, total, aligner>>

LastEnd(t) == IF frames[t] = <<>> THEN 0 ELSE Last(frames[t]).at + interval[t]

\* The end of the recording on the host clock, latest_frame_end_ns.
CaptureOver ==
    /\ phase = "capturing"
    /\ phase' = "aligning"
    /\ total' = Max({LastEnd(t) : t \in Tracks})
    /\ UNCHANGED <<interval, frames, aligner>>

----------------------------------------------------------------------------
(* TimelineAligner.                                                         *)

\* ns_to_frames_round: half a sample and more counts as one.
InSamples(ticks) == (2 * ticks + TicksPerSample) \div (2 * TicksPerSample)

\* Mistake: the clock runs by the packets' length, whenever they came.
ByLength(start, at, i) == start + i

NextExpected(start, at, i) == at + i

\* Silence from one time to a later one.
Silence(from, to) == IF to > from THEN InSamples(to - from) ELSE 0

\* A packet close to its nominal length is stretched, another one is cut or
\* padded; either way the output grows by the nominal length.
Smooth(p, expected) ==
    ~p.discontinuity /\ 100 * Distance(expected, p.samples) <= SmoothPercent * p.samples
Kept(p, expected) == IF Smooth(p, expected) THEN p.samples ELSE Smaller(p.samples, expected)

ingest(t) ==
    LET p == Head(frames[t])
        start == IF next[t] = NoTime THEN p.at ELSE next[t]
        pos == out[t] + Silence(start, p.at)
        expected == InSamples(interval[t])
    IN  /\ phase = "aligning" /\ frames[t] # <<>>
        /\ frames' = [frames EXCEPT ![t] = Tail(@)]
        /\ out' = [out EXCEPT ![t] = pos + expected]
        /\ next' = [next EXCEPT ![t] = NextExpected(start, p.at, interval[t])]
        /\ early' = [early EXCEPT ![t] = @ + Larger(start - p.at, 0)]
        /\ placed' = [placed EXCEPT ![t] = Append(@,
                        [at |-> p.at, pos |-> pos, early |-> early'[t], samples |-> p.samples,
                         kept |-> Kept(p, expected), own |-> p.own])]
        /\ UNCHANGED <<phase, interval, total>>

\* finalize_up_to of both tracks.
finalize_up_to ==
    /\ phase = "aligning" /\ \A t \in Tracks : frames[t] = <<>>
    /\ phase' = "padded"
    /\ out' = [t \in Tracks |-> out[t] + Silence(Larger(next[t], 0), total)]
    /\ next' = [t \in Tracks |-> total]
    /\ UNCHANGED <<interval, frames, total, early, placed>>

Ended == phase = "padded" /\ UNCHANGED vars

Next ==
    \/ \E t \in Tracks :
         \/ \E i \in Intervals : StreamStarted(t, i)
         \/ \E time \in 0..MaxTime, c \in Contents : Frame(t, time, c)
         \/ ingest(t)
    \/ CaptureOver \/ finalize_up_to \/ Ended

Spec == Init /\ [][Next]_vars
----------------------------------------------------------------------------
TypeOK ==
    /\ phase \in {"capturing", "aligning", "padded"} /\ total \in Nat
    /\ interval \in [Tracks -> Intervals \cup {0}]
    /\ frames \in [Tracks -> Seq(Packet)] /\ placed \in [Tracks -> Seq(Place)]
    /\ out \in [Tracks -> Nat] /\ early \in [Tracks -> Nat] /\ next \in [Tracks -> Nat \cup {NoTime}]

\* The host time at which a track's output begins: that of its first packet,
\* and for a track that has none the zero of the host clock.
Origin(t) == IF placed[t] = <<>> THEN 0 ELSE placed[t][1].at

\* The time at which a position of the output would be heard.
Heard(t, pos, ahead) == pos * TicksPerSample + Origin(t) - ahead

\* Every packet is where its host time puts it, off by nothing but the overlaps
\* before it, which are never taken back, and half a sample for each rounding.
PlacedByTime ==
    \A t \in Tracks : \A k \in DOMAIN placed[t] :
        LET p == placed[t][k]
        IN  Distance(Heard(t, p.pos, p.early), p.at) <= (k - 1) * TicksPerSample

\* The clock of the aligner and the length of its output tell the same time.
LengthMatchesClock ==
    \A t \in Tracks : next[t] # NoTime =>
        2 * Distance(Heard(t, out[t], early[t]), next[t]) <= (2 * Len(placed[t]) + 1) * TicksPerSample

\* As long as all packets of a track come from streams of the interval that is
\* kept for it, no sample is cut off one that is not longer than that interval.
KeptWhole ==
    \A t \in Tracks : (\A k \in DOMAIN placed[t] : placed[t][k].own = interval[t]) =>
        \A k \in DOMAIN placed[t] :
            LET p == placed[t][k] IN p.samples <= InSamples(p.own) => p.kept = p.samples

Inv == TypeOK /\ PlacedByTime /\ LengthMatchesClock /\ KeptWhole
=============================================================================
