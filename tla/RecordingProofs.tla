-------------------------- MODULE RecordingProofs --------------------------
(***************************************************************************)
(* Proofs about a recording.  First AudioTimeline, for any number of       *)
(* tracks, packets of any length and jitter, any device intervals and any  *)
(* resolution of the clock: every packet is where its time puts it.  Then  *)
(* RecordingControl, for any set of sessions and any number of control     *)
(* connections: no capture runs that nobody can stop.                      *)
(***************************************************************************)
EXTENDS AudioTimeline, RecordingControl, FiniteSetTheorems, SequenceTheorems, TLAPS

-----------------------------------------------------------------------------
(* Samples and ticks.  Beyond these lemmas the length of a sample is not   *)
(* looked into: the rest is sums and comparisons.                          *)

Ticks(n) == n * TicksPerSample

\* a and b are at most c half-ticks apart.
Near(a, b, c) == 2 * (a - b) <= c /\ 2 * (b - a) <= c

LEMMA NearSum ==
  ASSUME NEW a \in Int, NEW b \in Int, NEW c \in Int, NEW d \in Int, NEW x \in Int, NEW y \in Int,
         Near(a, b, x), Near(c, d, y), NEW z \in Int, x + y <= z
  PROVE  Near(a + c, b + d, z)
BY DEF Near

LEMMA SampleHasTicks == TicksPerSample \in Nat /\ TicksPerSample > 0
BY UnitsAssumption

LEMMA TicksType ==
  ASSUME NEW a \in Int
  PROVE  Ticks(a) \in Int
BY SampleHasTicks DEF Ticks

LEMMA TicksOfNone == Ticks(0) = 0
BY SampleHasTicks DEF Ticks

LEMMA TicksOfSum ==
  ASSUME NEW a \in Nat, NEW b \in Nat
  PROVE  Ticks(a + b) = Ticks(a) + Ticks(b)
BY SampleHasTicks DEF Ticks

LEMMA TicksGrow ==
  ASSUME NEW a \in Int, NEW b \in Int, a <= b
  PROVE  Ticks(a) <= Ticks(b)
<1>1. (b - a) * TicksPerSample >= 0
  BY SampleHasTicks
<1>2. Ticks(b) = Ticks(a) + (b - a) * TicksPerSample
  BY SampleHasTicks DEF Ticks
<1> QED
  BY SampleHasTicks, <1>1, <1>2 DEF Ticks

\* ns_to_frames_round is off by half a sample at most.
LEMMA RoundingError ==
  ASSUME NEW ticks \in Nat
  PROVE  InSamples(ticks) \in Nat /\ Near(Ticks(InSamples(ticks)), ticks, TicksPerSample)
<1> DEFINE a == 2 * ticks + TicksPerSample
           b == 2 * TicksPerSample
           q == a \div b
<1>1. a \in Nat /\ b \in Nat /\ b > 0 /\ TicksPerSample \in Nat
  BY UnitsAssumption
<1> HIDE DEF a, b
<1>2. q \in Int /\ q >= 0 /\ b * q <= a /\ a < b * q + b
  BY <1>1
<1>3. b * q = 2 * Ticks(q)
  <2>1. \A x, y \in Int : (2 * x) * y = 2 * (y * x)
    OBVIOUS
  <2> QED
    BY <1>1, <1>2, <2>1 DEF Ticks, b
<1>4. InSamples(ticks) = q
  BY DEF InSamples, a, b
<1> HIDE DEF q
<1>5. Ticks(q) \in Int
  BY <1>2, TicksType
<1>6. a = 2 * ticks + TicksPerSample /\ b = 2 * TicksPerSample
  BY DEF a, b
<1> QED
  BY <1>1, <1>2, <1>3, <1>4, <1>5, <1>6 DEF Near

\* Silence(from, to) is the time between them, off by half a sample at most.
LEMMA SilenceType ==
  ASSUME NEW from \in Nat, NEW to \in Nat
  PROVE  Silence(from, to) \in Nat
<1>1. CASE to > from
  <2>1. to - from \in Nat
    BY <1>1
  <2> QED
    BY <1>1, <2>1, RoundingError DEF Silence
<1>2. CASE ~(to > from)
  BY <1>2 DEF Silence
<1> QED
  BY <1>1, <1>2

LEMMA SilenceError ==
  ASSUME NEW from \in Nat, NEW to \in Nat, from <= to
  PROVE  Near(Ticks(Silence(from, to)), to - from, TicksPerSample)
<1>1. CASE to > from
  <2>1. to - from \in Nat /\ Silence(from, to) = InSamples(to - from)
    BY <1>1 DEF Silence
  <2> QED
    BY <1>1, <2>1, RoundingError DEF Near
<1>2. CASE ~(to > from)
  <2>1. Silence(from, to) = 0 /\ to - from = 0
    BY <1>2 DEF Silence
  <2> QED
    BY <2>1, TicksOfNone, SampleHasTicks DEF Near
<1> QED
  BY <1>1, <1>2

\* Max is the largest of a finite set of numbers.
LEMMA MaxIsLargest ==
  ASSUME NEW S, IsFiniteSet(S), S # {}, S \subseteq Nat
  PROVE  Max(S) \in S /\ \A y \in S : y <= Max(S)
<1> DEFINE HasLargest(U) == \E m \in U : \A y \in U : m >= y
           Bad == {U \in SUBSET S : U # {} /\ ~HasLargest(U)}
           R == StrictSubsetOrdering(S)
<1>1. Bad = {}
  <2> SUFFICES ASSUME Bad # {}
               PROVE  FALSE
    OBVIOUS
  <2>1. IsWellFoundedOn(R, SUBSET S)
    BY FS_StrictSubsetOrderingWellFounded, FS_FiniteSubsetsOfFinite
  <2>2. Bad \subseteq SUBSET S
    OBVIOUS
  <2> HIDE DEF R
  <2>3. PICK U \in Bad : \A V \in Bad : ~(<<V, U>> \in R)
    <3> HIDE DEF Bad
    <3> QED
      BY <2>1, <2>2, WFMin
  <2>4. PICK x \in U : TRUE
    BY <2>3
  <2>5. U \ {x} \notin Bad
    <3>1. <<U \ {x}, U>> \in R
      BY <2>2, <2>3, <2>4 DEF R, StrictSubsetOrdering
    <3> QED
      BY <2>3, <3>1
  <2>6. CASE U = {x}
    BY <2>2, <2>3, <2>6
  <2>7. CASE U # {x}
    <3>1. U \ {x} # {}
      BY <2>4, <2>7
    <3>2. PICK m \in U \ {x} : \A y \in U \ {x} : m >= y
      BY <2>2, <2>3, <2>5, <3>1
    <3>3. U \subseteq Nat
      BY <2>2, <2>3
    <3>4. \A y \in U : (IF m >= x THEN m ELSE x) >= y
      BY <2>4, <3>2, <3>3
    <3> QED
      BY <2>3, <2>4, <3>2, <3>4
  <2> QED
    BY <2>6, <2>7
<1>2. \E x \in S : \A y \in S : x >= y
  BY <1>1
<1>3. Max(S) \in S /\ \A y \in S : Max(S) >= y
  BY <1>2 DEF Max
<1> QED
  BY <1>3

-----------------------------------------------------------------------------
(* The invariant: one statement about each track, of its values.           *)

First(ps) == IF ps = <<>> THEN 0 ELSE ps[1].at

\* The k-th packet is where its time puts it, but for k - 1 roundings.
OnTime(p, origin, k) == Near(Ticks(p.pos) + origin - p.early, p.at, Ticks(2 * (k - 1)))

KeptAll(p, i) == p.own = i /\ p.samples <= InSamples(p.own) => p.kept = p.samples

\* Of a track with interval i, frames fs, output o, clock n and overlaps e,
\* whose packets were placed at ps.  Every packet after the first costs two
\* roundings, the first and the padding at the end one each; and what is left
\* to place ends with the recording, so the padding brings the clock up to it.
TrackOK(ph, tot, i, fs, o, n, e, ps) ==
  /\ ph = "capturing" => ps = <<>>
  /\ ph # "padded" /\ ps = <<>> => n = NoTime /\ o = 0 /\ e = 0
  /\ ph # "padded" /\ ps # <<>> =>
       n \in Nat /\ Near(Ticks(o) + First(ps) - e, n, Ticks(2 * Len(ps) - 1))
  /\ ph = "aligning" => IF fs = <<>> THEN n <= tot ELSE Last(fs).at + i <= tot
  /\ ph = "padded" => n = tot /\ Near(Ticks(o) + First(ps) - e, n, Ticks(2 * Len(ps) + 1))
  /\ \A k \in 1..Len(ps) : OnTime(ps[k], First(ps), k) /\ KeptAll(ps[k], i)

TracksOK ==
  \A t \in Tracks :
    TrackOK(phase, total, interval[t], frames[t], out[t], next[t], early[t], placed[t])

IInv == TypeOK /\ TracksOK

LEMMA Parameters ==
  /\ Intervals \subseteq Nat /\ MaxTime \in Nat
  /\ Contents \subseteq [samples : Nat, discontinuity : BOOLEAN]
  /\ IsFiniteSet(Tracks) /\ Tracks # {}
BY PacketsAssumption, BoundAssumption, TracksAssumption

-----------------------------------------------------------------------------
(* ingest, of one track.                                                   *)

LEMMA KeptIsWhole ==
  ASSUME NEW p \in Packet, NEW expected \in Nat
  PROVE  Kept(p, expected) \in Nat /\ (p.samples <= expected => Kept(p, expected) = p.samples)
<1>1. p.samples \in Nat
  BY DEF Packet
<1>2. Kept(p, expected) = p.samples \/ Kept(p, expected) = Smaller(p.samples, expected)
  BY DEF Kept
<1> QED
  BY <1>1, <1>2 DEF Smaller

\* Where a packet goes, against its time.
LEMMA PacketOnTime ==
  ASSUME NEW o \in Nat, NEW n \in Nat, NEW e \in Nat, NEW first \in Nat, NEW L \in Nat, NEW at \in Nat,
         Near(Ticks(o) + first - e, n, Ticks(2 * L - 1)),
         NEW pos, pos = o + Silence(n, at), NEW ahead, ahead = e + Larger(n - at, 0)
  PROVE  pos \in Nat /\ ahead \in Nat /\ Near(Ticks(pos) + first - ahead, at, Ticks(2 * L))
<1>1. TicksPerSample \in Nat /\ TicksPerSample > 0
  BY UnitsAssumption
<1>2. Silence(n, at) \in Nat
  BY SilenceType
<1>3. pos \in Nat /\ Ticks(pos) = Ticks(o) + Ticks(Silence(n, at))
  <2>1. Ticks(o + Silence(n, at)) = Ticks(o) + Ticks(Silence(n, at))
    BY <1>2, TicksOfSum, Zenon
  <2>2. pos \in Nat
    BY <1>2
  <2> QED
    BY <2>1, <2>2, Zenon
<1>4. Ticks(o) \in Int /\ Ticks(Silence(n, at)) \in Int
  BY <1>2, TicksType
<1>5. Ticks(2 * L) = Ticks(2 * L - 1) + TicksPerSample /\ Ticks(2 * L - 1) \in Int
  BY <1>1 DEF Ticks
<1>6. CASE n > at
  <2>1. Silence(n, at) = 0 /\ Ticks(0) = 0
    BY <1>6, TicksOfNone DEF Silence
  <2>2. ahead = e + (n - at)
    BY <1>6 DEF Larger
  <2> QED
    BY <1>1, <1>3, <1>4, <1>5, <2>1, <2>2, <1>6 DEF Near
<1>7. CASE ~(n > at)
  <2>1. ahead = e
    BY <1>7 DEF Larger
  <2>2. Near(Ticks(Silence(n, at)), at - n, TicksPerSample)
    BY <1>7, SilenceError
  <2> QED
    BY <1>1, <1>3, <1>4, <1>5, <2>1, <2>2 DEF Near
<1>8. ahead \in Nat
  BY DEF Larger
<1> QED
  BY <1>3, <1>6, <1>7, <1>8

\* The clock after a packet, against the output.
LEMMA ClockAfterPacket ==
  ASSUME NEW pos \in Nat, NEW ahead \in Nat, NEW first \in Nat, NEW L \in Nat, NEW at \in Nat, NEW i \in Nat,
         Near(Ticks(pos) + first - ahead, at, Ticks(2 * L))
  PROVE  /\ InSamples(i) \in Nat
         /\ Near(Ticks(pos + InSamples(i)) + first - ahead, at + i, Ticks(2 * (L + 1) - 1))
<1>1. TicksPerSample \in Nat /\ TicksPerSample > 0
  BY UnitsAssumption
<1>2. InSamples(i) \in Nat /\ Near(Ticks(InSamples(i)), i, TicksPerSample)
  BY RoundingError
<1>3. /\ Ticks(pos + InSamples(i)) = Ticks(pos) + Ticks(InSamples(i))
      /\ Ticks(pos) \in Int /\ Ticks(InSamples(i)) \in Int
  <2>1. Ticks(pos + InSamples(i)) = Ticks(pos) + Ticks(InSamples(i))
    BY <1>2, TicksOfSum, Zenon
  <2>2. Ticks(pos) \in Int /\ Ticks(InSamples(i)) \in Int
    BY <1>2, TicksType
  <2> QED
    BY <2>1, <2>2
<1>4. Ticks(2 * (L + 1) - 1) = Ticks(2 * L) + TicksPerSample /\ Ticks(2 * L) \in Int
  BY <1>1 DEF Ticks
<1> QED
  BY <1>1, <1>2, <1>3, <1>4 DEF Near

LEMMA FirstIsTime ==
  ASSUME NEW ps \in Seq(Place)
  PROVE  First(ps) \in Nat
<1>1. ps # <<>> => ps[1] \in Place
  OBVIOUS
<1> QED
  BY <1>1 DEF First, Place

LEMMA PlacingKeeps ==
  ASSUME NEW tot \in Nat, NEW i \in Nat, NEW fs \in Seq(Packet), fs # <<>>,
         NEW o \in Nat, NEW n \in Nat \cup {NoTime}, NEW e \in Nat, NEW ps \in Seq(Place),
         TrackOK("aligning", tot, i, fs, o, n, e, ps)
  PROVE  LET p == Head(fs)
             start == IF n = NoTime THEN p.at ELSE n
             pos == o + Silence(start, p.at)
             ahead == e + Larger(start - p.at, 0)
             place == [at |-> p.at, pos |-> pos, early |-> ahead, samples |-> p.samples,
                       kept |-> Kept(p, InSamples(i)), own |-> p.own]
         IN  /\ place \in Place /\ pos + InSamples(i) \in Nat /\ ahead \in Nat /\ p.at + i \in Nat
             /\ TrackOK("aligning", tot, i, Tail(fs), pos + InSamples(i), p.at + i, ahead, Append(ps, place))
<1> SUFFICES
      ASSUME NEW p, p = Head(fs), NEW start, start = IF n = NoTime THEN p.at ELSE n,
             NEW pos, pos = o + Silence(start, p.at), NEW ahead, ahead = e + Larger(start - p.at, 0),
             NEW place, place = [at |-> p.at, pos |-> pos, early |-> ahead, samples |-> p.samples,
                                 kept |-> Kept(p, InSamples(i)), own |-> p.own]
      PROVE  /\ place \in Place /\ pos + InSamples(i) \in Nat /\ ahead \in Nat /\ p.at + i \in Nat
             /\ TrackOK("aligning", tot, i, Tail(fs), pos + InSamples(i), p.at + i, ahead, Append(ps, place))
  BY Zenon
<1> DEFINE L == Len(ps)
           qs == Append(ps, place)
           expected == InSamples(i)
<1>1. p \in Packet
  OBVIOUS
<1>2. p.at \in Nat /\ p.samples \in Nat /\ p.own \in Nat
  BY <1>1 DEF Packet
<1>3. L \in Nat /\ First(ps) \in Nat /\ expected \in Nat
  BY RoundingError, FirstIsTime
<1>4. /\ pos \in Nat /\ ahead \in Nat
      /\ Near(Ticks(pos) + (IF ps = <<>> THEN p.at ELSE First(ps)) - ahead, p.at, Ticks(2 * L))
  <2>1. CASE ps = <<>>
    <3>1. n = NoTime /\ o = 0 /\ e = 0 /\ start = p.at /\ L = 0
      BY <2>1 DEF TrackOK
    <3>2. Silence(start, p.at) = 0 /\ Larger(start - p.at, 0) = 0
      <4>1. ~(p.at > start) /\ ~(start - p.at > 0)
        BY <1>2, <3>1
      <4> QED
        BY <4>1 DEF Silence, Larger
    <3>3. pos = 0 /\ ahead = 0 /\ 2 * L = 0 /\ Ticks(0) = 0
      BY <3>1, <3>2, TicksOfNone
    <3> QED
      BY <1>2, <2>1, <3>3 DEF Near
  <2>2. CASE ps # <<>>
    <3>1. n \in Nat /\ start = n /\ Near(Ticks(o) + First(ps) - e, n, Ticks(2 * L - 1))
      BY <2>2 DEF TrackOK, NoTime
    <3> QED
      <4> DEFINE at == p.at
                 first == First(ps)
      <4>1. /\ at \in Nat /\ first \in Nat /\ Near(Ticks(o) + first - e, n, Ticks(2 * L - 1))
            /\ pos = o + Silence(n, at) /\ ahead = e + Larger(n - at, 0)
        BY <1>2, <1>3, <3>1
      <4> HIDE DEF at, first, L
      <4>2. pos \in Nat /\ ahead \in Nat /\ Near(Ticks(pos) + first - ahead, at, Ticks(2 * L))
        BY <1>3, <3>1, <4>1, PacketOnTime
      <4> QED
        BY <2>2, <4>2 DEF at, first, L
  <2> QED
    BY <2>1, <2>2
<1>5. /\ place \in Place /\ place.pos = pos /\ place.at = p.at /\ place.early = ahead
      /\ KeptAll(place, i)
  <2>1. Kept(p, expected) \in Nat /\ (p.samples <= expected => Kept(p, expected) = p.samples)
    BY <1>1, <1>3, KeptIsWhole
  <2> QED
    BY <1>2, <1>4, <2>1 DEF Place, KeptAll
<1>6. /\ qs \in Seq(Place) /\ qs # <<>> /\ Len(qs) = L + 1
      /\ qs[L + 1] = place /\ \A k \in 1..L : qs[k] = ps[k]
  <2> HIDE DEF expected
  <2> QED
    BY <1>5, AppendProperties
<1>7. First(qs) = IF ps = <<>> THEN p.at ELSE First(ps)
  BY <1>3, <1>5, <1>6 DEF First
<1>8. First(qs) \in Nat
  BY <1>2, <1>3, <1>7
<1> HIDE DEF qs
<1>9. Near(Ticks(pos) + First(qs) - ahead, p.at, Ticks(2 * L))
  BY <1>4, <1>7
<1>10. Near(Ticks(pos + expected) + First(qs) - ahead, p.at + i, Ticks(2 * Len(qs) - 1))
  <2> DEFINE at == p.at
             first == First(qs)
  <2>1. at \in Nat /\ first \in Nat /\ Near(Ticks(pos) + first - ahead, at, Ticks(2 * L))
    BY <1>2, <1>8, <1>9
  <2> HIDE DEF at, first, L
  <2>2. Near(Ticks(pos + InSamples(i)) + first - ahead, at + i, Ticks(2 * (L + 1) - 1))
    BY <1>3, <1>4, <2>1, ClockAfterPacket
  <2> QED
    BY <1>6, <2>2 DEF at, first
<1>11. ASSUME NEW k \in 1..Len(qs)
       PROVE  OnTime(qs[k], First(qs), k) /\ KeptAll(qs[k], i)
  <2>1. CASE k = L + 1
    <3>1. OnTime(place, First(qs), L + 1)
      <4>1. 2 * ((L + 1) - 1) = 2 * L
        BY <1>3
      <4> QED
        BY <1>5, <1>9, <4>1 DEF OnTime
    <3> QED
      BY <1>5, <1>6, <2>1, <3>1
  <2>2. CASE k # L + 1
    <3>1. k \in 1..L /\ qs[k] = ps[k]
      BY <1>3, <1>6, <2>2
    <3>2. ps # <<>>
      BY <3>1
    <3>3. OnTime(ps[k], First(ps), k) /\ KeptAll(ps[k], i)
      BY <3>1 DEF TrackOK
    <3> QED
      BY <1>7, <3>1, <3>2, <3>3
  <2> QED
    BY <2>1, <2>2
<1>12. IF Tail(fs) = <<>> THEN p.at + i <= tot ELSE Last(Tail(fs)).at + i <= tot
  <2>1. Last(fs).at + i <= tot
    BY DEF TrackOK
  <2>2. Len(fs) \in Nat /\ Len(fs) > 0 /\ Len(Tail(fs)) = Len(fs) - 1
    BY EmptySeq, HeadTailProperties
  <2>3. CASE Tail(fs) = <<>>
    <3>1. Len(fs) = 1
      <4>1. Len(Tail(fs)) = 0
        BY <2>3, EmptySeq
      <4>2. Len(fs) - 1 = 0 /\ Len(fs) \in Nat
        BY <2>2, <4>1
      <4> QED
        BY <4>2
    <3>2. Last(fs) = p
      BY <3>1 DEF Last
    <3> QED
      BY <2>1, <2>3, <3>2
  <2>4. CASE Tail(fs) # <<>>
    <3>1. Last(Tail(fs)) = Last(fs)
      BY <2>2, <2>4 DEF Last
    <3> QED
      BY <2>1, <2>4, <3>1
  <2> QED
    BY <2>3, <2>4
<1>13. TrackOK("aligning", tot, i, Tail(fs), pos + expected, p.at + i, ahead, qs)
  <2>1. p.at + i \in Nat
    BY <1>2
  <2> HIDE DEF expected
  <2> QED
    BY <1>6, <1>10, <1>11, <1>12, <2>1 DEF TrackOK
<1>14. pos + InSamples(i) \in Nat /\ p.at + i \in Nat
  <2> HIDE DEF expected
  <2>1. pos \in Nat /\ expected \in Nat /\ p.at \in Nat
    BY <1>2, <1>3, <1>4
  <2>2. pos + expected \in Nat /\ p.at + i \in Nat
    BY <2>1
  <2> QED
    BY <2>2 DEF expected
<1> QED
  BY <1>4, <1>5, <1>13, <1>14 DEF qs

\* The padding at the end.
LEMMA PaddingKeeps ==
  ASSUME NEW tot \in Nat, NEW i \in Nat, NEW o \in Nat, NEW n \in Nat \cup {NoTime},
         NEW e \in Nat, NEW ps \in Seq(Place), TrackOK("aligning", tot, i, <<>>, o, n, e, ps),
         NEW pad, pad = Silence(Larger(n, 0), tot)
  PROVE  pad \in Nat /\ TrackOK("padded", tot, i, <<>>, o + pad, tot, e, ps)
<1>1. Larger(n, 0) \in Nat /\ Larger(n, 0) <= tot
  BY DEF TrackOK, Larger, NoTime
<1>2. pad \in Nat /\ Near(Ticks(pad), tot - Larger(n, 0), TicksPerSample)
  BY <1>1, SilenceType, SilenceError
<1>3. Ticks(o + pad) = Ticks(o) + Ticks(pad) /\ Ticks(o) \in Int /\ Ticks(pad) \in Int
  <2>1. Ticks(o + pad) = Ticks(o) + Ticks(pad)
    BY <1>2, TicksOfSum, Zenon
  <2>2. Ticks(o) \in Int /\ Ticks(pad) \in Int
    BY <1>2, TicksType
  <2> QED
    BY <2>1, <2>2
<1>4. First(ps) \in Nat /\ Len(ps) \in Nat /\ TicksPerSample \in Nat /\ TicksPerSample > 0
  BY FirstIsTime, UnitsAssumption
<1>5. Near(Ticks(o + pad) + First(ps) - e, tot, Ticks(2 * Len(ps) + 1))
  <2>1. CASE ps = <<>>
    <3>1. n = NoTime /\ o = 0 /\ e = 0 /\ First(ps) = 0 /\ Larger(n, 0) = 0
      BY <2>1 DEF TrackOK, First, Larger, NoTime
    <3>2. 2 * Len(ps) + 1 = 1
      BY <2>1
    <3>3. Ticks(2 * Len(ps) + 1) = TicksPerSample /\ Ticks(0) = 0
      BY <3>2, TicksOfNone, SampleHasTicks DEF Ticks
    <3>4. Near(Ticks(pad), tot, TicksPerSample)
      BY <1>2, <3>1
    <3>5. Ticks(o + pad) = Ticks(pad)
      BY <1>3, <3>1, <3>3
    <3>6. Ticks(o + pad) + First(ps) - e = Ticks(pad)
      BY <1>3, <3>1, <3>5
    <3> QED
      BY <3>3, <3>4, <3>6
  <2>2. CASE ps # <<>>
    <3>1. n \in Nat /\ Larger(n, 0) = n /\ Near(Ticks(o) + First(ps) - e, n, Ticks(2 * Len(ps) - 1))
      BY <2>2 DEF TrackOK, Larger
    <3>2. Ticks(2 * Len(ps) + 1) = Ticks(2 * Len(ps) - 1) + 2 * TicksPerSample
          /\ Ticks(2 * Len(ps) - 1) \in Int
      BY <1>4 DEF Ticks
    <3>3. Near(Ticks(pad), tot - n, TicksPerSample)
      BY <1>2, <3>1
    <3> DEFINE a == Ticks(o) + First(ps) - e
               x == Ticks(2 * Len(ps) - 1)
               z == Ticks(2 * Len(ps) + 1)
    <3>4. /\ a \in Int /\ x \in Int /\ z \in Int /\ n \in Int /\ tot - n \in Int /\ n + (tot - n) = tot
          /\ TicksPerSample \in Int /\ Ticks(pad) \in Int
      <4>1. a \in Int /\ Ticks(pad) \in Int
        BY <1>3, <1>4
      <4>2. x \in Int /\ z \in Int /\ TicksPerSample \in Int
        BY <1>4, <3>2
      <4>3. n \in Int /\ tot - n \in Int /\ n + (tot - n) = tot
        BY <3>1
      <4> QED
        BY <4>1, <4>2, <4>3
    <3>5. x + TicksPerSample <= z
      BY <1>4, <3>2
    <3>6. Ticks(o + pad) + First(ps) - e = a + Ticks(pad)
      BY <1>3, <1>4
    <3>7. Near(a, n, x)
      BY <3>1
    <3> HIDE DEF a, x, z
    <3>8. Near(a + Ticks(pad), n + (tot - n), z)
      BY <3>3, <3>4, <3>5, <3>7, NearSum
    <3> QED
      BY <3>4, <3>6, <3>8 DEF z
  <2> QED
    BY <2>1, <2>2
<1>6. \A k \in 1..Len(ps) : OnTime(ps[k], First(ps), k) /\ KeptAll(ps[k], i)
  BY DEF TrackOK
<1> QED
  BY <1>2, <1>5, <1>6 DEF TrackOK

-----------------------------------------------------------------------------
(* The actions.                                                            *)

LEMMA TrackTypes ==
  ASSUME TypeOK, NEW t \in Tracks
  PROVE  /\ interval[t] \in Nat /\ frames[t] \in Seq(Packet) /\ placed[t] \in Seq(Place) /\ total \in Nat
         /\ out[t] \in Nat /\ early[t] \in Nat /\ next[t] \in Nat \cup {NoTime}
<1>1. interval[t] \in Intervals \cup {0}
  BY DEF TypeOK
<1>2. interval[t] \in Nat
  <2>1. Intervals \subseteq Nat
    BY PacketsAssumption
  <2>2. CASE interval[t] = 0
    BY <2>2
  <2>3. CASE interval[t] \in Intervals
    BY <2>1, <2>3, Zenon
  <2> QED
    BY <1>1, <2>2, <2>3, Zenon
<1> QED
  BY <1>2 DEF TypeOK

LEMMA InitIInv == Init => IInv
<1> SUFFICES ASSUME Init
             PROVE  IInv
  OBVIOUS
<1>1. TypeOK
  BY DEF Init, TypeOK
<1>2. TracksOK
  BY DEF Init, TracksOK, TrackOK
<1> QED
  BY <1>1, <1>2 DEF IInv

\* While the recording lasts nothing is placed, so only types can change.
LEMMA CapturingKeeps ==
  ASSUME IInv, phase = "capturing", phase' = "capturing", UNCHANGED aligner
  PROVE  TracksOK'
<1>1. \A t \in Tracks : placed[t] = <<>> /\ next[t] = NoTime /\ out[t] = 0 /\ early[t] = 0
  BY DEF IInv, TracksOK, TrackOK
<1>2. UNCHANGED <<out, next, early, placed>>
  BY DEF aligner
<1> QED
  BY <1>1, <1>2 DEF TracksOK, TrackOK

LEMMA StreamStartedKeeps ==
  ASSUME IInv, NEW t \in Tracks, NEW i \in Intervals, StreamStarted(t, i)
  PROVE  IInv'
<1>1. TypeOK'
  BY DEF IInv, TypeOK, StreamStarted, aligner
<1>2. TracksOK'
  BY CapturingKeeps DEF StreamStarted
<1> QED
  BY <1>1, <1>2 DEF IInv

LEMMA FrameKeeps ==
  ASSUME IInv, NEW t \in Tracks, NEW time \in 0..MaxTime, NEW c \in Contents, Frame(t, time, c)
  PROVE  IInv'
<1> DEFINE packet == [at |-> time, samples |-> c.samples, own |-> interval[t],
                      discontinuity |-> c.discontinuity]
<1>1. packet \in Packet
  <2>1. c.samples \in Nat /\ c.discontinuity \in BOOLEAN /\ time \in Nat
    BY Parameters
  <2>2. interval[t] \in Nat
    BY TrackTypes DEF IInv
  <2> QED
    BY <2>1, <2>2 DEF Packet
<1>2. frames' = [frames EXCEPT ![t] = Append(@, packet)] /\ UNCHANGED <<phase, interval, total, aligner>>
  BY DEF Frame
<1> HIDE DEF packet
<1>3. frames' \in [Tracks -> Seq(Packet)]
  BY <1>1, <1>2 DEF IInv, TypeOK
<1>4. TypeOK'
  BY <1>2, <1>3 DEF IInv, TypeOK, aligner
<1>5. TracksOK'
  BY <1>2, CapturingKeeps DEF Frame
<1> QED
  BY <1>4, <1>5 DEF IInv

LEMMA CaptureOverKeeps ==
  ASSUME IInv, CaptureOver
  PROVE  IInv'
<1> DEFINE ends == {LastEnd(t) : t \in Tracks}
<1>1. TypeOK /\ TracksOK
  BY DEF IInv
<1>2. /\ phase = "capturing" /\ phase' = "aligning" /\ total' = Max(ends)
      /\ UNCHANGED <<interval, frames, out, next, early, placed>>
  BY DEF CaptureOver, aligner
<1>3. ASSUME NEW t \in Tracks
      PROVE  /\ LastEnd(t) \in Nat
             /\ frames[t] # <<>> => LastEnd(t) = Last(frames[t]).at + interval[t]
  <2>1. interval[t] \in Nat /\ frames[t] \in Seq(Packet)
    BY <1>1, TrackTypes
  <2>2. CASE frames[t] = <<>>
    BY <2>2 DEF LastEnd
  <2>3. CASE frames[t] # <<>>
    <3>1. Len(frames[t]) \in 1..Len(frames[t])
      BY <2>1, <2>3, EmptySeq
    <3>2. Last(frames[t]) \in Packet
      BY <2>1, <3>1, ElementOfSeq DEF Last
    <3>3. Last(frames[t]).at \in Nat
      BY <3>2 DEF Packet
    <3> QED
      BY <2>1, <2>3, <3>3 DEF LastEnd
  <2> QED
    BY <2>2, <2>3
<1>4. IsFiniteSet(ends) /\ ends # {} /\ ends \subseteq Nat
  <2>1. IsFiniteSet(ends)
    <3> DEFINE f == [t \in Tracks |-> LastEnd(t)]
               E == {x \in Nat : \E t \in Tracks : x = LastEnd(t)}
    <3>1. E = ends
      BY <1>3
    <3>2. f \in Surjection(Tracks, E)
      BY <1>3 DEF Surjection
    <3>3. IsFiniteSet(E)
      BY <3>2, Parameters, FS_Surjection
    <3> QED
      BY <3>1, <3>3
  <2> QED
    BY <1>3, <2>1, Parameters
<1> HIDE DEF ends
<1>5. total' \in Nat /\ \A y \in ends : y <= total'
  BY <1>2, <1>4, MaxIsLargest
<1>6. TypeOK'
  BY <1>1, <1>2, <1>5 DEF TypeOK
<1>7. TracksOK'
  <2> SUFFICES ASSUME NEW t \in Tracks
               PROVE  TrackOK("aligning", total', interval[t], frames[t], out[t], next[t], early[t], placed[t])
    BY <1>2 DEF TracksOK
  <2>1. placed[t] = <<>> /\ next[t] = NoTime /\ out[t] = 0 /\ early[t] = 0
    BY <1>1, <1>2 DEF TracksOK, TrackOK
  <2>2. IF frames[t] = <<>> THEN next[t] <= total' ELSE Last(frames[t]).at + interval[t] <= total'
    <3>1. LastEnd(t) \in ends
      BY DEF ends
    <3>2. LastEnd(t) <= total'
      BY <1>5, <3>1
    <3>3. CASE frames[t] = <<>>
      BY <1>5, <2>1, <3>3 DEF NoTime
    <3>4. CASE frames[t] # <<>>
      BY <1>3, <3>2, <3>4
    <3> QED
      BY <3>3, <3>4
  <2> QED
    BY <2>1, <2>2 DEF TrackOK
<1> QED
  BY <1>6, <1>7 DEF IInv

LEMMA IngestKeeps ==
  ASSUME IInv, NEW t \in Tracks, ingest(t)
  PROVE  IInv'
<1> DEFINE p == Head(frames[t])
           start == IF next[t] = NoTime THEN p.at ELSE next[t]
           pos == out[t] + Silence(start, p.at)
           ahead == early[t] + Larger(start - p.at, 0)
           place == [at |-> p.at, pos |-> pos, early |-> ahead, samples |-> p.samples,
                     kept |-> Kept(p, InSamples(interval[t])), own |-> p.own]
<1>1. TypeOK /\ TracksOK
  BY DEF IInv
<1>2. /\ interval[t] \in Nat /\ frames[t] \in Seq(Packet) /\ placed[t] \in Seq(Place) /\ total \in Nat
      /\ out[t] \in Nat /\ early[t] \in Nat /\ next[t] \in Nat \cup {NoTime}
  BY <1>1, TrackTypes
<1>3. /\ phase = "aligning" /\ frames[t] # <<>>
      /\ frames' = [frames EXCEPT ![t] = Tail(@)]
      /\ UNCHANGED <<phase, interval, total>>
  BY DEF ingest
<1>4. early' = [early EXCEPT ![t] = ahead]
  BY DEF ingest
<1>5. early'[t] = ahead
  BY <1>1, <1>4 DEF TypeOK
<1>6. /\ out' = [out EXCEPT ![t] = pos + InSamples(interval[t])]
      /\ next' = [next EXCEPT ![t] = p.at + interval[t]]
      /\ placed' = [placed EXCEPT ![t] = Append(@, place)]
  BY <1>5 DEF ingest, NextExpected
<1>7. TrackOK("aligning", total, interval[t], frames[t], out[t], next[t], early[t], placed[t])
  BY <1>1, <1>3 DEF TracksOK
<1> HIDE DEF p, start, pos, ahead, place
<1>8. /\ place \in Place /\ pos + InSamples(interval[t]) \in Nat /\ ahead \in Nat /\ p.at + interval[t] \in Nat
      /\ TrackOK("aligning", total, interval[t], Tail(frames[t]), pos + InSamples(interval[t]),
                 p.at + interval[t], ahead, Append(placed[t], place))
  <2>1. /\ total \in Nat /\ interval[t] \in Nat /\ frames[t] \in Seq(Packet) /\ frames[t] # <<>>
        /\ out[t] \in Nat /\ next[t] \in Nat \cup {NoTime} /\ early[t] \in Nat /\ placed[t] \in Seq(Place)
    BY <1>2, <1>3
  <2> QED
    BY <1>7, <2>1, PlacingKeeps, Zenon DEF p, start, pos, ahead, place
<1>9. Tail(frames[t]) \in Seq(Packet) /\ Append(placed[t], place) \in Seq(Place)
  BY <1>2, <1>3, <1>8, HeadTailProperties, AppendProperties
<1>10. TypeOK'
  <2>1. frames' \in [Tracks -> Seq(Packet)] /\ placed' \in [Tracks -> Seq(Place)]
    BY <1>1, <1>3, <1>6, <1>9 DEF TypeOK
  <2>2. out' \in [Tracks -> Nat] /\ early' \in [Tracks -> Nat] /\ next' \in [Tracks -> Nat \cup {NoTime}]
    BY <1>1, <1>4, <1>6, <1>8 DEF TypeOK
  <2> QED
    BY <1>1, <1>3, <2>1, <2>2 DEF TypeOK
<1>11. TracksOK'
  <2> SUFFICES ASSUME NEW u \in Tracks
               PROVE  TrackOK(phase, total, interval[u], frames'[u], out'[u], next'[u], early'[u], placed'[u])
    BY <1>3 DEF TracksOK
  <2>1. CASE u = t
    <3>1. /\ frames'[t] = Tail(frames[t]) /\ placed'[t] = Append(placed[t], place)
          /\ out'[t] = pos + InSamples(interval[t]) /\ next'[t] = p.at + interval[t] /\ early'[t] = ahead
      BY <1>1, <1>3, <1>5, <1>6 DEF TypeOK
    <3> QED
      BY <1>3, <1>8, <2>1, <3>1
  <2>2. CASE u # t
    <3>1. /\ frames'[u] = frames[u] /\ placed'[u] = placed[u]
          /\ out'[u] = out[u] /\ next'[u] = next[u] /\ early'[u] = early[u]
      BY <1>1, <1>3, <1>4, <1>6, <2>2 DEF TypeOK
    <3>2. TrackOK(phase, total, interval[u], frames[u], out[u], next[u], early[u], placed[u])
      BY <1>1 DEF TracksOK
    <3> QED
      BY <3>1, <3>2
  <2> QED
    BY <2>1, <2>2
<1> QED
  BY <1>10, <1>11 DEF IInv

LEMMA FinalizeKeeps ==
  ASSUME IInv, finalize_up_to
  PROVE  IInv'
<1> DEFINE pad(t) == Silence(Larger(next[t], 0), total)
<1>1. TypeOK /\ TracksOK
  BY DEF IInv
<1>2. /\ phase = "aligning" /\ \A t \in Tracks : frames[t] = <<>>
      /\ phase' = "padded" /\ out' = [t \in Tracks |-> out[t] + pad(t)] /\ next' = [t \in Tracks |-> total]
      /\ UNCHANGED <<interval, frames, total, early, placed>>
  BY DEF finalize_up_to
<1>3. ASSUME NEW t \in Tracks
      PROVE  /\ out[t] + pad(t) \in Nat
             /\ TrackOK("padded", total, interval[t], <<>>, out[t] + pad(t), total, early[t], placed[t])
  <2>1. /\ interval[t] \in Nat /\ placed[t] \in Seq(Place) /\ total \in Nat
        /\ out[t] \in Nat /\ early[t] \in Nat /\ next[t] \in Nat \cup {NoTime}
    BY <1>1, TrackTypes
  <2>2. TrackOK("aligning", total, interval[t], <<>>, out[t], next[t], early[t], placed[t])
    BY <1>1, <1>2 DEF TracksOK
  <2>3. /\ pad(t) \in Nat
        /\ TrackOK("padded", total, interval[t], <<>>, out[t] + pad(t), total, early[t], placed[t])
    BY <2>1, <2>2, PaddingKeeps
  <2> QED
    BY <2>1, <2>3
<1> HIDE DEF pad
<1>4. TypeOK'
  <2>1. out' \in [Tracks -> Nat] /\ next' \in [Tracks -> Nat \cup {NoTime}]
    BY <1>1, <1>2, <1>3 DEF TypeOK
  <2> QED
    BY <1>1, <1>2, <2>1 DEF TypeOK
<1>5. TracksOK'
  <2> SUFFICES ASSUME NEW t \in Tracks
               PROVE  TrackOK("padded", total, interval[t], <<>>, out'[t], next'[t], early[t], placed[t])
    BY <1>2 DEF TracksOK
  <2>1. out'[t] = out[t] + pad(t) /\ next'[t] = total
    BY <1>2
  <2> QED
    BY <1>3, <2>1
<1> QED
  BY <1>4, <1>5 DEF IInv

LEMMA StepIInv == IInv /\ [Next]_vars => IInv'
<1> SUFFICES ASSUME IInv, [Next]_vars
             PROVE  IInv'
  OBVIOUS
<1>1. ASSUME NEW t \in Tracks, NEW i \in Intervals, StreamStarted(t, i)
      PROVE  IInv'
  BY <1>1, StreamStartedKeeps
<1>2. ASSUME NEW t \in Tracks, NEW time \in 0..MaxTime, NEW c \in Contents, Frame(t, time, c)
      PROVE  IInv'
  BY <1>2, FrameKeeps
<1>3. ASSUME NEW t \in Tracks, ingest(t)
      PROVE  IInv'
  BY <1>3, IngestKeeps
<1>4. CASE CaptureOver
  BY <1>4, CaptureOverKeeps
<1>5. CASE finalize_up_to
  BY <1>5, FinalizeKeeps
<1>6. CASE Ended \/ UNCHANGED vars
  BY <1>6 DEF Ended, vars, IInv, TypeOK, TracksOK
<1> QED
  BY <1>1, <1>2, <1>3, <1>4, <1>5, <1>6 DEF Next

LEMMA Inductive == Spec => []IInv
BY InitIInv, StepIInv, PTL DEF Spec

-----------------------------------------------------------------------------
(* What the invariant says of the recording.                               *)

LEMMA Halved ==
  ASSUME NEW a \in Int, NEW b \in Int, NEW c \in Int, Near(a, b, 2 * c)
  PROVE  Distance(a, b) <= c
BY DEF Near, Distance, Larger

LEMMA Doubled ==
  ASSUME NEW a \in Int, NEW b \in Int, NEW c \in Int, Near(a, b, c)
  PROVE  2 * Distance(a, b) <= c
BY DEF Near, Distance, Larger

LEMMA OriginType ==
  ASSUME TypeOK, NEW t \in Tracks
  PROVE  Origin(t) = First(placed[t]) /\ Origin(t) \in Nat
<1>1. placed[t] \in Seq(Place)
  BY TrackTypes
<1> QED
  BY <1>1, FirstIsTime DEF Origin, First

LEMMA HeardAt ==
  ASSUME TypeOK, NEW t \in Tracks, NEW pos \in Nat, NEW ahead \in Nat
  PROVE  Heard(t, pos, ahead) = Ticks(pos) + Origin(t) - ahead /\ Heard(t, pos, ahead) \in Int
<1>1. Heard(t, pos, ahead) = Ticks(pos) + Origin(t) - ahead
  BY DEF Heard, Ticks
<1>2. Ticks(pos) \in Int /\ Origin(t) \in Nat
  BY TicksType, OriginType
<1> QED
  BY <1>1, <1>2

LEMMA PlacesOf ==
  ASSUME TypeOK, NEW t \in Tracks
  PROVE  Len(placed[t]) \in Nat /\ DOMAIN placed[t] = 1..Len(placed[t])
<1>1. placed[t] \in Seq(Place)
  BY TrackTypes
<1> QED
  BY <1>1, LenProperties

LEMMA PlaceTypes ==
  ASSUME TypeOK, NEW t \in Tracks, NEW k \in DOMAIN placed[t]
  PROVE  /\ k \in Nat /\ k >= 1 /\ k <= Len(placed[t])
         /\ placed[t][k].at \in Nat /\ placed[t][k].pos \in Nat /\ placed[t][k].early \in Nat
<1>1. placed[t] \in Seq(Place)
  BY TrackTypes
<1>2. k \in 1..Len(placed[t]) /\ Len(placed[t]) \in Nat
  BY PlacesOf
<1>3. placed[t][k] \in Place
  BY <1>1, <1>2, ElementOfSeq
<1> QED
  BY <1>2, <1>3 DEF Place

LEMMA TrackHolds ==
  ASSUME IInv, NEW t \in Tracks
  PROVE  TrackOK(phase, total, interval[t], frames[t], out[t], next[t], early[t], placed[t])
BY DEF IInv, TracksOK

LEMMA PlacesHold ==
  ASSUME IInv, NEW t \in Tracks, NEW k \in DOMAIN placed[t]
  PROVE  OnTime(placed[t][k], Origin(t), k) /\ KeptAll(placed[t][k], interval[t])
<1>1. k \in 1..Len(placed[t]) /\ Origin(t) = First(placed[t])
  BY PlacesOf, OriginType DEF IInv
<1> QED
  BY <1>1, TrackHolds DEF TrackOK

LEMMA PlacesOnTime ==
  ASSUME IInv, NEW t \in Tracks, NEW k \in DOMAIN placed[t]
  PROVE  LET p == placed[t][k]
         IN  Distance(Heard(t, p.pos, p.early), p.at) <= (k - 1) * TicksPerSample
<1> DEFINE p == placed[t][k]
<1>1. TypeOK
  BY DEF IInv
<1>2. p.at \in Nat /\ p.pos \in Nat /\ p.early \in Nat /\ k - 1 \in Int
  BY <1>1, PlaceTypes
<1>3. /\ Heard(t, p.pos, p.early) \in Int
      /\ Near(Heard(t, p.pos, p.early), p.at, Ticks(2 * (k - 1)))
  <2>1. /\ Heard(t, p.pos, p.early) = Ticks(p.pos) + Origin(t) - p.early
        /\ Heard(t, p.pos, p.early) \in Int
    BY <1>1, <1>2, HeardAt
  <2>2. Near(Ticks(p.pos) + Origin(t) - p.early, p.at, Ticks(2 * (k - 1)))
    BY PlacesHold DEF OnTime
  <2> QED
    BY <2>1, <2>2
<1>4. Ticks(2 * (k - 1)) = 2 * Ticks(k - 1) /\ Ticks(k - 1) \in Int
  BY <1>2, SampleHasTicks DEF Ticks
<1> HIDE DEF p
<1>5. Distance(Heard(t, p.pos, p.early), p.at) <= Ticks(k - 1)
  BY <1>2, <1>3, <1>4, Halved
<1> QED
  BY <1>5 DEF Ticks, p

LEMMA Implied == IInv => Inv
<1> SUFFICES ASSUME IInv
             PROVE  Inv
  OBVIOUS
<1>1. TypeOK
  BY DEF IInv
<1>2. PlacedByTime
  BY PlacesOnTime DEF PlacedByTime
<1>3. LengthMatchesClock
  <2> SUFFICES ASSUME NEW t \in Tracks, next[t] # NoTime
               PROVE  2 * Distance(Heard(t, out[t], early[t]), next[t]) <= (2 * Len(placed[t]) + 1) * TicksPerSample
    BY DEF LengthMatchesClock
  <2> DEFINE a == Heard(t, out[t], early[t])
             m == 2 * Len(placed[t])
  <2>1. /\ out[t] \in Nat /\ early[t] \in Nat /\ next[t] \in Nat
        /\ a = Ticks(out[t]) + First(placed[t]) - early[t] /\ a \in Int /\ m \in Nat
    <3>1. out[t] \in Nat /\ early[t] \in Nat /\ next[t] \in Nat
      BY <1>1, TrackTypes
    <3>2. a = Ticks(out[t]) + Origin(t) - early[t] /\ a \in Int
      BY <1>1, <3>1, HeardAt
    <3>3. Origin(t) = First(placed[t]) /\ m \in Nat
      BY <1>1, OriginType, PlacesOf
    <3> QED
      BY <3>1, <3>2, <3>3
  <2>2. Near(a, next[t], Ticks(m - 1)) \/ Near(a, next[t], Ticks(m + 1))
    BY <2>1, TrackHolds DEF TrackOK
  <2> HIDE DEF a, m
  <2>3. Ticks(m - 1) <= Ticks(m + 1) /\ Ticks(m - 1) \in Int /\ Ticks(m + 1) \in Int
    BY <2>1, TicksType, TicksGrow
  <2>4. 2 * Distance(a, next[t]) <= Ticks(m - 1) \/ 2 * Distance(a, next[t]) <= Ticks(m + 1)
    BY <2>1, <2>2, <2>3, Doubled
  <2>5. Distance(a, next[t]) \in Int
    BY <2>1 DEF Distance, Larger
  <2>6. 2 * Distance(a, next[t]) <= Ticks(m + 1)
    BY <2>3, <2>4, <2>5
  <2> QED
    BY <2>6 DEF a, m, Ticks
<1>4. KeptWhole
  BY PlacesHold DEF KeptWhole, KeptAll
<1> QED
  BY <1>1, <1>2, <1>3, <1>4 DEF Inv

\* From a track's own first packet on every packet is where its host time puts
\* it, and the length of the output follows the clock, off by nothing but the
\* counted roundings and overlaps (TimelineAligner::ingest, finalize_up_to).  A
\* track whose packets all have the interval kept for it loses no sample of a
\* packet that is not longer than that interval; no more is said of lengths.
THEOREM TimelineIsRight == Spec => []Inv
<1>1. IInv => Inv
  BY Implied
<1> QED
  BY <1>1, Inductive, PTL

-----------------------------------------------------------------------------
(* RecordingControl.  Captures and stops share nothing with the timeline:  *)
(* its invariant is its own.                                               *)

\* Whatever a caller holds, and whatever is current, is a capture that was
\* started; a caller between two steps of a start or a stop holds one.
Started ==
  /\ current # NoSession => capture[current] # "none"
  /\ \A c \in Callers :
       /\ held[c] # NoSession => capture[held[c]] # "none"
       /\ pc[c] \in {"watching", "spawning", "joining"} => held[c] # NoSession

ControlIInv == ControlInv /\ Started

LEMMA InitControlIInv == ControlInit => ControlIInv
<1> SUFFICES ASSUME ControlInit
             PROVE  ControlIInv
  OBVIOUS
<1>1. ControlTypeOK
  BY DEF ControlInit, ControlTypeOK
<1>2. NoRunaway /\ OneStopEach
  BY DEF ControlInit, NoRunaway, OneStopEach
<1>3. Started
  BY DEF ControlInit, Started
<1> QED
  BY <1>1, <1>2, <1>3 DEF ControlIInv, ControlInv

-----------------------------------------------------------------------------
(* One lemma per step of a command.                                        *)

LEMMA ConfirmKeeps == ControlIInv /\ Confirm => ControlIInv'
BY DEF Confirm, recording, shown, ControlIInv, ControlInv, ControlTypeOK, NoRunaway, OneStopEach, Started

\* A start that is refused, a start past its checks, and the steps of a start
\* that spawn tasks touch neither recordings nor stops.
LEMMA AskStartKeeps ==
  ASSUME ControlIInv, NEW c \in Callers, AskStart(c)
  PROVE  ControlIInv'
<1>1. pc[c] = "idle" /\ pc' = [pc EXCEPT ![c] = "starting"] /\ lastError' = "none" /\ consent' = TRUE
  BY DEF AskStart, Goes, ControlIInv, ControlInv, ControlTypeOK
<1>2. UNCHANGED <<current, capture, told, outcome, tasks, held, lastSummary>>
  BY DEF AskStart, recording
<1>3. ControlTypeOK'
  BY <1>1, <1>2 DEF ControlIInv, ControlInv, ControlTypeOK, StartSteps
<1>4. \A d \in Callers : pc'[d] \in {"watching", "spawning", "joining"} => pc[d] = pc'[d]
  BY <1>1 DEF ControlIInv, ControlInv, ControlTypeOK
<1>5. NoRunaway'
  BY <1>2 DEF ControlIInv, ControlInv, NoRunaway
<1>6. OneStopEach' /\ Started'
  BY <1>2, <1>4 DEF ControlIInv, ControlInv, OneStopEach, Started
<1> QED
  BY <1>3, <1>5, <1>6 DEF ControlIInv, ControlInv

LEMMA RegisterKeeps ==
  ASSUME ControlIInv, NEW c \in Callers, Register(c)
  PROVE  ControlIInv'
<1>1. PICK s \in Sessions :
        /\ capture[s] = "none"
        /\ capture' = [capture EXCEPT ![s] = "running"]
        /\ held' = [held EXCEPT ![c] = s]
        /\ current' = s
  BY DEF Register
<1>2. /\ pc[c] = "starting" /\ pc' = [pc EXCEPT ![c] = "watching"]
      /\ told' = SenderDropped
      /\ UNCHANGED <<consent, outcome, tasks, lastError, lastSummary>>
  BY DEF Register, Goes, shown
<1>3. ControlTypeOK'
  BY <1>1, <1>2 DEF ControlIInv, ControlInv, ControlTypeOK, StartSteps, SenderDropped
<1>4. NoRunaway'
  BY <1>1, <1>2, ControlAssumption DEF ControlIInv, ControlInv, ControlTypeOK, NoRunaway, SenderDropped
<1>5. \A d \in Callers : pc'[d] = "joining" => d # c /\ pc[d] = "joining" /\ held'[d] = held[d]
  BY <1>1, <1>2 DEF ControlIInv, ControlInv, ControlTypeOK
<1>6. OneStopEach'
  BY <1>1, <1>2, <1>5 DEF ControlIInv, ControlInv, ControlTypeOK, OneStopEach, Started
<1>7. Started'
  BY <1>1, <1>2, ControlAssumption DEF ControlIInv, ControlInv, ControlTypeOK, Started
<1> QED
  BY <1>3, <1>4, <1>6, <1>7 DEF ControlIInv, ControlInv

LEMMA SpawnKeeps ==
  ASSUME ControlIInv, NEW c \in Callers, Watch(c) \/ SpawnTasks(c)
  PROVE  ControlIInv'
<1>1. UNCHANGED <<consent, current, capture, told, outcome, lastError, lastSummary>>
  BY DEF Watch, SpawnTasks, recording, shown
<1>2. tasks' \in [Sessions -> SUBSET SessionTasks]
  <2>1. CASE Watch(c)
    <3>1. PICK with \in SUBSET {"hint"} :
            tasks' = IF current = NoSession THEN tasks
                     ELSE [tasks EXCEPT ![held[c]] = {"ui"} \cup with]
      BY <2>1 DEF Watch
    <3>2. {"ui"} \cup with \in SUBSET SessionTasks
      BY DEF SessionTasks
    <3> QED
      BY <3>1, <3>2 DEF ControlIInv, ControlInv, ControlTypeOK
  <2>2. CASE SpawnTasks(c)
    BY <2>2 DEF SpawnTasks, SessionTasks, ControlIInv, ControlInv, ControlTypeOK
  <2> QED
    BY <2>1, <2>2
<1>3. \/ pc' = [pc EXCEPT ![c] = "spawning"] /\ held' = held /\ pc[c] = "watching"
      \/ pc' = [pc EXCEPT ![c] = "idle"] /\ held' = [held EXCEPT ![c] = NoSession]
  BY DEF Watch, SpawnTasks, Goes
<1>4. ControlTypeOK'
  BY <1>1, <1>2, <1>3 DEF ControlIInv, ControlInv, ControlTypeOK, StartSteps
<1>5. \A d \in Callers : pc'[d] = "joining" => pc[d] = "joining" /\ held'[d] = held[d]
  BY <1>3 DEF ControlIInv, ControlInv, ControlTypeOK
<1>6. NoRunaway'
  BY <1>1 DEF ControlIInv, ControlInv, NoRunaway
<1>7. OneStopEach'
  BY <1>1, <1>5 DEF ControlIInv, ControlInv, OneStopEach
<1>8. Started'
  BY <1>1, <1>3 DEF ControlIInv, ControlInv, ControlTypeOK, Started
<1> QED
  BY <1>4, <1>6, <1>7, <1>8 DEF ControlIInv, ControlInv

LEMMA NothingKeeps ==
  ASSUME ControlIInv, NEW c \in Callers, NothingToStop(c)
  PROVE  ControlIInv'
BY DEF NothingToStop, recording, ControlIInv, ControlInv, ControlTypeOK, NoRunaway, OneStopEach, Started

\* The stop that takes the recording is the only one that has it: those that
\* wait already hold others.
LEMMA TakeKeeps ==
  ASSUME ControlIInv, NEW c \in Callers, Take(c)
  PROVE  ControlIInv'
<1>1. /\ pc[c] = "idle" /\ current \in Sessions
      /\ held' = [held EXCEPT ![c] = current] /\ pc' = [pc EXCEPT ![c] = "joining"]
      /\ current' = NoSession /\ told' = told \cup {current}
      /\ UNCHANGED <<consent, capture, outcome, tasks, lastError, lastSummary>>
  BY DEF Take, TakeIt, Goes, shown, ControlIInv, ControlInv, ControlTypeOK
<1>2. ControlTypeOK'
  BY <1>1 DEF ControlIInv, ControlInv, ControlTypeOK
<1>3. NoRunaway'
  BY <1>1 DEF ControlIInv, ControlInv, NoRunaway
<1>4. OneStopEach'
  BY <1>1, ControlAssumption DEF ControlIInv, ControlInv, ControlTypeOK, OneStopEach, Started
<1>5. Started'
  BY <1>1, ControlAssumption DEF ControlIInv, ControlInv, ControlTypeOK, Started
<1> QED
  BY <1>2, <1>3, <1>4, <1>5 DEF ControlIInv, ControlInv

LEMMA JoinedKeeps ==
  ASSUME ControlIInv, NEW c \in Callers, Joined(c)
  PROVE  ControlIInv'
<1> DEFINE s == held[c]
<1>1. /\ pc[c] = "joining" /\ s \in Sessions /\ capture[s] = "ended"
      /\ tasks' = [tasks EXCEPT ![s] = {}]
      /\ held' = [held EXCEPT ![c] = NoSession] /\ pc' = [pc EXCEPT ![c] = "idle"]
      /\ UNCHANGED <<consent, current, capture, told, outcome>>
  BY DEF Joined, TellTasks, Goes, recording, ControlIInv, ControlInv, ControlTypeOK, Started
<1>2. lastError' \in Sessions \cup {"none", "stop"} /\ lastSummary' \in Sessions \cup {NoSession}
  BY <1>1 DEF Joined, ControlIInv, ControlInv, ControlTypeOK
<1> HIDE DEF s
<1>3. ControlTypeOK'
  BY <1>1, <1>2 DEF ControlIInv, ControlInv, ControlTypeOK
<1>4. NoRunaway'
  BY <1>1 DEF ControlIInv, ControlInv, NoRunaway
<1>5. OneStopEach'
  BY <1>1 DEF ControlIInv, ControlInv, ControlTypeOK, OneStopEach
<1>6. Started'
  BY <1>1 DEF ControlIInv, ControlInv, ControlTypeOK, Started
<1> QED
  BY <1>3, <1>4, <1>5, <1>6 DEF ControlIInv, ControlInv

LEMMA CaptureEndsKeeps ==
  ASSUME ControlIInv, NEW s \in Sessions, CaptureEnds(s)
  PROVE  ControlIInv'
<1>1. PICK o \in Outcomes : outcome' = [outcome EXCEPT ![s] = o]
  BY DEF CaptureEnds
<1>2. /\ capture[s] = "running" /\ capture' = [capture EXCEPT ![s] = "ended"]
      /\ UNCHANGED <<consent, current, told, tasks, pc, held, lastError, lastSummary>>
  BY DEF CaptureEnds, shown
<1>3. ControlTypeOK'
  BY <1>1, <1>2 DEF ControlIInv, ControlInv, ControlTypeOK
<1>4. NoRunaway' /\ OneStopEach' /\ Started'
  BY <1>2 DEF ControlIInv, ControlInv, ControlTypeOK, NoRunaway, OneStopEach, Started
<1> QED
  BY <1>3, <1>4 DEF ControlIInv, ControlInv

LEMMA StepControlIInv == ControlIInv /\ [ControlNext]_controlVars => ControlIInv'
<1> SUFFICES ASSUME ControlIInv, [ControlNext]_controlVars
             PROVE  ControlIInv'
  OBVIOUS
<1>1. ASSUME NEW c \in Callers, Call(c) \/ Proceed(c)
      PROVE  ControlIInv'
  BY <1>1, AskStartKeeps, NothingKeeps, TakeKeeps, RegisterKeeps, SpawnKeeps, JoinedKeeps
     DEF Call, Proceed
<1>2. CASE UNCHANGED controlVars
  BY <1>2 DEF controlVars, recording, shown, ControlIInv, ControlInv, ControlTypeOK, NoRunaway, OneStopEach, Started
<1> QED
  BY <1>1, <1>2, ConfirmKeeps, CaptureEndsKeeps DEF ControlNext

-----------------------------------------------------------------------------
LEMMA ControlInductive == ControlSpec => []ControlIInv
BY InitControlIInv, StepControlIInv, PTL DEF ControlSpec

\* Every running capture is the current one or was told to stop, although a
\* start may overtake another; and no two stops wait for one recording, nor
\* can a start replace what a stop waits for (recording::start and stop).
THEOREM NoneOutOfReach == ControlSpec => []ControlInv
<1>1. ControlIInv => ControlInv
  BY DEF ControlIInv
<1> QED
  BY ControlInductive, <1>1, PTL
=============================================================================
