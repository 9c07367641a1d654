-------------------------- MODULE RemoteClockProofs --------------------------
(***************************************************************************)
(* Proofs about RemoteClock, for recordings of any length, any pre-roll    *)
(* and hangover, and any number of heartbeats, losses and outages: audio   *)
(* gets its own time back, and the gate clips no onset.                    *)
(***************************************************************************)
EXTENDS RemoteClock, FiniteSetTheorems, SequenceTheorems, TLAPS

-----------------------------------------------------------------------------
(* TimestampMapper: what a set of checkpoints says of a position.          *)

\* One checkpoint to a position.
Unique(C) == \A c, d \in C : c.at = d.at => c = d

\* The last checkpoint at or before p has offset o; without any it is 0.
OffsetAt(C, p, o) ==
  \/ o = 0 /\ \A c \in C : c.at > p
  \/ \E c \in C : c.offset = o /\ c.at <= p /\ \A d \in C : d.at <= p => d.at <= c.at

Checkpoints == [at : Nat, offset : Int]

\* to_wallclock reads that offset.
LEMMA WallclockReadsOffset ==
  ASSUME checkpoints \subseteq Checkpoints, Unique(checkpoints),
         NEW p \in Nat, NEW o \in Int, OffsetAt(checkpoints, p, o)
  PROVE  to_wallclock(p) = IF p + o < 0 THEN 0 ELSE p + o
<1> DEFINE before == {c \in checkpoints : c.at <= p}
           last == CHOOSE c \in before : \A d \in before : d.at <= c.at
<1>1. CASE o = 0 /\ \A c \in checkpoints : c.at > p
  <2>1. before = {}
    BY <1>1 DEF Checkpoints
  <2> QED
    BY <1>1, <2>1 DEF to_wallclock
<1>2. ASSUME NEW c \in checkpoints, c.offset = o, c.at <= p,
             \A d \in checkpoints : d.at <= p => d.at <= c.at
      PROVE  to_wallclock(p) = IF p + o < 0 THEN 0 ELSE p + o
  <2>1. c \in before /\ \A d \in before : d.at <= c.at
    BY <1>2
  <2>2. last \in before /\ \A d \in before : d.at <= last.at
    BY <2>1
  <2>3. last.at = c.at
    BY <2>1, <2>2 DEF Checkpoints
  <2>4. last = c
    BY <2>2, <2>3 DEF Unique
  <2>5. before # {}
    BY <2>1
  <2> HIDE DEF before, last
  <2>6. to_wallclock(p) = LET time == p + last.offset IN IF time < 0 THEN 0 ELSE time
    BY <2>5 DEF to_wallclock, before, last
  <2> QED
    BY <1>2, <2>4, <2>6
<1> QED
  BY <1>1, <1>2 DEF OffsetAt

\* A checkpoint at q decides for the positions from q on and for no others,
\* when none was recorded behind q.
LEMMA RecordedCheckpoint ==
  ASSUME checkpoints \subseteq Checkpoints, Unique(checkpoints), NEW q \in Nat, NEW v \in Int,
         \A c \in checkpoints : c.at <= q
  PROVE  LET C == record_checkpoint(q, v)
         IN  /\ C \subseteq Checkpoints /\ Unique(C) /\ \A c \in C : c.at <= q
             /\ \A p \in Nat : p >= q => OffsetAt(C, p, v)
             /\ \A p \in Nat, o \in Int : p < q /\ OffsetAt(checkpoints, p, o) => OffsetAt(C, p, o)
<1> DEFINE C == record_checkpoint(q, v)
           new == Checkpoint(q, v)
<1>1. C = {c \in checkpoints : c.at # q} \cup {new}
  BY DEF record_checkpoint
<1>2. new \in Checkpoints /\ new.at = q /\ new.offset = v
  BY DEF Checkpoint, Checkpoints
<1> HIDE DEF C, new
<1>3. C \subseteq Checkpoints /\ \A c \in C : c.at <= q
  BY <1>1, <1>2
<1>4. Unique(C)
  BY <1>1, <1>2 DEF Unique
<1>5. ASSUME NEW p \in Nat, p >= q
      PROVE  OffsetAt(C, p, v)
  BY <1>1, <1>2, <1>3, <1>5 DEF OffsetAt
<1>6. ASSUME NEW p \in Nat, NEW o \in Int, p < q, OffsetAt(checkpoints, p, o)
      PROVE  OffsetAt(C, p, o)
  <2>1. \A c \in checkpoints : c.at <= p => c \in C
    BY <1>1, <1>6 DEF Checkpoints
  <2>2. \A c \in C : c.at <= p => c \in checkpoints
    BY <1>1, <1>2, <1>6
  <2>3. CASE o = 0 /\ \A c \in checkpoints : c.at > p
    <3>1. \A c \in C : c.at > p
      BY <1>3, <2>2, <2>3 DEF Checkpoints
    <3> QED
      BY <2>3, <3>1 DEF OffsetAt
  <2>4. CASE \E c \in checkpoints : /\ c.offset = o /\ c.at <= p
                                    /\ \A d \in checkpoints : d.at <= p => d.at <= c.at
    BY <2>1, <2>2, <2>4 DEF OffsetAt
  <2> QED
    BY <1>6, <2>3, <2>4 DEF OffsetAt
<1> QED
  BY <1>3, <1>4, <1>5, <1>6 DEF C

-----------------------------------------------------------------------------
(* The invariant.                                                          *)

Types ==
  /\ now \in 0..Duration
  /\ gate \in {"speaking", "hangover", "silent"} /\ hang \in Nat
  /\ pre_roll \in Seq(0..Duration) /\ Len(pre_roll) <= PreRoll
  /\ session \in {"up", "down", "gone"}
  /\ samples_sent \in Nat /\ total_injected \in Nat /\ net_offset \in Int
  /\ checkpoints \subseteq Checkpoints
  /\ disconnected_at \in 0..now /\ connected_at \in 0..now
  /\ sent \in [DOMAIN sent -> 0..Duration] /\ DOMAIN sent \subseteq Nat
  /\ lost \subseteq 0..Duration /\ loud \subseteq 0..Duration /\ outages \in 0..MaxOutages

LEMMA TypesAreTypeOK == Types <=> TypeOK
BY DEF Types, TypeOK, Checkpoints

\* Only what was captured is sent, held back, lost or loud, and what was sent
\* has its place in the audio of this session.
Past ==
  /\ lost \subseteq 0..(now - 1) /\ loud \subseteq 0..(now - 1)
  /\ \A i \in 1..Len(pre_roll) : pre_roll[i] < now
  /\ \A p \in DOMAIN sent : p < Position /\ sent[p] < now

\* The time of a window by the recording's own count, which a loss stops.
LostBefore(w) == Cardinality({l \in lost : l < w})
Stamp(w) == w - LostBefore(w)

\* The provider's clock and its offset add up to the time of what is held back.
Elapsed == Position + net_offset + Len(pre_roll) + Cardinality(lost)
Clock == (session = "up" => Elapsed = now) /\ (session = "down" => Elapsed = disconnected_at)

\* The checkpoints give every window of this session its stamp, and whatever
\* is sent next the current offset.
Checked ==
  /\ Unique(checkpoints) /\ \A c \in checkpoints : c.at <= Position
  /\ \A p \in Nat : p >= Position => OffsetAt(checkpoints, p, net_offset)
  /\ \A p \in DOMAIN sent : sent[p] >= connected_at => OffsetAt(checkpoints, p, Stamp(sent[p]) - p)

\* What is held back during this session lies gapless, up to losses, before now.
HeldBack ==
  /\ gate # "silent" => pre_roll = <<>>
  /\ session = "up" => \A i \in 1..Len(pre_roll) : pre_roll[i] >= connected_at =>
       Stamp(pre_roll[i]) = now - Cardinality(lost) - Len(pre_roll) + i - 1

\* What became of the windows of a session.
Handled ==
  session = "up" => \A w \in connected_at..(now - 1) :
    w \in lost \/ w \in Range(sent) \/ w \in Range(pre_roll) \/ now - w > PreRoll

IInv == Types /\ Past /\ Clock /\ Checked /\ HeldBack /\ Handled /\ SpeechIsSent

-----------------------------------------------------------------------------
(* Counting losses.                                                        *)

LEMMA Constants ==
  /\ Hangover \in Nat /\ PreRoll \in Nat /\ Duration \in Nat
  /\ MaxHeartbeats \in Nat /\ MaxOutages \in Nat /\ MaxLost \in Nat
BY WindowsAssumption

LEMMA Numbers ==
  ASSUME Types
  PROVE  /\ Duration \in Nat /\ now \in Nat /\ now <= Duration
         /\ Len(pre_roll) \in Nat /\ Position \in Nat /\ net_offset \in Int
         /\ samples_sent \in Nat /\ total_injected \in Nat
         /\ connected_at \in Nat /\ connected_at <= now
         /\ disconnected_at \in Nat /\ disconnected_at <= now
         /\ \A i \in 1..Len(pre_roll) : pre_roll[i] \in Nat
         /\ \A p \in DOMAIN sent : p \in Nat /\ sent[p] \in Nat /\ sent[p] <= Duration
         /\ lost \subseteq Nat /\ loud \subseteq Nat
<1>1. Duration \in Nat /\ now \in Nat /\ now <= Duration
  BY Constants DEF Types
<1>2. Len(pre_roll) \in Nat /\ Position \in Nat /\ net_offset \in Int
      /\ samples_sent \in Nat /\ total_injected \in Nat
  BY DEF Types, Position
<1>3. /\ connected_at \in Nat /\ connected_at <= now
      /\ disconnected_at \in Nat /\ disconnected_at <= now
  BY <1>1 DEF Types
<1>4. ASSUME NEW i \in 1..Len(pre_roll)
      PROVE  pre_roll[i] \in Nat
  BY <1>1 DEF Types
<1>5. ASSUME NEW p \in DOMAIN sent
      PROVE  p \in Nat /\ sent[p] \in Nat /\ sent[p] <= Duration
  BY <1>1 DEF Types
<1>6. lost \subseteq Nat /\ loud \subseteq Nat
  BY <1>1 DEF Types
<1> QED
  BY <1>1, <1>2, <1>3, <1>4, <1>5, <1>6

LEMMA LostCount ==
  ASSUME Types
  PROVE  /\ IsFiniteSet(lost) /\ Cardinality(lost) \in Nat
         /\ \A w \in Nat : LostBefore(w) \in 0..w
<1>1. IsFiniteSet(0..Duration)
  BY Constants, FS_Interval
<1>2. IsFiniteSet(lost)
  BY <1>1, FS_Subset DEF Types
<1>3. ASSUME NEW w \in Nat
      PROVE  LostBefore(w) \in 0..w
  <2>1. {l \in lost : l < w} \subseteq 0..(w - 1)
    <3>1. ASSUME NEW l \in lost, l < w
          PROVE  l \in 0..(w - 1)
      <4>1. l \in Nat
        BY Numbers
      <4> QED
        BY <3>1, <4>1
    <3> QED
      BY <3>1
  <2>2. IsFiniteSet(0..(w - 1)) /\ Cardinality(0..(w - 1)) = w
    <3>1. IsFiniteSet(0..(w - 1)) /\ Cardinality(0..(w - 1)) = IF 0 > w - 1 THEN 0 ELSE (w - 1) - 0 + 1
      BY FS_Interval
    <3> QED
      BY <3>1
  <2>3. /\ IsFiniteSet({l \in lost : l < w})
        /\ Cardinality({l \in lost : l < w}) <= Cardinality(0..(w - 1))
    BY <2>1, <2>2, FS_Subset
  <2>4. Cardinality({l \in lost : l < w}) \in Nat
    BY <2>3, FS_CardinalityType
  <2> QED
    BY <2>2, <2>3, <2>4 DEF LostBefore
<1> QED
  BY <1>2, <1>3, FS_CardinalityType

LEMMA LostFew ==
  ASSUME Types, NEW w
  PROVE  LostBefore(w) <= Cardinality(lost)
<1>1. {l \in lost : l < w} \subseteq lost
  OBVIOUS
<1> QED
  BY <1>1, LostCount, FS_Subset DEF LostBefore

LEMMA StampOfNow ==
  ASSUME Types, Past
  PROVE  Stamp(now) = now - Cardinality(lost)
<1>1. {l \in lost : l < now} = lost
  <2>1. ASSUME NEW l \in lost
        PROVE  l < now
    <3>1. now \in Nat /\ l \in 0..(now - 1)
      BY Numbers DEF Past
    <3> QED
      BY <3>1
  <2> QED
    BY <2>1
<1> QED
  BY <1>1 DEF Stamp, LostBefore

LEMMA LosingNow ==
  ASSUME Types, Past, lost' = lost \cup {now}
  PROVE  /\ Cardinality(lost') = Cardinality(lost) + 1
         /\ \A w \in 0..now : Stamp(w)' = Stamp(w)
<1>1. Cardinality(lost') = Cardinality(lost) + 1
  <2>1. now \notin lost
    BY Constants DEF Types, Past
  <2> QED
    BY <2>1, LostCount, FS_AddElement
<1>2. ASSUME NEW w \in 0..now
      PROVE  Stamp(w)' = Stamp(w)
  <2>1. {l \in lost' : l < w} = {l \in lost : l < w}
    BY Constants DEF Types
  <2> QED
    BY <2>1 DEF Stamp, LostBefore
<1> QED
  BY <1>1, <1>2

LEMMA Implied == IInv => Inv /\ SpeechIsSent
<1> SUFFICES ASSUME IInv
             PROVE  StampedByCapture
  BY TypesAreTypeOK DEF IInv, Inv
<1>1. SUFFICES ASSUME NEW p \in DOMAIN sent, sent[p] >= connected_at
               PROVE  to_wallclock(p) = Stamp(sent[p])
  BY DEF StampedByCapture, Stamp, LostBefore
<1>2. p \in Nat /\ sent[p] \in Nat
  BY Constants DEF IInv, Types
<1>3. Stamp(sent[p]) \in Nat
  BY <1>2, LostCount DEF IInv, Stamp
<1>4. OffsetAt(checkpoints, p, Stamp(sent[p]) - p)
  BY <1>1 DEF IInv, Checked
<1>5. to_wallclock(p) = IF p + (Stamp(sent[p]) - p) < 0 THEN 0 ELSE p + (Stamp(sent[p]) - p)
  BY <1>2, <1>3, <1>4, WallclockReadsOffset DEF IInv, Types, Checked
<1> QED
  BY <1>2, <1>3, <1>5

LEMMA InitIInv == Init => IInv
<1> SUFFICES ASSUME Init
             PROVE  IInv
  OBVIOUS
<1>1. Types
  BY Constants DEF Init, Types
<1>2. Cardinality(lost) = 0 /\ Position = 0
  BY FS_EmptySet DEF Init, Position
<1>3. Past /\ Clock /\ HeldBack /\ Handled /\ SpeechIsSent
  BY <1>2 DEF Init, Past, Clock, Elapsed, HeldBack, Handled, SpeechIsSent
<1>4. Checked
  BY <1>2 DEF Init, Checked, Unique, OffsetAt
<1> QED
  BY <1>1, <1>3, <1>4 DEF IInv

-----------------------------------------------------------------------------
(* A chunk that is sent: the window, after what was held back.             *)

\* The sending branches of handle_chunk are one: while the gate is open,
\* nothing is held back.
SendingStep(level) ==
  /\ session = "up" /\ now < Duration /\ now' = now + 1
  /\ gate' \in {"speaking", "hangover"} /\ hang' \in Nat /\ pre_roll' = <<>>
  /\ SendGated(Stitched(now))
  /\ loud' = IF level = "loud" /\ session' = "up" THEN loud \cup {now} ELSE loud
  /\ UNCHANGED <<connected_at, lost>>

HoldingStep(level) ==
  /\ session = "up" /\ now < Duration /\ now' = now + 1
  /\ gate' = "silent" /\ hang' \in Nat /\ level # "loud"
  /\ pre_roll' = push_pre_roll(now) /\ record_drop(Evicted)
  /\ UNCHANGED <<connected_at, lost, loud>>

\* Where the windows of a chunk go, and what the gate forgets.
LEMMA StitchedWindows ==
  ASSUME Types
  PROVE  /\ Stitched(now) \in Seq(0..Duration)
         /\ Len(Stitched(now)) = Len(pre_roll) + 1
         /\ Len(pre_roll) \in Nat
         /\ \A i \in 1..Len(pre_roll) : Stitched(now)[i] = pre_roll[i]
         /\ Stitched(now)[Len(pre_roll) + 1] = now
BY Constants DEF Types, Stitched

LEMMA ChunkCases ==
  ASSUME Types, HeldBack, NEW level \in Levels, handle_chunk(level)
  PROVE  SendingStep(level) \/ HoldingStep(level)
<1> DEFINE next == next_state(level)
<1>1. /\ next \in {"speaking", "hangover", "silent"}
      /\ level = "loud" => next # "silent"
  BY DEF next_state, Types, Levels
<1>2. /\ session = "up" /\ now < Duration /\ now' = now + 1 /\ gate' = next
      /\ hang' = IF gate = "hangover" /\ next = "hangover" THEN hang + 1 ELSE 0
      /\ \/ next = "silent" /\ pre_roll' = push_pre_roll(now) /\ record_drop(Evicted)
         \/ next # "silent" /\ gate = "silent" /\ pre_roll' = <<>> /\ SendGated(Stitched(now))
         \/ next # "silent" /\ gate # "silent" /\ UNCHANGED pre_roll /\ SendGated(<<now>>)
      /\ loud' = IF level = "loud" /\ session' = "up" THEN loud \cup {now} ELSE loud
      /\ UNCHANGED <<connected_at, lost>>
  BY DEF handle_chunk
<1> HIDE DEF next
<1>3. hang' \in Nat
  BY <1>2 DEF Types
<1>4. CASE next = "silent"
  BY <1>1, <1>2, <1>3, <1>4 DEF HoldingStep
<1>5. CASE next # "silent" /\ gate = "silent"
  BY <1>1, <1>2, <1>3, <1>5 DEF SendingStep
<1>6. CASE next # "silent" /\ gate # "silent"
  <2>1. pre_roll = <<>> /\ Stitched(now) = <<now>>
    BY <1>6 DEF HeldBack, Stitched
  <2> QED
    BY <1>1, <1>2, <1>3, <1>6, <2>1 DEF SendingStep
<1> QED
  BY <1>4, <1>5, <1>6

\* What a sending step does to the session's audio.
LEMMA SentAudio ==
  ASSUME Types, Past, NEW level, SendingStep(level), session' = "up"
  PROVE  LET n == Len(pre_roll) + 1
         IN  /\ DOMAIN sent' = DOMAIN sent \cup Position..(Position + n - 1)
             /\ \A p \in DOMAIN sent : sent'[p] = sent[p]
             /\ \A i \in 1..n : sent'[Position + i - 1] = Stitched(now)[i]
             /\ sent' \in [DOMAIN sent' -> 0..Duration]
<1> DEFINE n == Len(pre_roll) + 1
           windows == Stitched(now)
<1>1. /\ windows \in Seq(0..Duration) /\ Len(windows) = n /\ n \in Nat
  BY StitchedWindows
<1>2. Position \in Nat
  BY DEF Types, Position
<1>3. sent' = [p \in DOMAIN sent \cup Position..(Position + n - 1) |->
                 IF p < Position THEN sent[p] ELSE windows[p - Position + 1]]
  BY <1>1 DEF SendingStep, SendGated, Disconnects
<1> HIDE DEF windows
<1>4. \A p \in DOMAIN sent : p < Position /\ p \in Nat /\ sent[p] \in 0..Duration
  BY DEF Types, Past
<1>5. \A i \in 1..n : Position + i - 1 \in Position..(Position + n - 1)
                      /\ sent'[Position + i - 1] = windows[i]
  <2> SUFFICES ASSUME NEW i \in 1..n
               PROVE  Position + i - 1 \in Position..(Position + n - 1)
                      /\ sent'[Position + i - 1] = windows[i]
    OBVIOUS
  <2>1. /\ Position + i - 1 \in Position..(Position + n - 1)
        /\ ~(Position + i - 1 < Position) /\ (Position + i - 1) - Position + 1 = i
    BY <1>1, <1>2
  <2> QED
    BY <1>3, <2>1
<1>6. \A p \in DOMAIN sent' : sent'[p] \in 0..Duration
  <2>1. ASSUME NEW p \in Position..(Position + n - 1)
        PROVE  windows[p - Position + 1] \in 0..Duration
    <3>1. p - Position + 1 \in 1..Len(windows)
      BY <1>1, <1>2
    <3> QED
      BY <1>1, <3>1, ElementOfSeq
  <2> QED
    BY <1>2, <1>3, <1>4, <2>1
<1>7. sent' \in [DOMAIN sent' -> 0..Duration]
  BY <1>3, <1>6
<1>8. \A p \in DOMAIN sent : sent'[p] = sent[p]
  BY <1>3, <1>4
<1> QED
  BY <1>3, <1>5, <1>7, <1>8 DEF windows

LEMMA SendingTypes ==
  ASSUME IInv, NEW level, SendingStep(level)
  PROVE  Types' /\ Past'
<1> DEFINE n == Len(pre_roll) + 1
<1>1. n \in Nat /\ n > 0 /\ Len(Stitched(now)) = n
  BY StitchedWindows DEF IInv
<1>2. Types /\ Past /\ Checked
  BY DEF IInv
<1>3. /\ samples_sent' = samples_sent + n
      /\ checkpoints' = record_checkpoint(Position + n, net_offset)
      /\ UNCHANGED <<total_injected, net_offset, connected_at, lost>>
      /\ now' = now + 1 /\ now < Duration /\ pre_roll' = <<>> /\ hang' \in Nat
      /\ gate' \in {"speaking", "hangover"}
  BY <1>1 DEF SendingStep, SendGated
<1>4. /\ Duration \in Nat /\ now \in Nat /\ Position \in Nat /\ net_offset \in Int
      /\ samples_sent \in Nat /\ total_injected \in Nat
      /\ \A p \in DOMAIN sent : p \in Nat /\ sent[p] \in Nat /\ p < Position /\ sent[p] < now
  BY <1>2, Numbers DEF Past
<1>5. Position' = Position + n
  BY <1>1, <1>3, <1>4 DEF Position
<1>6. \A i \in 1..n : Stitched(now)[i] \in Nat /\ Stitched(now)[i] <= now
  <2> SUFFICES ASSUME NEW i \in 1..n
               PROVE  Stitched(now)[i] \in Nat /\ Stitched(now)[i] <= now
    OBVIOUS
  <2>1. CASE i = n
    BY <1>2, <1>4, <2>1, StitchedWindows
  <2>2. CASE i # n
    <3>1. i \in 1..Len(pre_roll)
      BY <1>2, <2>2, StitchedWindows
    <3>2. Stitched(now)[i] = pre_roll[i]
      BY <1>2, <3>1, StitchedWindows
    <3>3. pre_roll[i] \in Nat /\ pre_roll[i] < now
      BY <1>2, <3>1, Numbers DEF Past
    <3> QED
      BY <1>4, <3>2, <3>3
  <2> QED
    BY <2>1, <2>2
<1>7. checkpoints' \subseteq Checkpoints
  <2>1. \A c \in checkpoints : c.at <= Position + n
    BY <1>1, <1>2, <1>4 DEF Checked, Types, Checkpoints
  <2>2. checkpoints \subseteq Checkpoints /\ Unique(checkpoints) /\ Position + n \in Nat
    BY <1>1, <1>2, <1>4 DEF Checked, Types
  <2> HIDE DEF n
  <2> QED
    BY <1>3, <1>4, <2>1, <2>2, RecordedCheckpoint
<1> HIDE DEF n
<1>8. session' \in {"up", "down", "gone"} /\ outages' \in 0..MaxOutages /\ disconnected_at' \in 0..now'
  <2>1. \/ session' = session /\ disconnected_at' = disconnected_at /\ outages' = outages
        \/ /\ outages < MaxOutages /\ outages' = outages + 1
           /\ \/ session' = "down" /\ disconnected_at' = now + 1
              \/ session' = "gone" /\ disconnected_at' = 0
    BY DEF SendingStep, SendGated, Disconnects, Connected
  <2>2. session \in {"up", "down", "gone"} /\ outages \in 0..MaxOutages /\ disconnected_at \in 0..now
    BY <1>2 DEF Types
  <2> QED
    BY <1>3, <1>4, <2>1, <2>2, Constants
<1>9. /\ sent' \in [DOMAIN sent' -> 0..Duration]
      /\ \A p \in DOMAIN sent' : p \in Nat /\ p < Position' /\ sent'[p] < now'
  <2>1. \A p \in DOMAIN sent : p \in Nat /\ p < Position' /\ sent[p] < now'
    BY <1>1, <1>3, <1>4, <1>5
  <2>2. CASE session' = "up"
    <3>1. /\ DOMAIN sent' = DOMAIN sent \cup Position..(Position + n - 1)
          /\ \A p \in DOMAIN sent : sent'[p] = sent[p]
          /\ \A i \in 1..n : sent'[Position + i - 1] = Stitched(now)[i]
          /\ sent' \in [DOMAIN sent' -> 0..Duration]
      BY <1>2, <2>2, SentAudio DEF n
    <3>2. ASSUME NEW p \in Position..(Position + n - 1)
          PROVE  p < Position' /\ p \in Nat /\ sent'[p] < now'
      <4>1. p - Position + 1 \in 1..n /\ p = Position + (p - Position + 1) - 1
        BY <1>1, <1>4
      <4>2. sent'[p] = Stitched(now)[p - Position + 1]
        BY <3>1, <4>1
      <4> QED
        BY <1>1, <1>3, <1>4, <1>5, <1>6, <4>1, <4>2
    <3> QED
      BY <2>1, <3>1, <3>2
  <2>3. CASE session' # "up"
    <3>1. UNCHANGED sent
      BY <2>3 DEF SendingStep, SendGated, Connected
    <3> QED
      BY <1>2, <2>1, <3>1 DEF Types
  <2> QED
    BY <2>2, <2>3
<1>10. /\ loud' \subseteq 0..(now' - 1) /\ lost' \subseteq 0..(now' - 1)
       /\ loud' \subseteq 0..Duration /\ lost' \subseteq 0..Duration
  <2>1. loud' \subseteq loud \cup {now} /\ lost' = lost
    BY <1>3 DEF SendingStep
  <2>2. loud \subseteq 0..(now - 1) /\ lost \subseteq 0..(now - 1)
    BY <1>2 DEF Past
  <2> QED
    BY <1>3, <1>4, <2>1, <2>2
<1>11. /\ now' \in 0..Duration /\ samples_sent' \in Nat /\ total_injected' \in Nat
       /\ net_offset' \in Int /\ connected_at' \in 0..now' /\ Len(pre_roll') <= PreRoll
       /\ pre_roll' \in Seq(0..Duration)
  <2>1. connected_at \in 0..now
    BY <1>2 DEF Types
  <2> QED
    BY <1>1, <1>3, <1>4, <2>1, Constants
<1>12. Types'
  BY <1>3, <1>7, <1>8, <1>9, <1>10, <1>11 DEF Types
<1> QED
  BY <1>3, <1>9, <1>10, <1>12 DEF Past

LEMMA SendingClock ==
  ASSUME IInv, NEW level, SendingStep(level)
  PROVE  Clock' /\ Checked' /\ HeldBack'
<1> DEFINE n == Len(pre_roll) + 1
<1>1. n \in Nat /\ n > 0 /\ Len(pre_roll) \in Nat /\ Len(Stitched(now)) = n
  BY StitchedWindows DEF IInv
<1>2. Types /\ Past /\ Checked
  BY DEF IInv
<1>3. /\ Position \in Nat /\ net_offset \in Int /\ now \in Nat
      /\ samples_sent \in Nat /\ total_injected \in Nat
      /\ \A p \in DOMAIN sent : p \in Nat /\ sent[p] \in Nat /\ p < Position
  BY <1>2, Numbers DEF Past
<1>4. /\ samples_sent' = samples_sent + n
      /\ checkpoints' = record_checkpoint(Position + n, net_offset)
      /\ UNCHANGED <<total_injected, net_offset, connected_at, lost>>
      /\ now' = now + 1 /\ now < Duration /\ pre_roll' = <<>>
      /\ session = "up" /\ gate' # "silent"
  BY <1>1 DEF SendingStep, SendGated
<1>5. Position' = Position + n
  BY <1>1, <1>4, <1>3 DEF Position
<1>6. Cardinality(lost) \in Nat
  BY LostCount DEF IInv
<1>7. Position + net_offset + Len(pre_roll) + Cardinality(lost) = now
  BY <1>4 DEF IInv, Clock, Elapsed
<1>8. Clock'
  <2>1. Elapsed' = now'
    <3>1. Len(pre_roll') = 0
      BY <1>4
    <3>2. Elapsed' = Position' + net_offset' + Len(pre_roll') + Cardinality(lost)
      BY <1>4 DEF Elapsed
    <3> QED
      BY <1>1, <1>4, <1>5, <1>6, <1>7, <1>3, <3>1, <3>2
  <2>2. session' = "down" => disconnected_at' = now'
    BY <1>4 DEF SendingStep, SendGated, Disconnects, Connected
  <2> QED
    BY <2>1, <2>2 DEF Clock
<1>9. Checked'
  <2>1. /\ Unique(checkpoints') /\ \A c \in checkpoints' : c.at <= Position + n
        /\ \A p \in Nat : p >= Position + n => OffsetAt(checkpoints', p, net_offset)
        /\ \A p \in Nat, o \in Int : p < Position + n /\ OffsetAt(checkpoints, p, o) => OffsetAt(checkpoints', p, o)
    <3>1. \A c \in checkpoints : c.at <= Position + n
      BY <1>1, <1>2, <1>3 DEF Checked, Types, Checkpoints
    <3>2. checkpoints \subseteq Checkpoints /\ Unique(checkpoints) /\ Position + n \in Nat
      BY <1>1, <1>2, <1>3 DEF Checked, Types
    <3> HIDE DEF n
    <3> QED
      BY <1>4, <1>3, <3>1, <3>2, RecordedCheckpoint
  <2>2. \A w : Stamp(w)' = Stamp(w)
    BY <1>4 DEF Stamp, LostBefore
  <2>3. ASSUME NEW p \in DOMAIN sent, sent[p] >= connected_at
        PROVE  OffsetAt(checkpoints', p, Stamp(sent[p]) - p)
    <3>1. p \in Nat /\ p < Position + n /\ sent[p] \in Nat
      BY <1>1, <1>3
    <3>2. Stamp(sent[p]) - p \in Int
      BY <1>2, <3>1, LostCount DEF Stamp
    <3>3. OffsetAt(checkpoints, p, Stamp(sent[p]) - p)
      BY <1>2, <2>3 DEF Checked
    <3> QED
      BY <2>1, <3>1, <3>2, <3>3
  <2>4. ASSUME NEW i \in 1..n, Stitched(now)[i] >= connected_at
        PROVE  OffsetAt(checkpoints', Position + i - 1, Stamp(Stitched(now)[i]) - (Position + i - 1))
    <3>1. Stamp(Stitched(now)[i]) = now - Cardinality(lost) - Len(pre_roll) + i - 1
      <4>1. CASE i = n
        BY <1>1, <1>2, <1>6, <1>3, <4>1, StitchedWindows, StampOfNow
      <4>2. CASE i # n
        <5>1. i \in 1..Len(pre_roll) /\ Stitched(now)[i] = pre_roll[i]
          BY <1>1, <1>2, <4>2, StitchedWindows
        <5> QED
          BY <1>4, <2>4, <5>1 DEF IInv, HeldBack
      <4> QED
        BY <4>1, <4>2
    <3>2. Stamp(Stitched(now)[i]) - (Position + i - 1) = net_offset
      BY <1>1, <1>6, <1>7, <1>3, <3>1
    <3>3. Position + i - 1 \in Nat /\ Position + i - 1 >= Position /\ Position + i - 1 < Position + n
      BY <1>1, <1>3
    <3>4. OffsetAt(checkpoints, Position + i - 1, net_offset)
      BY <1>2, <3>3 DEF Checked
    <3> QED
      BY <1>3, <2>1, <3>2, <3>3, <3>4
  <2>5. \A p \in DOMAIN sent' : sent'[p] >= connected_at => OffsetAt(checkpoints', p, Stamp(sent'[p]) - p)
    <3>1. CASE session' = "up"
      <4>1. /\ DOMAIN sent' = DOMAIN sent \cup Position..(Position + n - 1)
            /\ \A p \in DOMAIN sent : sent'[p] = sent[p]
            /\ \A i \in 1..n : sent'[Position + i - 1] = Stitched(now)[i]
        BY <1>2, <3>1, SentAudio
      <4>2. ASSUME NEW p \in Position..(Position + n - 1), sent'[p] >= connected_at
            PROVE  OffsetAt(checkpoints', p, Stamp(sent'[p]) - p)
        <5>1. PICK i \in 1..n : p = Position + i - 1
          <6>1. p - Position + 1 \in 1..n /\ p = Position + (p - Position + 1) - 1
            BY <1>1, <1>3
          <6> QED
            BY <6>1
        <5>2. sent'[p] = Stitched(now)[i]
          BY <4>1, <5>1
        <5> QED
          BY <2>4, <4>2, <5>1, <5>2
      <4> QED
        BY <2>3, <4>1, <4>2
    <3>2. CASE session' # "up"
      <4>1. UNCHANGED sent
        BY <3>2 DEF SendingStep, SendGated, Connected
      <4> QED
        BY <2>3, <4>1
    <3> QED
      BY <3>1, <3>2
  <2>6. \A p \in DOMAIN sent' : sent'[p] >= connected_at' => OffsetAt(checkpoints', p, Stamp(sent[p])' - p)
    BY <1>4, <2>2, <2>5 DEF Stamp, LostBefore
  <2> QED
    BY <1>4, <1>5, <2>1, <2>6 DEF Checked
<1>10. HeldBack'
  BY <1>4 DEF HeldBack
<1> QED
  BY <1>8, <1>9, <1>10

LEMMA SendingSpeech ==
  ASSUME IInv, NEW level, SendingStep(level)
  PROVE  Handled' /\ SpeechIsSent'
<1>1. Types /\ Past
  BY DEF IInv
<1>2. /\ session = "up" /\ now' = now + 1 /\ UNCHANGED <<connected_at, lost>>
  BY DEF SendingStep
<1>3. now \in Nat /\ connected_at \in Nat /\ connected_at <= now /\ Position \in Nat
      /\ Len(pre_roll) \in Nat /\ PreRoll \in Nat
  BY <1>1, Numbers, Constants
<1>4. CASE session' = "up"
  <2> DEFINE n == Len(pre_roll) + 1
  <2>1. /\ DOMAIN sent' = DOMAIN sent \cup Position..(Position + n - 1)
        /\ \A p \in DOMAIN sent : sent'[p] = sent[p]
        /\ \A i \in 1..n : sent'[Position + i - 1] = Stitched(now)[i]
    BY <1>1, <1>4, SentAudio
  <2>2. Range(sent) \subseteq Range(sent')
    BY <2>1 DEF Range
  <2>3. ASSUME NEW i \in 1..n
        PROVE  Stitched(now)[i] \in Range(sent')
    <3>1. Position + i - 1 \in Position..(Position + n - 1)
      BY <1>3
    <3> QED
      BY <2>1, <3>1 DEF Range
  <2>4. now \in Range(sent')
    BY <1>1, <1>3, <2>3, StitchedWindows
  <2>5. Range(pre_roll) \subseteq Range(sent')
    <3>1. ASSUME NEW i \in 1..Len(pre_roll)
          PROVE  pre_roll[i] \in Range(sent')
      BY <1>1, <1>3, <2>3, StitchedWindows
    <3>2. DOMAIN pre_roll = 1..Len(pre_roll)
      BY <1>1 DEF Types
    <3> QED
      BY <3>1, <3>2 DEF Range
  <2>6. \A w \in connected_at..(now - 1) :
          w \in lost \/ w \in Range(sent') \/ now - w > PreRoll
    BY <1>2, <2>2, <2>5 DEF IInv, Handled
  <2>7. Handled'
    <3>1. ASSUME NEW w \in connected_at..now
          PROVE  w \in lost \/ w \in Range(sent') \/ now + 1 - w > PreRoll
      BY <1>3, <2>4, <2>6
    <3> QED
      BY <1>2, <1>3, <3>1 DEF Handled
  <2>8. ASSUME NEW w \in loud', w >= connected_at, NEW before \in 0..PreRoll,
               w - before >= connected_at, w - before \notin lost
        PROVE  w - before \in Range(sent')
    <3>1. CASE w \in loud
      BY <2>2, <2>8, <3>1 DEF IInv, SpeechIsSent
    <3>2. CASE w = now
      <4>1. CASE before = 0
        BY <1>3, <2>4, <3>2, <4>1
      <4>2. CASE before # 0
        BY <1>3, <2>6, <2>8, <3>2, <4>2
      <4> QED
        BY <4>1, <4>2
    <3> QED
      BY <3>1, <3>2 DEF SendingStep
  <2> QED
    BY <1>2, <2>7, <2>8 DEF SpeechIsSent
<1>5. CASE session' # "up"
  BY <1>2, <1>5 DEF SendingStep, SendGated, Connected, IInv, Handled, SpeechIsSent
<1> QED
  BY <1>4, <1>5

-----------------------------------------------------------------------------
(* A chunk that is held back.                                              *)

\* What is held back after one more window.
LEMMA Pushed ==
  ASSUME Types, pre_roll' = push_pre_roll(now)
  PROVE  /\ pre_roll' \in Seq(0..Duration) /\ Len(pre_roll') <= PreRoll
         /\ Evicted \in {0, 1} /\ Len(pre_roll') = Len(pre_roll) + 1 - Evicted
         /\ Evicted = 1 <=> Len(pre_roll) = PreRoll
         /\ \A i \in 1..(Len(pre_roll') - 1) :
              i + Evicted \in 1..Len(pre_roll) /\ pre_roll'[i] = pre_roll[i + Evicted]
         /\ Len(pre_roll') > 0 => pre_roll'[Len(pre_roll')] = now
<1>1. /\ pre_roll \in Seq(0..Duration) /\ Len(pre_roll) <= PreRoll /\ Len(pre_roll) \in Nat
      /\ PreRoll \in Nat /\ now \in 0..Duration
  BY Constants DEF Types
<1>2. CASE PreRoll = 0
  BY <1>1, <1>2 DEF push_pre_roll, Evicted
<1>3. CASE PreRoll # 0 /\ Len(pre_roll) = PreRoll
  <2>1. pre_roll' = Append(Tail(pre_roll), now) /\ Evicted = 1 /\ pre_roll # <<>>
    BY <1>1, <1>3 DEF push_pre_roll, Evicted
  <2>2. /\ Tail(pre_roll) \in Seq(0..Duration) /\ Len(Tail(pre_roll)) = Len(pre_roll) - 1
        /\ \A i \in 1..Len(Tail(pre_roll)) : Tail(pre_roll)[i] = pre_roll[i + 1]
    BY <1>1, <2>1
  <2> QED
    BY <1>1, <1>3, <2>1, <2>2
<1>4. CASE PreRoll # 0 /\ Len(pre_roll) # PreRoll
  <2>1. pre_roll' = Append(pre_roll, now) /\ Evicted = 0
    BY <1>4 DEF push_pre_roll, Evicted
  <2>2. /\ pre_roll' \in Seq(0..Duration) /\ Len(pre_roll') = Len(pre_roll) + 1
        /\ pre_roll'[Len(pre_roll) + 1] = now
        /\ \A i \in 1..Len(pre_roll) : pre_roll'[i] = pre_roll[i]
    BY <1>1, <2>1
  <2> QED
    BY <1>1, <1>4, <2>1, <2>2
<1> QED
  BY <1>2, <1>3, <1>4

\* A checkpoint at or behind the end of the audio leaves what was sent alone.
LEMMA CheckpointAtTheEnd ==
  ASSUME Types, Past, Checked, NEW q \in Nat, q >= Position, NEW v \in Int,
         checkpoints' = record_checkpoint(q, v), Position' = q, net_offset' = v,
         UNCHANGED <<sent, connected_at, lost>>
  PROVE  checkpoints' \subseteq Checkpoints /\ Checked'
<1>1. /\ Position \in Nat /\ \A p \in DOMAIN sent : p \in Nat /\ sent[p] \in Nat /\ p < q
  BY Numbers DEF Past
<1>2. /\ checkpoints \subseteq Checkpoints /\ Unique(checkpoints) /\ \A c \in checkpoints : c.at <= q
  BY <1>1 DEF Types, Checked, Checkpoints
<1>3. /\ checkpoints' \subseteq Checkpoints /\ Unique(checkpoints') /\ \A c \in checkpoints' : c.at <= q
      /\ \A p \in Nat : p >= q => OffsetAt(checkpoints', p, v)
      /\ \A p \in Nat, o \in Int : p < q /\ OffsetAt(checkpoints, p, o) => OffsetAt(checkpoints', p, o)
  BY <1>2, RecordedCheckpoint
<1>4. ASSUME NEW p \in DOMAIN sent, sent[p] >= connected_at
      PROVE  OffsetAt(checkpoints', p, Stamp(sent[p]) - p)
  <2>1. Stamp(sent[p]) - p \in Int
    BY <1>1, LostCount DEF Stamp
  <2> QED
    BY <1>1, <1>3, <1>4, <2>1 DEF Checked
<1>5. \A p \in DOMAIN sent' : sent'[p] >= connected_at' => OffsetAt(checkpoints', p, Stamp(sent[p])' - p)
  BY <1>4 DEF Stamp, LostBefore
<1> QED
  BY <1>3, <1>5 DEF Checked

\* As long as neither moves, what was sent keeps its stamps.
LEMMA CheckedStays ==
  ASSUME Checked, UNCHANGED <<checkpoints, samples_sent, total_injected, net_offset, sent, connected_at, lost>>
  PROVE  Checked'
BY DEF Checked, Position, Stamp, LostBefore

LEMMA HoldingKeeps ==
  ASSUME IInv, NEW level, HoldingStep(level)
  PROVE  IInv'
<1>1. Types /\ Past /\ Checked
  BY DEF IInv
<1>2. /\ session = "up" /\ now < Duration /\ now' = now + 1 /\ gate' = "silent" /\ hang' \in Nat
      /\ pre_roll' = push_pre_roll(now) /\ net_offset' = net_offset + Evicted
      /\ UNCHANGED <<connected_at, lost, loud, session, disconnected_at, outages, samples_sent, total_injected, sent>>
  BY DEF HoldingStep, record_drop, Connected
<1>3. /\ now \in Nat /\ Duration \in Nat /\ PreRoll \in Nat /\ Position \in Nat /\ net_offset \in Int
      /\ connected_at \in Nat /\ connected_at <= now /\ Len(pre_roll) \in Nat
      /\ \A i \in 1..Len(pre_roll) : pre_roll[i] \in Nat /\ pre_roll[i] < now
      /\ Cardinality(lost) \in Nat
  BY <1>1, Numbers, Constants, LostCount DEF Past
<1>4. /\ pre_roll' \in Seq(0..Duration) /\ Len(pre_roll') <= PreRoll /\ Len(pre_roll') \in Nat
      /\ Evicted \in {0, 1} /\ Len(pre_roll') = Len(pre_roll) + 1 - Evicted
      /\ Evicted = 1 <=> Len(pre_roll) = PreRoll
      /\ \A i \in 1..(Len(pre_roll') - 1) :
           i + Evicted \in 1..Len(pre_roll) /\ pre_roll'[i] = pre_roll[i + Evicted]
      /\ Len(pre_roll') > 0 => pre_roll'[Len(pre_roll')] = now
  BY <1>1, <1>2, Pushed
<1>5. Position' = Position
  BY <1>2 DEF Position
<1>6. checkpoints' \subseteq Checkpoints /\ Checked'
  <2>1. CASE Evicted = 0
    <3>1. UNCHANGED <<checkpoints, net_offset>>
      BY <1>2, <1>3, <2>1 DEF HoldingStep, record_drop
    <3> QED
      BY <1>1, <1>2, <3>1, CheckedStays DEF Types
  <2>2. CASE Evicted = 1
    <3>1. checkpoints' = record_checkpoint(Position, net_offset + 1)
      BY <2>2 DEF HoldingStep, record_drop
    <3> QED
      BY <1>1, <1>2, <1>3, <1>5, <2>2, <3>1, CheckpointAtTheEnd
  <2> QED
    BY <1>4, <2>1, <2>2
<1>7. Types'
  <2>1. now' \in 0..Duration /\ net_offset' \in Int /\ disconnected_at' \in 0..now' /\ connected_at' \in 0..now'
    <3>1. disconnected_at \in 0..now /\ Evicted \in Int
      BY <1>1, <1>4 DEF Types
    <3> QED
      BY <1>2, <1>3, <3>1
  <2> QED
    BY <1>1, <1>2, <1>4, <1>6, <2>1 DEF Types
<1>8. Past'
  <2>1. ASSUME NEW i \in 1..Len(pre_roll')
        PROVE  pre_roll'[i] < now'
    <3>1. CASE i = Len(pre_roll')
      <4>1. pre_roll'[i] = now
        BY <1>4, <3>1
      <4> QED
        BY <1>2, <1>3, <4>1
    <3>2. CASE i # Len(pre_roll')
      <4>1. i \in 1..(Len(pre_roll') - 1)
        BY <1>4, <3>2
      <4>2. pre_roll'[i] \in Nat /\ pre_roll'[i] < now
        BY <1>3, <1>4, <4>1
      <4> QED
        BY <1>2, <1>3, <4>2
    <3> QED
      BY <3>1, <3>2
  <2>2. lost' \subseteq 0..(now' - 1) /\ loud' \subseteq 0..(now' - 1)
    BY <1>1, <1>2, <1>3 DEF Past
  <2>3. \A p \in DOMAIN sent' : p < Position' /\ sent'[p] < now'
    BY <1>1, <1>2, <1>3, <1>5, Numbers DEF Past
  <2> QED
    BY <2>1, <2>2, <2>3 DEF Past
<1>9. Clock'
  <2>1. Position + net_offset + Len(pre_roll) + Cardinality(lost) = now
    BY <1>2 DEF IInv, Clock, Elapsed
  <2>2. Elapsed' = Position' + net_offset' + Len(pre_roll') + Cardinality(lost)
    BY <1>2 DEF Elapsed
  <2>3. Len(pre_roll') = Len(pre_roll) + 1 - Evicted /\ Evicted \in Int
    BY <1>4
  <2>4. Elapsed' = Position + (net_offset + Evicted) + (Len(pre_roll) + 1 - Evicted) + Cardinality(lost)
    BY <1>2, <1>5, <2>2, <2>3
  <2>5. Elapsed' = now'
    BY <1>2, <1>3, <2>1, <2>3, <2>4
  <2> QED
    BY <1>2, <2>5 DEF Clock
<1>10. \A i \in 1..Len(pre_roll) : pre_roll[i] >= connected_at =>
         Stamp(pre_roll[i]) = now - Cardinality(lost) - Len(pre_roll) + i - 1
  BY <1>2 DEF IInv, HeldBack
<1>11. HeldBack'
  <2>1. ASSUME NEW i \in 1..Len(pre_roll'), pre_roll'[i] >= connected_at
        PROVE  Stamp(pre_roll'[i]) = now + 1 - Cardinality(lost) - Len(pre_roll') + i - 1
    <3>1. CASE i = Len(pre_roll')
      <4>1. pre_roll'[i] = now
        BY <1>4, <3>1
      <4> QED
        <5>1. Stamp(pre_roll'[i]) = now - Cardinality(lost)
          BY <1>1, <4>1, StampOfNow
        <5> QED
          BY <1>3, <1>4, <3>1, <5>1
    <3>2. CASE i # Len(pre_roll')
      <4>1. i + Evicted \in 1..Len(pre_roll) /\ pre_roll'[i] = pre_roll[i + Evicted]
        BY <1>4, <3>2
      <4>2. Stamp(pre_roll'[i]) = now - Cardinality(lost) - Len(pre_roll) + (i + Evicted) - 1
        BY <1>10, <2>1, <4>1
      <4>3. Len(pre_roll') = Len(pre_roll) + 1 - Evicted /\ Evicted \in Int /\ i \in Int
        BY <1>4
      <4> QED
        BY <1>3, <4>2, <4>3
    <3> QED
      BY <3>1, <3>2
  <2>2. ASSUME NEW i \in 1..Len(pre_roll'), pre_roll'[i] >= connected_at'
        PROVE  pre_roll'[i] - Cardinality({l \in lost' : l < pre_roll'[i]})
                 = now' - Cardinality(lost') - Len(pre_roll') + i - 1
    <3>1. pre_roll'[i] - Cardinality({l \in lost : l < pre_roll'[i]})
            = now + 1 - Cardinality(lost) - Len(pre_roll') + i - 1
      BY <1>2, <2>1, <2>2 DEF Stamp, LostBefore
    <3>2. Cardinality(lost') = Cardinality(lost) /\ now' = now + 1
      BY <1>2
    <3> DEFINE before == {l \in lost : l < pre_roll'[i]}
               after == {l \in lost' : l < pre_roll'[i]}
    <3>3. after = before
      BY <1>2
    <3>4. pre_roll'[i] - Cardinality(before) = now + 1 - Cardinality(lost) - Len(pre_roll') + i - 1
      BY <3>1
    <3>5. Cardinality(after) = Cardinality(before)
      BY <3>3
    <3> HIDE DEF before, after
    <3>6. pre_roll'[i] - Cardinality(after) = now + 1 - Cardinality(lost) - Len(pre_roll') + i - 1
      BY <3>4, <3>5
    <3>7. now + 1 - Cardinality(lost) - Len(pre_roll') + i - 1
            = now' - Cardinality(lost') - Len(pre_roll') + i - 1
      BY <1>3, <1>4, <3>2
    <3> QED
      BY <3>6, <3>7 DEF after
  <2> QED
    BY <1>2, <2>2 DEF HeldBack, Stamp, LostBefore
<1>12. Handled'
  <2> SUFFICES ASSUME NEW w \in connected_at..now, w \notin lost, w \notin Range(sent), ~(now + 1 - w > PreRoll)
               PROVE  w \in Range(pre_roll')
    BY <1>2, <1>3 DEF Handled
  <2>1. w \in Nat /\ Len(pre_roll') > 0 /\ PreRoll > 0
    BY <1>3, <1>4
  <2>2. DOMAIN pre_roll' = 1..Len(pre_roll') /\ DOMAIN pre_roll = 1..Len(pre_roll)
    BY <1>1, <1>4 DEF Types
  <2>3. CASE w = now
    BY <1>4, <2>1, <2>2, <2>3 DEF Range
  <2>4. CASE w # now
    <3>1. w \in Range(pre_roll)
      BY <1>2, <1>3, <2>4 DEF IInv, Handled
    <3>2. PICK i \in 1..Len(pre_roll) : pre_roll[i] = w
      BY <2>2, <3>1 DEF Range
    <3>3. i > Evicted
      <4>1. w - LostBefore(w) = now - Cardinality(lost) - Len(pre_roll) + i - 1
        <5>1. pre_roll[i] >= connected_at
          BY <1>3, <3>2
        <5>2. Stamp(pre_roll[i]) = now - Cardinality(lost) - Len(pre_roll) + i - 1
          BY <1>10, <5>1
        <5> QED
          BY <3>2, <5>2 DEF Stamp
      <4>2. LostBefore(w) \in 0..w /\ LostBefore(w) <= Cardinality(lost)
        BY <1>1, <2>1, LostCount, LostFew
      <4>3. CASE Evicted = 0
        BY <4>3
      <4>4. CASE Evicted = 1
        <5>1. Len(pre_roll) = PreRoll
          BY <1>4, <4>4
        <5>2. w - Cardinality(lost) <= now - Cardinality(lost) - PreRoll + i - 1
          BY <1>3, <2>1, <4>1, <4>2, <5>1
        <5>3. i \in Nat /\ now + 1 - w <= PreRoll
          BY <1>3, <2>1
        <5> QED
          BY <1>3, <2>1, <4>4, <5>2, <5>3
      <4> QED
        BY <1>4, <4>3, <4>4
    <3>4. i - Evicted \in 1..(Len(pre_roll') - 1) /\ (i - Evicted) + Evicted = i
      BY <1>3, <1>4, <3>3
    <3>5. pre_roll'[i - Evicted] = w
      BY <1>4, <3>2, <3>4
    <3> QED
      <4>1. i - Evicted \in DOMAIN pre_roll'
        BY <1>4, <2>2, <3>4
      <4> QED
        BY <3>5, <4>1 DEF Range
  <2> QED
    BY <2>3, <2>4
<1>13. SpeechIsSent'
  BY <1>2 DEF IInv, SpeechIsSent
<1> QED
  BY <1>6, <1>7, <1>8, <1>9, <1>11, <1>12, <1>13 DEF IInv

LEMMA ChunkKeeps ==
  ASSUME IInv, NEW level \in Levels, handle_chunk(level)
  PROVE  IInv'
<1>1. SendingStep(level) \/ HoldingStep(level)
  BY ChunkCases DEF IInv
<1>2. CASE SendingStep(level)
  BY <1>2, SendingTypes, SendingClock, SendingSpeech DEF IInv
<1>3. CASE HoldingStep(level)
  BY <1>3, HoldingKeeps
<1> QED
  BY <1>1, <1>2, <1>3

-----------------------------------------------------------------------------
(* The other actions.                                                      *)

\* An outage that begins between two windows.
LEMMA OutageKeeps ==
  ASSUME IInv, session = "up", Disconnects(now),
         UNCHANGED <<now, gateVars, clockVars, connected_at, sent, lost, loud>>
  PROVE  IInv'
<1>1. Types /\ Past /\ Checked
  BY DEF IInv
<1>2. UNCHANGED <<now, gate, hang, pre_roll, samples_sent, total_injected, net_offset,
                  checkpoints, connected_at, sent, lost, loud>>
  BY DEF gateVars, clockVars
<1>3. /\ outages' = outages + 1 /\ outages < MaxOutages
      /\ \/ session' = "down" /\ disconnected_at' = now
         \/ session' = "gone" /\ disconnected_at' = 0
  BY DEF Disconnects
<1>4. Types'
  <2>1. outages' \in 0..MaxOutages /\ disconnected_at' \in 0..now /\ session' \in {"up", "down", "gone"}
    <3>1. outages \in 0..MaxOutages
      BY <1>1 DEF Types
    <3> QED
      BY <1>1, <1>3, <3>1, Numbers, Constants
  <2> QED
    BY <1>1, <1>2, <2>1 DEF Types
<1>5. Position' = Position /\ Elapsed' = Elapsed
  BY <1>2 DEF Position, Elapsed
<1>6. Past' /\ Clock'
  BY <1>1, <1>2, <1>3, <1>5 DEF Past, IInv, Clock
<1>7. Checked'
  BY <1>1, <1>2, CheckedStays
<1>8. HeldBack' /\ Handled' /\ SpeechIsSent'
  BY <1>2, <1>3 DEF IInv, HeldBack, Handled, SpeechIsSent
<1> QED
  BY <1>4, <1>6, <1>7, <1>8 DEF IInv

LEMMA KeepAliveKeeps == IInv /\ keep_alive => IInv'
<1> SUFFICES ASSUME IInv, keep_alive
             PROVE  IInv'
  OBVIOUS
<1>1. Types /\ Past /\ Checked
  BY DEF IInv
<1>2. CASE Disconnects(now) /\ UNCHANGED <<net_offset, total_injected, checkpoints>>
  BY <1>2, OutageKeeps DEF keep_alive, clockVars
<1>3. CASE /\ net_offset' = net_offset - 1 /\ total_injected' = total_injected + 1
           /\ checkpoints' = record_checkpoint(Position + 1, net_offset - 1) /\ Connected
  <2>1. UNCHANGED <<now, gate, hang, pre_roll, session, disconnected_at, outages,
                    samples_sent, connected_at, sent, lost, loud>>
    BY <1>3 DEF keep_alive, Connected, gateVars
  <2>2. /\ Position \in Nat /\ net_offset \in Int /\ now \in Nat /\ Len(pre_roll) \in Nat
        /\ samples_sent \in Nat /\ total_injected \in Nat /\ Cardinality(lost) \in Nat
        /\ \A p \in DOMAIN sent : p \in Nat
    BY <1>1, Numbers, LostCount
  <2>3. Position' = Position + 1
    BY <1>3, <2>1, <2>2 DEF Position
  <2>4. checkpoints' \subseteq Checkpoints /\ Checked'
    BY <1>1, <1>3, <2>1, <2>2, <2>3, CheckpointAtTheEnd
  <2>5. Types'
    <3>1. net_offset' \in Int /\ total_injected' \in Nat
      BY <1>3, <2>2
    <3> QED
      BY <1>1, <2>1, <2>4, <3>1 DEF Types
  <2>6. Past'
    BY <1>1, <2>1, <2>2, <2>3 DEF Past
  <2>7. Elapsed' = Elapsed
    <3>1. Elapsed' = Position' + net_offset' + Len(pre_roll) + Cardinality(lost)
      BY <2>1 DEF Elapsed
    <3> QED
      BY <1>3, <2>2, <2>3, <3>1 DEF Elapsed
  <2>8. Clock'
    BY <2>1, <2>7 DEF IInv, Clock
  <2>9. HeldBack' /\ Handled' /\ SpeechIsSent'
    BY <2>1 DEF IInv, HeldBack, Handled, SpeechIsSent, Stamp, LostBefore
  <2> QED
    BY <2>4, <2>5, <2>6, <2>8, <2>9 DEF IInv
<1> QED
  BY <1>2, <1>3 DEF keep_alive

LEMMA SkippedKeeps == IInv /\ Skipped => IInv'
<1> SUFFICES ASSUME IInv, Skipped
             PROVE  IInv'
  OBVIOUS
<1>1. Types /\ Past /\ Checked
  BY DEF IInv
<1>2. /\ session # "up" /\ now < Duration /\ now' = now + 1
      /\ UNCHANGED <<gate, hang, pre_roll, session, samples_sent, total_injected, net_offset,
                     checkpoints, disconnected_at, connected_at, sent, lost, loud, outages>>
  BY DEF Skipped, gateVars, clockVars
<1>3. /\ now \in Nat /\ Duration \in Nat
      /\ \A i \in 1..Len(pre_roll) : pre_roll[i] \in Nat
      /\ \A p \in DOMAIN sent : sent[p] \in Nat
  BY <1>1, Numbers
<1>4. Types'
  <2>1. disconnected_at \in 0..now /\ connected_at \in 0..now
    BY <1>1 DEF Types
  <2>2. now' \in 0..Duration /\ disconnected_at \in 0..now' /\ connected_at \in 0..now'
    BY <1>2, <1>3, <2>1
  <2> QED
    BY <1>1, <1>2, <2>2 DEF Types
<1>5. Position' = Position /\ Elapsed' = Elapsed
  BY <1>2 DEF Position, Elapsed
<1>6. Past'
  BY <1>1, <1>2, <1>3, <1>5 DEF Past
<1>7. Clock'
  BY <1>2, <1>5 DEF IInv, Clock
<1>8. Checked'
  BY <1>1, <1>2, CheckedStays
<1>9. HeldBack' /\ Handled' /\ SpeechIsSent'
  BY <1>2 DEF IInv, HeldBack, Handled, SpeechIsSent
<1> QED
  BY <1>4, <1>6, <1>7, <1>8, <1>9 DEF IInv

LEMMA WindowLostKeeps == IInv /\ WindowLost => IInv'
<1> SUFFICES ASSUME IInv, WindowLost
             PROVE  IInv'
  OBVIOUS
<1>1. Types /\ Past /\ Checked
  BY DEF IInv
<1>2. /\ session = "up" /\ now < Duration /\ now' = now + 1 /\ lost' = lost \cup {now}
      /\ UNCHANGED <<gate, hang, pre_roll, session, samples_sent, total_injected, net_offset,
                     checkpoints, disconnected_at, connected_at, sent, loud, outages>>
  BY DEF WindowLost, gateVars, clockVars
<1>3. /\ now \in Nat /\ Duration \in Nat /\ Position \in Nat /\ net_offset \in Int
      /\ connected_at \in Nat /\ connected_at <= now
      /\ Len(pre_roll) \in Nat /\ Cardinality(lost) \in Nat
      /\ \A i \in 1..Len(pre_roll) : pre_roll[i] \in 0..now /\ pre_roll[i] < now
      /\ \A p \in DOMAIN sent : sent[p] \in 0..now /\ sent[p] < now
  <2>1. /\ now \in Nat /\ Duration \in Nat /\ Position \in Nat /\ net_offset \in Int
        /\ connected_at \in Nat /\ connected_at <= now
        /\ Len(pre_roll) \in Nat /\ Cardinality(lost) \in Nat
    BY <1>1, Numbers, LostCount
  <2>2. /\ \A i \in 1..Len(pre_roll) : pre_roll[i] \in Nat /\ pre_roll[i] < now
        /\ \A p \in DOMAIN sent : sent[p] \in Nat /\ sent[p] < now
    BY <1>1, Numbers DEF Past
  <2> QED
    BY <2>1, <2>2
<1>4. /\ Cardinality(lost') = Cardinality(lost) + 1
      /\ \A w \in 0..now : Stamp(w)' = Stamp(w)
  BY <1>1, <1>2, LosingNow
<1>5. Types'
  <2>1. disconnected_at \in 0..now /\ connected_at \in 0..now
    BY <1>1 DEF Types
  <2>2. now' \in 0..Duration /\ disconnected_at \in 0..now' /\ connected_at \in 0..now'
    BY <1>2, <1>3, <2>1
  <2>3. lost' \subseteq 0..Duration
    BY <1>1, <1>2, <1>3 DEF Types
  <2> QED
    BY <1>1, <1>2, <2>2, <2>3 DEF Types
<1>6. Position' = Position
  BY <1>2 DEF Position
<1>7. Past'
  <2>1. lost' \subseteq 0..(now' - 1) /\ loud' \subseteq 0..(now' - 1)
    BY <1>1, <1>2, <1>3 DEF Past
  <2> QED
    BY <1>1, <1>2, <1>3, <1>6, <2>1 DEF Past
<1>8. Clock'
  <2>1. Elapsed' = Position + net_offset + Len(pre_roll) + Cardinality(lost')
    BY <1>2, <1>6 DEF Elapsed
  <2>2. Position + net_offset + Len(pre_roll) + Cardinality(lost) = now
    BY <1>2 DEF IInv, Clock, Elapsed
  <2>3. Elapsed' = now'
    BY <1>2, <1>3, <1>4, <2>1, <2>2
  <2> QED
    BY <1>2, <2>3 DEF Clock
<1>9. Checked'
  <2>1. ASSUME NEW p \in DOMAIN sent, sent[p] >= connected_at
        PROVE  OffsetAt(checkpoints, p, sent[p] - Cardinality({l \in lost' : l < sent[p]}) - p)
    <3>1. {l \in lost' : l < sent[p]} = {l \in lost : l < sent[p]}
      BY <1>2, <1>3
    <3>2. OffsetAt(checkpoints, p, sent[p] - Cardinality({l \in lost : l < sent[p]}) - p)
      BY <1>1, <2>1 DEF Checked, Stamp, LostBefore
    <3> QED
      BY <3>1, <3>2
  <2> QED
    BY <1>1, <1>2, <1>6, <2>1 DEF Checked, Stamp, LostBefore
<1>10. HeldBack'
  <2>1. ASSUME NEW i \in 1..Len(pre_roll), pre_roll[i] >= connected_at
        PROVE  pre_roll[i] - Cardinality({l \in lost' : l < pre_roll[i]})
                 = now' - Cardinality(lost') - Len(pre_roll) + i - 1
    <3>1. {l \in lost' : l < pre_roll[i]} = {l \in lost : l < pre_roll[i]}
      BY <1>2, <1>3
    <3>2. Cardinality({l \in lost' : l < pre_roll[i]}) = Cardinality({l \in lost : l < pre_roll[i]})
      BY <3>1
    <3>3. pre_roll[i] - Cardinality({l \in lost : l < pre_roll[i]})
            = now - Cardinality(lost) - Len(pre_roll) + i - 1
      BY <1>2, <2>1 DEF IInv, HeldBack, Stamp, LostBefore
    <3>4. now' - Cardinality(lost') - Len(pre_roll) + i - 1 = now - Cardinality(lost) - Len(pre_roll) + i - 1
      BY <1>2, <1>3, <1>4
    <3> QED
      BY <3>2, <3>3, <3>4
  <2>2. gate' # "silent" => pre_roll' = <<>>
    BY <1>2 DEF IInv, HeldBack
  <2> QED
    BY <1>2, <2>1, <2>2 DEF HeldBack, Stamp, LostBefore
<1>11. Handled'
  <2> SUFFICES ASSUME NEW w \in connected_at..now
               PROVE  w \in lost' \/ w \in Range(sent) \/ w \in Range(pre_roll) \/ now + 1 - w > PreRoll
    BY <1>2, <1>3 DEF Handled
  <2>1. CASE w = now
    BY <1>2, <2>1
  <2>2. CASE w # now
    <3>1. w \in connected_at..(now - 1)
      BY <1>3, <2>2
    <3>2. w \in lost \/ w \in Range(sent) \/ w \in Range(pre_roll) \/ now - w > PreRoll
      BY <1>2, <3>1 DEF IInv, Handled
    <3> QED
      BY <1>2, <1>3, <3>2, Constants
  <2> QED
    BY <2>1, <2>2
<1>12. SpeechIsSent'
  BY <1>2 DEF IInv, SpeechIsSent
<1> QED
  BY <1>5, <1>7, <1>8, <1>9, <1>10, <1>11, <1>12 DEF IInv

LEMMA ReconnectKeeps == IInv /\ apply_reconnect_offset => IInv'
<1> SUFFICES ASSUME IInv, apply_reconnect_offset
             PROVE  IInv'
  OBVIOUS
<1>1. Types /\ Past
  BY DEF IInv
<1>2. /\ session = "down" /\ session' = "up" /\ net_offset' = CarryOver
      /\ checkpoints' = {Checkpoint(0, CarryOver)}
      /\ samples_sent' = 0 /\ total_injected' = 0
      /\ disconnected_at' = 0 /\ connected_at' = now /\ sent' = <<>>
      /\ UNCHANGED <<now, gate, hang, pre_roll, lost, loud, outages>>
  BY DEF apply_reconnect_offset, gateVars
<1>3. /\ now \in Nat /\ Position \in Nat /\ net_offset \in Int /\ disconnected_at \in Nat
      /\ Len(pre_roll) \in Nat /\ Cardinality(lost) \in Nat
      /\ \A i \in 1..Len(pre_roll) : pre_roll[i] \in Nat /\ pre_roll[i] < now
      /\ \A w \in loud : w \in Nat /\ w < now
  <2>1. /\ now \in Nat /\ Position \in Nat /\ net_offset \in Int /\ disconnected_at \in Nat
        /\ Len(pre_roll) \in Nat /\ Cardinality(lost) \in Nat
        /\ \A i \in 1..Len(pre_roll) : pre_roll[i] \in Nat
    BY <1>1, Numbers, LostCount
  <2>2. \A w \in loud : w \in Nat /\ w < now
    BY <1>1, <2>1 DEF Past
  <2> QED
    BY <1>1, <2>1, <2>2 DEF Past
<1>4. CarryOver \in Int /\ CarryOver = Position + net_offset + (now - disconnected_at)
  BY <1>3 DEF CarryOver
<1> HIDE DEF CarryOver
<1>5. Position' = 0
  BY <1>2 DEF Position
<1>6. checkpoints' \subseteq Checkpoints
  BY <1>2, <1>4 DEF Checkpoints, Checkpoint
<1>7. Types'
  BY <1>1, <1>2, <1>3, <1>4, <1>6 DEF Types
<1>8. Past'
  BY <1>1, <1>2 DEF Past
<1>9. Clock'
  <2>1. Position + net_offset + Len(pre_roll) + Cardinality(lost) = disconnected_at
    BY <1>2 DEF IInv, Clock, Elapsed
  <2>2. Elapsed' = 0 + CarryOver + Len(pre_roll) + Cardinality(lost)
    BY <1>2, <1>5 DEF Elapsed
  <2>3. Elapsed' = now
    BY <1>3, <1>4, <2>1, <2>2
  <2> QED
    BY <1>2, <2>3 DEF Clock
<1>10. Checked'
  <2>1. \A c \in checkpoints' : c.at = 0 /\ c.offset = CarryOver
    BY <1>2 DEF Checkpoint
  <2>2. Unique(checkpoints')
    BY <1>2 DEF Unique
  <2>3. \A p \in Nat : OffsetAt(checkpoints', p, CarryOver)
    BY <1>2, <2>1 DEF OffsetAt
  <2> QED
    <3>1. \A c \in checkpoints' : c.at <= Position'
      BY <1>5, <2>1
    <3>2. \A p \in Nat : p >= Position' => OffsetAt(checkpoints', p, net_offset')
      BY <1>2, <2>3
    <3>3. DOMAIN sent' = {}
      BY <1>2
    <3> QED
      BY <2>2, <3>1, <3>2, <3>3 DEF Checked
<1>11. HeldBack'
  <2>1. gate # "silent" => pre_roll = <<>>
    BY DEF IInv, HeldBack
  <2>2. \A i \in 1..Len(pre_roll) : ~(pre_roll[i] >= now)
    BY <1>3
  <2> QED
    BY <1>2, <2>1, <2>2 DEF HeldBack
<1>12. Handled' /\ SpeechIsSent'
  BY <1>2, <1>3 DEF Handled, SpeechIsSent
<1> QED
  BY <1>7, <1>8, <1>9, <1>10, <1>11, <1>12 DEF IInv

LEMMA StutterKeeps == IInv /\ UNCHANGED vars => IInv'
<1> SUFFICES ASSUME IInv, UNCHANGED vars
             PROVE  IInv'
  OBVIOUS
<1>1. UNCHANGED <<now, gate, hang, pre_roll, session, samples_sent, total_injected, net_offset,
                  checkpoints, disconnected_at, connected_at, sent, lost, loud, outages>>
  BY DEF vars, gateVars, clockVars
<1>2. Types' /\ Past' /\ Clock' /\ HeldBack' /\ Handled' /\ SpeechIsSent'
  BY <1>1 DEF IInv, Types, Past, Clock, Elapsed, Position, HeldBack, Handled, SpeechIsSent, Stamp, LostBefore
<1>3. Checked'
  BY <1>1, CheckedStays DEF IInv
<1> QED
  BY <1>2, <1>3 DEF IInv

LEMMA StepIInv == IInv /\ [Next]_vars => IInv'
<1> SUFFICES ASSUME IInv, [Next]_vars
             PROVE  IInv'
  OBVIOUS
<1>1. ASSUME NEW level \in Levels, handle_chunk(level)
      PROVE  IInv'
  BY <1>1, ChunkKeeps
<1>2. CASE keep_alive
  BY <1>2, KeepAliveKeeps
<1>3. CASE Disconnected
  BY <1>3, OutageKeeps DEF Disconnected
<1>4. CASE Skipped
  BY <1>4, SkippedKeeps
<1>5. CASE WindowLost
  BY <1>5, WindowLostKeeps
<1>6. CASE apply_reconnect_offset
  BY <1>6, ReconnectKeeps
<1>7. CASE Ended \/ UNCHANGED vars
  BY <1>7, StutterKeeps DEF Ended
<1> QED
  BY <1>1, <1>2, <1>3, <1>4, <1>5, <1>6, <1>7 DEF Next

LEMMA Inductive == Spec => []IInv
BY InitIInv, StepIInv, PTL DEF Spec

\* However silence, heartbeats, failed sends, losses and outages mix, and
\* however long the recording, the time TimestampMapper gives a window of this
\* session is the one it was captured at, less the audio lost before it.
THEOREM StampsAreRight == Spec => []Inv
<1>1. IInv => Inv
  BY Implied
<1> QED
  BY <1>1, Inductive, PTL

\* The gate clips no onset: with every window of speech the provider was sent
\* whatever handle_chunk got in this session up to a pre-roll before it.
THEOREM NoOnsetClipped == Spec => []SpeechIsSent
<1>1. IInv => SpeechIsSent
  BY Implied
<1> QED
  BY <1>1, Inductive, PTL
=============================================================================
