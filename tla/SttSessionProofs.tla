-------------------------- MODULE SttSessionProofs --------------------------
(***************************************************************************)
(* Proofs about SttSession, for any set of adapters, any frame sizes, any  *)
(* capacity of the command channel and any amount of audio: what a session *)
(* accepted reaches the server in order, and finalize does not say Ok      *)
(* before the server has had, and the adapter has passed on, all of it.    *)
(***************************************************************************)
EXTENDS SttSession, SequenceTheorems, TLAPS

(* Where the accepted audio is: heard, in the queued commands one behind   *)
(* the other, and what has not filled a frame yet.  The cuts are the       *)
(* places where one piece ends and the next begins.                        *)

\* `piece` is what `all` has behind its first `at` chunks.
InPlace(piece, at, all) ==
  /\ at + Len(piece) <= Len(all)
  /\ \A j \in 1 .. Len(piece) : all[at + j] = piece[j]

Cuts(cut, begin, cmds, rest, all) ==
  /\ cut \in [0 .. Len(cmds) -> 0 .. Len(all)]
  /\ cut[0] = begin
  /\ \A i \in 1 .. Len(cmds) :
       cut[i] = cut[i - 1] + Len(cmds[i].of) /\ InPlace(cmds[i].of, cut[i - 1], all)
  /\ cut[Len(cmds)] + Len(rest) = Len(all)
  /\ InPlace(rest, cut[Len(cmds)], all)

Laid(begin, cmds, rest, all) ==
  \E cut \in [0 .. Len(cmds) -> 0 .. Len(all)] : Cuts(cut, begin, cmds, rest, all)

-----------------------------------------------------------------------------
(* The invariant. *)

Offering == {"sending", "flushing", "closing"}

\* Nothing is lost on a connection that works, nor later, once the end of the
\* audio has been sent on it.
NothingLost == link \/ closing \/ draining => Laid(Len(heard), commands, pending, accepted)

\* Until finalize has queued the end of the audio the writer runs, or it died
\* with the connection.
StillOpen ==
  caller \in Offering =>
    /\ writer \/ ~link
    /\ \A i \in DOMAIN commands : commands[i].kind # "close"

\* Only audio carries chunks, and nothing is queued behind the end of it.
CloseIsLast ==
  \A i \in DOMAIN commands :
    /\ commands[i].kind # "audio" => commands[i].of = <<>>
    /\ commands[i].kind = "close" => i = Len(commands)

\* When the end of the audio was sent nothing is left to send.
EndIsLast ==
  /\ closing => provider # "openai"
  /\ draining => provider = "openai"
  /\ closing \/ draining => commands = <<>> /\ caller \notin Offering

\* The server says "done" after its last transcript, and nothing behind it.
DoneIsLast ==
  \A i \in DOMAIN downlink :
    downlink[i].kind = "done" => closing /\ buffer = {} /\ working = <<>> /\ i = Len(downlink)

\* Where a chunk the server heard is.
Results == {"completed", "failed"}
Whereabouts(c) ==
  \/ c \in buffer
  \/ \E i \in DOMAIN working : c \in working[i]
  \/ \E i \in DOMAIN downlink : downlink[i].kind \in Results /\ c \in downlink[i].of
  \/ c \in settled
AllTraced == \A i \in DOMAIN heard : Whereabouts(heard[i])

\* What it means that the reader said Ok.
DrainedOk ==
  drained = "ok" =>
    /\ ~reader /\ (closing \/ draining)
    /\ provider # "openai" => buffer = {} /\ working = <<>> /\ downlink = <<>>

TailIsShort ==
  /\ provider # "assemblyai" => pending = <<>>
  /\ caller \in {"closing", "waiting", "ok"} => Len(pending) < Minimum
  /\ caller = "ok" => drained = "ok"

IInv ==
  /\ TypeOK /\ HeardInOrder /\ NothingLost /\ StillOpen /\ CloseIsLast /\ EndIsLast
  /\ DoneIsLast /\ AllTraced /\ DrainedOk /\ TailIsShort

-----------------------------------------------------------------------------
(* Sequences. *)

LEMMA PrefixInPlace ==
  ASSUME NEW S, NEW h \in Seq(S), NEW all \in Seq(S)
  PROVE  IsPrefix(h, all) <=> InPlace(h, 0, all)
<1>1. ASSUME IsPrefix(h, all)
      PROVE  InPlace(h, 0, all)
  <2>1. Len(h) <= Len(all) /\ SubSeq(h, 1, Len(h)) = SubSeq(all, 1, Len(h))
    BY <1>1 DEF IsPrefix
  <2>2. \A j \in 1 .. Len(h) : SubSeq(h, 1, Len(h))[j] = h[j]
    BY SubSeqFull
  <2>3. \A j \in 1 .. Len(h) : SubSeq(all, 1, Len(h))[j] = all[j]
    BY <2>1, SubSeqProperties, ElementOfSeq, LenProperties
  <2> QED
    BY <2>1, <2>2, <2>3, LenProperties DEF InPlace
<1>2. ASSUME InPlace(h, 0, all)
      PROVE  IsPrefix(h, all)
  <2>1. Len(h) <= Len(all) /\ \A j \in 1 .. Len(h) : all[j] = h[j]
    BY <1>2, LenProperties DEF InPlace
  <2> DEFINE t == SubSeq(all, 1, Len(h))
  <2>2. t \in Seq(S) /\ Len(t) = Len(h) /\ \A j \in 1 .. Len(h) : t[j] = all[j]
    <3>1. \A i \in 1 .. Len(h) : all[i] \in S
      BY <2>1, LenProperties
    <3> QED
      BY <3>1, SubSeqProperties, LenProperties
  <2>3. h = t
    BY <2>1, <2>2, SeqEqual
  <2> QED
    BY <2>1, <2>3, SubSeqFull DEF IsPrefix
<1> QED
  BY <1>1, <1>2

\* Multiples of a frame size.
LEMMA Multiples ==
  ASSUME NEW t \in Nat, NEW n \in Nat, NEW i \in 1 .. n
  PROVE  /\ (i - 1) * t \in Nat /\ i * t \in Nat
         /\ i * t = (i - 1) * t + t
         /\ i * t <= n * t
OBVIOUS

LEMMA CommandCarries ==
  ASSUME NEW cmds \in Seq(Command), NEW i \in 1 .. Len(cmds)
  PROVE  cmds[i] \in Command /\ cmds[i].of \in Seq(Chunk) /\ Len(cmds[i].of) \in Nat
<1>1. cmds[i] \in Command
  BY ElementOfSeq
<1> QED
  BY <1>1, LenProperties DEF Command

LEMMA NothingLaid == Laid(0, <<>>, <<>>, <<>>)
<1> DEFINE cut == [i \in 0 .. 0 |-> 0]
<1>1. Len(<<>>) = 0
  OBVIOUS
<1>2. cut \in [0 .. 0 -> 0 .. 0] /\ cut[0] = 0
  OBVIOUS
<1>3. Cuts(cut, 0, <<>>, <<>>, <<>>)
  BY <1>1, <1>2 DEF Cuts, InPlace
<1> QED
  BY <1>1, <1>2, <1>3 DEF Laid

LEMMA OneBehind ==
  ASSUME NEW at \in Nat, NEW m \in Nat, NEW j \in 1 .. m + 1
  PROVE  /\ j = m + 1 => at + j = (at + m) + 1
         /\ j # m + 1 => j \in 1 .. m /\ at + j \in 1 .. at + m
OBVIOUS

LEMMA PieceGrows ==
  ASSUME NEW S, NEW rest \in Seq(S), NEW all \in Seq(S), NEW c \in S, NEW at \in Nat,
         at + Len(rest) = Len(all), InPlace(rest, at, all)
  PROVE  InPlace(Append(rest, c), at, Append(all, c))
<1> DEFINE more == Append(all, c)
           longer == Append(rest, c)
           m == Len(rest)
<1>1. more[Len(all) + 1] = c /\ \A j \in 1 .. Len(all) : more[j] = all[j]
  OBVIOUS
<1>2. longer[m + 1] = c /\ \A j \in 1 .. m : longer[j] = rest[j]
  OBVIOUS
<1>3. Len(more) = Len(all) + 1 /\ Len(longer) = m + 1 /\ m \in Nat
  OBVIOUS
<1> HIDE DEF more, longer, m
<1>4. ASSUME NEW j \in 1 .. m + 1
      PROVE  more[at + j] = longer[j]
  <2>1. CASE j = m + 1
    <3>1. at + j = Len(all) + 1
      BY <1>3, <2>1, OneBehind DEF m
    <3> QED
      BY <1>1, <1>2, <2>1, <3>1
  <2>2. CASE j # m + 1
    <3>1. j \in 1 .. m /\ at + j \in 1 .. Len(all)
      BY <1>3, <2>2, OneBehind DEF m
    <3>2. all[at + j] = rest[j]
      BY <3>1 DEF InPlace, m
    <3> QED
      BY <1>1, <1>2, <3>1, <3>2
  <2> QED
    BY <2>1, <2>2
<1>5. at + (m + 1) <= Len(more)
  BY <1>3 DEF m
<1> QED
  BY <1>3, <1>4, <1>5 DEF InPlace, more, longer

\* A chunk that is accepted joins what waits to fill a frame.
LEMMA LaidGrows ==
  ASSUME NEW begin \in Nat, NEW cmds \in Seq(Command),
         NEW rest \in Seq(Chunk), NEW all \in Seq(Chunk), NEW c \in Chunk,
         Laid(begin, cmds, rest, all)
  PROVE  Laid(begin, cmds, Append(rest, c), Append(all, c))
<1>1. PICK cut \in [0 .. Len(cmds) -> 0 .. Len(all)] : Cuts(cut, begin, cmds, rest, all)
  BY DEF Laid
<1> DEFINE more == Append(all, c)
<1>2. more \in Seq(Chunk) /\ Len(more) = Len(all) + 1 /\ more[Len(all) + 1] = c
      /\ \A j \in 1 .. Len(all) : more[j] = all[j]
  OBVIOUS
<1>3. Append(rest, c) \in Seq(Chunk) /\ Len(Append(rest, c)) = Len(rest) + 1
      /\ Append(rest, c)[Len(rest) + 1] = c
      /\ \A j \in 1 .. Len(rest) : Append(rest, c)[j] = rest[j]
  OBVIOUS
<1>4. Len(cmds) \in Nat /\ Len(all) \in Nat /\ Len(rest) \in Nat
  BY LenProperties
<1> HIDE DEF more
<1>5. cut \in [0 .. Len(cmds) -> 0 .. Len(more)]
  BY <1>1, <1>2, <1>4
<1>6. ASSUME NEW i \in 1 .. Len(cmds)
      PROVE  cut[i] = cut[i - 1] + Len(cmds[i].of) /\ InPlace(cmds[i].of, cut[i - 1], more)
  <2>1. cut[i] = cut[i - 1] + Len(cmds[i].of) /\ InPlace(cmds[i].of, cut[i - 1], all)
    BY <1>1 DEF Cuts
  <2>2. cut[i - 1] \in 0 .. Len(all)
    <3>1. i - 1 \in 0 .. Len(cmds)
      BY <1>4
    <3> QED
      BY <1>1, <3>1
  <2>3. Len(cmds[i].of) \in Nat
    BY CommandCarries
  <2>4. \A j \in 1 .. Len(cmds[i].of) : cut[i - 1] + j \in 1 .. Len(all)
    BY <1>4, <2>1, <2>2, <2>3 DEF InPlace
  <2>5. cut[i - 1] + Len(cmds[i].of) <= Len(all)
        /\ \A j \in 1 .. Len(cmds[i].of) : all[cut[i - 1] + j] = cmds[i].of[j]
    BY <2>1 DEF InPlace
  <2>6. cut[i - 1] + Len(cmds[i].of) <= Len(more)
    <3>1. cut[i - 1] \in Nat
      BY <2>2
    <3> QED
      BY <1>2, <1>4, <2>3, <2>5, <3>1
  <2>7. \A j \in 1 .. Len(cmds[i].of) : more[cut[i - 1] + j] = cmds[i].of[j]
    BY <1>2, <2>4, <2>5
  <2> QED
    BY <2>1, <2>6, <2>7 DEF InPlace
<1>7. cut[Len(cmds)] + Len(rest) + 1 = Len(more) /\ InPlace(Append(rest, c), cut[Len(cmds)], more)
  <2>1. /\ cut[Len(cmds)] \in Nat /\ cut[Len(cmds)] + Len(rest) = Len(all)
        /\ InPlace(rest, cut[Len(cmds)], all)
    BY <1>1, <1>4 DEF Cuts
  <2> QED
    BY <1>2, <1>4, <2>1, PieceGrows DEF more
<1>8. Cuts(cut, begin, cmds, Append(rest, c), more)
  <2>1. cut[Len(cmds)] + Len(Append(rest, c)) = Len(more)
    <3>1. cut[Len(cmds)] \in Nat
      BY <1>1, <1>4
    <3>2. Len(Append(rest, c)) = Len(rest) + 1
      BY <1>3
    <3> QED
      BY <1>4, <1>7, <3>1, <3>2
  <2>2. cut[0] = begin
    BY <1>1 DEF Cuts
  <2> QED
    BY <1>5, <1>6, <1>7, <2>1, <2>2 DEF Cuts
<1> QED
  BY <1>5, <1>8 DEF Laid, more

\* Frames of t chunks each leave the rest for the queue.
Frames(more, t, rest) ==
  \A i \in 1 .. Len(more) : more[i].of = SubSeq(rest, (i - 1) * t + 1, i * t)

LEMMA PieceOf ==
  ASSUME NEW S, NEW s \in Seq(S), NEW m \in Nat, NEW n \in Nat, m <= n, n <= Len(s)
  PROVE  /\ SubSeq(s, m + 1, n) \in Seq(S) /\ Len(SubSeq(s, m + 1, n)) = n - m
         /\ \A j \in 1 .. n - m : SubSeq(s, m + 1, n)[j] = s[m + j]
<1>1. Len(s) \in Nat /\ \A i \in m + 1 .. n : s[i] \in S
  BY LenProperties
<1> QED
  BY <1>1, SubSeqProperties

LEMMA FrameInPlace ==
  ASSUME NEW S, NEW rest \in Seq(S), NEW all \in Seq(S), NEW at \in Nat,
         InPlace(rest, at, all),
         NEW m \in Nat, NEW n \in Nat, m <= n, n <= Len(rest)
  PROVE  /\ Len(SubSeq(rest, m + 1, n)) = n - m
         /\ InPlace(SubSeq(rest, m + 1, n), at + m, all)
<1>1. Len(rest) \in Nat /\ Len(all) \in Nat
  BY LenProperties
<1>2. Len(SubSeq(rest, m + 1, n)) = n - m
      /\ \A j \in 1 .. n - m : SubSeq(rest, m + 1, n)[j] = rest[m + j]
  BY PieceOf
<1>3. ASSUME NEW j \in 1 .. n - m
      PROVE  all[(at + m) + j] = SubSeq(rest, m + 1, n)[j]
  <2>1. m + j \in 1 .. Len(rest) /\ at + (m + j) = (at + m) + j
    BY <1>1
  <2>2. all[at + (m + j)] = rest[m + j]
    BY <2>1 DEF InPlace
  <2> QED
    BY <1>2, <2>1, <2>2
<1>4. (at + m) + (n - m) <= Len(all)
  BY <1>1 DEF InPlace
<1> QED
  BY <1>2, <1>3, <1>4 DEF InPlace

LEMMA LaidFrames ==
  ASSUME NEW begin \in Nat, NEW cmds \in Seq(Command), NEW more \in Seq(Command),
         NEW rest \in Seq(Chunk), NEW all \in Seq(Chunk), NEW t \in Nat,
         Len(more) * t <= Len(rest), Frames(more, t, rest),
         Laid(begin, cmds, rest, all)
  PROVE  Laid(begin, cmds \o more, SubSeq(rest, Len(more) * t + 1, Len(rest)), all)
<1> DEFINE L == Len(cmds)
           n == Len(more)
           at(i) == i * t
<1>1. PICK cut \in [0 .. L -> 0 .. Len(all)] : Cuts(cut, begin, cmds, rest, all)
  BY DEF Laid
<1>2. L \in Nat /\ n \in Nat /\ Len(all) \in Nat /\ Len(rest) \in Nat
  BY LenProperties
<1>3. at(0) = 0 /\ \A i \in 0 .. n : at(i) \in Nat /\ at(i) <= Len(rest)
  <2>1. \A i \in 1 .. n : at(i) \in Nat /\ at(i) <= at(n)
    BY <1>2, Multiples
  <2>2. at(0) = 0
    OBVIOUS
  <2>3. 0 \in Nat /\ 0 <= Len(rest) /\ \A i \in 0 .. n : i = 0 \/ i \in 1 .. n
    BY <1>2
  <2>4. at(n) <= Len(rest)
    OBVIOUS
  <2>5. ASSUME NEW i \in 1 .. n
        PROVE  at(i) \in Nat /\ at(i) <= Len(rest)
    <3>1. n \in 1 .. n
      BY <1>2
    <3>2. at(i) \in Nat /\ at(n) \in Nat /\ at(i) <= at(n)
      BY <2>1, <3>1
    <3> HIDE DEF at
    <3> QED
      BY <1>2, <2>4, <3>2
  <2> HIDE DEF at
  <2> QED
    BY <2>2, <2>3, <2>5
<1>4. \A i \in 1 .. n : at(i - 1) <= at(i) /\ i - 1 \in 0 .. n
  BY <1>2, Multiples
<1>5. \A i \in 1 .. n : more[i].of = SubSeq(rest, at(i - 1) + 1, at(i))
  BY DEF Frames
<1>6. SubSeq(rest, n * t + 1, Len(rest)) = SubSeq(rest, at(n) + 1, Len(rest))
  OBVIOUS
<1>7. /\ cmds \o more \in Seq(Command) /\ Len(cmds \o more) = L + n
      /\ \A i \in 1 .. L : (cmds \o more)[i] = cmds[i]
      /\ \A i \in 1 .. n : (cmds \o more)[L + i] = more[i]
  BY <1>2, ConcatProperties
<1> HIDE DEF at, L, n
<1>8. cut[L] \in Nat /\ cut[L] + Len(rest) = Len(all) /\ InPlace(rest, cut[L], all)
  BY <1>1, <1>2 DEF Cuts, L
<1> DEFINE new == [i \in 0 .. L + n |-> IF i <= L THEN cut[i] ELSE cut[L] + at(i - L)]
<1>9. new \in [0 .. L + n -> 0 .. Len(all)]
  <2>1. ASSUME NEW i \in 0 .. L + n
        PROVE  (IF i <= L THEN cut[i] ELSE cut[L] + at(i - L)) \in 0 .. Len(all)
    <3>1. CASE i <= L
      BY <1>1, <1>2, <3>1
    <3>2. CASE ~(i <= L)
      <4>1. i - L \in 0 .. n
        BY <1>2, <3>2
      <4> QED
        BY <1>2, <1>3, <1>8, <3>2, <4>1
    <3> QED
      BY <3>1, <3>2
  <2> QED
    BY <2>1
<1>10. \A i \in 0 .. L : new[i] = cut[i]
  BY <1>2
<1>11. \A i \in 0 .. n : new[L + i] = cut[L] + at(i)
  <2>1. ASSUME NEW i \in 0 .. n
        PROVE  new[L + i] = cut[L] + at(i)
    <3>1. CASE i = 0
      BY <1>2, <1>3, <1>8, <3>1
    <3>2. CASE i # 0
      BY <1>2, <3>2
    <3> QED
      BY <3>1, <3>2
  <2> QED
    BY <2>1
<1> HIDE DEF new
<1>12. ASSUME NEW i \in 1 .. L
       PROVE  /\ new[i] = new[i - 1] + Len((cmds \o more)[i].of)
              /\ InPlace((cmds \o more)[i].of, new[i - 1], all)
  <2>1. cut[i] = cut[i - 1] + Len(cmds[i].of) /\ InPlace(cmds[i].of, cut[i - 1], all)
    BY <1>1 DEF Cuts, L
  <2>2. new[i] = cut[i] /\ new[i - 1] = cut[i - 1] /\ (cmds \o more)[i] = cmds[i]
    <3>1. i \in 0 .. L /\ i - 1 \in 0 .. L
      BY <1>2
    <3> QED
      BY <1>7, <1>10, <3>1
  <2> QED
    BY <2>1, <2>2
<1>13. ASSUME NEW k \in 1 .. n
       PROVE  /\ new[L + k] = new[L + k - 1] + Len((cmds \o more)[L + k].of)
              /\ InPlace((cmds \o more)[L + k].of, new[L + k - 1], all)
  <2>1. new[L + k] = cut[L] + at(k) /\ new[L + k - 1] = cut[L] + at(k - 1)
    <3>1. k - 1 \in 0 .. n /\ L + (k - 1) = L + k - 1
      BY <1>2
    <3> QED
      BY <1>2, <1>11, <3>1
  <2>2. (cmds \o more)[L + k].of = SubSeq(rest, at(k - 1) + 1, at(k))
    BY <1>5, <1>7
  <2>3. at(k - 1) \in Nat /\ at(k) \in Nat /\ at(k - 1) <= at(k) /\ at(k) <= Len(rest)
    BY <1>2, <1>3, <1>4
  <2>4. Len(SubSeq(rest, at(k - 1) + 1, at(k))) = at(k) - at(k - 1)
        /\ InPlace(SubSeq(rest, at(k - 1) + 1, at(k)), cut[L] + at(k - 1), all)
    BY <1>8, <2>3, FrameInPlace
  <2>5. cut[L] + at(k) = (cut[L] + at(k - 1)) + (at(k) - at(k - 1))
    BY <1>8, <2>3
  <2> QED
    BY <2>1, <2>2, <2>4, <2>5
<1>14. ASSUME NEW i \in 1 .. L + n
       PROVE  /\ new[i] = new[i - 1] + Len((cmds \o more)[i].of)
              /\ InPlace((cmds \o more)[i].of, new[i - 1], all)
  <2>1. CASE i <= L
    <3>1. i \in 1 .. L
      BY <1>2, <2>1
    <3> QED
      BY <1>12, <3>1
  <2>2. CASE i > L
    <3>1. i - L \in 1 .. n /\ L + (i - L) = i /\ L + (i - L) - 1 = i - 1
      BY <1>2, <2>2
    <3> QED
      BY <1>13, <3>1
  <2>3. i <= L \/ i > L
    BY <1>2
  <2> QED
    BY <2>1, <2>2, <2>3
<1> DEFINE left == SubSeq(rest, at(n) + 1, Len(rest))
<1>15. Len(left) = Len(rest) - at(n) /\ InPlace(left, cut[L] + at(n), all)
  <2>1. n \in 0 .. n /\ at(n) \in Nat /\ at(n) <= Len(rest) /\ Len(rest) <= Len(rest)
    BY <1>2, <1>3
  <2>2. rest \in Seq(Chunk) /\ all \in Seq(Chunk) /\ Len(rest) \in Nat
    BY <1>2
  <2> QED
    BY <1>8, <2>1, <2>2, FrameInPlace
<1>16. new[L + n] = cut[L] + at(n) /\ at(n) \in Nat /\ new[0] = begin
  BY <1>1, <1>2, <1>3, <1>10, <1>11 DEF Cuts
<1> HIDE DEF left
<1>17. Cuts(new, begin, cmds \o more, left, all)
  <2>1. new[L + n] + Len(left) = Len(all)
    <3>1. Len(left) = Len(rest) - at(n) /\ at(n) \in Nat /\ new[L + n] = cut[L] + at(n)
      BY <1>15, <1>16
    <3>2. \A x, y, z \in Nat : (x + y) + (z - y) = x + z
      OBVIOUS
    <3>3. cut[L] + Len(rest) = Len(all) /\ cut[L] \in Nat /\ Len(rest) \in Nat
      BY <1>2, <1>8
    <3> HIDE DEF new
    <3> QED
      BY <3>1, <3>2, <3>3
  <2> QED
    BY <1>7, <1>9, <1>14, <1>15, <1>16, <2>1 DEF Cuts
<1>18. Laid(begin, cmds \o more, left, all)
  BY <1>7, <1>9, <1>17 DEF Laid
<1> QED
  BY <1>6, <1>18 DEF left, n

\* The writer sends the first command.
LEMMA LaidWrites ==
  ASSUME NEW h \in Seq(Chunk), NEW cmds \in Seq(Command), NEW rest \in Seq(Chunk), NEW all \in Seq(Chunk),
         cmds # <<>>,
         InPlace(h, 0, all), Laid(Len(h), cmds, rest, all)
  PROVE  /\ InPlace(h \o cmds[1].of, 0, all)
         /\ Laid(Len(h \o cmds[1].of), Tail(cmds), rest, all)
<1> DEFINE L == Len(cmds)
           first == cmds[1].of
<1>1. PICK cut \in [0 .. L -> 0 .. Len(all)] : Cuts(cut, Len(h), cmds, rest, all)
  BY DEF Laid
<1>2. L \in Nat \ {0} /\ Len(all) \in Nat /\ Len(h) \in Nat
      /\ first \in Seq(Chunk) /\ Len(first) \in Nat
  <2>1. L \in Nat \ {0} /\ Len(all) \in Nat /\ Len(h) \in Nat
    BY LenProperties, EmptySeq
  <2> QED
    BY <2>1, CommandCarries
<1>3. cut[0] = Len(h) /\ cut[1] = Len(h) + Len(first) /\ InPlace(first, Len(h), all)
  <2>1. cut[0] = Len(h)
    BY <1>1 DEF Cuts
  <2>2. cut[1] = cut[1 - 1] + Len(cmds[1].of) /\ InPlace(cmds[1].of, cut[1 - 1], all)
    BY <1>1, <1>2 DEF Cuts
  <2>3. 1 - 1 = 0
    OBVIOUS
  <2> QED
    BY <2>1, <2>2, <2>3
<1>4. /\ Len(h \o first) = Len(h) + Len(first)
      /\ \A j \in 1 .. Len(h) + Len(first) :
           (h \o first)[j] = IF j <= Len(h) THEN h[j] ELSE first[j - Len(h)]
  BY <1>2, ConcatProperties
<1>5. InPlace(h \o first, 0, all)
  <2>1. ASSUME NEW j \in 1 .. Len(h) + Len(first)
        PROVE  all[j] = (h \o first)[j]
    <3>1. CASE j <= Len(h)
      BY <1>2, <1>4, <3>1 DEF InPlace
    <3>2. CASE ~(j <= Len(h))
      <4>1. j - Len(h) \in 1 .. Len(first) /\ Len(h) + (j - Len(h)) = j
        BY <1>2, <3>2
      <4> QED
        BY <1>2, <1>3, <1>4, <3>2, <4>1 DEF InPlace
    <3> QED
      BY <3>1, <3>2
  <2> QED
    BY <1>2, <1>3, <1>4, <2>1 DEF InPlace
<1>6. /\ Tail(cmds) \in Seq(Command) /\ Len(Tail(cmds)) = L - 1
      /\ \A i \in 1 .. L - 1 : Tail(cmds)[i] = cmds[i + 1]
  BY HeadTailProperties
<1> DEFINE new == [i \in 0 .. L - 1 |-> cut[i + 1]]
<1>7. new \in [0 .. L - 1 -> 0 .. Len(all)] /\ \A i \in 0 .. L - 1 : new[i] = cut[i + 1]
  BY <1>1, <1>2
<1> HIDE DEF new, first, L
<1>8. ASSUME NEW i \in 1 .. L - 1
      PROVE  new[i] = new[i - 1] + Len(Tail(cmds)[i].of) /\ InPlace(Tail(cmds)[i].of, new[i - 1], all)
  <2>1. i + 1 \in 1 .. L /\ new[i] = cut[i + 1] /\ new[i - 1] = cut[i] /\ (i + 1) - 1 = i
    <3>1. i + 1 \in 1 .. L /\ i \in 0 .. L - 1 /\ i - 1 \in 0 .. L - 1
          /\ (i + 1) - 1 = i /\ (i - 1) + 1 = i
      BY <1>2
    <3> QED
      BY <1>7, <3>1
  <2> QED
    BY <1>1, <1>6, <2>1 DEF Cuts, L
<1>9. new[0] = Len(h) + Len(first) /\ new[L - 1] = cut[L]
  BY <1>2, <1>3, <1>7
<1>10. Cuts(new, Len(h \o first), Tail(cmds), rest, all)
  BY <1>1, <1>4, <1>6, <1>7, <1>8, <1>9 DEF Cuts, L
<1> QED
  BY <1>5, <1>6, <1>7, <1>10 DEF Laid, first, L

\* With nothing queued, what is heard and what is left over are all of it.
LEMMA LaidAll ==
  ASSUME NEW S, NEW h \in Seq(S), NEW rest \in Seq(S), NEW all \in Seq(S),
         InPlace(h, 0, all), Laid(Len(h), <<>>, rest, all)
  PROVE  all = h \o rest
<1>1. PICK cut \in [0 .. 0 -> 0 .. Len(all)] : Cuts(cut, Len(h), <<>>, rest, all)
  BY EmptySeq DEF Laid
<1>2. Len(h) + Len(rest) = Len(all) /\ InPlace(rest, Len(h), all)
  BY <1>1 DEF Cuts
<1>3. /\ h \o rest \in Seq(S) /\ Len(h \o rest) = Len(h) + Len(rest)
      /\ \A j \in 1 .. Len(h) + Len(rest) :
           (h \o rest)[j] = IF j <= Len(h) THEN h[j] ELSE rest[j - Len(h)]
  BY ConcatProperties
<1>4. Len(h) \in Nat /\ Len(rest) \in Nat
  BY LenProperties
<1>5. ASSUME NEW j \in 1 .. Len(all)
      PROVE  all[j] = (h \o rest)[j]
  <2>1. CASE j <= Len(h)
    BY <1>2, <1>3, <1>4, <2>1 DEF InPlace
  <2>2. CASE ~(j <= Len(h))
    <3>1. j - Len(h) \in 1 .. Len(rest) /\ Len(h) + (j - Len(h)) = j
      BY <1>2, <1>4, <2>2
    <3> QED
      BY <1>2, <1>3, <2>2, <3>1 DEF InPlace
  <2> QED
    BY <2>1, <2>2
<1> QED
  BY <1>2, <1>3, <1>5, SeqEqual

-----------------------------------------------------------------------------
(* The type invariant, one variable at a time. *)

Typed ==
  /\ provider \in Providers /\ caller \in Callers
  /\ chunks \in 0 .. MaxChunks[provider] /\ accepted \in Seq(Chunk) /\ pending \in Seq(Chunk)
  /\ commands \in Seq(Command) /\ Len(commands) <= Capacity
  /\ writer \in BOOLEAN /\ draining \in BOOLEAN /\ link \in BOOLEAN
  /\ closing \in BOOLEAN /\ reader \in BOOLEAN
  /\ heard \in Seq(Chunk) /\ working \in Seq(Turns)
  /\ buffer \in Turns /\ expected \in Turns /\ settled \in Turns
  /\ downlink \in Seq(Message) /\ drained \in {"none", "ok", "error"}

LEMMA TypeOKIsTyped == TypeOK => Typed
BY DEF TypeOK, Typed

LEMMA TypedIsTypeOK == Typed' => TypeOK'
BY DEF TypeOK, Typed

LEMMA ConstantTypes ==
  /\ Target \in Nat \ {0} /\ Minimum \in 1 .. Target /\ Capacity \in Nat \ {0}
  /\ \A p \in Providers : MaxChunks[p] \in Nat
BY FrameAssumption

LEMMA NextChunk ==
  ASSUME Typed, chunks < MaxChunks[provider]
  PROVE  /\ chunks + 1 \in 0 .. MaxChunks[provider] /\ chunks + 1 \in Chunk
         /\ Append(accepted, chunks + 1) \in Seq(Chunk)
<1>1. MaxChunks[provider] \in Nat /\ chunks \in Nat
  BY ConstantTypes DEF Typed
<1>2. chunks + 1 \in 1 .. MaxChunks[provider]
  BY <1>1
<1>3. chunks + 1 \in Chunk
  BY <1>2 DEF Chunk, Typed
<1> QED
  BY <1>1, <1>2, <1>3 DEF Typed

LEMMA FullFrames ==
  ASSUME NEW t \in Nat \ {0}, NEW len \in Nat, NEW n \in Nat, n <= len \div t
  PROVE  len \div t \in Nat /\ n * t \in Nat /\ n * t <= len
<1> DEFINE q == len \div t
<1>1. q \in Nat /\ t * q <= len
  OBVIOUS
<1>2. q * t = t * q
  BY <1>1
<1> HIDE DEF q
<1>3. n * t <= q * t /\ n * t \in Nat
  <2>1. CASE n = 0
    BY <1>1, <2>1
  <2>2. CASE n # 0
    <3>1. n \in 1 .. q
      BY <1>1, <2>2 DEF q
    <3> QED
      BY <1>1, <3>1, Multiples
  <2> QED
    BY <2>1, <2>2
<1> QED
  BY <1>1, <1>2, <1>3 DEF q

LEMMA PieceIsSeq ==
  ASSUME NEW S, NEW rest \in Seq(S), NEW m \in Nat, NEW n \in Nat, n <= Len(rest)
  PROVE  SubSeq(rest, m + 1, n) \in Seq(S)
<1>1. \A k \in m + 1 .. n : rest[k] \in S
  BY LenProperties
<1> QED
  BY <1>1, SubSeqProperties

LEMMA InPlaceGrows ==
  ASSUME NEW S, NEW h \in Seq(S), NEW all \in Seq(S), NEW c \in S, InPlace(h, 0, all)
  PROVE  InPlace(h, 0, Append(all, c))
<1> DEFINE more == Append(all, c)
<1>1. Len(more) = Len(all) + 1 /\ \A j \in 1 .. Len(all) : more[j] = all[j]
  OBVIOUS
<1> HIDE DEF more
<1>2. Len(h) <= Len(all) /\ \A j \in 1 .. Len(h) : all[j] = h[j]
  BY LenProperties DEF InPlace
<1>3. Len(h) \in Nat /\ Len(all) \in Nat
  BY LenProperties
<1>4. \A j \in 1 .. Len(h) : more[0 + j] = h[j]
  BY <1>1, <1>2, <1>3
<1> QED
  BY <1>1, <1>2, <1>3, <1>4 DEF InPlace, more

LEMMA StillInOrder ==
  ASSUME Typed, HeardInOrder, NEW c \in Chunk
  PROVE  IsPrefix(heard, Append(accepted, c))
<1>1. InPlace(heard, 0, accepted)
  BY PrefixInPlace DEF Typed, HeardInOrder
<1>2. InPlace(heard, 0, Append(accepted, c))
  BY <1>1, InPlaceGrows DEF Typed
<1>3. heard \in Seq(Chunk) /\ Append(accepted, c) \in Seq(Chunk)
  BY DEF Typed
<1> QED
  BY <1>2, <1>3, PrefixInPlace

-----------------------------------------------------------------------------
(* The steps of the caller. *)

\* More commands: nothing with chunks but audio, and the end of the audio last.
Fits(more, next) ==
  /\ more \in Seq(Command) /\ Len(commands) + Len(more) <= Capacity
  /\ \A i \in DOMAIN more :
       /\ more[i].kind # "audio" => more[i].of = <<>>
       /\ more[i].kind = "close" => i = Len(more) /\ next \notin Offering

LEMMA Queued ==
  ASSUME IInv, caller \in Offering, NEW more, Fits(more, caller'),
         commands' = commands \o more, UNCHANGED <<provider, writer, draining, link, closing>>
  PROVE  /\ commands' \in Seq(Command) /\ Len(commands') <= Capacity
         /\ StillOpen' /\ CloseIsLast' /\ EndIsLast'
<1>1. commands \in Seq(Command) /\ more \in Seq(Command) /\ Len(commands) \in Nat /\ Len(more) \in Nat
  BY TypeOKIsTyped, LenProperties DEF IInv, Typed, Fits
<1>2. /\ commands' \in Seq(Command) /\ Len(commands') = Len(commands) + Len(more)
      /\ \A i \in 1 .. Len(commands) : commands'[i] = commands[i]
      /\ \A i \in 1 .. Len(commands') : i > Len(commands) =>
           i - Len(commands) \in 1 .. Len(more) /\ commands'[i] = more[i - Len(commands)]
  BY <1>1, ConcatProperties
<1>3. DOMAIN commands = 1 .. Len(commands) /\ DOMAIN more = 1 .. Len(more)
      /\ DOMAIN commands' = 1 .. Len(commands')
  BY <1>1, <1>2, LenProperties
<1>4. ASSUME NEW i \in 1 .. Len(commands')
      PROVE  /\ commands'[i].kind # "audio" => commands'[i].of = <<>>
             /\ commands'[i].kind = "close" => i = Len(commands') /\ caller' \notin Offering
  <2>1. CASE i <= Len(commands)
    <3>1. i \in 1 .. Len(commands) /\ commands'[i] = commands[i]
      BY <1>1, <1>2, <2>1
    <3> QED
      BY <1>3, <3>1 DEF IInv, StillOpen, CloseIsLast
  <2>2. CASE i > Len(commands)
    <3>1. i - Len(commands) \in 1 .. Len(more) /\ commands'[i] = more[i - Len(commands)]
      BY <1>2, <2>2
    <3>2. i - Len(commands) = Len(more) => i = Len(commands')
      BY <1>1, <1>2
    <3> QED
      BY <1>3, <3>1, <3>2 DEF Fits
  <2>3. i <= Len(commands) \/ i > Len(commands)
    BY <1>1
  <2> QED
    BY <2>1, <2>2, <2>3
<1>5. EndIsLast'
  BY DEF IInv, EndIsLast
<1>6. StillOpen'
  BY <1>3, <1>4 DEF IInv, StillOpen
<1>7. CloseIsLast'
  BY <1>3, <1>4 DEF CloseIsLast
<1> QED
  BY <1>1, <1>2, <1>5, <1>6, <1>7 DEF Fits

LEMMA ServerSame ==
  ASSUME IInv, UNCHANGED <<provider, draining, serverVars, downlink, reader, drained, settled>>
  PROVE  DoneIsLast' /\ AllTraced' /\ DrainedOk'
<1> USE DEF IInv, serverVars
<1>1. DoneIsLast'
  BY DEF DoneIsLast
<1>2. AllTraced'
  BY DEF AllTraced, Whereabouts
<1>3. DrainedOk'
  BY DEF DrainedOk
<1> QED
  BY <1>1, <1>2, <1>3

LEMMA InvFrom ==
  ASSUME Typed', HeardInOrder', NothingLost', StillOpen', CloseIsLast', EndIsLast',
         DoneIsLast', AllTraced', DrainedOk', TailIsShort'
  PROVE  IInv'
BY TypedIsTypeOK DEF IInv

\* A command without chunks, or the whole tail as one frame.
LEMMA LaidOne ==
  ASSUME Typed, Laid(Len(heard), commands, pending, accepted),
         NEW cmd \in Command, NEW t \in 0 .. Len(pending), cmd.of = SubSeq(pending, 1, t)
  PROVE  Laid(Len(heard), commands \o <<cmd>>, SubSeq(pending, t + 1, Len(pending)), accepted)
<1> DEFINE more == <<cmd>>
<1>1. more \in Seq(Command) /\ Len(more) = 1 /\ more[1] = cmd
  OBVIOUS
<1>2. t \in Nat /\ Len(more) * t = t /\ t <= Len(pending) /\ Len(heard) \in Nat
  BY <1>1, LenProperties DEF Typed
<1>3. Frames(more, t, pending)
  <2>1. \A i \in 1 .. Len(more) : i = 1
    BY <1>1
  <2>2. (1 - 1) * t + 1 = 1 /\ 1 * t = t
    BY <1>2
  <2>3. more[1].of = SubSeq(pending, (1 - 1) * t + 1, 1 * t)
    BY <1>1, <2>2
  <2> QED
    BY <2>1, <2>3 DEF Frames
<1> HIDE DEF more
<1>4. Laid(Len(heard), commands \o more, SubSeq(pending, Len(more) * t + 1, Len(pending)), accepted)
  BY <1>1, <1>2, <1>3, LaidFrames DEF Typed
<1> QED
  BY <1>2, <1>4 DEF more

LEMMA SendChunkKeeps ==
  ASSUME IInv, SendChunk
  PROVE  IInv'
<1> DEFINE c == chunks + 1
<1>1. Typed /\ caller = "sending" /\ provider # "assemblyai" /\ chunks < MaxChunks[provider] /\ chunks' = c
  BY TypeOKIsTyped DEF SendChunk, IInv
<1>2. UNCHANGED <<provider, caller, pending, writer, draining, link, serverVars, downlink, readerVars>>
  BY DEF SendChunk
<1>3. DoneIsLast' /\ AllTraced' /\ DrainedOk'
  BY <1>2, ServerSame DEF readerVars
<1>4. TailIsShort'
  BY <1>1, <1>2 DEF IInv, TailIsShort
<1>5. CASE writer /\ Room > 0
  <2>1. commands' = commands \o <<Audio(<<c>>)>> /\ accepted' = Append(accepted, c)
    BY <1>5 DEF SendChunk, Queue
  <2>2. c \in Chunk /\ c \in 0 .. MaxChunks[provider] /\ accepted' \in Seq(Chunk)
    BY <1>1, <2>1, NextChunk
  <2>3. Audio(<<c>>) \in Command /\ Audio(<<c>>).kind = "audio" /\ Audio(<<c>>).of = <<c>>
    BY <2>2 DEF Audio, Command
  <2>4. Fits(<<Audio(<<c>>)>>, caller')
    BY <1>1, <1>5, <2>3, ConstantTypes, LenProperties DEF Fits, Room, Typed
  <2>5. /\ commands' \in Seq(Command) /\ Len(commands') <= Capacity
        /\ StillOpen' /\ CloseIsLast' /\ EndIsLast'
    BY <1>1, <1>2, <2>1, <2>4, Queued DEF Offering, serverVars
  <2>6. HeardInOrder'
    BY <1>1, <1>2, <2>1, <2>2, StillInOrder DEF HeardInOrder, IInv, serverVars
  <2>7. ASSUME Laid(Len(heard), commands, pending, accepted)
        PROVE  Laid(Len(heard'), commands', pending', accepted')
    <3>1. pending = <<>> /\ Append(pending, c) = <<c>> /\ Len(heard) \in Nat
      BY <1>1, LenProperties DEF IInv, TailIsShort, Typed
    <3>2. Laid(Len(heard), commands, <<c>>, Append(accepted, c))
      BY <1>1, <2>2, <2>7, <3>1, LaidGrows DEF Typed
    <3> DEFINE more == <<Audio(<<c>>)>>
    <3>3. more \in Seq(Command) /\ Len(more) = 1 /\ more[1].of = <<c>>
          /\ <<c>> \in Seq(Chunk) /\ Len(<<c>>) = 1
      BY <2>2, <2>3
    <3>4. SubSeq(<<c>>, 1, 1) = <<c>> /\ SubSeq(<<c>>, 2, 1) = <<>>
      <4>1. SubSeq(<<c>>, 1, Len(<<c>>)) = <<c>>
        BY <3>3, SubSeqFull
      <4>2. SubSeq(<<c>>, 2, 1) = <<>>
        BY SubSeqEmpty
      <4> QED
        BY <3>3, <4>1, <4>2
    <3>5. Frames(more, 1, <<c>>)
      <4>1. \A i \in 1 .. Len(more) : i = 1
        BY <3>3
      <4>2. more[1].of = SubSeq(<<c>>, (1 - 1) * 1 + 1, 1 * 1)
        BY <3>3, <3>4
      <4> QED
        BY <4>1, <4>2 DEF Frames
    <3> HIDE DEF more
    <3>6. Laid(Len(heard), commands \o more, SubSeq(<<c>>, Len(more) * 1 + 1, Len(<<c>>)), Append(accepted, c))
      <4>1. Len(more) * 1 <= Len(<<c>>) /\ commands \in Seq(Command) /\ Append(accepted, c) \in Seq(Chunk)
        BY <1>1, <2>1, <2>2, <3>3 DEF Typed
      <4> QED
        BY <3>1, <3>2, <3>3, <3>5, <4>1, LaidFrames
    <3>7. Laid(Len(heard), commands \o more, <<>>, Append(accepted, c))
      <4>1. Len(more) * 1 + 1 = 2
        BY <3>3
      <4> QED
        BY <3>3, <3>4, <3>6, <4>1
    <3> QED
      BY <1>2, <2>1, <3>1, <3>7 DEF more, serverVars
  <2>8. NothingLost'
    BY <1>2, <2>7 DEF NothingLost, IInv, serverVars
  <2>9. Typed'
    BY <1>1, <1>2, <2>2, <2>5 DEF Typed, serverVars, readerVars
  <2> QED
    BY <1>3, <1>4, <2>5, <2>6, <2>8, <2>9, InvFrom
<1>6. CASE ~(writer /\ Room > 0)
  <2>1. UNCHANGED <<commands, accepted>>
    BY <1>6 DEF SendChunk
  <2>2. Typed'
    BY <1>1, <1>2, <2>1, NextChunk DEF Typed, serverVars, readerVars
  <2>3. HeardInOrder' /\ NothingLost' /\ StillOpen' /\ CloseIsLast' /\ EndIsLast'
    BY <1>2, <2>1 DEF IInv, HeardInOrder, NothingLost, StillOpen, CloseIsLast, EndIsLast, serverVars
  <2> QED
    BY <1>3, <1>4, <2>2, <2>3, InvFrom
<1> QED
  BY <1>5, <1>6

LEMMA SendBufferedKeeps ==
  ASSUME IInv, SendBuffered
  PROVE  IInv'
<1> DEFINE c == chunks + 1
           audio == Append(pending, c)
           full == Len(audio) \div Target
           n == IF full <= Room THEN full ELSE Room
           frame(i) == SubSeq(audio, (i - 1) * Target + 1, i * Target)
           more == [i \in 1 .. n |-> Audio(frame(i))]
<1>1. Typed /\ caller = "sending" /\ provider = "assemblyai" /\ chunks < MaxChunks[provider] /\ chunks' = c
  BY TypeOKIsTyped DEF SendBuffered, IInv
<1>2. UNCHANGED <<provider, caller, writer, draining, link, serverVars, downlink, readerVars>>
  BY DEF SendBuffered
<1>3. DoneIsLast' /\ AllTraced' /\ DrainedOk'
  BY <1>2, ServerSame DEF readerVars
<1>4. TailIsShort'
  BY <1>1, <1>2 DEF IInv, TailIsShort
<1>5. c \in Chunk /\ c \in 0 .. MaxChunks[provider] /\ Append(accepted, c) \in Seq(Chunk)
  BY <1>1, NextChunk
<1>6. audio \in Seq(Chunk) /\ Len(audio) \in Nat
  BY <1>1, <1>5 DEF Typed
<1>7. Room \in Nat /\ Len(commands) \in Nat /\ Len(commands) + Room = Capacity
  BY <1>1, ConstantTypes, LenProperties DEF Room, Typed
<1>8. full \in Nat
  BY <1>6, ConstantTypes, FullFrames
<1>9. n \in Nat /\ n <= full /\ n <= Room /\ (n < full \/ n = full)
  BY <1>7, <1>8
<1>10. n * Target \in Nat /\ n * Target <= Len(audio)
  BY <1>6, <1>9, ConstantTypes, FullFrames
<1>11. \A i \in 1 .. n : frame(i) \in Seq(Chunk)
  <2>1. ASSUME NEW i \in 1 .. n
        PROVE  frame(i) \in Seq(Chunk)
    <3>1. (i - 1) * Target \in Nat /\ i * Target \in Nat /\ i * Target <= n * Target
      BY <1>9, ConstantTypes, Multiples
    <3>2. i * Target <= Len(audio)
      <4> HIDE DEF audio, n
      <4> QED
        BY <1>6, <1>10, <3>1
    <3> HIDE DEF audio
    <3> QED
      BY <1>6, <3>1, <3>2, PieceIsSeq
  <2> QED
    BY <2>1
<1>12. SubSeq(audio, n * Target + 1, Len(audio)) \in Seq(Chunk)
  <2> HIDE DEF audio, n
  <2> QED
    BY <1>6, <1>10, PieceIsSeq
<1>13. CASE writer \/ full = 0
  <2>1. accepted' = Append(accepted, c) /\ commands' = commands \o more
        /\ pending' = SubSeq(audio, n * Target + 1, Len(audio))
    BY <1>9, <1>13 DEF SendBuffered, Queue, Restore
  <2>2. /\ more \in Seq(Command) /\ Len(more) = n /\ DOMAIN more = 1 .. n
        /\ \A i \in 1 .. n : more[i].kind = "audio" /\ more[i].of = frame(i)
    <3>1. \A i \in 1 .. n : Audio(frame(i)) \in Command
      BY <1>11 DEF Audio, Command
    <3>2. \A i \in 1 .. n : Audio(frame(i)).kind = "audio" /\ Audio(frame(i)).of = frame(i)
      BY DEF Audio
    <3> HIDE DEF frame, n
    <3>3. more \in [1 .. n -> Command]
      BY <3>1
    <3> QED
      BY <1>9, <3>2, <3>3
  <2> HIDE DEF more, n, full, audio
  <2>3. Fits(more, caller')
    BY <1>1, <1>7, <1>9, <2>2 DEF Fits
  <2>4. /\ commands' \in Seq(Command) /\ Len(commands') <= Capacity
        /\ StillOpen' /\ CloseIsLast' /\ EndIsLast'
    BY <1>1, <1>2, <2>1, <2>3, Queued DEF Offering, serverVars
  <2>5. HeardInOrder'
    BY <1>1, <1>2, <1>5, <2>1, StillInOrder DEF HeardInOrder, IInv, serverVars
  <2>6. ASSUME Laid(Len(heard), commands, pending, accepted)
        PROVE  Laid(Len(heard'), commands', pending', accepted')
    <3>1. Len(heard) \in Nat /\ commands \in Seq(Command) /\ pending \in Seq(Chunk) /\ accepted \in Seq(Chunk)
      BY <1>1, LenProperties DEF Typed
    <3>2. Laid(Len(heard), commands, audio, Append(accepted, c))
      BY <1>5, <2>6, <3>1, LaidGrows DEF audio
    <3>3. Frames(more, Target, audio)
      BY <2>2 DEF Frames
    <3>4. Laid(Len(heard), commands \o more, SubSeq(audio, Len(more) * Target + 1, Len(audio)), Append(accepted, c))
      BY <1>5, <1>6, <1>10, <2>2, <3>1, <3>2, <3>3, ConstantTypes, LaidFrames
    <3> QED
      BY <1>2, <2>1, <2>2, <3>4 DEF serverVars
  <2>7. NothingLost'
    BY <1>2, <2>6 DEF NothingLost, IInv, serverVars
  <2>8. Typed'
    BY <1>1, <1>2, <1>5, <1>12, <2>1, <2>4 DEF Typed, serverVars, readerVars
  <2> QED
    BY <1>3, <1>4, <2>4, <2>5, <2>7, <2>8, InvFrom
<1>14. CASE ~(writer \/ full = 0)
  <2>1. UNCHANGED <<accepted, commands>> /\ pending' = SubSeq(audio, Target + 1, Len(audio))
    BY <1>14 DEF SendBuffered
  <2>2. pending' \in Seq(Chunk)
    <3>1. \A k \in Target + 1 .. Len(audio) : audio[k] \in Chunk
      BY <1>6, ConstantTypes, LenProperties
    <3> QED
      BY <1>6, <2>1, <3>1, ConstantTypes, SubSeqProperties
  <2>3. ~link /\ ~closing /\ ~draining
    BY <1>1, <1>14 DEF IInv, StillOpen, EndIsLast, Offering
  <2> HIDE DEF audio, full
  <2>4. HeardInOrder' /\ NothingLost' /\ StillOpen' /\ CloseIsLast' /\ EndIsLast'
    BY <1>2, <2>1, <2>3 DEF IInv, HeardInOrder, NothingLost, StillOpen, CloseIsLast, EndIsLast, serverVars
  <2>5. Typed'
    BY <1>1, <1>2, <1>5, <2>1, <2>2 DEF Typed, serverVars, readerVars
  <2> QED
    BY <1>3, <1>4, <2>4, <2>5, InvFrom
<1> QED
  BY <1>13, <1>14

\* A command that carries no chunk leaves the audio where it is.
LEMMA SignalKeeps ==
  ASSUME IInv, NEW cmd \in {Control, Close}, caller \in Offering, Room > 0,
         cmd = Close => caller' \notin Offering,
         commands' = commands \o <<cmd>>,
         UNCHANGED <<provider, chunks, accepted, pending, writer, draining, link, serverVars, downlink, readerVars>>
  PROVE  /\ commands' \in Seq(Command) /\ Len(commands') <= Capacity
         /\ StillOpen' /\ CloseIsLast' /\ EndIsLast' /\ NothingLost' /\ HeardInOrder'
         /\ DoneIsLast' /\ AllTraced' /\ DrainedOk'
<1>1. Typed
  BY TypeOKIsTyped DEF IInv
<1>2. cmd \in Command /\ cmd.of = <<>> /\ cmd.kind # "audio" /\ (cmd.kind = "close" => cmd = Close)
  <2>1. <<>> \in Seq(Chunk)
    BY EmptySeq
  <2>2. Control \in Command /\ Control.of = <<>> /\ Control.kind = "control"
    BY <2>1 DEF Control, Command
  <2>3. Close \in Command /\ Close.of = <<>> /\ Close.kind = "close"
    BY <2>1 DEF Close, Command
  <2> QED
    BY <2>2, <2>3
<1>3. Fits(<<cmd>>, caller')
  BY <1>1, <1>2, ConstantTypes, LenProperties DEF Fits, Room, Typed
<1>4. /\ commands' \in Seq(Command) /\ Len(commands') <= Capacity
      /\ StillOpen' /\ CloseIsLast' /\ EndIsLast'
  BY <1>3, Queued DEF serverVars
<1>5. ASSUME Laid(Len(heard), commands, pending, accepted)
      PROVE  Laid(Len(heard'), commands', pending', accepted')
  <2>1. 0 \in 0 .. Len(pending) /\ SubSeq(pending, 1, 0) = <<>> /\ SubSeq(pending, 0 + 1, Len(pending)) = pending
    BY <1>1, LenProperties, SubSeqEmpty, SubSeqFull DEF Typed
  <2>2. Laid(Len(heard), commands \o <<cmd>>, SubSeq(pending, 0 + 1, Len(pending)), accepted)
    BY <1>1, <1>2, <1>5, <2>1, LaidOne
  <2> QED
    BY <2>1, <2>2 DEF serverVars
<1>6. NothingLost' /\ HeardInOrder'
  BY <1>5 DEF NothingLost, HeardInOrder, IInv, serverVars
<1>7. DoneIsLast' /\ AllTraced' /\ DrainedOk'
  BY ServerSame DEF readerVars
<1> QED
  BY <1>4, <1>6, <1>7

LEMMA KeepAliveKeeps ==
  ASSUME IInv, KeepAlive
  PROVE  IInv'
<1>1. Typed /\ caller = "sending" /\ Room > 0 /\ commands' = commands \o <<Control>>
  BY TypeOKIsTyped DEF KeepAlive, Queue, IInv
<1>2. UNCHANGED <<sessionVars, writer, draining, link, serverVars, downlink, readerVars>>
  BY DEF KeepAlive
<1>3. Control # Close
  BY DEF Control, Close
<1>4. /\ commands' \in Seq(Command) /\ Len(commands') <= Capacity
      /\ StillOpen' /\ CloseIsLast' /\ EndIsLast' /\ NothingLost' /\ HeardInOrder'
      /\ DoneIsLast' /\ AllTraced' /\ DrainedOk'
  BY <1>1, <1>2, <1>3, SignalKeeps DEF Offering, sessionVars
<1>5. TailIsShort' /\ Typed'
  BY <1>1, <1>2, <1>4 DEF IInv, TailIsShort, Typed, sessionVars, serverVars, readerVars
<1> QED
  BY <1>4, <1>5, InvFrom

LEMMA QueueCloseKeeps ==
  ASSUME IInv, QueueClose
  PROVE  IInv'
<1>1. /\ Typed /\ caller = "closing" /\ Room > 0 /\ commands' = commands \o <<Close>>
      /\ caller' = "waiting" /\ pending' = pending
  BY TypeOKIsTyped DEF QueueClose, Becomes, Queue, IInv
<1>2. UNCHANGED <<provider, chunks, accepted, writer, draining, link, serverVars, downlink, readerVars>>
  BY DEF QueueClose, Becomes
<1>3. /\ commands' \in Seq(Command) /\ Len(commands') <= Capacity
      /\ StillOpen' /\ CloseIsLast' /\ EndIsLast' /\ NothingLost' /\ HeardInOrder'
      /\ DoneIsLast' /\ AllTraced' /\ DrainedOk'
  BY <1>1, <1>2, SignalKeeps DEF Offering
<1>4. TailIsShort' /\ Typed'
  BY <1>1, <1>2, <1>3 DEF IInv, TailIsShort, Typed, Callers, serverVars, readerVars
<1> QED
  BY <1>3, <1>4, InvFrom

LEMMA FlushTailKeeps ==
  ASSUME IInv, FlushTail
  PROVE  IInv'
<1>1. /\ Typed /\ caller = "flushing" /\ Room > 0 /\ commands' = commands \o <<Audio(pending)>>
      /\ caller' = "closing" /\ pending' = <<>>
  BY TypeOKIsTyped DEF FlushTail, Becomes, Queue, IInv
<1>2. UNCHANGED <<provider, chunks, accepted, writer, draining, link, serverVars, downlink, readerVars>>
  BY DEF FlushTail, Becomes
<1>3. Audio(pending) \in Command /\ Audio(pending).kind = "audio" /\ Audio(pending).of = pending
  BY <1>1 DEF Audio, Command, Typed
<1>4. Fits(<<Audio(pending)>>, caller')
  BY <1>1, <1>3, ConstantTypes, LenProperties DEF Fits, Room, Typed
<1>5. /\ commands' \in Seq(Command) /\ Len(commands') <= Capacity
      /\ StillOpen' /\ CloseIsLast' /\ EndIsLast'
  BY <1>1, <1>2, <1>4, Queued DEF Offering, serverVars
<1>6. ASSUME Laid(Len(heard), commands, pending, accepted)
      PROVE  Laid(Len(heard'), commands', pending', accepted')
  <2>1. Len(pending) \in 0 .. Len(pending) /\ SubSeq(pending, 1, Len(pending)) = pending
        /\ SubSeq(pending, Len(pending) + 1, Len(pending)) = <<>>
    BY <1>1, LenProperties, SubSeqEmpty, SubSeqFull DEF Typed
  <2>2. Laid(Len(heard), commands \o <<Audio(pending)>>, SubSeq(pending, Len(pending) + 1, Len(pending)), accepted)
    BY <1>1, <1>3, <1>6, <2>1, LaidOne
  <2> QED
    BY <1>1, <1>2, <2>1, <2>2 DEF serverVars
<1>7. NothingLost' /\ HeardInOrder'
  BY <1>2, <1>6 DEF NothingLost, HeardInOrder, IInv, serverVars
<1>8. DoneIsLast' /\ AllTraced' /\ DrainedOk'
  BY <1>2, ServerSame DEF readerVars
<1>9. TailIsShort' /\ Typed'
  BY <1>1, <1>2, <1>5, ConstantTypes DEF IInv, TailIsShort, Typed, Callers, serverVars, readerVars
<1> QED
  BY <1>5, <1>7, <1>8, <1>9, InvFrom

\* The steps of finalize and of its caller that queue nothing.
LEMMA CallerKeeps ==
  ASSUME IInv, Finalize \/ SessionClosed \/ FinalizeReturns \/ Drop
  PROVE  IInv'
<1>1. /\ Typed
      /\ UNCHANGED <<provider, chunks, accepted, pending, commands, writer, draining, link,
                     serverVars, downlink, readerVars>>
  BY TypeOKIsTyped DEF Finalize, SessionClosed, FinalizeReturns, Drop, Becomes, IInv
<1>2. /\ caller' \in Callers
      /\ caller' \in Offering => caller \in Offering
      /\ caller' # "waiting"
      /\ caller' = "closing" => Len(pending) < Minimum
      /\ caller' = "ok" => drained = "ok" /\ caller = "waiting"
  <2>1. CASE Finalize
    <3>1. caller = "sending" /\ caller' \in {"flushing", "closing"}
          /\ (caller' = "closing" => provider # "assemblyai" \/ ~(Len(pending) >= Minimum))
      BY <2>1 DEF Finalize, Becomes
    <3>2. Len(<<>>) = 0 /\ Len(pending) \in Nat /\ Minimum \in Nat \ {0}
      BY <1>1, ConstantTypes, LenProperties DEF Typed
    <3> QED
      BY <3>1, <3>2 DEF IInv, TailIsShort, Callers, Offering
  <2>2. CASE SessionClosed \/ Drop
    BY <2>2 DEF SessionClosed, Drop, Becomes, Callers, Offering
  <2>3. CASE FinalizeReturns
    BY <1>1, <2>3 DEF FinalizeReturns, Becomes, Callers, Offering, Typed
  <2> QED
    BY <2>1, <2>2, <2>3
<1>3. Typed'
  BY <1>1, <1>2 DEF Typed, serverVars, readerVars
<1>4. TailIsShort'
  BY <1>1, <1>2 DEF IInv, TailIsShort, readerVars
<1>5. HeardInOrder' /\ NothingLost' /\ StillOpen' /\ CloseIsLast' /\ EndIsLast'
  BY <1>1, <1>2 DEF IInv, HeardInOrder, NothingLost, StillOpen, CloseIsLast, EndIsLast, serverVars
<1>6. DoneIsLast' /\ AllTraced' /\ DrainedOk'
  BY <1>1, ServerSame DEF readerVars
<1> QED
  BY <1>3, <1>4, <1>5, <1>6, InvFrom

-----------------------------------------------------------------------------
(* The steps of the writer. *)

LEMMA FirstCommand ==
  ASSUME IInv, commands # <<>>
  PROVE  /\ Head(commands) = commands[1] /\ commands[1] \in Command /\ 1 \in DOMAIN commands
         /\ Tail(commands) \in Seq(Command) /\ Len(Tail(commands)) = Len(commands) - 1
         /\ Len(commands) \in Nat \ {0}
         /\ \A i \in DOMAIN Tail(commands) : i + 1 \in DOMAIN commands /\ Tail(commands)[i] = commands[i + 1]
         /\ commands[1].kind = "close" => Tail(commands) = <<>>
<1>1. commands \in Seq(Command)
  BY TypeOKIsTyped DEF IInv, Typed
<1>2. Len(commands) \in Nat \ {0} /\ DOMAIN commands = 1 .. Len(commands)
  BY <1>1, EmptySeq, LenProperties
<1>3. Head(commands) = commands[1] /\ commands[1] \in Command /\ 1 \in DOMAIN commands
  BY <1>1, <1>2, CommandCarries
<1>4. /\ Tail(commands) \in Seq(Command) /\ Len(Tail(commands)) = Len(commands) - 1
      /\ \A i \in 1 .. Len(Tail(commands)) : Tail(commands)[i] = commands[i + 1]
  BY <1>1, HeadTailProperties
<1>5. DOMAIN Tail(commands) = 1 .. Len(Tail(commands))
  BY <1>4, LenProperties
<1>6. \A i \in DOMAIN Tail(commands) : i + 1 \in DOMAIN commands
  BY <1>2, <1>4, <1>5
<1>7. commands[1].kind = "close" => Tail(commands) = <<>>
  <2>1. commands[1].kind = "close" => Len(commands) = 1
    BY <1>3 DEF IInv, CloseIsLast
  <2>2. Len(commands) = 1 => Len(Tail(commands)) = 0
    BY <1>4
  <2> QED
    BY <1>4, <2>1, <2>2, EmptySeq
<1> QED
  BY <1>2, <1>3, <1>4, <1>5, <1>6, <1>7

\* While a command is still queued the server has not been told the end.
LEMMA NotTheEnd ==
  ASSUME IInv, commands # <<>>
  PROVE  /\ ~closing /\ ~draining /\ drained # "ok" /\ caller # "ok"
         /\ \A i \in DOMAIN downlink : downlink[i].kind # "done"
<1>1. ~closing /\ ~draining
  BY DEF IInv, EndIsLast
<1> QED
  BY <1>1 DEF IInv, DrainedOk, TailIsShort, DoneIsLast

\* What the writer does to the caller's and the channel's part, whatever it sends.
LEMMA WriteChannel ==
  ASSUME IInv, Write
  PROVE  /\ writer /\ link /\ commands # <<>> /\ commands' = Tail(commands)
         /\ UNCHANGED <<sessionVars, link, readerVars>>
         /\ commands' \in Seq(Command) /\ Len(commands') <= Capacity
         /\ StillOpen' /\ CloseIsLast' /\ TailIsShort'
         /\ writer' \in BOOLEAN
<1>1. /\ writer /\ link /\ commands # <<>> /\ commands' = Tail(commands)
      /\ writer' = ~(provider = "google" /\ Head(commands).kind = "close")
      /\ UNCHANGED <<sessionVars, link, readerVars>>
  BY DEF Write
<1>2. commands' \in Seq(Command) /\ Len(commands') <= Capacity
  BY <1>1, TypeOKIsTyped, FirstCommand, ConstantTypes DEF IInv, Typed
<1>3. StillOpen'
  <2>1. ASSUME caller \in Offering
        PROVE  Head(commands).kind # "close" /\ \A i \in DOMAIN commands' : commands'[i].kind # "close"
    BY <1>1, <2>1, FirstCommand DEF IInv, StillOpen
  <2> QED
    BY <1>1, <2>1 DEF StillOpen, sessionVars
<1>4. CloseIsLast'
  <2>1. ASSUME NEW i \in DOMAIN commands'
        PROVE  /\ commands'[i].kind # "audio" => commands'[i].of = <<>>
               /\ commands'[i].kind = "close" => i = Len(commands')
    <3>1. i + 1 \in DOMAIN commands /\ commands'[i] = commands[i + 1] /\ Len(commands') = Len(commands) - 1
          /\ Len(commands) \in Nat
      BY <1>1, <2>1, FirstCommand
    <3>2. i \in Nat
      BY <1>2, LenProperties
    <3>3. i + 1 = Len(commands) => i = Len(commands')
      BY <3>1, <3>2
    <3> QED
      BY <3>1, <3>3 DEF IInv, CloseIsLast
  <2> QED
    BY <2>1 DEF CloseIsLast
<1>5. TailIsShort'
  BY <1>1 DEF IInv, TailIsShort, sessionVars, readerVars
<1> QED
  BY <1>1, <1>2, <1>3, <1>4, <1>5

LEMMA WriteAudioKeeps ==
  ASSUME IInv, Write, Head(commands).kind = "audio"
  PROVE  IInv'
<1> DEFINE frame == Head(commands).of
<1>1. Typed /\ commands # <<>> /\ link /\ commands' = Tail(commands) /\ UNCHANGED <<sessionVars, link, readerVars>>
      /\ commands' \in Seq(Command) /\ Len(commands') <= Capacity
      /\ StillOpen' /\ CloseIsLast' /\ TailIsShort' /\ writer' \in BOOLEAN
  BY WriteChannel, TypeOKIsTyped DEF IInv
<1>2. Hear(frame) /\ draining' = draining
  BY <1>1, NotTheEnd DEF Write, FlagDraining, IInv, TypeOK
<1>3. frame = commands[1].of /\ frame \in Seq(Chunk)
  BY <1>1, FirstCommand, CommandCarries, LenProperties DEF Typed
<1>4. /\ heard' = heard \o frame /\ buffer' = buffer \cup ToSet(frame)
      /\ UNCHANGED <<working, closing, downlink>>
  BY <1>2 DEF Hear
<1>5. ToSet(frame) \subseteq Chunk /\ \A j \in 1 .. Len(frame) : frame[j] \in ToSet(frame)
  BY <1>3, LenProperties DEF ToSet
<1>6. /\ heard' \in Seq(Chunk) /\ Len(heard') = Len(heard) + Len(frame)
      /\ \A i \in 1 .. Len(heard') : heard'[i] = IF i <= Len(heard) THEN heard[i] ELSE frame[i - Len(heard)]
      /\ Len(heard) \in Nat /\ Len(frame) \in Nat
  BY <1>1, <1>3, <1>4, ConcatProperties, LenProperties DEF Typed
<1> HIDE DEF frame
<1>7. Typed'
  BY <1>1, <1>2, <1>4, <1>5, <1>6 DEF Typed, Turns, sessionVars, readerVars
<1>8. HeardInOrder' /\ NothingLost'
  <2>1. Laid(Len(heard), commands, pending, accepted) /\ InPlace(heard, 0, accepted)
    BY <1>1, PrefixInPlace DEF IInv, NothingLost, HeardInOrder, Typed
  <2>2. InPlace(heard \o frame, 0, accepted) /\ Laid(Len(heard \o frame), Tail(commands), pending, accepted)
    BY <1>1, <1>3, <2>1, LaidWrites DEF Typed
  <2>3. IsPrefix(heard', accepted)
    BY <1>1, <1>4, <1>6, <2>2, PrefixInPlace DEF Typed
  <2> QED
    BY <1>1, <1>4, <2>2, <2>3 DEF HeardInOrder, NothingLost, sessionVars
<1>9. EndIsLast' /\ DoneIsLast' /\ DrainedOk'
  BY <1>1, <1>2, <1>4, NotTheEnd DEF EndIsLast, DoneIsLast, DrainedOk, readerVars
<1>10. AllTraced'
  <2>1. ASSUME NEW i \in 1 .. Len(heard')
        PROVE  Whereabouts(heard[i])' \/ heard'[i] \in buffer'
    <3>1. CASE i <= Len(heard)
      <4>1. i \in DOMAIN heard /\ heard'[i] = heard[i]
        BY <1>1, <1>6, <3>1, LenProperties DEF Typed
      <4>2. Whereabouts(heard[i])
        BY <4>1 DEF IInv, AllTraced
      <4> QED
        BY <1>1, <1>4, <4>1, <4>2 DEF Whereabouts, readerVars
    <3>2. CASE ~(i <= Len(heard))
      <4>1. i - Len(heard) \in 1 .. Len(frame)
        BY <1>6, <3>2
      <4> QED
        BY <1>4, <1>5, <1>6, <3>2, <4>1
    <3> QED
      BY <3>1, <3>2
  <2>2. DOMAIN heard' = 1 .. Len(heard')
    BY <1>6, LenProperties
  <2> QED
    BY <2>1, <2>2 DEF AllTraced, Whereabouts
<1> QED
  BY <1>1, <1>7, <1>8, <1>9, <1>10, InvFrom

\* A command without chunks is taken from the queue.
LEMMA LaidSignal ==
  ASSUME IInv, link, commands # <<>>, Head(commands).kind # "audio"
  PROVE  Laid(Len(heard), Tail(commands), pending, accepted)
<1>1. Typed /\ commands[1].of = <<>>
  BY TypeOKIsTyped, FirstCommand DEF IInv, CloseIsLast
<1>2. Laid(Len(heard), commands, pending, accepted) /\ InPlace(heard, 0, accepted)
  BY <1>1, PrefixInPlace DEF IInv, NothingLost, HeardInOrder, Typed
<1>3. heard \o <<>> = heard
  BY <1>1, ConcatEmptySeq DEF Typed
<1> QED
  BY <1>1, <1>2, <1>3, LaidWrites DEF Typed

LEMMA WriteCommitKeeps ==
  ASSUME IInv, Write, Head(commands).kind = "close", provider = "openai"
  PROVE  IInv'
<1>1. Typed /\ commands # <<>> /\ link /\ commands' = Tail(commands) /\ UNCHANGED <<sessionVars, link, readerVars>>
      /\ commands' \in Seq(Command) /\ Len(commands') <= Capacity
      /\ StillOpen' /\ CloseIsLast' /\ TailIsShort' /\ writer' \in BOOLEAN
  BY WriteChannel, TypeOKIsTyped DEF IInv
<1>2. Commit /\ draining' = TRUE
  BY DEF Write, FlagDraining
<1>3. heard' = heard /\ closing' = closing /\ buffer' = {}
  BY <1>2 DEF Commit
<1>4. caller \notin Offering /\ commands' = <<>>
  BY <1>1, FirstCommand DEF IInv, StillOpen
<1> DEFINE said == IF buffer = {} THEN Say("error", {}) ELSE Say("committed", buffer)
<1>5. downlink' = Append(downlink, said)
      /\ working' = IF buffer = {} THEN working ELSE Append(working, buffer)
  BY <1>2 DEF Commit
<1>6. said \in Message /\ said.kind # "done"
  BY <1>1 DEF Say, Message, Turns, Typed
<1> HIDE DEF said
<1>7. /\ downlink' \in Seq(Message) /\ Len(downlink') = Len(downlink) + 1 /\ DOMAIN downlink' = 1 .. Len(downlink) + 1
      /\ DOMAIN downlink = 1 .. Len(downlink) /\ Len(downlink) \in Nat
      /\ downlink'[Len(downlink) + 1] = said /\ \A i \in DOMAIN downlink : downlink'[i] = downlink[i]
  BY <1>1, <1>5, <1>6, LenProperties DEF Typed
<1>8. /\ working' \in Seq(Turns)
      /\ \A i \in DOMAIN working : i \in DOMAIN working' /\ working'[i] = working[i]
      /\ buffer # {} => \E i \in DOMAIN working' : working'[i] = buffer
  <2>1. working \in Seq(Turns) /\ buffer \in Turns
    BY <1>1 DEF Typed
  <2>2. CASE buffer = {}
    BY <1>5, <2>1, <2>2
  <2>3. CASE buffer # {}
    <3>1. working' = Append(working, buffer)
      BY <1>5, <2>3
    <3>2. Len(working) + 1 \in DOMAIN working' /\ working'[Len(working) + 1] = buffer
      BY <2>1, <3>1, LenProperties
    <3> QED
      BY <2>1, <3>1, <3>2, LenProperties
  <2> QED
    BY <2>2, <2>3
<1>9. Typed'
  BY <1>1, <1>2, <1>3, <1>7, <1>8 DEF Typed, Turns, sessionVars, readerVars
<1>10. HeardInOrder' /\ NothingLost'
  BY <1>1, <1>3, LaidSignal DEF IInv, HeardInOrder, NothingLost, sessionVars
<1>11. EndIsLast' /\ DrainedOk'
  BY <1>1, <1>2, <1>3, <1>4, NotTheEnd DEF IInv, EndIsLast, DrainedOk, sessionVars, readerVars
<1>12. DoneIsLast'
  BY <1>1, <1>6, <1>7, NotTheEnd DEF DoneIsLast
<1>13. ASSUME NEW c \in Chunk, Whereabouts(c)
       PROVE  c \in buffer' \/ (\E i \in DOMAIN working' : c \in working'[i])
              \/ (\E i \in DOMAIN downlink' : downlink'[i].kind \in Results /\ c \in downlink'[i].of) \/ c \in settled'
  <2>1. CASE c \in buffer
    BY <1>8, <2>1
  <2>2. CASE \E i \in DOMAIN working : c \in working[i]
    BY <1>8, <2>2
  <2>3. CASE \E i \in DOMAIN downlink : downlink[i].kind \in Results /\ c \in downlink[i].of
    BY <1>7, <2>3
  <2>4. CASE c \in settled
    BY <1>1, <2>4 DEF readerVars
  <2> QED
    BY <1>13, <2>1, <2>2, <2>3, <2>4 DEF Whereabouts
<1>14. AllTraced'
  <2>1. \A i \in DOMAIN heard : heard[i] \in Chunk
    BY <1>1, LenProperties DEF Typed
  <2> QED
    BY <1>3, <1>13, <2>1 DEF IInv, AllTraced, Whereabouts
<1> QED
  BY <1>1, <1>9, <1>10, <1>11, <1>12, <1>14, InvFrom

\* The other adapters' end of the audio, and a keep-alive.
LEMMA WriteSignalKeeps ==
  ASSUME IInv, Write, Head(commands).kind # "audio", Head(commands).kind = "close" => provider # "openai"
  PROVE  IInv'
<1>1. Typed /\ commands # <<>> /\ link /\ commands' = Tail(commands) /\ UNCHANGED <<sessionVars, link, readerVars>>
      /\ commands' \in Seq(Command) /\ Len(commands') <= Capacity
      /\ StillOpen' /\ CloseIsLast' /\ TailIsShort' /\ writer' \in BOOLEAN
  BY WriteChannel, TypeOKIsTyped DEF IInv
<1>2. UNCHANGED <<heard, buffer, working, downlink>> /\ draining' = FALSE
      /\ closing' = (Head(commands).kind = "close")
  BY <1>1, NotTheEnd DEF Write, EndOfAudio, FlagDraining, serverVars, IInv, TypeOK
<1>3. closing' => provider # "openai" /\ caller \notin Offering /\ commands' = <<>>
  BY <1>1, <1>2, FirstCommand DEF IInv, StillOpen
<1>4. Typed'
  <2>1. closing' \in BOOLEAN /\ draining' \in BOOLEAN
    BY <1>2
  <2>2. UNCHANGED <<heard, buffer, working, downlink>>
    BY <1>2
  <2> QED
    BY <1>1, <2>1, <2>2 DEF Typed, sessionVars, readerVars
<1>5. HeardInOrder' /\ NothingLost'
  BY <1>1, <1>2, LaidSignal DEF IInv, HeardInOrder, NothingLost, sessionVars
<1>6. EndIsLast' /\ DrainedOk' /\ DoneIsLast'
  BY <1>1, <1>2, <1>3, NotTheEnd DEF EndIsLast, DrainedOk, DoneIsLast, sessionVars, readerVars
<1>7. AllTraced'
  BY <1>1, <1>2 DEF IInv, AllTraced, Whereabouts, readerVars
<1> QED
  BY <1>1, <1>4, <1>5, <1>6, <1>7, InvFrom

LEMMA WriterStopsKeeps ==
  ASSUME IInv, WriteFails \/ WriterEnds
  PROVE  IInv'
<1>1. Typed
  BY TypeOKIsTyped DEF IInv
<1>2. CASE WriteFails
  <2>1. ~link /\ writer' \in BOOLEAN
        /\ UNCHANGED <<sessionVars, draining, link, serverVars, downlink, readerVars>>
        /\ (commands' = <<>> \/ (commands # <<>> /\ commands' = Tail(commands)))
    <3>1. writer \in BOOLEAN
      BY <1>1 DEF Typed
    <3>2. writer' = FALSE \/ UNCHANGED writer
      BY <1>2 DEF WriteFails
    <3>3. writer' \in BOOLEAN
      BY <3>1, <3>2
    <3>4. ~link /\ UNCHANGED <<sessionVars, draining, link, serverVars, downlink, readerVars>>
      BY <1>2 DEF WriteFails
    <3>5. commands' = <<>> \/ (commands # <<>> /\ commands' = Tail(commands))
      BY <1>2 DEF WriteFails
    <3> QED
      BY <3>3, <3>4, <3>5
  <2>2. /\ commands' \in Seq(Command) /\ Len(commands') <= Capacity
        /\ \A i \in DOMAIN commands' :
             /\ commands'[i].kind # "audio" => commands'[i].of = <<>>
             /\ commands'[i].kind = "close" => i = Len(commands') /\ caller \notin Offering
    <3>1. CASE commands' = <<>>
      <4>1. Len(commands') = 0 /\ DOMAIN commands' = {} /\ commands' \in Seq(Command)
        BY <3>1
      <4> QED
        BY <4>1, ConstantTypes
    <3>2. CASE commands # <<>> /\ commands' = Tail(commands)
      <4>1. ASSUME NEW i \in DOMAIN commands'
            PROVE  /\ commands'[i].kind # "audio" => commands'[i].of = <<>>
                   /\ commands'[i].kind = "close" => i = Len(commands') /\ caller \notin Offering
        <5>1. i + 1 \in DOMAIN commands /\ commands'[i] = commands[i + 1] /\ Len(commands') = Len(commands) - 1
              /\ Len(commands) \in Nat
          BY <3>2, <4>1, FirstCommand
        <5>2. i \in Nat
          BY <3>2, FirstCommand, LenProperties
        <5>3. i + 1 = Len(commands) => i = Len(commands')
          BY <5>1, <5>2
        <5> QED
          BY <5>1, <5>3 DEF IInv, CloseIsLast, StillOpen
      <4>2. commands' \in Seq(Command) /\ Len(commands') <= Capacity
        BY <1>1, <3>2, FirstCommand, ConstantTypes DEF Typed
      <4> QED
        BY <4>1, <4>2
    <3> QED
      BY <2>1, <3>1, <3>2
  <2>3. closing \/ draining => commands' = commands
    BY <2>1 DEF IInv, EndIsLast
  <2>4. Typed'
    BY <1>1, <2>1, <2>2 DEF Typed, sessionVars, serverVars, readerVars
  <2>5. HeardInOrder' /\ NothingLost' /\ EndIsLast'
    BY <2>1, <2>3 DEF IInv, HeardInOrder, NothingLost, EndIsLast, sessionVars, serverVars
  <2>6. StillOpen' /\ CloseIsLast' /\ TailIsShort'
    BY <2>1, <2>2 DEF IInv, StillOpen, CloseIsLast, TailIsShort, sessionVars, readerVars
  <2>7. DoneIsLast' /\ AllTraced' /\ DrainedOk'
    BY <2>1, ServerSame DEF sessionVars, readerVars
  <2> QED
    BY <2>4, <2>5, <2>6, <2>7, InvFrom
<1>3. CASE WriterEnds
  <2>1. /\ link /\ commands = <<>> /\ caller \notin Offering /\ writer' = FALSE
        /\ closing' = (closing \/ provider = "google")
        /\ UNCHANGED <<sessionVars, commands, draining, link, heard, buffer, working, downlink, readerVars>>
    BY <1>1, <1>3 DEF WriterEnds, Leave, Offering
  <2>2. Typed'
    <3>1. closing' \in BOOLEAN /\ writer' \in BOOLEAN
      BY <2>1
    <3>2. UNCHANGED <<sessionVars, commands, draining, link, heard, buffer, working, downlink, readerVars>>
      BY <2>1
    <3> QED
      BY <1>1, <3>1, <3>2 DEF Typed, sessionVars, readerVars
  <2>3. HeardInOrder' /\ NothingLost' /\ StillOpen' /\ CloseIsLast' /\ TailIsShort' /\ EndIsLast'
    BY <2>1 DEF IInv, HeardInOrder, NothingLost, StillOpen, CloseIsLast, TailIsShort, EndIsLast, sessionVars, readerVars
  <2>4. DoneIsLast' /\ AllTraced' /\ DrainedOk'
    BY <2>1 DEF IInv, DoneIsLast, AllTraced, Whereabouts, DrainedOk, sessionVars, readerVars
  <2> QED
    BY <2>2, <2>3, <2>4, InvFrom
<1> QED
  BY <1>2, <1>3

-----------------------------------------------------------------------------
(* The steps of the server. *)

LEMMA RemoveAtProperties ==
  ASSUME NEW S, NEW s \in Seq(S), NEW i \in 1 .. Len(s)
  PROVE  /\ RemoveAt(s, i) \in Seq(S)
         /\ \A j \in 1 .. Len(s) : j # i =>
              \E k \in DOMAIN RemoveAt(s, i) : RemoveAt(s, i)[k] = s[j]
<1> DEFINE front == SubSeq(s, 1, i - 1)
           back == SubSeq(s, i + 1, Len(s))
<1>1. Len(s) \in Nat /\ \A j \in 1 .. Len(s) : s[j] \in S
  BY LenProperties
<1>2. front \in Seq(S) /\ Len(front) = i - 1 /\ \A j \in 1 .. i - 1 : front[j] = s[j]
  <2>1. 0 \in Nat /\ i - 1 \in Nat /\ 0 <= i - 1 /\ i - 1 <= Len(s) /\ 0 + 1 = 1 /\ (i - 1) - 0 = i - 1
    BY <1>1
  <2>2. SubSeq(s, 0 + 1, i - 1) \in Seq(S) /\ Len(SubSeq(s, 0 + 1, i - 1)) = (i - 1) - 0
        /\ \A j \in 1 .. (i - 1) - 0 : SubSeq(s, 0 + 1, i - 1)[j] = s[0 + j]
    BY <2>1, PieceOf
  <2>3. \A j \in 1 .. i - 1 : 0 + j = j
    OBVIOUS
  <2> QED
    BY <2>1, <2>2, <2>3
<1>3. back \in Seq(S) /\ Len(back) = Len(s) - i /\ \A j \in 1 .. Len(s) - i : back[j] = s[i + j]
  <2>1. i \in Nat /\ i <= Len(s)
    BY <1>1
  <2> QED
    BY <1>1, <2>1, PieceOf
<1>4. RemoveAt(s, i) = front \o back
  BY DEF RemoveAt
<1> HIDE DEF front, back
<1> DEFINE t == front \o back
<1>5. /\ t \in Seq(S) /\ Len(t) = (i - 1) + (Len(s) - i)
      /\ \A j \in 1 .. (i - 1) + (Len(s) - i) : t[j] = IF j <= i - 1 THEN front[j] ELSE back[j - (i - 1)]
  <2>1. /\ t \in Seq(S) /\ Len(t) = Len(front) + Len(back)
        /\ \A j \in 1 .. Len(front) + Len(back) : t[j] = IF j <= Len(front) THEN front[j] ELSE back[j - Len(front)]
    BY <1>2, <1>3, ConcatProperties
  <2> QED
    BY <1>2, <1>3, <2>1
<1>6. DOMAIN t = 1 .. (i - 1) + (Len(s) - i)
  BY <1>5, LenProperties
<1> HIDE DEF t
<1>7. ASSUME NEW j \in 1 .. Len(s), j # i
      PROVE  \E k \in DOMAIN t : t[k] = s[j]
  <2>1. CASE j < i
    <3>1. j \in DOMAIN t /\ j <= i - 1 /\ j \in 1 .. i - 1 /\ j \in 1 .. (i - 1) + (Len(s) - i)
      BY <1>1, <1>6, <2>1
    <3>2. t[j] = s[j]
      BY <1>2, <1>5, <3>1
    <3> QED
      BY <3>1, <3>2
  <2>2. CASE j > i
    <3>1. /\ j - 1 \in 1 .. (i - 1) + (Len(s) - i) /\ ~(j - 1 <= i - 1)
          /\ (j - 1) - (i - 1) = j - i /\ j - i \in 1 .. Len(s) - i /\ i + (j - i) = j
      BY <1>1, <2>2
    <3>2. t[j - 1] = back[j - i]
      BY <1>5, <3>1
    <3> QED
      BY <1>3, <1>6, <3>1, <3>2
  <2>3. j < i \/ j > i
    BY <1>1, <1>7
  <2> QED
    BY <2>1, <2>2, <2>3
<1> QED
  BY <1>4, <1>5, <1>7 DEF t

\* Steps that leave the caller, the channel and the writer alone.
LEMMA CallerSame ==
  ASSUME IInv, UNCHANGED <<sessionVars, commands, writer, draining, heard, closing>>,
         link' => link, caller = "ok" => drained' = "ok"
  PROVE  HeardInOrder' /\ NothingLost' /\ StillOpen' /\ CloseIsLast' /\ EndIsLast' /\ TailIsShort'
<1>1. HeardInOrder' /\ NothingLost'
  BY DEF IInv, HeardInOrder, NothingLost, sessionVars
<1>2. StillOpen' /\ CloseIsLast' /\ EndIsLast' /\ TailIsShort'
  BY DEF IInv, StillOpen, CloseIsLast, EndIsLast, TailIsShort, sessionVars
<1> QED
  BY <1>1, <1>2

\* What the server says in a step that is not its last word.
LEMMA SaysMore ==
  ASSUME NEW s \in Seq(Message), NEW m \in Message
  PROVE  /\ Append(s, m) \in Seq(Message) /\ DOMAIN s = 1 .. Len(s)
         /\ DOMAIN Append(s, m) = 1 .. Len(s) + 1 /\ Len(Append(s, m)) = Len(s) + 1 /\ Len(s) \in Nat
         /\ Append(s, m)[Len(s) + 1] = m
         /\ \A i \in DOMAIN s : i \in DOMAIN Append(s, m) /\ Append(s, m)[i] = s[i]
         /\ \A i \in DOMAIN Append(s, m) : i \in DOMAIN s \/ i = Len(s) + 1
BY LenProperties

LEMMA EndTurnKeeps ==
  ASSUME IInv, EndTurn
  PROVE  IInv'
<1>1. /\ Typed /\ buffer # {} /\ buffer' = {} /\ working' = Append(working, buffer)
      /\ downlink' = IF provider = "openai" THEN Append(downlink, Say("committed", buffer)) ELSE downlink
      /\ UNCHANGED <<sessionVars, commands, writer, draining, link, heard, closing, readerVars>>
  BY TypeOKIsTyped DEF EndTurn, IInv
<1>2. Say("committed", buffer) \in Message /\ Say("committed", buffer).kind = "committed"
  BY <1>1 DEF Say, Message, Typed
<1>3. /\ downlink' \in Seq(Message)
      /\ \A i \in DOMAIN downlink : i \in DOMAIN downlink' /\ downlink'[i] = downlink[i]
      /\ \A i \in DOMAIN downlink' : downlink'[i].kind # "done" \/ (i \in DOMAIN downlink /\ downlink'[i] = downlink[i])
  <2>1. CASE provider = "openai"
    <3> DEFINE m == Say("committed", buffer)
    <3>1. downlink \in Seq(Message) /\ downlink' = Append(downlink, m) /\ m \in Message /\ m.kind = "committed"
      BY <1>1, <1>2, <2>1 DEF Typed
    <3> HIDE DEF m
    <3>2. /\ downlink' \in Seq(Message)
          /\ \A i \in DOMAIN downlink : i \in DOMAIN downlink' /\ downlink'[i] = downlink[i]
          /\ \A i \in DOMAIN downlink' : i \in DOMAIN downlink \/ i = Len(downlink) + 1
          /\ downlink'[Len(downlink) + 1] = m
      BY <3>1, SaysMore
    <3>3. ASSUME NEW i \in DOMAIN downlink', downlink'[i].kind = "done"
          PROVE  i \in DOMAIN downlink /\ downlink'[i] = downlink[i]
      BY <3>1, <3>2, <3>3
    <3>4. \A i \in DOMAIN downlink' :
            downlink'[i].kind # "done" \/ (i \in DOMAIN downlink /\ downlink'[i] = downlink[i])
      BY <3>3
    <3> QED
      BY <3>2, <3>4
  <2>2. CASE provider # "openai"
    BY <1>1, <2>2 DEF Typed
  <2> QED
    BY <2>1, <2>2
<1>4. /\ working' \in Seq(Turns) /\ \E k \in DOMAIN working' : working'[k] = buffer
      /\ \A i \in DOMAIN working : i \in DOMAIN working' /\ working'[i] = working[i]
  <2>1. working \in Seq(Turns) /\ buffer \in Turns
    BY <1>1 DEF Typed
  <2>2. Len(working) + 1 \in DOMAIN working' /\ working'[Len(working) + 1] = buffer
    BY <1>1, <2>1, LenProperties
  <2> QED
    BY <1>1, <2>1, <2>2, LenProperties
<1>5. Typed'
  BY <1>1, <1>3, <1>4 DEF Typed, Turns, sessionVars, readerVars
<1>6. HeardInOrder' /\ NothingLost' /\ StillOpen' /\ CloseIsLast' /\ EndIsLast' /\ TailIsShort'
  BY <1>1, CallerSame DEF readerVars, IInv, TailIsShort
<1>7. \A i \in DOMAIN downlink' : downlink'[i].kind # "done"
  BY <1>1, <1>3 DEF IInv, DoneIsLast
<1>8. DoneIsLast'
  BY <1>7 DEF DoneIsLast
<1>9. DrainedOk'
  BY <1>1 DEF IInv, DrainedOk, sessionVars, readerVars
<1>10. ASSUME NEW c \in Chunk, Whereabouts(c)
       PROVE  c \in buffer' \/ (\E i \in DOMAIN working' : c \in working'[i])
              \/ (\E i \in DOMAIN downlink' : downlink'[i].kind \in Results /\ c \in downlink'[i].of) \/ c \in settled'
  <2>1. CASE c \in buffer
    BY <1>4, <2>1
  <2>2. CASE \E i \in DOMAIN working : c \in working[i]
    BY <1>4, <2>2
  <2>3. CASE \E i \in DOMAIN downlink : downlink[i].kind \in Results /\ c \in downlink[i].of
    BY <1>3, <2>3
  <2>4. CASE c \in settled
    BY <1>1, <2>4 DEF readerVars
  <2> QED
    BY <1>10, <2>1, <2>2, <2>3, <2>4 DEF Whereabouts
<1>11. AllTraced'
  <2>1. \A i \in DOMAIN heard : heard[i] \in Chunk
    BY <1>1, LenProperties DEF Typed
  <2> QED
    BY <1>1, <1>10, <2>1 DEF IInv, AllTraced, Whereabouts
<1> QED
  BY <1>5, <1>6, <1>8, <1>9, <1>11, InvFrom

LEMMA TranscribeKeeps ==
  ASSUME IInv, NEW i, NEW k \in Results, Transcribe(i, k)
  PROVE  IInv'
<1> DEFINE m == Say(k, working[i])
<1>1. /\ Typed /\ i \in DOMAIN working /\ downlink' = Append(downlink, m) /\ working' = RemoveAt(working, i)
      /\ UNCHANGED <<sessionVars, commands, writer, draining, link, heard, buffer, closing, readerVars>>
  BY TypeOKIsTyped DEF Transcribe, IInv
<1>2. i \in 1 .. Len(working) /\ DOMAIN working = 1 .. Len(working) /\ working[i] \in Turns
  BY <1>1, LenProperties DEF Typed
<1>3. m \in Message /\ m.kind \in Results /\ m.of = working[i]
  BY <1>2 DEF Say, Message, Results
<1> HIDE DEF m
<1>4. /\ downlink' \in Seq(Message)
      /\ \A j \in DOMAIN downlink : j \in DOMAIN downlink' /\ downlink'[j] = downlink[j]
      /\ \A j \in DOMAIN downlink' : j \in DOMAIN downlink \/ j = Len(downlink) + 1
      /\ Len(downlink) + 1 \in DOMAIN downlink' /\ downlink'[Len(downlink) + 1] = m
  <2>1. downlink \in Seq(Message)
    BY <1>1 DEF Typed
  <2>2. Len(downlink) + 1 \in 1 .. Len(downlink) + 1
    BY <2>1, LenProperties
  <2> QED
    BY <1>1, <1>3, <2>1, <2>2, SaysMore
<1>5. /\ working' \in Seq(Turns)
      /\ \A j \in DOMAIN working : j # i => \E n \in DOMAIN working' : working'[n] = working[j]
  BY <1>1, <1>2, RemoveAtProperties DEF Typed
<1>6. Typed'
  BY <1>1, <1>4, <1>5 DEF Typed, sessionVars, readerVars
<1>7. HeardInOrder' /\ NothingLost' /\ StillOpen' /\ CloseIsLast' /\ EndIsLast' /\ TailIsShort'
  BY <1>1, CallerSame DEF readerVars, IInv, TailIsShort
<1>8. working # <<>>
  BY <1>1
<1>9. DoneIsLast'
  <2>1. \A j \in DOMAIN downlink : downlink[j].kind # "done"
    BY <1>8 DEF IInv, DoneIsLast
  <2>2. m.kind # "done"
    BY <1>3 DEF Results
  <2>3. \A j \in DOMAIN downlink' : downlink'[j].kind # "done"
    BY <1>4, <2>1, <2>2
  <2> QED
    BY <2>3 DEF DoneIsLast
<1>10. DrainedOk'
  <2>1. drained = "ok" => provider = "openai"
    BY <1>8 DEF IInv, DrainedOk
  <2> QED
    BY <1>1, <2>1 DEF IInv, DrainedOk, sessionVars, readerVars
<1>11. ASSUME NEW c \in Chunk, Whereabouts(c)
       PROVE  c \in buffer' \/ (\E j \in DOMAIN working' : c \in working'[j])
              \/ (\E j \in DOMAIN downlink' : downlink'[j].kind \in Results /\ c \in downlink'[j].of) \/ c \in settled'
  <2>1. CASE c \in buffer
    BY <1>1, <2>1
  <2>2. CASE \E j \in DOMAIN working : c \in working[j]
    <3>1. PICK j \in DOMAIN working : c \in working[j]
      BY <2>2
    <3>2. CASE j = i
      BY <1>3, <1>4, <3>1, <3>2
    <3>3. CASE j # i
      BY <1>5, <3>1, <3>3
    <3> QED
      BY <3>2, <3>3
  <2>3. CASE \E j \in DOMAIN downlink : downlink[j].kind \in Results /\ c \in downlink[j].of
    BY <1>4, <2>3
  <2>4. CASE c \in settled
    BY <1>1, <2>4 DEF readerVars
  <2> QED
    BY <1>11, <2>1, <2>2, <2>3, <2>4 DEF Whereabouts
<1>12. AllTraced'
  <2>1. \A j \in DOMAIN heard : heard[j] \in Chunk
    BY <1>1, LenProperties DEF Typed
  <2> QED
    BY <1>1, <1>11, <2>1 DEF IInv, AllTraced, Whereabouts
<1> QED
  BY <1>6, <1>7, <1>9, <1>10, <1>12, InvFrom

LEMMA DoneKeeps ==
  ASSUME IInv, Done
  PROVE  IInv'
<1> DEFINE m == Say("done", {})
<1>1. /\ Typed /\ closing /\ buffer = {} /\ working = <<>> /\ reader /\ downlink' = Append(downlink, m)
      /\ \A i \in DOMAIN downlink : downlink[i].kind # "done"
      /\ UNCHANGED <<sessionVars, commands, writer, draining, link, serverVars, readerVars>>
  BY TypeOKIsTyped DEF Done, IInv
<1>2. m \in Message /\ m.kind = "done"
  BY DEF Say, Message, Turns
<1> HIDE DEF m
<1>3. /\ downlink' \in Seq(Message) /\ Len(downlink') = Len(downlink) + 1
      /\ \A j \in DOMAIN downlink : j \in DOMAIN downlink' /\ downlink'[j] = downlink[j]
      /\ \A j \in DOMAIN downlink' : j \in DOMAIN downlink \/ j = Len(downlink) + 1
  <2>1. downlink \in Seq(Message)
    BY <1>1 DEF Typed
  <2> QED
    BY <1>1, <1>2, <2>1, SaysMore
<1>4. UNCHANGED <<heard, buffer, working, closing>>
  BY <1>1 DEF serverVars
<1>5. Typed'
  BY <1>1, <1>3, <1>4 DEF Typed, sessionVars, readerVars
<1>6. HeardInOrder' /\ NothingLost' /\ StillOpen' /\ CloseIsLast' /\ EndIsLast' /\ TailIsShort'
  BY <1>1, <1>4, CallerSame DEF readerVars, IInv, TailIsShort
<1>7. DoneIsLast'
  BY <1>1, <1>3, <1>4 DEF DoneIsLast
<1>8. DrainedOk'
  BY <1>1 DEF IInv, DrainedOk, readerVars
<1>9. AllTraced'
  BY <1>1, <1>3, <1>4 DEF IInv, AllTraced, Whereabouts, readerVars
<1> QED
  BY <1>5, <1>6, <1>7, <1>8, <1>9, InvFrom

LEMMA LinkFailsKeeps ==
  ASSUME IInv, LinkFails
  PROVE  IInv'
<1>1. Typed /\ link' = FALSE /\ UNCHANGED <<sessionVars, commands, writer, draining, serverVars, downlink, readerVars>>
  BY TypeOKIsTyped DEF LinkFails, IInv
<1>2. UNCHANGED <<provider, reader, drained, settled, heard, closing>>
  BY <1>1 DEF sessionVars, serverVars, readerVars
<1>3. HeardInOrder' /\ NothingLost' /\ StillOpen' /\ CloseIsLast' /\ EndIsLast' /\ TailIsShort'
  BY <1>1, <1>2, CallerSame DEF IInv, TailIsShort
<1>4. DoneIsLast' /\ AllTraced' /\ DrainedOk'
  BY <1>1, <1>2, ServerSame
<1>5. Typed'
  BY <1>1 DEF Typed, sessionVars, serverVars, readerVars
<1> QED
  BY <1>3, <1>4, <1>5, InvFrom

-----------------------------------------------------------------------------
(* The steps of the reader. *)

LEMMA ReadKeeps ==
  ASSUME IInv, Read
  PROVE  IInv'
<1> DEFINE m == Head(downlink)
<1>1. /\ Typed /\ reader /\ downlink # <<>> /\ downlink' = Tail(downlink)
      /\ settled' = IF m.kind \in Results THEN settled \cup m.of ELSE settled
      /\ expected' = IF m.kind = "committed" /\ draining THEN m.of ELSE expected
      /\ drained' = IF Drained(m) THEN "ok" ELSE drained
      /\ reader' = ~Drained(m)
      /\ UNCHANGED <<sessionVars, commands, writer, draining, link, serverVars>>
  BY TypeOKIsTyped DEF Read, IInv, Results
<1>2. /\ m = downlink[1] /\ m \in Message /\ 1 \in DOMAIN downlink
      /\ Tail(downlink) \in Seq(Message) /\ Len(Tail(downlink)) = Len(downlink) - 1
      /\ Len(downlink) \in Nat \ {0} /\ DOMAIN downlink = 1 .. Len(downlink)
      /\ DOMAIN Tail(downlink) = 1 .. Len(downlink) - 1
      /\ \A i \in 1 .. Len(downlink) - 1 : Tail(downlink)[i] = downlink[i + 1]
  <2>1. downlink \in Seq(Message)
    BY <1>1 DEF Typed
  <2>2. Len(downlink) \in Nat \ {0} /\ DOMAIN downlink = 1 .. Len(downlink)
    BY <1>1, <2>1, EmptySeq, LenProperties
  <2>3. /\ Tail(downlink) \in Seq(Message) /\ Len(Tail(downlink)) = Len(downlink) - 1
        /\ \A i \in 1 .. Len(Tail(downlink)) : Tail(downlink)[i] = downlink[i + 1]
    BY <1>1, <2>1, HeadTailProperties
  <2>4. m = downlink[1] /\ 1 \in 1 .. Len(downlink)
    BY <2>1, <2>2
  <2>5. downlink[1] \in Message
    BY <2>1, <2>4, ElementOfSeq
  <2>6. DOMAIN Tail(downlink) = 1 .. Len(Tail(downlink))
    BY <2>3, LenProperties
  <2> QED
    BY <2>2, <2>3, <2>4, <2>5, <2>6
<1> HIDE DEF m
<1>3. m.kind \in {"committed", "completed", "failed", "error", "done"} /\ m.of \in Turns
  BY <1>2 DEF Message
<1>4. drained # "ok" /\ caller # "ok"
  BY <1>1 DEF IInv, DrainedOk, TailIsShort
<1>5. UNCHANGED <<provider, caller, heard, buffer, working, closing>>
  BY <1>1 DEF sessionVars, serverVars
<1>6. Typed'
  <2>1. settled' \in Turns /\ expected' \in Turns
    BY <1>1, <1>3 DEF Typed, Turns
  <2>2. reader' \in BOOLEAN /\ drained' \in {"none", "ok", "error"}
    BY <1>1 DEF Typed
  <2> QED
    BY <1>1, <1>2, <1>5, <2>1, <2>2 DEF Typed, sessionVars
<1>7. HeardInOrder' /\ NothingLost' /\ StillOpen' /\ CloseIsLast' /\ EndIsLast' /\ TailIsShort'
  BY <1>1, <1>4, <1>5, CallerSame
<1>8. m.kind = "done" => closing /\ buffer = {} /\ working = <<>> /\ downlink' = <<>>
  <2>1. ASSUME m.kind = "done"
        PROVE  closing /\ buffer = {} /\ working = <<>> /\ Len(downlink) = 1
    BY <1>2, <2>1 DEF IInv, DoneIsLast
  <2>2. Len(downlink) = 1 => Len(Tail(downlink)) = 0
    BY <1>2
  <2>3. Len(Tail(downlink)) = 0 => Tail(downlink) = <<>>
    BY <1>2, EmptySeq
  <2> QED
    BY <1>1, <2>1, <2>2, <2>3
<1>9. DoneIsLast'
  <2>1. ASSUME NEW i \in DOMAIN Tail(downlink), Tail(downlink)[i].kind = "done"
        PROVE  closing /\ buffer = {} /\ working = <<>> /\ i = Len(Tail(downlink))
    <3>1. i + 1 \in DOMAIN downlink /\ Tail(downlink)[i] = downlink[i + 1] /\ i \in Nat
      BY <1>2
    <3>2. closing /\ buffer = {} /\ working = <<>> /\ i + 1 = Len(downlink)
      BY <2>1, <3>1 DEF IInv, DoneIsLast
    <3>3. \A x \in Nat : x + 1 = Len(downlink) => x = Len(downlink) - 1
      OBVIOUS
    <3>4. i = Len(downlink) - 1
      BY <3>1, <3>2, <3>3
    <3> QED
      BY <1>2, <3>2, <3>4
  <2> QED
    BY <1>1, <1>5, <2>1 DEF DoneIsLast
<1>10. DrainedOk'
  <2>1. ASSUME drained' = "ok"
        PROVE  m.kind = "done" \/ (provider = "openai" /\ draining)
    <3>1. Drained(m)
      BY <1>1, <1>4, <2>1
    <3> QED
      BY <3>1 DEF Drained, Answers
  <2>2. drained' = "ok" => ~reader'
    BY <1>1, <1>4
  <2>3. UNCHANGED draining
    BY <1>1
  <2> QED
    BY <1>5, <1>8, <2>1, <2>2, <2>3 DEF DrainedOk
<1>11. ASSUME NEW c \in Chunk, Whereabouts(c)
       PROVE  c \in buffer' \/ (\E j \in DOMAIN working' : c \in working'[j])
              \/ (\E j \in DOMAIN downlink' : downlink'[j].kind \in Results /\ c \in downlink'[j].of) \/ c \in settled'
  <2>1. CASE c \in buffer \/ \E j \in DOMAIN working : c \in working[j]
    BY <1>5, <2>1
  <2>2. CASE \E j \in DOMAIN downlink : downlink[j].kind \in Results /\ c \in downlink[j].of
    <3>1. PICK j \in DOMAIN downlink : downlink[j].kind \in Results /\ c \in downlink[j].of
      BY <2>2
    <3>2. CASE j = 1
      BY <1>1, <1>2, <3>1, <3>2
    <3>3. CASE j # 1
      <4>1. j - 1 \in 1 .. Len(downlink) - 1 /\ (j - 1) + 1 = j
        BY <1>2, <3>3
      <4>2. j - 1 \in DOMAIN downlink' /\ downlink'[j - 1] = downlink[j]
        BY <1>1, <1>2, <4>1
      <4> QED
        BY <3>1, <4>2
    <3> QED
      BY <3>2, <3>3
  <2>3. CASE c \in settled
    BY <1>1, <2>3
  <2> QED
    BY <1>11, <2>1, <2>2, <2>3 DEF Whereabouts
<1>12. AllTraced'
  <2>1. \A j \in DOMAIN heard : heard[j] \in Chunk
    BY <1>1, LenProperties DEF Typed
  <2> QED
    BY <1>5, <1>11, <2>1 DEF IInv, AllTraced, Whereabouts
<1> QED
  BY <1>6, <1>7, <1>9, <1>10, <1>12, InvFrom

LEMMA ReadFailsKeeps ==
  ASSUME IInv, ReadFails
  PROVE  IInv'
<1>1. /\ Typed /\ reader /\ reader' = FALSE /\ drained' = "error"
      /\ UNCHANGED <<sessionVars, commands, writer, draining, link, serverVars, downlink, expected, settled>>
  BY TypeOKIsTyped DEF ReadFails, IInv
<1>2. caller # "ok"
  BY <1>1 DEF IInv, DrainedOk, TailIsShort
<1>3. UNCHANGED <<heard, buffer, working, closing>>
  BY <1>1 DEF serverVars
<1>4. Typed'
  BY <1>1, <1>3 DEF Typed, sessionVars
<1>5. HeardInOrder' /\ NothingLost' /\ StillOpen' /\ CloseIsLast' /\ EndIsLast' /\ TailIsShort'
  BY <1>1, <1>2, <1>3, CallerSame
<1>6. DoneIsLast' /\ AllTraced'
  BY <1>1, <1>3 DEF IInv, DoneIsLast, AllTraced, Whereabouts
<1>7. DrainedOk'
  BY <1>1 DEF DrainedOk
<1> QED
  BY <1>4, <1>5, <1>6, <1>7, InvFrom

-----------------------------------------------------------------------------
(* The theorems. *)

LEMMA InitIInv == Init => IInv
<1> SUFFICES ASSUME Init PROVE IInv
  OBVIOUS
<1> USE DEF Init
<1>1. TypeOK
  <2>1. /\ <<>> \in Seq(Chunk) /\ <<>> \in Seq(Command) /\ <<>> \in Seq(Turns) /\ <<>> \in Seq(Message)
        /\ Len(<<>>) = 0 /\ {} \in Turns /\ MaxChunks[provider] \in Nat /\ Capacity \in Nat
    BY ConstantTypes DEF Turns
  <2>2. chunks \in 0 .. MaxChunks[provider] /\ Len(commands) <= Capacity
    BY <2>1
  <2>3. caller \in Callers /\ drained \in {"none", "ok", "error"}
    BY DEF Callers
  <2>4. {writer, draining, link, closing, reader} \subseteq BOOLEAN /\ {buffer, expected, settled} \subseteq Turns
    BY <2>1
  <2> QED
    BY <2>1, <2>2, <2>3, <2>4 DEF TypeOK
<1>2. HeardInOrder
  <2>1. <<>> \in Seq(Chunk) /\ InPlace(<<>>, 0, <<>>)
    BY DEF InPlace
  <2> QED
    BY <2>1, PrefixInPlace DEF HeardInOrder
<1>3. NothingLost
  BY NothingLaid DEF NothingLost
<1>4. StillOpen /\ CloseIsLast /\ EndIsLast
  BY DEF StillOpen, CloseIsLast, EndIsLast
<1>5. DoneIsLast /\ AllTraced /\ DrainedOk /\ TailIsShort
  BY DEF DoneIsLast, AllTraced, DrainedOk, TailIsShort
<1> QED
  BY <1>1, <1>2, <1>3, <1>4, <1>5 DEF IInv

LEMMA StutterKeeps ==
  ASSUME IInv, UNCHANGED vars
  PROVE  IInv'
<1>1. /\ Typed /\ UNCHANGED <<sessionVars, commands, writer, draining, link, serverVars, downlink, readerVars>>
  BY TypeOKIsTyped DEF IInv, vars
<1>2. Typed'
  BY <1>1 DEF Typed, sessionVars, serverVars, readerVars
<1>3. UNCHANGED <<provider, reader, drained, settled, heard, closing>>
  BY <1>1 DEF sessionVars, serverVars, readerVars
<1>4. HeardInOrder' /\ NothingLost' /\ StillOpen' /\ CloseIsLast' /\ EndIsLast' /\ TailIsShort'
  BY <1>1, <1>3, CallerSame DEF IInv, TailIsShort
<1>5. DoneIsLast' /\ AllTraced' /\ DrainedOk'
  BY <1>1, <1>3, ServerSame
<1> QED
  BY <1>2, <1>4, <1>5, InvFrom

LEMMA StepIInv == IInv /\ [Next]_vars => IInv'
<1> SUFFICES ASSUME IInv, [Next]_vars
             PROVE  IInv'
  OBVIOUS
<1>1. CASE SendChunk \/ SendBuffered \/ KeepAlive
  BY <1>1, SendChunkKeeps, SendBufferedKeeps, KeepAliveKeeps
<1>2. CASE Finalize \/ SessionClosed \/ FinalizeReturns \/ Drop
  BY <1>2, CallerKeeps
<1>3. CASE FlushTail \/ QueueClose
  BY <1>3, FlushTailKeeps, QueueCloseKeeps
<1>4. CASE Write
  <2>1. CASE Head(commands).kind = "audio"
    BY <1>4, <2>1, WriteAudioKeeps
  <2>2. CASE Head(commands).kind = "close" /\ provider = "openai"
    BY <1>4, <2>2, WriteCommitKeeps
  <2>3. CASE Head(commands).kind # "audio" /\ ~(Head(commands).kind = "close" /\ provider = "openai")
    BY <1>4, <2>3, WriteSignalKeeps
  <2> QED
    BY <2>1, <2>2, <2>3
<1>5. CASE WriteFails \/ WriterEnds
  BY <1>5, WriterStopsKeeps
<1>6. CASE Server
  BY <1>6, EndTurnKeeps, DoneKeeps, TranscribeKeeps DEF Server, Results
<1>7. CASE LinkFails
  BY <1>7, LinkFailsKeeps
<1>8. CASE Read \/ ReadFails
  BY <1>8, ReadKeeps, ReadFailsKeeps
<1>9. CASE Ended \/ UNCHANGED vars
  BY <1>9, StutterKeeps DEF Ended
<1> QED
  BY <1>1, <1>2, <1>3, <1>4, <1>5, <1>6, <1>7, <1>8, <1>9 DEF Next

LEMMA Inductive == Spec => []IInv
BY InitIInv, StepIInv, PTL DEF Spec

\* When finalize has said Ok, everything accepted was heard, and everything heard
\* was settled.
LEMMA OkMeansComplete == IInv => CompleteWhenOk
<1> SUFFICES ASSUME IInv, caller = "ok"
             PROVE  /\ accepted = heard \o pending
                    /\ Len(pending) < Minimum
                    /\ provider # "openai" => ToSet(heard) \subseteq settled
  BY DEF CompleteWhenOk
<1>1. Typed /\ drained = "ok" /\ Len(pending) < Minimum
  BY TypeOKIsTyped DEF IInv, TailIsShort
<1>2. closing \/ draining
  BY <1>1 DEF IInv, DrainedOk
<1>3. commands = <<>>
  BY <1>2 DEF IInv, EndIsLast
<1>4. accepted = heard \o pending
  <2>1. Laid(Len(heard), <<>>, pending, accepted)
    BY <1>2, <1>3 DEF IInv, NothingLost
  <2>2. InPlace(heard, 0, accepted)
    BY <1>1, PrefixInPlace DEF IInv, HeardInOrder, Typed
  <2> QED
    BY <1>1, <2>1, <2>2, LaidAll DEF Typed
<1>5. ASSUME provider # "openai"
      PROVE  ToSet(heard) \subseteq settled
  <2>1. buffer = {} /\ working = <<>> /\ downlink = <<>>
    BY <1>1, <1>5 DEF IInv, DrainedOk
  <2>2. \A i \in DOMAIN heard : heard[i] \in settled
    BY <2>1 DEF IInv, AllTraced, Whereabouts
  <2> QED
    BY <2>2 DEF ToSet
<1> QED
  BY <1>1, <1>4, <1>5

\* Whatever the order of send_audio, the writer task, the server and the reader:
\* what the server has heard is the beginning of what send_audio took, chunk by
\* chunk, also across a frame that assemblyai kept because the channel was full,
\* and on a connection that broke.
THEOREM ArrivesInOrder == Spec => []Inv
<1>1. IInv => Inv
  BY DEF IInv, Inv
<1> QED
  BY <1>1, Inductive, PTL

\* finalize of each adapter returns Ok only when the server has heard every chunk
\* that was accepted, but for assemblyai's tail below MIN_CHUNK_MS, and, where the
\* reader waits for the end of the server's stream, when every chunk has its
\* transcript or its failure in the events channel.
THEOREM OkIsComplete == Spec => []CompleteWhenOk
BY OkMeansComplete, Inductive, PTL

=============================================================================
