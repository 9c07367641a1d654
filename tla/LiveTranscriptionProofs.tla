----------------------- MODULE LiveTranscriptionProofs -----------------------
(***************************************************************************)
(* Proofs about LiveTranscription, for any set of tracks, any number of    *)
(* utterances and any channel: one connection and one open gap row to a    *)
(* track, and no track given up in silence.                                *)
(***************************************************************************)
EXTENDS LiveTranscription, TLAPS

\* TypeOK variable by variable.
Types ==
  /\ loop \in Loops /\ capturing \in BOOLEAN /\ audioOpen \in BOOLEAN
  /\ sessionRow \in BOOLEAN /\ sessionEnd \in BOOLEAN
  /\ session \in [Tracks -> BOOLEAN] /\ events \in [Tracks -> BOOLEAN]
  /\ retryAt \in [Tracks -> BOOLEAN] /\ finalizing \in [Tracks -> BOOLEAN]
  /\ sender \in [Tracks -> BOOLEAN] /\ reader \in [Tracks -> BOOLEAN]
  /\ interim \in [Tracks -> Nat] /\ counter \in [Tracks -> Nat]
  /\ gapId \in [Tracks -> Nat] /\ spoken \in [Tracks -> Nat]
  /\ attempt \in [Tracks -> AttemptStates] /\ status \in [Tracks -> Statuses]
  /\ queue \in [Tracks -> Seq(Event)] /\ \A t \in Tracks : Len(queue[t]) <= MaxQueued
  /\ openGaps \in [Tracks -> SUBSET Nat] /\ finalRows \in [Tracks -> SUBSET Nat]
  /\ published \in [Tracks -> Seq(Nat)]

LEMMA TypesAreTypeOK == TypeOK <=> Types
BY DEF TypeOK, Types

\* The properties, for one track.
OneGap(t) == openGaps[t] = IF gapId[t] = 0 THEN {} ELSE {gapId[t]}

GapWhile(t) ==
  /\ sessionRow /\ Recording =>
       /\ gapId[t] # 0 => ~session[t]
       /\ ~session[t] /\ (Armed(t) \/ events[t]) => gapId[t] # 0
  /\ ~audioOpen => openGaps[t] = {}

Connection(t) ==
  /\ session[t] => ~Armed(t)
  /\ ~(retryAt[t] /\ attempt[t] # "none")
  /\ ~audioOpen => ~session[t] /\ attempt[t] = "none"

Shown(t) == Recording /\ ~session[t] /\ ~Armed(t) => status[t] = "Error"

\* What they rest on: before the loop a track has nothing but its first
\* attempt, and an attempt that failed has said so.
Fresh(t) ==
  loop \in {"configuring", "connecting"} =>
    /\ ~session[t] /\ ~events[t] /\ ~retryAt[t] /\ gapId[t] = 0
    /\ loop = "configuring" => attempt[t] = "none"

FailureShown(t) == attempt[t] = "failed" => status[t] = "Error"

Good(t) == OneGap(t) /\ GapWhile(t) /\ Connection(t) /\ Shown(t) /\ Fresh(t) /\ FailureShown(t)

\* The audio is open until the loop has read its end.
AudioOpen ==
  /\ loop \in {"configuring", "connecting", "draining"} => audioOpen
  /\ loop = "finalizing" => ~audioOpen

IInv == Types /\ AudioOpen /\ \A t \in Tracks : Good(t)

LEMMA Implied == IInv => Inv /\ OneConnection /\ GivenUpIsShown
<1> SUFFICES ASSUME IInv
             PROVE  Inv /\ OneConnection /\ GivenUpIsShown
  OBVIOUS
<1>1. TypeOK
  BY TypesAreTypeOK DEF IInv
<1>2. OneOpenGap /\ GapWhileDown
  BY DEF IInv, Good, OneGap, GapWhile, OneOpenGap, GapWhileDown
<1>3. OneConnection
  BY DEF IInv, Good, Connection, OneConnection
<1>4. GivenUpIsShown
  BY DEF IInv, Good, Shown, GivenUpIsShown
<1> QED
  BY <1>1, <1>2, <1>3, <1>4 DEF Inv

LEMMA InitIInv == Init => IInv
<1> SUFFICES ASSUME Init
             PROVE  IInv
  OBVIOUS
<1>1. Types
  <2>1. queue \in [Tracks -> Seq(Event)] /\ \A t \in Tracks : Len(queue[t]) <= MaxQueued
    BY BoundAssumption DEF Init
  <2>2. published \in [Tracks -> Seq(Nat)]
    BY DEF Init
  <2> QED
    BY <2>1, <2>2, RowAssumption DEF Init, Types, Loops, Nothing, Zero, AttemptStates, Statuses
<1>2. AudioOpen
  BY DEF Init, AudioOpen
<1>3. ASSUME NEW t \in Tracks
      PROVE  Good(t)
  BY DEF Init, Nothing, Zero, Good, OneGap, GapWhile, Connection, Shown, Fresh, FailureShown, Recording, Armed
<1> QED
  BY <1>1, <1>2, <1>3 DEF IInv

-----------------------------------------------------------------------------
(* A disconnect, however it is noticed, is about a track with a session:   *)
(* it has no attempt yet and no open gap.                                  *)

LEMMA DisconnectTypes ==
  ASSUME IInv, NEW t \in Tracks, NEW isError \in BOOLEAN, NEW retryable \in BOOLEAN,
         Disconnect(t, isError, retryable), UNCHANGED sessionRow
  PROVE  /\ session' \in [Tracks -> BOOLEAN] /\ sender' \in [Tracks -> BOOLEAN]
         /\ status' \in [Tracks -> Statuses] /\ retryAt' \in [Tracks -> BOOLEAN]
         /\ gapId' \in [Tracks -> Nat] /\ openGaps' \in [Tracks -> SUBSET Nat]
<1>1. FreshId(t) \subseteq Nat
  BY BoundAssumption DEF FreshId
<1>2. gapId' \in [Tracks -> Nat] /\ openGaps' \in [Tracks -> SUBSET Nat]
  <2>1. CASE UNCHANGED <<gapId, openGaps>>
    BY <2>1 DEF IInv, Types
  <2>2. CASE \E id \in FreshId(t) :
               /\ gapId' = [gapId EXCEPT ![t] = id]
               /\ openGaps' = [openGaps EXCEPT ![t] = @ \cup {id}]
    <3>1. PICK id \in Nat : /\ gapId' = [gapId EXCEPT ![t] = id]
                           /\ openGaps' = [openGaps EXCEPT ![t] = @ \cup {id}]
      BY <1>1, <2>2
    <3> QED
      BY <3>1 DEF IInv, Types
  <2> QED
    BY <2>1, <2>2 DEF Disconnect, OpenGap
<1> QED
  BY <1>2 DEF Disconnect, IInv, Types, Statuses

LEMMA DisconnectGood ==
  ASSUME IInv, NEW t \in Tracks, NEW isError \in BOOLEAN, NEW retryable \in BOOLEAN,
         Disconnect(t, isError, retryable), session[t], loop = "looping", isError \/ retryable,
         UNCHANGED <<loop, audioOpen, attempt, sessionRow>>,
         events' = events \/ events' = [events EXCEPT ![t] = FALSE]
  PROVE  \A u \in Tracks : Good(u)'
<1> USE DEF IInv, Types
<1>1. audioOpen /\ ~Armed(t) /\ attempt[t] = "none"
  BY DEF Good, Connection, Armed
<1>2. /\ session' = [session EXCEPT ![t] = FALSE]
      /\ status' = IF isError THEN [status EXCEPT ![t] = "Error"] ELSE status
      /\ OpenGap(t)
      /\ retryAt' = [retryAt EXCEPT ![t] = retryable]
  BY <1>1 DEF Disconnect
<1>3. sessionRow => gapId[t] = 0 /\ openGaps[t] = {}
  BY <1>1 DEF Good, GapWhile, Recording, OneGap
<1>4. sessionRow => \E id \in Nat \ {0} :
        gapId' = [gapId EXCEPT ![t] = id] /\ openGaps' = [openGaps EXCEPT ![t] = {id}]
  <2>1. FreshId(t) \subseteq Nat \ {0}
    BY BoundAssumption DEF FreshId
  <2>2. ASSUME sessionRow
        PROVE  \E id \in Nat \ {0} :
                 /\ gapId' = [gapId EXCEPT ![t] = id]
                 /\ openGaps' = [openGaps EXCEPT ![t] = @ \cup {id}]
    BY <1>2, <2>1, <2>2 DEF OpenGap
  <2>3. ASSUME sessionRow, NEW g
        PROVE  [openGaps EXCEPT ![t] = @ \cup {g}] = [openGaps EXCEPT ![t] = {g}]
    BY <1>3, <2>3
  <2> QED
    BY <2>2, <2>3
<1>5. ~sessionRow => UNCHANGED <<gapId, openGaps>>
  BY <1>2 DEF OpenGap
<1>6. ASSUME NEW u \in Tracks, u # t
      PROVE  Good(u)'
  <2>1. /\ session'[u] = session[u] /\ events'[u] = events[u] /\ retryAt'[u] = retryAt[u]
        /\ attempt'[u] = attempt[u] /\ status'[u] = status[u]
        /\ gapId'[u] = gapId[u] /\ openGaps'[u] = openGaps[u]
    BY <1>2, <1>4, <1>5, <1>6
  <2>2. Good(u)
    OBVIOUS
  <2> QED
    BY <2>1, <2>2 DEF Good, OneGap, GapWhile, Connection, Shown, Fresh, FailureShown, Recording, Armed
<1>7. Good(t)'
  <2>1. ~session'[t] /\ retryAt'[t] = retryable /\ attempt'[t] = "none"
    BY <1>1, <1>2
  <2>2. isError => status'[t] = "Error"
    BY <1>2
  <2>3. OneGap(t)' /\ (sessionRow => gapId'[t] # 0)
    BY <1>4, <1>5 DEF Good, OneGap
  <2>4. GapWhile(t)'
    BY <1>1, <2>1, <2>3 DEF GapWhile
  <2>5. Connection(t)' /\ Shown(t)' /\ Fresh(t)' /\ FailureShown(t)'
    BY <1>1, <2>1, <2>2 DEF Connection, Shown, Fresh, FailureShown, Armed
  <2> QED
    BY <2>3, <2>4, <2>5 DEF Good
<1> QED
  BY <1>6, <1>7

-----------------------------------------------------------------------------
(* Types, action by action.                                                *)

LEMMA PushTypes ==
  ASSUME Types, NEW t \in Tracks, NEW e \in Event, Push(t, e)
  PROVE  queue' \in [Tracks -> Seq(Event)] /\ \A u \in Tracks : Len(queue'[u]) <= MaxQueued
<1>1. queue' = [queue EXCEPT ![t] = Append(queue[t], e)] /\ Len(queue[t]) < MaxQueued
  BY DEF Push
<1>2. Append(queue[t], e) \in Seq(Event) /\ Len(Append(queue[t], e)) = Len(queue[t]) + 1
  BY DEF Types
<1> DEFINE q == Append(queue[t], e)
<1>3. q \in Seq(Event) /\ Len(q) <= MaxQueued /\ queue' = [queue EXCEPT ![t] = q]
  BY <1>1, <1>2, BoundAssumption DEF Types
<1> HIDE DEF q
<1> QED
  BY <1>3 DEF Types

LEMMA PopTypes ==
  ASSUME Types, NEW t \in Tracks, queue[t] # <<>>, queue' = [queue EXCEPT ![t] = Tail(@)]
  PROVE  /\ queue' \in [Tracks -> Seq(Event)] /\ \A u \in Tracks : Len(queue'[u]) <= MaxQueued
         /\ Head(queue[t]) \in Event
<1>1. Tail(queue[t]) \in Seq(Event) /\ Len(Tail(queue[t])) = Len(queue[t]) - 1 /\ Head(queue[t]) \in Event
  BY DEF Types
<1> QED
  BY <1>1, BoundAssumption DEF Types

LEMMA ProviderTypes ==
  ASSUME Types, NEW t \in Tracks, Provider(t)
  PROVE  Types'
<1>1. ASSUME NEW b \in BOOLEAN, Recognizes(t, b)
      PROVE  Types'
  <2>1. Final(spoken[t] + 1) \in Event /\ Partial(spoken[t] + 1) \in Event
    BY DEF Types, Final, Partial, Event
  <2>2. queue' \in [Tracks -> Seq(Event)] /\ \A u \in Tracks : Len(queue'[u]) <= MaxQueued
    BY <1>1, <2>1, PushTypes DEF Recognizes
  <2>3. spoken' \in [Tracks -> Nat]
    BY <1>1 DEF Recognizes, Types
  <2> QED
    BY <1>1, <2>2, <2>3 DEF Recognizes, ProviderFrame, Types, storeVars, busVars
<1>2. ASSUME NEW b \in BOOLEAN, ProviderFails(t, b)
      PROVE  Types'
  <2>1. Failure(b) \in Event
    BY DEF Failure, Event
  <2>2. queue' \in [Tracks -> Seq(Event)] /\ \A u \in Tracks : Len(queue'[u]) <= MaxQueued
    BY <1>2, <2>1, PushTypes DEF ProviderFails
  <2> QED
    BY <1>2, <2>2 DEF ProviderFails, ProviderFrame, Types, storeVars, busVars
<1>3. CASE SenderEnds(t) \/ ReaderEnds(t)
  BY <1>3 DEF SenderEnds, ReaderEnds, ProviderFrame, Types, storeVars, busVars
<1> QED
  BY <1>1, <1>2, <1>3 DEF Provider

LEMMA AttemptTypes ==
  ASSUME Types, NEW t \in Tracks, Attempt(t)
  PROVE  Types'
<1>1. attempt' \in [Tracks -> AttemptStates] /\ status' \in [Tracks -> Statuses]
  BY DEF Attempt, AttemptStarts, Connects, Types, AttemptStates, Statuses
<1>2. UNCHANGED <<loop, capturing, audioOpen, session, events, interim, counter, retryAt, gapId,
                  finalizing, linkVars, storeVars, busVars>>
  BY DEF Attempt, AttemptStarts, Connects
<1> QED
  BY <1>1, <1>2 DEF linkVars, storeVars, busVars, Types

LEMMA StartTypes ==
  ASSUME Types, NoProvider \/ ConnectBoth \/ EnterLoop
  PROVE  Types'
<1>1. CASE NoProvider \/ ConnectBoth
  BY <1>1 DEF NoProvider, ConnectBoth, linkVars, storeVars, busVars, Types, Loops, AttemptStates, Statuses
<1>2. CASE EnterLoop
  BY <1>2 DEF EnterLoop, storeVars, busVars, Types, Loops, AttemptStates
<1> QED
  BY <1>1, <1>2

LEMMA StopTypes ==
  ASSUME Types, CaptureEnds \/ AudioEnds \/ PublishSessionEnd \/ Returns \/ Ended
  PROVE  Types'
<1>1. CASE CaptureEnds \/ PublishSessionEnd \/ Returns \/ Ended
  BY <1>1 DEF CaptureEnds, PublishSessionEnd, Returns, Ended, vars, linkVars, storeVars, busVars, Types, Loops
<1>2. CASE AudioEnds
  BY <1>2 DEF AudioEnds, CloseGaps, Nothing, busVars, Types, Loops, AttemptStates
<1> QED
  BY <1>1, <1>2

LEMMA InsertTypes ==
  ASSUME Types, NEW t \in Tracks, NEW u \in Nat, InsertFinal(t, u)
  PROVE  finalRows' \in [Tracks -> SUBSET Nat]
BY DEF InsertFinal, Types

LEMMA TrackTypes ==
  ASSUME IInv, NEW t \in Tracks, Track(t)
  PROVE  Types'
<1> USE DEF IInv
<1>1. ASSUME NEW full \in BOOLEAN, SendFails(t, full)
      PROVE  Types'
  <2>1. Disconnect(t, TRUE, full) /\ UNCHANGED sessionRow
    BY <1>1 DEF SendFails
  <2>2. /\ session' \in [Tracks -> BOOLEAN] /\ sender' \in [Tracks -> BOOLEAN]
        /\ status' \in [Tracks -> Statuses] /\ retryAt' \in [Tracks -> BOOLEAN]
        /\ gapId' \in [Tracks -> Nat] /\ openGaps' \in [Tracks -> SUBSET Nat]
    BY <2>1, DisconnectTypes
  <2> QED
    BY <1>1, <2>2 DEF SendFails, busVars, Types
<1>2. CASE RetryFires(t)
  BY <1>2 DEF RetryFires, linkVars, storeVars, busVars, Types, AttemptStates
<1>3. CASE Reconnected(t)
  <2>1. /\ gapId' \in [Tracks -> Nat] /\ openGaps' \in [Tracks -> SUBSET Nat]
    BY <1>3 DEF Reconnected, CloseGaps, Types
  <2>2. queue' \in [Tracks -> Seq(Event)] /\ \A u \in Tracks : Len(queue'[u]) <= MaxQueued
    BY <1>3, BoundAssumption DEF Reconnected, Types
  <2> QED
    BY <1>3, <2>1, <2>2 DEF Reconnected, busVars, Types, AttemptStates
<1>4. CASE ReconnectFailed(t)
  BY <1>4 DEF ReconnectFailed, AttemptFailed, linkVars, busVars, Types, AttemptStates
<1>5. CASE ReadEvent(t)
  <2> DEFINE e == Head(queue[t])
  <2>1. /\ queue' \in [Tracks -> Seq(Event)] /\ \A u \in Tracks : Len(queue'[u]) <= MaxQueued
        /\ e \in Event
    BY <1>5, PopTypes DEF ReadEvent
  <2>2. /\ session' \in [Tracks -> BOOLEAN] /\ sender' \in [Tracks -> BOOLEAN]
        /\ status' \in [Tracks -> Statuses] /\ retryAt' \in [Tracks -> BOOLEAN]
        /\ gapId' \in [Tracks -> Nat] /\ openGaps' \in [Tracks -> SUBSET Nat]
    <3>1. CASE IsDisconnect(t, e)
      <4>1. Disconnect(t, TRUE, e.of = 1) /\ UNCHANGED sessionRow
        BY <1>5, <3>1 DEF ReadEvent
      <4> QED
        BY <4>1, DisconnectTypes
    <3>2. CASE ~IsDisconnect(t, e)
      BY <1>5, <3>2 DEF ReadEvent, NoDisconnect, Types
    <3> QED
      BY <3>1, <3>2
  <2>3. /\ interim' \in [Tracks -> Nat] /\ counter' \in [Tracks -> Nat]
        /\ finalRows' \in [Tracks -> SUBSET Nat] /\ published' \in [Tracks -> Seq(Nat)]
    <3>1. CASE e.kind = "final"
      <4>1. InsertFinal(t, e.of) /\ interim' = [interim EXCEPT ![t] = 0]
            /\ published' = [published EXCEPT ![t] = Append(@, counter[t])] /\ NextSegment(t)
        BY <1>5, <3>1 DEF ReadEvent
      <4>2. finalRows' \in [Tracks -> SUBSET Nat]
        BY <2>1, <4>1, InsertTypes DEF Event
      <4>3. published' \in [Tracks -> Seq(Nat)]
        BY <4>1 DEF Types
      <4>4. interim' \in [Tracks -> Nat] /\ counter' \in [Tracks -> Nat]
        BY <4>1 DEF NextSegment, Types
      <4> QED
        BY <4>2, <4>3, <4>4
    <3>2. CASE e.kind = "partial"
      BY <1>5, <2>1, <3>2 DEF ReadEvent, Event, Types
    <3>3. CASE e.kind \notin {"final", "partial"}
      BY <1>5, <3>3 DEF ReadEvent, Types
    <3> QED
      BY <3>1, <3>2, <3>3
  <2> QED
    BY <1>5, <2>1, <2>2, <2>3 DEF ReadEvent, Types
<1>6. CASE ChannelClosed(t)
  <2>1. /\ session' \in [Tracks -> BOOLEAN] /\ sender' \in [Tracks -> BOOLEAN]
        /\ status' \in [Tracks -> Statuses] /\ retryAt' \in [Tracks -> BOOLEAN]
        /\ gapId' \in [Tracks -> Nat] /\ openGaps' \in [Tracks -> SUBSET Nat]
    <3>1. CASE session[t]
      <4>1. Disconnect(t, FALSE, TRUE) /\ UNCHANGED sessionRow
        BY <1>6, <3>1 DEF ChannelClosed
      <4> QED
        BY <4>1, DisconnectTypes
    <3>2. CASE ~session[t]
      BY <1>6, <3>2 DEF ChannelClosed, NoDisconnect, Types
    <3> QED
      BY <3>1, <3>2
  <2>2. finalRows' \in [Tracks -> SUBSET Nat]
    <3>1. interim[t] \in Nat
      BY DEF Types
    <3>2. InsertFinal(t, interim[t]) \/ UNCHANGED finalRows
      BY <1>6 DEF ChannelClosed
    <3> QED
      BY <3>1, <3>2, InsertTypes DEF Types
  <2> QED
    BY <1>6, <2>1, <2>2 DEF ChannelClosed, DropReceiver, busVars, Types
<1>7. CASE FinalizeReturns(t)
  BY <1>7 DEF FinalizeReturns, linkVars, storeVars, busVars, Types
<1> QED
  BY <1>1, <1>2, <1>3, <1>4, <1>5, <1>6, <1>7 DEF Track

-----------------------------------------------------------------------------
(* The properties, action by action.                                       *)

goodVars == <<loop, audioOpen, session, events, retryAt, attempt, gapId, status, sessionRow, openGaps>>

LEMMA QuietGood ==
  ASSUME IInv, UNCHANGED goodVars
  PROVE  AudioOpen' /\ \A t \in Tracks : Good(t)'
BY DEF goodVars, IInv, AudioOpen, Good, OneGap, GapWhile, Connection, Shown, Fresh, FailureShown,
       Recording, Armed

\* A step that changes nothing but what one track has.
LEMMA OthersGood ==
  ASSUME IInv, NEW t \in Tracks, UNCHANGED <<loop, audioOpen, sessionRow>>,
         \A u \in Tracks \ {t} :
            /\ session'[u] = session[u] /\ events'[u] = events[u] /\ retryAt'[u] = retryAt[u]
            /\ attempt'[u] = attempt[u] /\ status'[u] = status[u]
            /\ gapId'[u] = gapId[u] /\ openGaps'[u] = openGaps[u],
         Good(t)'
  PROVE  AudioOpen' /\ \A u \in Tracks : Good(u)'
<1>1. AudioOpen'
  BY DEF IInv, AudioOpen
<1>2. ASSUME NEW u \in Tracks \ {t}
      PROVE  Good(u)'
  BY DEF IInv, Good, OneGap, GapWhile, Connection, Shown, Fresh, FailureShown, Recording, Armed
<1> QED
  BY <1>1, <1>2

LEMMA StartGood ==
  ASSUME IInv, NoProvider \/ ConnectBoth \/ EnterLoop
  PROVE  AudioOpen' /\ \A t \in Tracks : Good(t)'
<1> USE DEF IInv, Types
<1>1. AudioOpen'
  BY DEF NoProvider, ConnectBoth, EnterLoop, AudioOpen
<1>2. ASSUME NEW t \in Tracks, NoProvider \/ ConnectBoth
      PROVE  Good(t)'
  <2>1. /\ Good(t) /\ loop = "configuring" /\ audioOpen
        /\ UNCHANGED <<audioOpen, session, events, retryAt, gapId, sessionRow, openGaps>>
        /\ loop' \in {"connecting", "draining"}
        /\ attempt'[t] \in {"none", "connecting"}
    BY <1>2 DEF NoProvider, ConnectBoth, AudioOpen, storeVars, Good, Fresh
  <2> QED
    BY <2>1 DEF Good, OneGap, GapWhile, Connection, Shown, Fresh, FailureShown, Recording, Armed
<1>3. ASSUME NEW t \in Tracks, EnterLoop
      PROVE  Good(t)'
  <2>1. /\ Good(t) /\ loop = "connecting" /\ loop' \in {"looping", "draining"} /\ audioOpen
        /\ attempt[t] \in {"connected", "failed"}
        /\ session'[t] = (attempt[t] = "connected") /\ events'[t] = (attempt[t] = "connected")
        /\ attempt'[t] = "none"
        /\ UNCHANGED <<audioOpen, retryAt, gapId, status, sessionRow, openGaps>>
    BY <1>3 DEF EnterLoop, AudioOpen, storeVars
  <2> QED
    BY <2>1 DEF Good, OneGap, GapWhile, Connection, Shown, Fresh, FailureShown, Recording, Armed
<1> QED
  BY <1>1, <1>2, <1>3

LEMMA ProviderGood ==
  ASSUME IInv, NEW t \in Tracks, Provider(t)
  PROVE  AudioOpen' /\ \A u \in Tracks : Good(u)'
<1>1. UNCHANGED goodVars
  BY DEF Provider, Recognizes, ProviderFails, SenderEnds, ReaderEnds, ProviderFrame, goodVars, storeVars
<1> QED
  BY <1>1, QuietGood

LEMMA AttemptGood ==
  ASSUME IInv, NEW t \in Tracks, Attempt(t)
  PROVE  AudioOpen' /\ \A u \in Tracks : Good(u)'
<1> USE DEF IInv, Types
<1>1. UNCHANGED <<loop, audioOpen, session, events, retryAt, gapId, sessionRow, openGaps>>
  BY DEF Attempt, AttemptStarts, Connects, storeVars
<1>2. \A u \in Tracks \ {t} : attempt'[u] = attempt[u] /\ status'[u] = status[u]
  BY DEF Attempt, AttemptStarts, Connects
<1>3. /\ attempt[t] \in {"spawned", "connecting"} /\ attempt'[t] \in {"connecting", "connected", "failed"}
      /\ attempt'[t] = "failed" => status'[t] = "Error"
  BY DEF Attempt, AttemptStarts, Connects
<1>4. Good(t)'
  <2>1. Good(t)
    OBVIOUS
  <2> QED
    BY <1>1, <1>3, <2>1
       DEF Good, OneGap, GapWhile, Connection, Shown, Fresh, FailureShown, Recording, Armed
<1> QED
  BY <1>1, <1>2, <1>4, OthersGood

LEMMA RetryGood ==
  ASSUME IInv, NEW t \in Tracks, RetryFires(t) \/ ReconnectFailed(t)
  PROVE  AudioOpen' /\ \A u \in Tracks : Good(u)'
<1> USE DEF IInv, Types
<1>1. UNCHANGED <<loop, audioOpen, session, events, gapId, status, sessionRow, openGaps>>
  BY DEF RetryFires, ReconnectFailed, AttemptFailed, storeVars
<1>2. \A u \in Tracks \ {t} : attempt'[u] = attempt[u] /\ retryAt'[u] = retryAt[u]
  BY DEF RetryFires, ReconnectFailed, AttemptFailed
<1>3. /\ loop = "looping"
      /\ \/ audioOpen /\ retryAt[t] /\ ~retryAt'[t] /\ attempt'[t] = "spawned"
         \/ attempt[t] = "failed" /\ retryAt'[t] /\ attempt'[t] = "none"
  BY DEF RetryFires, ReconnectFailed, AttemptFailed
<1>4. Good(t)'
  <2>1. Good(t)
    OBVIOUS
  <2> QED
    BY <1>1, <1>3, <2>1
       DEF Good, OneGap, GapWhile, Connection, Shown, Fresh, FailureShown, Recording, Armed
<1> QED
  BY <1>1, <1>2, <1>4, OthersGood

\* The new session ends the outage: its row is closed with it.
LEMMA ReconnectedGood ==
  ASSUME IInv, NEW t \in Tracks, Reconnected(t)
  PROVE  AudioOpen' /\ \A u \in Tracks : Good(u)'
<1> USE DEF IInv, Types
<1>1. UNCHANGED <<loop, audioOpen, status, sessionRow>> /\ loop = "looping" /\ attempt[t] = "connected"
  BY DEF Reconnected
<1>2. \A u \in Tracks \ {t} :
        /\ session'[u] = session[u] /\ events'[u] = events[u] /\ retryAt'[u] = retryAt[u]
        /\ attempt'[u] = attempt[u] /\ gapId'[u] = gapId[u] /\ openGaps'[u] = openGaps[u]
  BY DEF Reconnected, CloseGaps
<1>3. /\ session'[t] /\ ~retryAt'[t] /\ attempt'[t] = "none" /\ gapId'[t] = 0
      /\ openGaps'[t] = openGaps[t] \ {gapId[t]}
  BY DEF Reconnected, CloseGaps
<1>4. Good(t)'
  <2>1. Good(t)
    OBVIOUS
  <2>2. audioOpen /\ openGaps'[t] = {}
    BY <1>1, <1>3, <2>1 DEF Good, OneGap, Connection
  <2> QED
    BY <1>1, <1>3, <2>2
       DEF Good, OneGap, GapWhile, Connection, Shown, Fresh, FailureShown, Recording, Armed
<1> QED
  BY <1>1, <1>2, <1>4, OthersGood

\* Losses are noticed in three places, each of which first looks whether there
\* is a session to lose.
LEMMA LossGood ==
  ASSUME IInv, NEW t \in Tracks,
         (\E full \in BOOLEAN : SendFails(t, full)) \/ ReadEvent(t) \/ ChannelClosed(t)
  PROVE  AudioOpen' /\ \A u \in Tracks : Good(u)'
<1> USE DEF IInv, Types
<1>1. loop = "looping" /\ UNCHANGED <<loop, audioOpen, attempt, sessionRow>>
  BY DEF SendFails, ReadEvent, ChannelClosed
<1>2. AudioOpen'
  BY <1>1 DEF AudioOpen
<1>3. ASSUME NEW full \in BOOLEAN, SendFails(t, full)
      PROVE  \A u \in Tracks : Good(u)'
  <2>1. Disconnect(t, TRUE, full) /\ session[t] /\ events' = events
    BY <1>3 DEF SendFails
  <2> QED
    BY <1>1, <2>1, DisconnectGood
<1>4. CASE ReadEvent(t)
  <2>1. CASE IsDisconnect(t, Head(queue[t]))
    <3>1. Disconnect(t, TRUE, Head(queue[t]).of = 1) /\ session[t] /\ events' = events
      BY <1>4, <2>1 DEF ReadEvent, IsDisconnect
    <3> DEFINE retryable == Head(queue[t]).of = 1
    <3>2. retryable \in BOOLEAN
      OBVIOUS
    <3>3. Disconnect(t, TRUE, retryable)
      BY <3>1
    <3> HIDE DEF retryable
    <3> QED
      BY <1>1, <1>2, <3>1, <3>2, <3>3, DisconnectGood
  <2>2. CASE ~IsDisconnect(t, Head(queue[t]))
    <3>1. UNCHANGED goodVars
      BY <1>1, <1>4, <2>2 DEF ReadEvent, NoDisconnect, goodVars
    <3> QED
      BY <3>1, QuietGood
  <2> QED
    BY <2>1, <2>2
<1>5. CASE ChannelClosed(t)
  <2>1. events' = [events EXCEPT ![t] = FALSE]
    BY <1>5 DEF ChannelClosed, DropReceiver
  <2>2. CASE session[t]
    <3>1. Disconnect(t, FALSE, TRUE)
      BY <1>5, <2>2 DEF ChannelClosed
    <3> QED
      BY <1>1, <1>2, <2>1, <2>2, <3>1, DisconnectGood
  <2>3. CASE ~session[t]
    <3>1. UNCHANGED <<session, sender, status, retryAt, gapId, openGaps>>
      BY <1>5, <2>3 DEF ChannelClosed, NoDisconnect
    <3>2. Good(t)'
      <4>1. Good(t)
        OBVIOUS
      <4> QED
        BY <1>1, <2>1, <3>1, <4>1
           DEF Good, OneGap, GapWhile, Connection, Shown, Fresh, FailureShown, Recording, Armed
    <3> QED
      BY <1>1, <2>1, <3>1, <3>2, OthersGood
  <2> QED
    BY <2>2, <2>3
<1> QED
  BY <1>2, <1>3, <1>4, <1>5

LEMMA StopGood ==
  ASSUME IInv, CaptureEnds \/ AudioEnds \/ PublishSessionEnd \/ Returns \/ Ended
  PROVE  AudioOpen' /\ \A t \in Tracks : Good(t)'
<1> USE DEF IInv, Types
<1>1. CASE CaptureEnds \/ Ended
  <2>1. UNCHANGED goodVars
    BY <1>1 DEF CaptureEnds, Ended, vars, goodVars, storeVars
  <2> QED
    BY <2>1, QuietGood
<1>2. CASE AudioEnds
  <2>1. AudioOpen' /\ ~audioOpen' /\ loop' = "finalizing"
    BY <1>2 DEF AudioEnds, AudioOpen
  <2>2. ASSUME NEW t \in Tracks
        PROVE  Good(t)'
    <3>1. Good(t) /\ ~session'[t] /\ attempt'[t] = "none" /\ gapId'[t] = 0
          /\ openGaps'[t] = openGaps[t] \ {gapId[t]}
      BY <1>2 DEF AudioEnds, CloseGaps, Nothing
    <3>2. openGaps'[t] = {}
      BY <3>1 DEF Good, OneGap
    <3> QED
      BY <2>1, <3>1, <3>2
         DEF Good, OneGap, GapWhile, Connection, Shown, Fresh, FailureShown, Recording, Armed
  <2> QED
    BY <2>1, <2>2
<1>3. CASE PublishSessionEnd \/ Returns
  <2>1. /\ UNCHANGED <<audioOpen, session, events, retryAt, attempt, gapId, status, sessionRow, openGaps>>
        /\ \/ loop' = "looping" /\ ~audioOpen
           \/ loop' = "done"
    BY <1>3 DEF PublishSessionEnd, Returns, AudioOpen, storeVars
  <2>2. AudioOpen'
    BY <2>1 DEF AudioOpen
  <2>3. ASSUME NEW t \in Tracks
        PROVE  Good(t)'
    <3>1. Good(t)
      OBVIOUS
    <3> QED
      BY <2>1, <3>1
         DEF Good, OneGap, GapWhile, Connection, Shown, Fresh, FailureShown, Recording, Armed
  <2> QED
    BY <2>2, <2>3
<1> QED
  BY <1>1, <1>2, <1>3

LEMMA FinalizeGood ==
  ASSUME IInv, NEW t \in Tracks, FinalizeReturns(t)
  PROVE  AudioOpen' /\ \A u \in Tracks : Good(u)'
<1>1. UNCHANGED goodVars
  BY DEF FinalizeReturns, goodVars, storeVars
<1> QED
  BY <1>1, QuietGood

LEMMA StepIInv == IInv /\ [Next]_vars => IInv'
<1> SUFFICES ASSUME IInv, [Next]_vars
             PROVE  IInv'
  OBVIOUS
<1>0. Types
  BY DEF IInv
<1>1. CASE NoProvider \/ ConnectBoth \/ EnterLoop
  BY <1>0, <1>1, StartTypes, StartGood DEF IInv
<1>2. CASE CaptureEnds \/ AudioEnds \/ PublishSessionEnd \/ Returns \/ Ended
  BY <1>0, <1>2, StopTypes, StopGood DEF IInv
<1>3. ASSUME NEW t \in Tracks, Provider(t)
      PROVE  IInv'
  BY <1>0, <1>3, ProviderTypes, ProviderGood DEF IInv
<1>4. ASSUME NEW t \in Tracks, Attempt(t)
      PROVE  IInv'
  BY <1>0, <1>4, AttemptTypes, AttemptGood DEF IInv
<1>5. ASSUME NEW t \in Tracks, Track(t)
      PROVE  IInv'
  <2>1. Types'
    BY <1>5, TrackTypes
  <2>2. AudioOpen' /\ \A u \in Tracks : Good(u)'
    BY <1>5, LossGood, RetryGood, ReconnectedGood, FinalizeGood DEF Track
  <2> QED
    BY <2>1, <2>2 DEF IInv
<1>6. CASE UNCHANGED vars
  <2>1. UNCHANGED goodVars
    BY <1>6 DEF vars, goodVars, storeVars
  <2>2. Types'
    BY <1>0, <1>6 DEF vars, linkVars, storeVars, busVars, Types
  <2> QED
    BY <2>1, <2>2, QuietGood DEF IInv
<1> QED
  BY <1>1, <1>2, <1>3, <1>4, <1>5, <1>6 DEF Next

-----------------------------------------------------------------------------
LEMMA Inductive == Spec => []IInv
BY InitIInv, StepIInv, PTL DEF Spec

\* Types, and an open gap row exactly while a connected track is down: the one
\* row the loop remembers (open_gap, close_open_gap).
THEOREM OneGapPerOutage == Spec => []Inv
<1>1. IInv => Inv
  BY Implied
<1> QED
  BY Inductive, <1>1, PTL

\* A track has a session or at most one attempt to get one, and neither once
\* the audio has ended (ReconnectState, the None arm of audio_rx).
THEOREM OneConnectionEach == Spec => []OneConnection
<1>1. IInv => OneConnection
  BY Implied
<1> QED
  BY Inductive, <1>1, PTL

\* While recording, a track that is not tried again shows its error.
THEOREM NotGivenUpInSilence == Spec => []GivenUpIsShown
<1>1. IInv => GivenUpIsShown
  BY Implied
<1> QED
  BY Inductive, <1>1, PTL
=============================================================================
