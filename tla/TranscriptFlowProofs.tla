------------------------ MODULE TranscriptFlowProofs ------------------------
(***************************************************************************)
(* Proofs about TranscriptFlow, for any set of tasks, any capacity of the  *)
(* broker's channels and any number of segments: the summary misses no     *)
(* transcript that is stored, no interim replaces a final one, and the     *)
(* plugins' session ends once.                                             *)
(***************************************************************************)
EXTENDS TranscriptFlow, FiniteSetTheorems, SequenceTheorems, TLAPS

Messages == [id : Ids, final : BOOLEAN]
TurnSet == [from : {"live", "row"}, id : Ids]
States == {"spawned", "loading", "running", "summarizing", "ended"}

-----------------------------------------------------------------------------
(* The inductive invariant.                                                *)

\* A transcript at hand leaves room for the counter to move on.
ProducerTypes ==
  /\ row \in BOOLEAN /\ recording \in {"on", "finalized", "over", "stopped"}
  /\ counter \in Ids /\ event \in {"none", "interim", "final"}
  /\ step \in {"store", "updated", "finalized"}
  /\ rows \subseteq Messages /\ finals \subseteq Ids
  /\ log \in [Subjects -> Seq(Messages)]
  /\ event # "none" => counter < MaxSegments
  /\ step = "finalized" => event = "final"

ConsumerTypes ==
  /\ Consumers \in Teams /\ task \in [Consumers -> States]
  /\ at \in [Consumers -> [Subjects -> Nat]]
  /\ \A c \in Consumers, s \in Subjects : at[c][s] <= Len(log[s])
  /\ DOMAIN snapshot \subseteq Ids /\ \A id \in DOMAIN snapshot : snapshot[id] \in BOOLEAN
  /\ buffer \subseteq Messages
  /\ turns \in Seq(TurnSet) /\ plugin \in Seq(TurnSet)
  /\ ends \in Nat /\ timer \in BOOLEAN /\ hints \in 0..MaxSegments
  /\ summaries \subseteq {"summary", "rhai"}

\* What is published as finalized is in the store, and so is the final
\* transcript that is about to be.
Stored ==
  row => \A id \in Ids :
           id \in finals \/ (id = counter /\ event = "final" /\ step # "store") =>
             Segment(id, TRUE) \in rows

\* Nothing about a segment comes after its final transcript.
Ordered ==
  LET U == log["updated"]
  IN  /\ \A i \in 1..Len(U) :
           /\ U[i].id <= counter
           /\ U[i].final /\ U[i].id = counter => event = "final" /\ step = "finalized"
      /\ \A i, j \in 1..Len(U) :
           i < j => U[i].id <= U[j].id /\ (U[i].final => U[i].id < U[j].id)

\* What the window shows as final it has received as final.
Shown ==
  \A id \in DOMAIN snapshot :
    snapshot[id] => /\ "ui" \in Consumers
                    /\ \E i \in 1..at["ui"]["updated"] : log["updated"][i] = Segment(id, TRUE)

IInv ==
  /\ ProducerTypes /\ ConsumerTypes
  /\ Stored /\ Ordered /\ Shown
  /\ NothingSkipped /\ SessionEndsOnce

LEMMA Typed == IInv => TypeOK
<1> SUFFICES ASSUME IInv
             PROVE  TypeOK
  OBVIOUS
<1>1. ProducerTypes /\ ConsumerTypes
  BY DEF IInv
<1>2. Range(task) \subseteq {"spawned", "loading", "running", "summarizing", "ended"} /\ Range(snapshot) \subseteq BOOLEAN
  BY <1>1 DEF ConsumerTypes, Range, Consumers, States
<1>3. ASSUME NEW c \in Consumers, NEW s \in Subjects
      PROVE  at[c][s] \in 0..Len(log[s])
  <2>1. at[c][s] \in Nat /\ at[c][s] <= Len(log[s]) /\ Len(log[s]) \in Nat
    BY <1>1 DEF ProducerTypes, ConsumerTypes
  <2> QED
    BY <2>1
<1>4. /\ rows \subseteq [id : Ids, final : BOOLEAN] /\ buffer \subseteq [id : Ids, final : BOOLEAN]
      /\ log \in [Subjects -> Seq([id : Ids, final : BOOLEAN])]
      /\ {turns, plugin} \subseteq Seq([from : {"live", "row"}, id : Ids])
  BY <1>1 DEF ProducerTypes, ConsumerTypes, Messages, TurnSet
<1> QED
  BY <1>1, <1>2, <1>3, <1>4 DEF ProducerTypes, ConsumerTypes, TypeOK

LEMMA InitIInv == Init => IInv
<1> SUFFICES ASSUME Init
             PROVE  IInv
  OBVIOUS
<1>1. PICK team \in Teams :
        task = [c \in team |-> "spawned"] /\ at = [c \in team |-> [s \in Subjects |-> 0]]
  BY DEF Init
<1>2. Consumers = team
  BY <1>1 DEF Consumers
<1>3. \A s \in Subjects : log[s] = <<>> /\ Len(log[s]) = 0
  BY DEF Init
<1>4. MaxSegments \in Nat /\ 0 \in Ids
  BY FlowAssumption DEF Ids
<1>5. ProducerTypes
  BY <1>4, FlowAssumption DEF Init, ProducerTypes
<1>6. DOMAIN snapshot = {} /\ turns = <<>> /\ plugin = <<>> /\ buffer = {}
  BY DEF Init
<1>7. ConsumerTypes
  <2>1. task \in [Consumers -> States] /\ at \in [Consumers -> [Subjects -> Nat]]
    BY <1>1, <1>2 DEF States
  <2>2. \A c \in Consumers, s \in Subjects : at[c][s] <= Len(log[s])
    BY <1>1, <1>2, <1>3
  <2>3. turns \in Seq(TurnSet) /\ plugin \in Seq(TurnSet)
    BY <1>6
  <2>4. ends \in Nat /\ timer \in BOOLEAN /\ hints \in 0..MaxSegments /\ summaries \subseteq {"summary", "rhai"}
    <3>1. ends = 0 /\ timer = FALSE /\ hints = 0 /\ summaries = {}
      BY DEF Init
    <3>2. 0 \in 0..MaxSegments
      BY <1>4
    <3> QED
      BY <3>1, <3>2
  <2>5. DOMAIN snapshot \subseteq Ids /\ (\A id \in DOMAIN snapshot : snapshot[id] \in BOOLEAN) /\ buffer \subseteq Messages
    BY <1>6
  <2> QED
    BY <1>1, <1>2, <2>1, <2>2, <2>3, <2>4, <2>5 DEF ConsumerTypes
<1>8. Stored /\ Shown
  BY <1>6 DEF Init, Stored, Shown
<1>9. Ordered
  BY <1>3 DEF Ordered, Subjects
<1>10. NothingSkipped /\ SessionEndsOnce
  BY <1>1, <1>2 DEF Init, NothingSkipped, SessionEndsOnce
<1> QED
  BY <1>5, <1>7, <1>8, <1>9, <1>10 DEF IInv

-----------------------------------------------------------------------------
(* Load: the final rows in their order.                                    *)

Below(S, id) == Cardinality({j \in S : j < id})

LEMMA BelowCounts ==
  ASSUME NEW S, IsFiniteSet(S), S \subseteq Nat, NEW id \in S
  PROVE  /\ Below(S, id) \in 0..(Cardinality(S) - 1)
         /\ \A k \in S : k # id => Below(S, k) # Below(S, id)
<1>1. ASSUME NEW a \in S, NEW b \in S, a < b
      PROVE  Below(S, a) < Below(S, b)
  <2> DEFINE A == {j \in S : j < a}
             B == {j \in S : j < b}
  <2>1. A \subseteq B /\ a \in B /\ a \notin A /\ B \subseteq S
    <3>1. a \in Nat /\ b \in Nat /\ \A j \in S : j \in Nat
      OBVIOUS
    <3>2. \A j \in S : j < a => j < b
      BY <1>1, <3>1
    <3>3. A \subseteq B
      BY <3>2
    <3>4. a \notin A
      BY <3>1
    <3>5. a \in B /\ B \subseteq S
      BY <1>1
    <3> QED
      BY <3>3, <3>4, <3>5
  <2>2. IsFiniteSet(B)
    BY <2>1, FS_Subset
  <2>3. A # B
    BY <2>1
  <2> HIDE DEF A, B
  <2>4. IsFiniteSet(A) /\ Cardinality(A) <= Cardinality(B) /\ Cardinality(A) # Cardinality(B)
    BY <2>1, <2>2, <2>3, FS_Subset
  <2>5. Cardinality(A) \in Nat /\ Cardinality(B) \in Nat
    BY <2>2, <2>4, FS_CardinalityType
  <2> QED
    BY <2>4, <2>5 DEF Below, A, B
<1>2. ASSUME NEW k \in S
      PROVE  Below(S, k) \in 0..(Cardinality(S) - 1)
  <2> DEFINE A == {j \in S : j < k}
  <2>1. A \subseteq S /\ k \notin A /\ A # S
    BY <1>2
  <2> HIDE DEF A
  <2>2. IsFiniteSet(A) /\ Cardinality(A) <= Cardinality(S) /\ Cardinality(A) # Cardinality(S)
    BY <2>1, FS_Subset
  <2>3. Cardinality(A) \in Nat /\ Cardinality(S) \in Nat
    BY <2>2, FS_CardinalityType
  <2> QED
    BY <2>2, <2>3 DEF Below, A
<1>3. ASSUME NEW k \in S, k # id
      PROVE  Below(S, k) # Below(S, id)
  <2>1. k < id \/ id < k
    BY <1>3
  <2>2. Below(S, k) \in Int /\ Below(S, id) \in Int
    BY <1>2
  <2> QED
    BY <1>1, <2>1, <2>2
<1> QED
  BY <1>2, <1>3

\* Counting the smaller ones numbers a set through.
LEMMA EveryRank ==
  ASSUME NEW S, IsFiniteSet(S), S \subseteq Nat, NEW i \in 1..Cardinality(S)
  PROVE  \E id \in S : Below(S, id) = i - 1
<1> DEFINE n == Cardinality(S)
           ranks == {r \in 0..(n - 1) : \E id \in S : r = Below(S, id)}
           f == [id \in S |-> Below(S, id)]
<1>1. n \in Nat
  BY FS_CardinalityType
<1>2. \A id \in S : Below(S, id) \in 0..(n - 1)
  BY BelowCounts
<1>3. f \in Surjection(S, ranks)
  BY <1>2 DEF Surjection
<1>4. f \in Injection(S, ranks)
  <2>1. \A a, b \in S : f[a] = f[b] => a = b
    BY BelowCounts
  <2>2. f \in [S -> ranks]
    BY <1>2
  <2> QED
    BY <2>1, <2>2 DEF Injection, IsInjective
<1> HIDE DEF ranks, f, n
<1>5. IsFiniteSet(ranks) /\ Cardinality(ranks) = n
  BY <1>3, <1>4, FS_Surjection DEF n
<1>6. IsFiniteSet(0..(n - 1)) /\ Cardinality(0..(n - 1)) = n
  <2>1. IsFiniteSet(0..(n - 1)) /\ Cardinality(0..(n - 1)) = IF 0 > n - 1 THEN 0 ELSE (n - 1) - 0 + 1
    BY <1>1, FS_Interval
  <2> QED
    BY <1>1, <2>1
<1>7. ranks \subseteq 0..(n - 1)
  BY DEF ranks
<1>8. ranks = 0..(n - 1)
  BY <1>5, <1>6, <1>7, FS_Subset
<1>9. i - 1 \in ranks
  BY <1>1, <1>8 DEF n
<1> QED
  BY <1>9 DEF ranks

LEMMA LoadHasAll ==
  ASSUME rows \subseteq Messages, NEW seq \in Seq(TurnSet)
  PROVE  /\ Load(seq) \in Seq(TurnSet)
         /\ \A r \in rows : r.final => \E t \in ToSet(Load(seq)) : t.id = r.id
<1> DEFINE known == {t.id : t \in {u \in ToSet(seq) : u.from = "row"}}
           new == {r.id : r \in {q \in rows : q.final}} \ known
           nth(i) == CHOOSE id \in new : Cardinality({j \in new : j < id}) = i - 1
           n == Cardinality(new)
           tail == [i \in 1..n |-> Turn("row", nth(i))]
<1>1. Load(seq) = seq \o tail
  BY DEF Load
<1>2. MaxSegments \in Nat /\ new \subseteq Ids
  BY FlowAssumption DEF Messages
<1>3. IsFiniteSet(new) /\ new \subseteq Nat /\ n \in Nat
  <2>1. IsFiniteSet(Ids)
    BY <1>2, FS_Interval DEF Ids
  <2>2. IsFiniteSet(new)
    BY <1>2, <2>1, FS_Subset
  <2> QED
    BY <1>2, <2>2, FS_CardinalityType DEF Ids
<1>4. \A r \in rows : r.final => r.id \in new \/ r.id \in known
  OBVIOUS
<1> HIDE DEF new, n
<1>5. ASSUME NEW i \in 1..n
      PROVE  nth(i) \in new /\ Below(new, nth(i)) = i - 1
  <2>1. \E id \in new : Cardinality({j \in new : j < id}) = i - 1
    BY <1>3, <1>5, EveryRank DEF Below, n
  <2>2. nth(i) \in new /\ Cardinality({j \in new : j < nth(i)}) = i - 1
    BY <2>1
  <2> QED
    BY <2>2 DEF Below
<1>6. ASSUME NEW id \in new
      PROVE  \E i \in 1..n : nth(i) = id
  <2> DEFINE i == Below(new, id) + 1
  <2>1. i \in 1..n /\ i - 1 = Below(new, id)
    <3>1. Below(new, id) \in 0..(n - 1)
      BY <1>3, BelowCounts DEF n
    <3> HIDE DEF n
    <3> QED
      BY <1>3, <3>1
  <2>2. nth(i) \in new /\ Below(new, nth(i)) = Below(new, id)
    BY <1>5, <2>1
  <2>3. nth(i) = id
    BY <1>3, <2>2, BelowCounts
  <2> QED
    BY <2>1, <2>3
<1> HIDE DEF nth
<1>7. tail \in Seq(TurnSet) /\ Len(tail) = n /\ \A i \in 1..n : tail[i].id = nth(i)
  <2>1. \A i \in 1..n : Turn("row", nth(i)) \in TurnSet /\ Turn("row", nth(i)).id = nth(i)
    BY <1>2, <1>5 DEF Turn, TurnSet
  <2> QED
    BY <1>3, <2>1
<1> HIDE DEF tail
<1>8. /\ Load(seq) \in Seq(TurnSet) /\ Len(Load(seq)) = Len(seq) + n /\ Len(seq) \in Nat
      /\ \A i \in 1..Len(seq) : Load(seq)[i] = seq[i]
      /\ \A i \in 1..n : Load(seq)[Len(seq) + i] = tail[i]
  <2>1. Len(seq) \in Nat /\ n \in Nat
    BY <1>3
  <2>2. seq \o tail \in Seq(TurnSet) /\ Len(seq \o tail) = Len(seq) + n
    BY <1>7
  <2>3. \A i \in 1..(Len(seq) + n) :
          (seq \o tail)[i] = IF i <= Len(seq) THEN seq[i] ELSE tail[i - Len(seq)]
    BY <1>7
  <2>4. ASSUME NEW i \in 1..Len(seq)
        PROVE  (seq \o tail)[i] = seq[i]
    BY <2>1, <2>3
  <2>5. ASSUME NEW i \in 1..n
        PROVE  (seq \o tail)[Len(seq) + i] = tail[i]
    <3> DEFINE k == Len(seq) + i
    <3>1. k \in 1..(Len(seq) + n) /\ ~(k <= Len(seq)) /\ k - Len(seq) = i
      BY <2>1
    <3> HIDE DEF k
    <3>2. (seq \o tail)[k] = tail[k - Len(seq)]
      BY <2>3, <3>1
    <3> QED
      BY <3>1, <3>2 DEF k
  <2> QED
    BY <1>1, <2>1, <2>2, <2>4, <2>5
<1>9. ASSUME NEW r \in rows, r.final
      PROVE  \E t \in ToSet(Load(seq)) : t.id = r.id
  <2>1. CASE r.id \in known
    <3>1. PICK t \in ToSet(seq) : t.id = r.id
      BY <2>1
    <3>2. PICK i \in 1..Len(seq) : seq[i] = t
      BY <3>1 DEF ToSet
    <3>3. i \in 1..Len(Load(seq)) /\ Load(seq)[i] = t
      BY <1>3, <1>8, <3>2
    <3>4. t \in ToSet(Load(seq))
      BY <1>8, <3>3 DEF ToSet
    <3> QED
      BY <3>1, <3>4
  <2>2. CASE r.id \in new
    <3>1. PICK i \in 1..n : nth(i) = r.id
      BY <1>6, <2>2
    <3>2. Len(seq) + i \in 1..Len(Load(seq)) /\ Load(seq)[Len(seq) + i].id = r.id
      BY <1>3, <1>7, <1>8, <3>1
    <3>3. Load(seq)[Len(seq) + i] \in ToSet(Load(seq))
      BY <1>8, <3>2 DEF ToSet
    <3> QED
      BY <3>2, <3>3
  <2> QED
    BY <1>4, <1>9, <2>1, <2>2
<1> QED
  BY <1>8, <1>9

-----------------------------------------------------------------------------
(* The producer: a subject's log only grows.                               *)

Grows ==
  /\ log' \in [Subjects -> Seq(Messages)]
  /\ \A s \in Subjects :
       /\ Len(log[s]) <= Len(log'[s])
       /\ \A i \in 1..Len(log[s]) : log'[s][i] = log[s][i]

LEMMA Published ==
  ASSUME ProducerTypes, NEW s \in Subjects, NEW STATE m, m \in Messages, Publish(s, m)
  PROVE  /\ Grows
         /\ \A t \in Subjects \ {s} : log'[t] = log[t]
         /\ \/ log'[s] = log[s] /\ ~\E c \in Consumers : Subscribed(c) /\ s \in Feeds(c)
            \/ Len(log'[s]) = Len(log[s]) + 1 /\ log'[s][Len(log[s]) + 1] = m
<1>1. log \in [Subjects -> Seq(Messages)] /\ \A t \in Subjects : Len(log[t]) \in Nat
  BY DEF ProducerTypes
<1>2. CASE \E c \in Consumers : Subscribed(c) /\ s \in Feeds(c)
  <2>1. log' = [log EXCEPT ![s] = Append(@, m)]
    BY <1>2 DEF Publish
  <2>2. log'[s] = Append(log[s], m) /\ \A t \in Subjects \ {s} : log'[t] = log[t]
    BY <1>1, <2>1
  <2>3. /\ Append(log[s], m) \in Seq(Messages) /\ Len(Append(log[s], m)) = Len(log[s]) + 1
        /\ \A i \in 1..Len(log[s]) : Append(log[s], m)[i] = log[s][i]
        /\ Append(log[s], m)[Len(log[s]) + 1] = m
    BY <1>1
  <2> QED
    BY <1>1, <2>1, <2>2, <2>3 DEF Grows
<1>3. CASE ~\E c \in Consumers : Subscribed(c) /\ s \in Feeds(c)
  BY <1>1, <1>3 DEF Publish, Grows
<1> QED
  BY <1>2, <1>3

\* What the tasks have is as good as before while the log only grows.
LEMMA ProducerSide ==
  ASSUME IInv, Grows, UNCHANGED <<task, at, uiVars, turns, pluginVars, summaries>>
  PROVE  /\ ConsumerTypes' /\ Shown' /\ SessionEndsOnce'
         /\ UNCHANGED <<row, finals>> => NothingSkipped'
<1>1. ProducerTypes /\ ConsumerTypes
  BY DEF IInv
<1>2. UNCHANGED <<task, at, snapshot, buffer, turns, plugin, ends, timer, hints, summaries>> /\ Consumers' = Consumers
  BY DEF uiVars, pluginVars, Consumers
<1>3. /\ {"updated", "finalized"} \subseteq Subjects
      /\ \A s \in Subjects : Len(log[s]) \in Nat /\ Len(log'[s]) \in Nat
  BY <1>1 DEF ProducerTypes, Grows, Subjects
<1>4. ASSUME NEW c \in Consumers, NEW s \in Subjects
      PROVE  at[c][s] \in Nat /\ at[c][s] <= Len(log[s]) /\ at[c][s] <= Len(log'[s])
  <2>1. at[c][s] \in Nat /\ at[c][s] <= Len(log[s])
    BY <1>1 DEF ConsumerTypes
  <2> QED
    BY <1>3, <2>1 DEF Grows
<1>5. ConsumerTypes'
  BY <1>1, <1>2, <1>4 DEF ConsumerTypes
<1>6. Shown'
  <2> SUFFICES ASSUME NEW id \in DOMAIN snapshot, snapshot[id]
               PROVE  /\ "ui" \in Consumers
                      /\ \E i \in 1..at["ui"]["updated"] : log'["updated"][i] = Segment(id, TRUE)
    BY <1>2 DEF Shown
  <2>1. "ui" \in Consumers
    BY DEF IInv, Shown
  <2>2. PICK i \in 1..at["ui"]["updated"] : log["updated"][i] = Segment(id, TRUE)
    BY DEF IInv, Shown
  <2>3. i \in 1..Len(log["updated"])
    BY <1>3, <1>4, <2>1
  <2>4. log'["updated"][i] = log["updated"][i]
    BY <1>3, <2>3 DEF Grows
  <2> QED
    BY <2>1, <2>2, <2>4
<1>7. SessionEndsOnce'
  BY <1>2 DEF IInv, SessionEndsOnce
<1>8. ASSUME UNCHANGED <<row, finals>>
      PROVE  NothingSkipped'
  <2> SUFFICES ASSUME row, "summary" \in Consumers, task["summary"] = "running", NEW id \in finals,
                      ~\E t \in ToSet(turns) : t.id = id
               PROVE  \E i \in (at["summary"]["finalized"] + 1)..Len(log'["finalized"]) :
                        log'["finalized"][i].id = id
    BY <1>2, <1>8 DEF NothingSkipped
  <2>1. PICK i \in (at["summary"]["finalized"] + 1)..Len(log["finalized"]) : log["finalized"][i].id = id
    BY DEF IInv, NothingSkipped
  <2>2. i \in 1..Len(log["finalized"]) /\ i \in (at["summary"]["finalized"] + 1)..Len(log'["finalized"])
    BY <1>3, <1>4, <2>1 DEF Grows
  <2>3. log'["finalized"][i] = log["finalized"][i]
    BY <1>3, <2>2 DEF Grows
  <2> QED
    BY <2>1, <2>2, <2>3
<1> QED
  BY <1>5, <1>6, <1>7, <1>8

LEMMA NothingPublished ==
  ASSUME IInv, UNCHANGED log
  PROVE  Grows
BY DEF IInv, ProducerTypes, Grows

LEMMA HearsKeeps ==
  ASSUME IInv, NEW kind \in {"interim", "final"}, Hears(kind)
  PROVE  IInv'
<1>1. ConsumerTypes' /\ Shown' /\ SessionEndsOnce' /\ NothingSkipped'
  <2>1. UNCHANGED <<row, finals, log, task, at, uiVars, turns, pluginVars, summaries>>
    BY DEF Hears
  <2> QED
    BY <2>1, NothingPublished, ProducerSide
<1>2. /\ event = "none" /\ counter < MaxSegments /\ event' = kind /\ step' = "store"
      /\ UNCHANGED <<row, recording, counter, rows, finals, log>>
  BY DEF Hears
<1>3. ProducerTypes'
  BY <1>2 DEF IInv, ProducerTypes
<1>4. Stored' /\ Ordered'
  BY <1>2 DEF IInv, Stored, Ordered
<1> QED
  BY <1>1, <1>3, <1>4 DEF IInv

LEMMA StoreKeeps == IInv /\ Store => IInv'
<1> SUFFICES ASSUME IInv, Store
             PROVE  IInv'
  OBVIOUS
<1>1. ConsumerTypes' /\ Shown' /\ SessionEndsOnce' /\ NothingSkipped'
  <2>1. UNCHANGED <<row, finals, log, task, at, uiVars, turns, pluginVars, summaries>>
    BY DEF Store
  <2> QED
    BY <2>1, NothingPublished, ProducerSide
<1>2. /\ event # "none" /\ step = "store" /\ step' = "updated"
      /\ rows' = IF row THEN rows \cup {Segment(counter, event = "final")} ELSE rows
      /\ UNCHANGED <<row, recording, counter, event, finals, log>>
  BY DEF Store
<1>3. Segment(counter, event = "final") \in Messages
  BY DEF Segment, Messages, IInv, ProducerTypes
<1>4. ProducerTypes'
  BY <1>2, <1>3 DEF IInv, ProducerTypes
<1>5. Stored'
  <2>1. event = "final" => Segment(counter, event = "final") = Segment(counter, TRUE)
    OBVIOUS
  <2> QED
    BY <1>2, <2>1 DEF IInv, Stored
<1>6. Ordered'
  BY <1>2 DEF IInv, Ordered
<1> QED
  BY <1>1, <1>4, <1>5, <1>6 DEF IInv

LEMMA PublishUpdatedKeeps == IInv /\ PublishUpdated => IInv'
<1> SUFFICES ASSUME IInv, PublishUpdated
             PROVE  IInv'
  OBVIOUS
<1> DEFINE m == Segment(counter, event = "final")
           U == log["updated"]
<1>1. ProducerTypes
  BY DEF IInv
<1>2. m \in Messages /\ m.id = counter /\ (m.final <=> event = "final")
  BY <1>1 DEF Segment, Messages, ProducerTypes
<1>3. "updated" \in Subjects /\ Publish("updated", m)
  BY DEF PublishUpdated, Subjects
<1> HIDE DEF m
<1>4. /\ Grows
      /\ U' = U \/ (Len(U') = Len(U) + 1 /\ U'[Len(U) + 1] = m)
  BY <1>1, <1>2, <1>3, Published
<1>5. /\ event # "none" /\ step = "updated"
      /\ step' = IF event = "final" THEN "finalized" ELSE "store"
      /\ event' = IF event = "final" THEN event ELSE "none"
      /\ UNCHANGED <<row, recording, counter, rows, finals>>
  BY DEF PublishUpdated
<1>6. ConsumerTypes' /\ Shown' /\ SessionEndsOnce' /\ NothingSkipped'
  <2>1. UNCHANGED <<row, finals, task, at, uiVars, turns, pluginVars, summaries>>
    BY DEF PublishUpdated
  <2> QED
    BY <1>4, <2>1, ProducerSide
<1>7. ProducerTypes'
  BY <1>1, <1>4, <1>5 DEF ProducerTypes, Grows
<1>8. Stored'
  BY <1>5 DEF IInv, Stored
<1>9. Ordered'
  <2>1. /\ U \in Seq(Messages) /\ Len(U) \in Nat /\ counter \in Nat
        /\ \A i \in 1..Len(U) : U[i].id \in Nat /\ U'[i] = U[i]
    <3>1. U \in Seq(Messages) /\ Len(U) \in Nat
      BY <1>1, <1>3 DEF ProducerTypes
    <3>2. Ids \subseteq Nat /\ counter \in Nat
      BY <1>1, FlowAssumption DEF ProducerTypes, Ids
    <3>3. \A i \in 1..Len(U) : U[i] \in Messages /\ U'[i] = U[i]
      BY <1>3, <1>4, <3>1 DEF Grows
    <3> QED
      BY <3>1, <3>2, <3>3 DEF Messages
  <2>2. ASSUME NEW i \in 1..Len(U)
        PROVE  U[i].id <= counter /\ (U[i].final => U[i].id < counter)
    <3>1. U[i].id <= counter /\ (U[i].final => U[i].id # counter)
      BY <1>5 DEF IInv, Ordered
    <3> QED
      BY <2>1, <3>1
  <2>3. \A i, j \in 1..Len(U) : i < j => U[i].id <= U[j].id /\ (U[i].final => U[i].id < U[j].id)
    BY DEF IInv, Ordered
  <2> HIDE DEF U
  <2>4. CASE U' = U
    <3>1. \A i \in 1..Len(U') : U'[i].id <= counter /\ (U'[i].final => U'[i].id # counter)
      BY <2>1, <2>2, <2>4
    <3> QED
      BY <1>5, <2>3, <2>4, <3>1 DEF Ordered, U
  <2>5. CASE Len(U') = Len(U) + 1 /\ U'[Len(U) + 1] = m
    <3>1. ASSUME NEW i \in 1..Len(U')
          PROVE  i \in 1..Len(U) \/ (i = Len(U) + 1 /\ U'[i] = m)
      BY <2>1, <2>5
    <3>2. ASSUME NEW i \in 1..Len(U')
          PROVE  /\ U'[i].id <= counter'
                 /\ U'[i].final /\ U'[i].id = counter' => event' = "final" /\ step' = "finalized"
      <4>1. CASE i \in 1..Len(U)
        BY <1>5, <2>1, <2>2, <4>1
      <4>2. CASE U'[i] = m
        BY <1>2, <1>5, <2>1, <4>2
      <4> QED
        BY <3>1, <4>1, <4>2
    <3>3. ASSUME NEW i \in 1..Len(U'), NEW j \in 1..Len(U'), i < j
          PROVE  U'[i].id <= U'[j].id /\ (U'[i].final => U'[i].id < U'[j].id)
      <4>1. i \in 1..Len(U)
        BY <2>1, <2>5, <3>3
      <4>2. CASE j \in 1..Len(U)
        BY <2>1, <2>3, <3>3, <4>1, <4>2
      <4>3. CASE U'[j] = m
        BY <1>2, <2>1, <2>2, <4>1, <4>3
      <4> QED
        BY <3>1, <4>2, <4>3
    <3> QED
      BY <3>2, <3>3 DEF Ordered, U
  <2> QED
    BY <1>4, <2>4, <2>5 DEF U
<1> QED
  BY <1>6, <1>7, <1>8, <1>9 DEF IInv

LEMMA PublishFinalizedKeeps == IInv /\ PublishFinalized => IInv'
<1> SUFFICES ASSUME IInv, PublishFinalized
             PROVE  IInv'
  OBVIOUS
<1> DEFINE m == Segment(counter, TRUE)
           F == log["finalized"]
<1>1. ProducerTypes /\ ConsumerTypes
  BY DEF IInv
<1>2. m \in Messages /\ m.id = counter
  BY <1>1 DEF Segment, Messages, ProducerTypes
<1>3. {"updated", "finalized"} \subseteq Subjects /\ Publish("finalized", m)
  BY DEF PublishFinalized, Subjects
<1> HIDE DEF m
<1>4. /\ Grows /\ log'["updated"] = log["updated"]
      /\ \/ F' = F /\ ~\E c \in Consumers : Subscribed(c) /\ "finalized" \in Feeds(c)
         \/ Len(F') = Len(F) + 1 /\ F'[Len(F) + 1] = m
  BY <1>1, <1>2, <1>3, Published
<1>5. /\ event # "none" /\ step = "finalized" /\ step' = "store" /\ event' = "none"
      /\ finals' = finals \cup {counter} /\ counter' = counter + 1
      /\ UNCHANGED <<row, recording, rows>>
      /\ UNCHANGED <<task, at, uiVars, turns, pluginVars, summaries>>
  BY DEF PublishFinalized, NextCounter
<1>6. ConsumerTypes' /\ Shown' /\ SessionEndsOnce'
  BY <1>4, <1>5, ProducerSide
<1>7. MaxSegments \in Nat /\ counter \in Nat /\ event = "final" /\ counter' \in Ids
  BY <1>1, <1>5, FlowAssumption DEF ProducerTypes, Ids
<1>8. ProducerTypes'
  BY <1>1, <1>4, <1>5, <1>7 DEF ProducerTypes, Grows
<1>9. Stored'
  BY <1>5, <1>7 DEF IInv, Stored
<1>10. Ordered'
  <2> DEFINE U == log["updated"]
  <2>1. \A i \in 1..Len(U) : U[i].id \in Nat /\ U[i].id <= counter
    <3>1. U \in Seq(Messages) /\ Ids \subseteq Nat
      BY <1>1, <1>3, FlowAssumption DEF ProducerTypes, Ids
    <3>2. ASSUME NEW i \in 1..Len(U)
          PROVE  U[i].id \in Nat
      <4> HIDE DEF U
      <4>1. U[i] \in Messages
        BY <3>1
      <4> QED
        BY <3>1, <4>1 DEF Messages
    <3> QED
      BY <3>2 DEF IInv, Ordered
  <2>2. \A i \in 1..Len(U) : U[i].id <= counter' /\ U[i].id # counter'
    BY <1>5, <1>7, <2>1
  <2>3. \A i, j \in 1..Len(U) : i < j => U[i].id <= U[j].id /\ (U[i].final => U[i].id < U[j].id)
    BY DEF IInv, Ordered
  <2> QED
    BY <1>4, <2>2, <2>3 DEF Ordered
<1>11. NothingSkipped'
  <2> SUFFICES ASSUME row, "summary" \in Consumers, task["summary"] = "running", NEW id \in finals',
                      ~\E t \in ToSet(turns) : t.id = id
               PROVE  \E i \in (at["summary"]["finalized"] + 1)..Len(F') : F'[i].id = id
    <3>1. UNCHANGED <<row, task, at, turns>> /\ Consumers' = Consumers
      BY <1>5 DEF Consumers
    <3> QED
      BY <3>1 DEF NothingSkipped
  <2>1. Subscribed("summary") /\ "finalized" \in Feeds("summary")
    BY DEF Subscribed, Feeds
  <2>2. Len(F') = Len(F) + 1 /\ F'[Len(F) + 1] = m
    BY <1>4, <2>1
  <2>3. Len(F) \in Nat /\ at["summary"]["finalized"] \in Nat /\ at["summary"]["finalized"] <= Len(F)
    BY <1>1, <1>3 DEF ProducerTypes, ConsumerTypes
  <2>4. \A i \in 1..Len(F) : F'[i] = F[i]
    BY <1>3, <1>4 DEF Grows
  <2> HIDE DEF F
  <2>5. CASE id = counter
    <3>1. Len(F) + 1 \in (at["summary"]["finalized"] + 1)..Len(F')
      BY <2>2, <2>3
    <3> QED
      BY <1>2, <2>2, <2>5, <3>1
  <2>6. CASE id \in finals
    <3>1. PICK i \in (at["summary"]["finalized"] + 1)..Len(F) : F[i].id = id
      BY <2>6 DEF IInv, NothingSkipped, F
    <3>2. i \in (at["summary"]["finalized"] + 1)..Len(F') /\ i \in 1..Len(F)
      BY <2>2, <2>3, <3>1
    <3> QED
      BY <2>4, <3>1, <3>2
  <2> QED
    BY <1>5, <2>5, <2>6
<1> QED
  BY <1>6, <1>8, <1>9, <1>10, <1>11 DEF IInv

\* The end of a session and its stop are published on subjects of their own.
LEMMA EndKeeps ==
  ASSUME IInv, SessionEnd \/ Stop
  PROVE  IInv'
<1>1. PICK s \in {"ended", "stopped"} : Publish(s, Segment(0, TRUE)) \/ Publish(s, Segment(counter, TRUE))
  BY DEF SessionEnd, Stop, PublishStopped
<1>2. Segment(0, TRUE) \in Messages /\ Segment(counter, TRUE) \in Messages
  BY FlowAssumption DEF IInv, ProducerTypes, Segment, Messages, Ids
<1>3. Grows /\ log'["updated"] = log["updated"]
  <2>1. s \in Subjects /\ "updated" \in Subjects \ {s} /\ ProducerTypes
    BY DEF Subjects, IInv
  <2> QED
    BY <1>1, <1>2, <2>1, Published
<1>4. /\ UNCHANGED <<row, counter, event, step, rows, finals, task, at, uiVars, turns, pluginVars, summaries>>
      /\ recording' \in {"finalized", "stopped"}
  BY DEF SessionEnd, Stop
<1>5. ConsumerTypes' /\ Shown' /\ SessionEndsOnce' /\ NothingSkipped'
  BY <1>3, <1>4, ProducerSide
<1>6. ProducerTypes'
  BY <1>3, <1>4 DEF IInv, ProducerTypes, Grows
<1>7. Stored' /\ Ordered'
  BY <1>3, <1>4 DEF IInv, Stored, Ordered
<1> QED
  BY <1>5, <1>6, <1>7 DEF IInv

LEMMA CaptureOverKeeps == IInv /\ CaptureOver => IInv'
<1> SUFFICES ASSUME IInv, CaptureOver
             PROVE  IInv'
  OBVIOUS
<1>1. /\ UNCHANGED <<row, counter, event, step, rows, finals, log, task, at, uiVars, turns, pluginVars, summaries>>
      /\ recording' = "over"
  BY DEF CaptureOver
<1>2. ConsumerTypes' /\ Shown' /\ SessionEndsOnce' /\ NothingSkipped'
  BY <1>1, NothingPublished, ProducerSide
<1>3. ProducerTypes' /\ Stored' /\ Ordered'
  BY <1>1 DEF IInv, ProducerTypes, Stored, Ordered
<1> QED
  BY <1>2, <1>3 DEF IInv

-----------------------------------------------------------------------------
(* The tasks: one of them moves, past no message that is not there.        *)

OnlyOf(c) ==
  /\ UNCHANGED <<producer, log>>
  /\ task' \in [Consumers -> States] /\ at' \in [Consumers -> [Subjects -> Nat]]
  /\ \A d \in Consumers \ {c} : task'[d] = task[d] /\ at'[d] = at[d]
  /\ \A s \in Subjects : at[c][s] <= at'[c][s] /\ at'[c][s] <= Len(log[s])

\* The rest of what a task's step may change.
Results ==
  /\ DOMAIN snapshot' \subseteq Ids /\ \A id \in DOMAIN snapshot' : snapshot'[id] \in BOOLEAN
  /\ buffer' \subseteq Messages
  /\ turns' \in Seq(TurnSet) /\ plugin' \in Seq(TurnSet)
  /\ ends' \in Nat /\ timer' \in BOOLEAN /\ hints' \in 0..MaxSegments
  /\ summaries' \subseteq {"summary", "rhai"}

LEMMA SameResults ==
  ASSUME IInv
  PROVE  /\ UNCHANGED uiVars =>
              /\ DOMAIN snapshot' \subseteq Ids /\ \A id \in DOMAIN snapshot' : snapshot'[id] \in BOOLEAN
              /\ buffer' \subseteq Messages
         /\ UNCHANGED turns => turns' \in Seq(TurnSet)
         /\ UNCHANGED plugin => plugin' \in Seq(TurnSet)
         /\ UNCHANGED <<ends, timer, hints>> => ends' \in Nat /\ timer' \in BOOLEAN /\ hints' \in 0..MaxSegments
         /\ UNCHANGED summaries => summaries' \subseteq {"summary", "rhai"}
BY DEF IInv, ConsumerTypes, uiVars

LEMMA ConsumerSide ==
  ASSUME IInv, NEW c \in Consumers, OnlyOf(c), Results
  PROVE  /\ ProducerTypes' /\ ConsumerTypes' /\ Stored' /\ Ordered'
         /\ Consumers' = Consumers
         /\ UNCHANGED snapshot => Shown'
         /\ c # "summary" /\ UNCHANGED turns => NothingSkipped'
         /\ c # "rhai" /\ UNCHANGED ends => SessionEndsOnce'
<1>1. ProducerTypes /\ ConsumerTypes
  BY DEF IInv
<1>2. UNCHANGED <<row, recording, counter, event, step, rows, finals, log>>
  BY DEF OnlyOf, producer
<1>3. Consumers' = Consumers
  BY DEF OnlyOf, Consumers
<1>4. ASSUME NEW d \in Consumers, NEW s \in Subjects
      PROVE  at[d][s] \in Nat /\ at'[d][s] \in Nat /\ at[d][s] <= at'[d][s] /\ at'[d][s] <= Len(log[s])
  <2>1. at[d][s] \in Nat /\ at'[d][s] \in Nat /\ at[d][s] <= Len(log[s])
    BY <1>1 DEF OnlyOf, ConsumerTypes
  <2>2. at[d][s] <= at'[d][s] /\ at'[d][s] <= Len(log[s])
    <3>1. CASE d = c
      BY <3>1 DEF OnlyOf
    <3>2. CASE d # c
      <4>1. at'[d] = at[d]
        BY <3>2 DEF OnlyOf
      <4> QED
        BY <2>1, <4>1
    <3> QED
      BY <3>1, <3>2
  <2> QED
    BY <2>1, <2>2
<1>5. ProducerTypes' /\ Stored' /\ Ordered'
  BY <1>2 DEF IInv, ProducerTypes, Stored, Ordered
<1>6. ConsumerTypes'
  BY <1>1, <1>2, <1>3, <1>4 DEF OnlyOf, Results, ConsumerTypes
<1>7. ASSUME UNCHANGED snapshot
      PROVE  Shown'
  <2> SUFFICES ASSUME NEW id \in DOMAIN snapshot, snapshot[id]
               PROVE  /\ "ui" \in Consumers
                      /\ \E i \in 1..at'["ui"]["updated"] : log["updated"][i] = Segment(id, TRUE)
    BY <1>2, <1>3, <1>7 DEF Shown
  <2>1. "ui" \in Consumers
    BY DEF IInv, Shown
  <2>2. PICK i \in 1..at["ui"]["updated"] : log["updated"][i] = Segment(id, TRUE)
    BY DEF IInv, Shown
  <2>3. i \in 1..at'["ui"]["updated"]
    BY <1>4, <2>1, <2>2 DEF Subjects
  <2> QED
    BY <2>1, <2>2, <2>3
<1>8. c # "summary" /\ UNCHANGED turns => NothingSkipped'
  BY <1>2, <1>3 DEF IInv, NothingSkipped, OnlyOf
<1>9. c # "rhai" /\ UNCHANGED ends => SessionEndsOnce'
  BY <1>3 DEF IInv, SessionEndsOnce, OnlyOf
<1> QED
  BY <1>3, <1>5, <1>6, <1>7, <1>8, <1>9

\* How a task's step moves on.
LEMMA Moved ==
  ASSUME IInv, NEW c \in Consumers, NEW s \in Subjects, UNCHANGED <<producer, log>>,
         NEW STATE n, n \in Nat, at[c][s] <= n, n <= Len(log[s]), Moves(c, s, n),
         NEW t \in States, UNCHANGED task \/ Becomes(c, t)
  PROVE  /\ OnlyOf(c) /\ at'[c][s] = n
         /\ task' = task \/ task'[c] = t
<1>1. task \in [Consumers -> States] /\ at \in [Consumers -> [Subjects -> Nat]]
  BY DEF IInv, ConsumerTypes
<1>2. /\ at' \in [Consumers -> [Subjects -> Nat]] /\ at'[c][s] = n
      /\ \A d \in Consumers \ {c} : at'[d] = at[d]
      /\ \A r \in Subjects \ {s} : at'[c][r] = at[c][r]
  BY <1>1 DEF Moves
<1>3. /\ task' \in [Consumers -> States] /\ \A d \in Consumers \ {c} : task'[d] = task[d]
      /\ task' = task \/ task'[c] = t
  BY <1>1 DEF Becomes
<1>4. ASSUME NEW r \in Subjects
      PROVE  at[c][r] <= at'[c][r] /\ at'[c][r] <= Len(log[r])
  <2>1. CASE r = s
    BY <1>2, <2>1
  <2>2. CASE r # s
    <3>1. at[c][r] \in Nat /\ at[c][r] <= Len(log[r]) /\ at'[c][r] = at[c][r]
      BY <1>1, <1>2, <2>2 DEF IInv, ConsumerTypes
    <3> QED
      BY <3>1
  <2> QED
    BY <2>1, <2>2
<1> QED
  BY <1>2, <1>3, <1>4 DEF OnlyOf

\* A step that only changes the task, or another part of its state.
LEMMA Stayed ==
  ASSUME IInv, NEW c \in Consumers, UNCHANGED <<producer, log, at>>,
         NEW t \in States, UNCHANGED task \/ Becomes(c, t)
  PROVE  OnlyOf(c) /\ (task' = task \/ task'[c] = t)
<1>1. task \in [Consumers -> States] /\ at \in [Consumers -> [Subjects -> Nat]]
  BY DEF IInv, ConsumerTypes
<1>2. \A s \in Subjects : at[c][s] \in Nat /\ at[c][s] <= Len(log[s])
  BY DEF IInv, ConsumerTypes
<1>3. /\ task' \in [Consumers -> States] /\ \A d \in Consumers \ {c} : task'[d] = task[d]
      /\ task' = task \/ task'[c] = t
  BY <1>1 DEF Becomes
<1> QED
  BY <1>1, <1>2, <1>3 DEF OnlyOf

LEMMA Received ==
  ASSUME IInv, NEW c, NEW s \in Subjects, Receives(c, s),
         NEW t \in States, UNCHANGED task \/ Becomes(c, t)
  PROVE  /\ c \in Consumers /\ task[c] = "running" /\ OnlyOf(c)
         /\ at'[c][s] = at[c][s] + 1 /\ at[c][s] \in Nat /\ Len(log[s]) \in Nat
         /\ at[c][s] + 1 \in 1..Len(log[s])
         /\ task' = task \/ task'[c] = t
<1>1. c \in Consumers /\ task[c] = "running" /\ at[c][s] < Len(log[s]) /\ Moves(c, s, at[c][s] + 1)
  BY DEF Receives, Unread
<1>2. UNCHANGED <<producer, log>>
  BY DEF Receives
<1>3. at[c][s] \in Nat /\ Len(log[s]) \in Nat
  BY <1>1 DEF IInv, ProducerTypes, ConsumerTypes
<1>4. at[c][s] + 1 \in Nat /\ at[c][s] <= at[c][s] + 1 /\ at[c][s] + 1 <= Len(log[s])
  BY <1>1, <1>3
<1>5. OnlyOf(c) /\ at'[c][s] = at[c][s] + 1 /\ (task' = task \/ task'[c] = t)
  BY <1>1, <1>2, <1>4, Moved
<1> QED
  BY <1>1, <1>3, <1>4, <1>5

LEMMA StartKeeps ==
  ASSUME IInv, NEW c \in Consumers, Start(c)
  PROVE  IInv'
<1>1. /\ task[c] = "spawned"
      /\ at' = [at EXCEPT ![c] = [s \in Subjects |-> Len(log[s])]]
      /\ task' = [task EXCEPT ![c] = IF c = "summary" THEN "loading" ELSE "running"]
      /\ UNCHANGED <<producer, log, uiVars, turns, pluginVars, summaries>>
  BY DEF Start, Joins, Becomes, Fresh
<1>2. ProducerTypes /\ ConsumerTypes
  BY DEF IInv
<1>3. \A s \in Subjects : Len(log[s]) \in Nat /\ at[c][s] \in Nat /\ at[c][s] <= Len(log[s])
  BY <1>2 DEF ProducerTypes, ConsumerTypes
<1>4. task' \in [Consumers -> States] /\ at' \in [Consumers -> [Subjects -> Nat]]
  BY <1>1, <1>2, <1>3 DEF ConsumerTypes, States
<1>5. OnlyOf(c)
  BY <1>1, <1>2, <1>3, <1>4 DEF OnlyOf, ConsumerTypes
<1>6. Results
  BY <1>1, SameResults DEF Results, pluginVars
<1>7. /\ ProducerTypes' /\ ConsumerTypes' /\ Stored' /\ Ordered' /\ Shown' /\ Consumers' = Consumers
      /\ c # "summary" => NothingSkipped'
      /\ c # "rhai" => SessionEndsOnce'
  BY <1>1, <1>5, <1>6, ConsumerSide DEF uiVars, pluginVars
<1>8. task'[c] = IF c = "summary" THEN "loading" ELSE "running"
  BY <1>1, <1>2 DEF ConsumerTypes
<1>9. NothingSkipped'
  BY <1>7, <1>8 DEF NothingSkipped
<1>10. SessionEndsOnce'
  BY <1>1, <1>7, <1>8 DEF IInv, SessionEndsOnce, pluginVars
<1> QED
  BY <1>7, <1>9, <1>10 DEF IInv

\* Everything published as finalized is in the store, and the summary takes
\* every final row there is.
LEMMA ReloadKeeps ==
  ASSUME IInv, NEW c \in Consumers, Reload(c)
  PROVE  IInv'
<1>1. /\ task[c] = "loading" /\ Becomes(c, "running")
      /\ turns' = IF c = "summary" THEN Load(turns) ELSE turns
      /\ buffer' = IF c = "ui" THEN rows ELSE buffer
      /\ snapshot' = IF c = "ui" THEN <<>> ELSE snapshot
      /\ UNCHANGED <<producer, log, at, pluginVars, summaries>>
  BY DEF Reload
<1>2. ProducerTypes /\ ConsumerTypes /\ "running" \in States
  BY DEF IInv, States
<1>3. OnlyOf(c) /\ (task' = task \/ task'[c] = "running")
  BY <1>1, <1>2, Stayed
<1>4. Load(turns) \in Seq(TurnSet) /\ \A r \in rows : r.final => \E t \in ToSet(Load(turns)) : t.id = r.id
  BY <1>2, LoadHasAll DEF ProducerTypes, ConsumerTypes
<1>5. c = "ui" => DOMAIN snapshot' = {}
  BY <1>1
<1>6. Results
  <2>1. plugin' \in Seq(TurnSet) /\ ends' \in Nat /\ timer' \in BOOLEAN /\ hints' \in 0..MaxSegments
    BY <1>1, SameResults DEF pluginVars
  <2>2. summaries' \subseteq {"summary", "rhai"} /\ turns' \in Seq(TurnSet)
    BY <1>1, <1>2, <1>4 DEF ConsumerTypes
  <2>3. buffer' \subseteq Messages
    BY <1>1, <1>2 DEF ProducerTypes, ConsumerTypes
  <2>4. DOMAIN snapshot' \subseteq Ids /\ \A id \in DOMAIN snapshot' : snapshot'[id] \in BOOLEAN
    BY <1>1, <1>2, <1>5 DEF ConsumerTypes
  <2> QED
    BY <2>1, <2>2, <2>3, <2>4 DEF Results
<1>7. /\ ProducerTypes' /\ ConsumerTypes' /\ Stored' /\ Ordered' /\ Consumers' = Consumers
      /\ UNCHANGED snapshot => Shown'
      /\ c # "summary" /\ UNCHANGED turns => NothingSkipped'
      /\ c # "rhai" /\ UNCHANGED ends => SessionEndsOnce'
  BY <1>3, <1>6, ConsumerSide
<1>8. Shown'
  BY <1>1, <1>5, <1>7 DEF Shown
<1>9. NothingSkipped'
  <2>1. CASE c = "summary"
    <3> SUFFICES ASSUME row, NEW id \in finals
                 PROVE  \E t \in ToSet(turns') : t.id = id
      BY <1>1 DEF NothingSkipped, producer
    <3>1. Segment(id, TRUE) \in rows
      BY <1>2 DEF IInv, Stored, ProducerTypes
    <3>2. Segment(id, TRUE).final /\ Segment(id, TRUE).id = id
      BY DEF Segment
    <3> QED
      BY <1>1, <1>4, <2>1, <3>1, <3>2
  <2>2. CASE c # "summary"
    BY <1>1, <1>7, <2>2
  <2> QED
    BY <2>1, <2>2
<1>10. SessionEndsOnce'
  <2>1. task[c] = "loading" /\ task'[c] = "running"
    BY <1>1, <1>2 DEF ConsumerTypes, Becomes
  <2> QED
    BY <1>1, <1>7, <2>1 DEF IInv, SessionEndsOnce, pluginVars
<1> QED
  BY <1>7, <1>8, <1>9, <1>10 DEF IInv

\* A task that lost messages and has the store at hand looks there first.
LEMMA LagKeeps ==
  ASSUME IInv, NEW c \in Consumers, NEW s \in Subjects, Lag(c, s)
  PROVE  IInv'
<1>1. /\ task[c] = "running" /\ Moves(c, s, Fresh(s)) /\ Becomes(c, AfterLag(c))
      /\ UNCHANGED <<producer, log, uiVars, turns, pluginVars, summaries>>
  BY DEF Lag
<1>2. ProducerTypes /\ ConsumerTypes
  BY DEF IInv
<1>3. Fresh(s) \in Nat /\ Fresh(s) = Len(log[s]) /\ at[c][s] <= Fresh(s) /\ Fresh(s) <= Len(log[s])
  BY <1>2 DEF Fresh, ProducerTypes, ConsumerTypes
<1>4. OnlyOf(c)
  <2>1. CASE AfterLag(c) = "loading"
    BY <1>1, <1>3, <2>1, Moved DEF States
  <2>2. CASE AfterLag(c) = "running"
    BY <1>1, <1>3, <2>2, Moved DEF States
  <2> QED
    BY <2>1, <2>2 DEF AfterLag
<1>5. task'[c] = AfterLag(c)
  BY <1>1, <1>2 DEF Becomes, ConsumerTypes
<1>6. Results
  BY <1>1, SameResults DEF Results, pluginVars
<1>7. /\ ProducerTypes' /\ ConsumerTypes' /\ Stored' /\ Ordered' /\ Shown' /\ Consumers' = Consumers
      /\ c # "summary" => NothingSkipped'
      /\ c # "rhai" => SessionEndsOnce'
  BY <1>1, <1>4, <1>6, ConsumerSide DEF uiVars, pluginVars
<1>8. NothingSkipped'
  BY <1>5, <1>7 DEF NothingSkipped, AfterLag
<1>9. SessionEndsOnce'
  BY <1>1, <1>5, <1>7 DEF IInv, SessionEndsOnce, pluginVars, AfterLag
<1> QED
  BY <1>7, <1>8, <1>9 DEF IInv

LEMMA Heard ==
  ASSUME ProducerTypes, NEW c, NEW s \in Subjects,
         at[c][s] + 1 \in 1..Len(log[s])
  PROVE  Message(c, s) \in Messages /\ Message(c, s).id \in Ids /\ Message(c, s).final \in BOOLEAN
<1>1. log[s] \in Seq(Messages)
  BY DEF ProducerTypes
<1>2. Message(c, s) \in Messages
  BY <1>1 DEF Message
<1> QED
  BY <1>2 DEF Messages

\* A final word is not taken back: what comes behind it in the log is about
\* later segments.
LEMMA UiUpdatedKeeps ==
  ASSUME IInv, UiUpdated
  PROVE  /\ IInv'
         /\ \A id \in DOMAIN snapshot : snapshot[id] => snapshot'[id]
<1> DEFINE m == Message("ui", "updated")
           shown == [id \in DOMAIN snapshot \cup {m.id} |-> IF id = m.id THEN m.final ELSE snapshot[id]]
           n == at["ui"]["updated"]
           U == log["updated"]
<1>1. /\ Receives("ui", "updated") /\ snapshot' = shown
      /\ buffer' = {Segment(id, shown[id]) : id \in DOMAIN shown}
      /\ UNCHANGED <<task, turns, pluginVars, summaries>>
  BY DEF UiUpdated
<1>2. ProducerTypes /\ ConsumerTypes /\ "updated" \in Subjects /\ "running" \in States
  BY DEF IInv, Subjects, States
<1>3. /\ "ui" \in Consumers /\ OnlyOf("ui")
      /\ at'["ui"]["updated"] = n + 1 /\ n \in Nat /\ Len(U) \in Nat /\ n + 1 \in 1..Len(U)
  BY <1>1, <1>2, Received
<1>4. m \in Messages /\ m.id \in Ids /\ m.final \in BOOLEAN /\ m = U[n + 1]
  BY <1>2, <1>3, Heard DEF Message
<1>5. UNCHANGED <<log, turns, ends>>
  BY <1>1 DEF Receives, pluginVars
<1> HIDE DEF m, U
<1>6. /\ DOMAIN shown = DOMAIN snapshot \cup {m.id}
      /\ shown[m.id] = m.final
      /\ \A id \in DOMAIN snapshot : id # m.id => shown[id] = snapshot[id]
  OBVIOUS
<1>7. \A id \in DOMAIN shown : id \in Ids /\ shown[id] \in BOOLEAN
  BY <1>2, <1>4 DEF ConsumerTypes
<1> HIDE DEF shown
<1>8. Results
  <2>1. buffer' \subseteq Messages
    BY <1>1, <1>7 DEF Segment, Messages
  <2> QED
    BY <1>1, <1>7, <2>1, SameResults DEF Results, pluginVars
<1>9. /\ ProducerTypes' /\ ConsumerTypes' /\ Stored' /\ Ordered' /\ Consumers' = Consumers
      /\ NothingSkipped' /\ SessionEndsOnce'
  BY <1>3, <1>5, <1>8, ConsumerSide
<1>10. Shown'
  <2> SUFFICES ASSUME NEW id \in DOMAIN shown, shown[id]
               PROVE  \E i \in 1..(n + 1) : U[i] = Segment(id, TRUE)
    BY <1>1, <1>3, <1>5, <1>9 DEF Shown, U
  <2>1. CASE id = m.id
    <3>1. m.final = TRUE
      BY <1>4, <1>6, <2>1
    <3>2. m = Segment(id, TRUE)
      BY <1>4, <2>1, <3>1 DEF Messages, Segment
    <3>3. n + 1 \in 1..(n + 1)
      BY <1>3
    <3> QED
      BY <1>4, <3>2, <3>3
  <2>2. CASE id # m.id
    <3>1. id \in DOMAIN snapshot /\ snapshot[id]
      BY <1>6, <2>2
    <3>2. PICK i \in 1..n : U[i] = Segment(id, TRUE)
      BY <3>1 DEF IInv, Shown, U
    <3>3. i \in 1..(n + 1)
      BY <1>3
    <3> QED
      BY <3>2, <3>3
  <2> QED
    BY <2>1, <2>2
<1>11. ASSUME NEW id \in DOMAIN snapshot, snapshot[id]
       PROVE  snapshot'[id]
  <2>1. PICK i \in 1..n : U[i] = Segment(id, TRUE)
    BY <1>11 DEF IInv, Shown, U
  <2>2. i \in 1..Len(U) /\ i < n + 1
    BY <1>3
  <2>3. U[i].final /\ U[i].id = id
    BY <2>1 DEF Segment
  <2>4. id < m.id
    BY <1>3, <1>4, <2>2, <2>3 DEF IInv, Ordered, U
  <2>5. m.id \in Nat
    BY <1>4, FlowAssumption DEF Ids
  <2>6. id # m.id
    BY <2>4, <2>5
  <2> QED
    BY <1>1, <1>6, <1>11, <2>6
<1> QED
  BY <1>9, <1>10, <1>11 DEF IInv

\* UiStopped, DebounceEvent, DebounceFires and DebounceStopped.
LEMMA WindowAndTimerKeep ==
  ASSUME IInv,
         \/ UiStopped
         \/ "debounce" \in Consumers /\ (DebounceEvent \/ DebounceFires \/ DebounceStopped)
  PROVE  IInv' /\ UNCHANGED snapshot
<1>1. PICK c \in {"ui", "debounce"} : c \in Consumers /\ OnlyOf(c)
  <2>1. {"updated", "finalized", "stopped"} \subseteq Subjects /\ {"running", "ended"} \subseteq States
    BY DEF Subjects, States
  <2>2. CASE UiStopped
    BY <2>1, <2>2, Received DEF UiStopped
  <2>3. CASE DebounceEvent
    <3>1. Receives("debounce", "finalized") /\ UNCHANGED task
      BY <2>3 DEF DebounceEvent
    <3> QED
      BY <2>1, <3>1, Received
  <2>4. CASE DebounceStopped
    BY <2>1, <2>4, Received DEF DebounceStopped
  <2>5. CASE "debounce" \in Consumers /\ DebounceFires
    <3>1. UNCHANGED <<producer, log, at>> /\ UNCHANGED task
      BY <2>5 DEF DebounceFires
    <3> QED
      BY <2>1, <2>5, <3>1, Stayed
  <2> QED
    BY <2>2, <2>3, <2>4, <2>5
<1>2. /\ UNCHANGED <<uiVars, turns, plugin, ends, summaries>>
      /\ timer' = timer \/ timer' \in BOOLEAN
  BY DEF UiStopped, DebounceEvent, DebounceFires, DebounceStopped, pluginVars
<1>3. timer' \in BOOLEAN /\ hints' \in 0..MaxSegments
  <2>1. MaxSegments \in Nat /\ timer \in BOOLEAN /\ hints \in 0..MaxSegments
    BY FlowAssumption DEF IInv, ConsumerTypes
  <2>2. CASE DebounceFires
    <3>1. hints < MaxSegments /\ timer' = FALSE /\ (hints' = hints + 1 \/ hints' = hints)
      BY <2>2 DEF DebounceFires
    <3>2. hints + 1 \in 0..MaxSegments
      BY <2>1, <3>1
    <3> QED
      BY <2>1, <3>1, <3>2
  <2>3. CASE ~DebounceFires
    BY <2>1, <2>3 DEF UiStopped, DebounceEvent, DebounceStopped, pluginVars
  <2> QED
    BY <2>2, <2>3
<1>4. ends' \in Nat
  BY <1>2 DEF IInv, ConsumerTypes
<1>5. Results
  BY <1>2, <1>3, <1>4, SameResults DEF Results
<1> QED
  BY <1>1, <1>2, <1>5, ConsumerSide DEF IInv, uiVars

LEMMA Inserted ==
  ASSUME NEW seq \in Seq(TurnSet), NEW t \in TurnSet
  PROVE  /\ insert_if_new(seq, t) \in Seq(TurnSet)
         /\ t \in ToSet(insert_if_new(seq, t))
         /\ ToSet(seq) \subseteq ToSet(insert_if_new(seq, t))
<1>1. CASE t \in ToSet(seq)
  BY <1>1 DEF insert_if_new
<1>2. CASE t \notin ToSet(seq)
  <2> DEFINE more == Append(seq, t)
  <2>1. /\ more \in Seq(TurnSet) /\ Len(seq) \in Nat /\ Len(more) = Len(seq) + 1
        /\ more[Len(seq) + 1] = t /\ \A i \in 1..Len(seq) : more[i] = seq[i]
    OBVIOUS
  <2>2. insert_if_new(seq, t) = more
    BY <1>2 DEF insert_if_new
  <2> HIDE DEF more
  <2>3. t \in ToSet(more)
    BY <2>1 DEF ToSet
  <2>4. ToSet(seq) \subseteq ToSet(more)
    BY <2>1 DEF ToSet
  <2> QED
    BY <2>1, <2>2, <2>3, <2>4
<1> QED
  BY <1>1, <1>2

LEMMA SummaryTurnKeeps ==
  ASSUME IInv, SummaryTurn
  PROVE  IInv' /\ UNCHANGED snapshot
<1> DEFINE t == Turn("live", Message("summary", "finalized").id)
           n == at["summary"]["finalized"]
           F == log["finalized"]
<1>1. /\ Receives("summary", "finalized") /\ turns' = insert_if_new(turns, t)
      /\ UNCHANGED <<task, uiVars, pluginVars, summaries>>
  BY DEF SummaryTurn
<1>2. ProducerTypes /\ ConsumerTypes /\ "finalized" \in Subjects /\ "running" \in States
  BY DEF IInv, Subjects, States
<1>3. /\ "summary" \in Consumers /\ OnlyOf("summary") /\ task["summary"] = "running"
      /\ at'["summary"]["finalized"] = n + 1 /\ n \in Nat /\ Len(F) \in Nat /\ n + 1 \in 1..Len(F)
  BY <1>1, <1>2, Received
<1>4. t \in TurnSet /\ t.id = F[n + 1].id
  BY <1>2, <1>3, Heard DEF Turn, TurnSet, Message
<1> HIDE DEF t
<1>5. turns' \in Seq(TurnSet) /\ t \in ToSet(turns') /\ ToSet(turns) \subseteq ToSet(turns')
  BY <1>1, <1>2, <1>4, Inserted DEF ConsumerTypes
<1>6. Results
  BY <1>1, <1>5, SameResults DEF Results, pluginVars
<1>7. /\ ProducerTypes' /\ ConsumerTypes' /\ Stored' /\ Ordered' /\ Shown' /\ SessionEndsOnce'
      /\ Consumers' = Consumers /\ UNCHANGED snapshot
  BY <1>1, <1>3, <1>6, ConsumerSide DEF uiVars, pluginVars
<1>8. NothingSkipped'
  <2>1. UNCHANGED <<row, finals, log, task>>
    BY <1>1 DEF Receives, producer
  <2> SUFFICES ASSUME row, NEW id \in finals, ~\E u \in ToSet(turns') : u.id = id
               PROVE  \E i \in (n + 1 + 1)..Len(F) : F[i].id = id
    BY <1>3, <2>1 DEF NothingSkipped
  <2>2. ~\E u \in ToSet(turns) : u.id = id
    BY <1>5
  <2>3. PICK i \in (n + 1)..Len(F) : F[i].id = id
    BY <1>3, <2>2 DEF IInv, NothingSkipped
  <2>4. i # n + 1
    BY <1>4, <1>5, <2>3
  <2>5. i \in (n + 1 + 1)..Len(F)
    BY <1>3, <2>3, <2>4
  <2> QED
    BY <2>3, <2>5
<1> QED
  BY <1>7, <1>8 DEF IInv

LEMMA SummaryOverKeeps ==
  ASSUME IInv, SummaryEnds \/ Summarized
  PROVE  IInv' /\ UNCHANGED snapshot
<1>1. {"ended", "stopped"} \subseteq Subjects /\ {"ended", "summarizing"} \subseteq States
  BY DEF Subjects, States
<1>2. "summary" \in Consumers /\ OnlyOf("summary") /\ task'["summary"] # "running"
  <2>1. CASE SummaryEnds
    <3>1. PICK s \in {"ended", "stopped"} : Receives("summary", s)
      BY <2>1 DEF SummaryEnds
    <3>2. PICK t \in {"ended", "summarizing"} : Becomes("summary", t)
      BY <2>1 DEF SummaryEnds
    <3>3. "summary" \in Consumers /\ OnlyOf("summary")
      BY <1>1, <3>1, <3>2, Received
    <3>4. task'["summary"] = t
      BY <3>2, <3>3 DEF Becomes, IInv, ConsumerTypes
    <3> QED
      BY <3>3, <3>4
  <2>2. CASE Summarized
    <3>1. "summary" \in Consumers /\ Becomes("summary", "ended") /\ UNCHANGED <<producer, log, at>>
      BY <2>2 DEF Summarized
    <3>2. task'["summary"] = "ended"
      BY <3>1 DEF Becomes, IInv, ConsumerTypes
    <3> QED
      BY <1>1, <3>1, <3>2, Stayed
  <2> QED
    BY <2>1, <2>2
<1>3. /\ UNCHANGED <<uiVars, turns, pluginVars>>
      /\ summaries' = summaries \/ summaries' = summaries \cup {"summary"}
  BY DEF SummaryEnds, Summarized
<1>4. summaries' \subseteq {"summary", "rhai"}
  BY <1>3 DEF IInv, ConsumerTypes
<1>5. Results
  BY <1>3, <1>4, SameResults DEF Results, pluginVars
<1>6. /\ ProducerTypes' /\ ConsumerTypes' /\ Stored' /\ Ordered' /\ Shown' /\ SessionEndsOnce'
      /\ UNCHANGED snapshot
  BY <1>2, <1>3, <1>5, ConsumerSide DEF uiVars, pluginVars
<1>7. NothingSkipped'
  BY <1>2 DEF NothingSkipped
<1> QED
  BY <1>6, <1>7 DEF IInv

LEMMA PluginTurnKeeps ==
  ASSUME IInv, PluginTurn
  PROVE  IInv' /\ UNCHANGED snapshot
<1> DEFINE t == Turn("live", Message("rhai", "finalized").id)
<1>1. /\ Receives("rhai", "finalized") /\ plugin' = insert_if_new(plugin, t)
      /\ UNCHANGED <<task, uiVars, turns, ends, timer, hints, summaries>>
  BY DEF PluginTurn
<1>2. ProducerTypes /\ ConsumerTypes /\ "finalized" \in Subjects /\ "running" \in States
  BY DEF IInv, Subjects, States
<1>3. /\ "rhai" \in Consumers /\ OnlyOf("rhai")
      /\ at["rhai"]["finalized"] + 1 \in 1..Len(log["finalized"])
  BY <1>1, <1>2, Received
<1>4. t \in TurnSet
  BY <1>2, <1>3, Heard DEF Turn, TurnSet
<1> HIDE DEF t
<1>5. plugin' \in Seq(TurnSet)
  BY <1>1, <1>2, <1>4, Inserted DEF ConsumerTypes
<1>6. Results
  BY <1>1, <1>5, SameResults DEF Results
<1>7. /\ ProducerTypes' /\ ConsumerTypes' /\ Stored' /\ Ordered' /\ Shown' /\ NothingSkipped'
      /\ Consumers' = Consumers /\ UNCHANGED snapshot
  BY <1>1, <1>3, <1>6, ConsumerSide DEF uiVars
<1>8. SessionEndsOnce'
  BY <1>1, <1>7 DEF IInv, SessionEndsOnce
<1> QED
  BY <1>7, <1>8 DEF IInv

\* The hook runs for a task that runs, and the task is over with it.
LEMMA PluginEndsKeeps ==
  ASSUME IInv, PluginEnds
  PROVE  IInv' /\ UNCHANGED snapshot
<1>1. PICK s \in {"ended", "stopped"} :
        /\ Receives("rhai", s)
        /\ ends' = ends + 1
        /\ plugin' = IF plugin = <<>> THEN Load(plugin) ELSE plugin
        /\ summaries' = summaries \cup {"rhai"} \/ UNCHANGED summaries
        /\ Becomes("rhai", "ended")
        /\ UNCHANGED <<uiVars, turns, timer, hints>>
  BY DEF PluginEnds, AfterEnd
<1>2. ProducerTypes /\ ConsumerTypes /\ s \in Subjects /\ "ended" \in States
  BY DEF IInv, Subjects, States
<1>3. "rhai" \in Consumers /\ task["rhai"] = "running" /\ OnlyOf("rhai")
  BY <1>1, <1>2, Received
<1>4. task'["rhai"] = "ended"
  BY <1>1, <1>2, <1>3 DEF Becomes, ConsumerTypes
<1>5. plugin' \in Seq(TurnSet)
  BY <1>1, <1>2, LoadHasAll DEF ProducerTypes, ConsumerTypes
<1>6. ends' \in Nat /\ summaries' \subseteq {"summary", "rhai"} /\ timer' \in BOOLEAN /\ hints' \in 0..MaxSegments
  <2>1. ends \in Nat /\ summaries \subseteq {"summary", "rhai"} /\ timer \in BOOLEAN /\ hints \in 0..MaxSegments
    BY <1>2 DEF ConsumerTypes
  <2>2. ends' \in Nat
    BY <1>1, <2>1
  <2>3. summaries' \subseteq {"summary", "rhai"}
    BY <1>1, <2>1
  <2> QED
    BY <1>1, <2>1, <2>2, <2>3
<1>7. Results
  BY <1>1, <1>5, <1>6, SameResults DEF Results
<1>8. /\ ProducerTypes' /\ ConsumerTypes' /\ Stored' /\ Ordered' /\ Shown' /\ NothingSkipped'
      /\ UNCHANGED snapshot
  BY <1>1, <1>3, <1>7, ConsumerSide DEF uiVars
<1>9. SessionEndsOnce'
  <2>1. ends \in Nat /\ ends <= 1 /\ ends # 1
    BY <1>2, <1>3 DEF IInv, SessionEndsOnce, ConsumerTypes
  <2>2. ends' = 1
    BY <1>1, <2>1
  <2> QED
    BY <1>4, <2>2 DEF SessionEndsOnce
<1> QED
  BY <1>8, <1>9 DEF IInv

-----------------------------------------------------------------------------
(* Every step.                                                             *)

LEMMA NextKeeps ==
  ASSUME IInv, [Next]_vars
  PROVE  /\ IInv'
         /\ \A id \in DOMAIN snapshot : snapshot[id] /\ id \in DOMAIN snapshot' => snapshot'[id]
<1> DEFINE Stays == \A id \in DOMAIN snapshot : snapshot[id] /\ id \in DOMAIN snapshot' => snapshot'[id]
<1>1. UNCHANGED snapshot => Stays
  OBVIOUS
<1>2. CASE Produce
  <2>1. IInv'
    BY <1>2, HearsKeeps, StoreKeeps, PublishUpdatedKeeps, PublishFinalizedKeeps, EndKeeps, CaptureOverKeeps
       DEF Produce
  <2>2. UNCHANGED snapshot
    BY <1>2 DEF Produce, Hears, Store, PublishUpdated, PublishFinalized, SessionEnd, CaptureOver, Stop, uiVars
  <2> QED
    BY <1>1, <2>1, <2>2
<1>3. ASSUME NEW c \in Consumers, Step(c)
      PROVE  IInv' /\ Stays
  <2>1. CASE Start(c)
    BY <1>1, <2>1, StartKeeps DEF Start, uiVars
  <2>2. CASE Reload(c)
    <3>1. IInv'
      BY <2>2, ReloadKeeps
    <3>2. snapshot' = <<>> \/ snapshot' = snapshot
      BY <2>2 DEF Reload
    <3> QED
      BY <1>1, <3>1, <3>2
  <2>3. ASSUME NEW s \in Subjects, Lag(c, s)
        PROVE  IInv' /\ Stays
    BY <1>1, <2>3, LagKeeps DEF Lag, uiVars
  <2>4. CASE UiUpdated
    BY <2>4, UiUpdatedKeeps
  <2>5. CASE UiStopped \/ (c = "debounce" /\ (DebounceEvent \/ DebounceFires \/ DebounceStopped))
    BY <1>1, <2>5, WindowAndTimerKeep
  <2>6. CASE SummaryTurn
    BY <1>1, <2>6, SummaryTurnKeeps
  <2>7. CASE SummaryEnds \/ Summarized
    BY <1>1, <2>7, SummaryOverKeeps
  <2>8. CASE PluginTurn
    BY <1>1, <2>8, PluginTurnKeeps
  <2>9. CASE PluginEnds
    BY <1>1, <2>9, PluginEndsKeeps
  <2> HIDE DEF Stays
  <2> QED
    BY <1>3, <2>1, <2>2, <2>3, <2>4, <2>5, <2>6, <2>7, <2>8, <2>9 DEF Step
<1>4. CASE UNCHANGED vars
  <2>1. UNCHANGED <<row, recording, counter, event, step, rows, finals, log, task, at, snapshot, buffer>>
    BY <1>4 DEF vars, producer, uiVars
  <2>2. UNCHANGED <<turns, plugin, ends, timer, hints, summaries>> /\ Consumers' = Consumers
    BY <1>4 DEF vars, pluginVars, Consumers
  <2>3. ProducerTypes' /\ ConsumerTypes' /\ Stored' /\ Ordered' /\ Shown'
    BY <2>1, <2>2 DEF IInv, ProducerTypes, ConsumerTypes, Stored, Ordered, Shown
  <2>4. NothingSkipped' /\ SessionEndsOnce'
    BY <2>1, <2>2 DEF IInv, NothingSkipped, SessionEndsOnce
  <2> QED
    BY <1>1, <2>1, <2>3, <2>4 DEF IInv
<1>5. Produce \/ (\E c \in Consumers : Step(c)) \/ UNCHANGED vars
  BY DEF Next, Idle
<1>6. CASE \E c \in Consumers : Step(c)
  <2>1. PICK c \in Consumers : Step(c)
    BY <1>6
  <2> QED
    BY <1>3, <2>1
<1> QED
  BY <1>2, <1>4, <1>5, <1>6

LEMMA IInvAlways == Spec => []IInv
<1>1. Init => IInv
  BY InitIInv
<1>2. IInv /\ [Next]_vars => IInv'
  BY NextKeeps
<1> QED
  BY <1>1, <1>2, PTL DEF Spec

\* Of the transcripts of a session that is in the store, the summary's task
\* misses none: run_auto_summary subscribes, then loads, and loads again when
\* it has lagged, whatever the live transcription does in between.
THEOREM NoneMissing == Spec => []Inv
<1>1. IInv => Inv
  BY Typed DEF IInv, Inv
<1> QED
  BY <1>1, IInvAlways, PTL

\* The window never takes a final transcript back for an interim one: the
\* live transcription counts on only after it has published both.
THEOREM FinalNotTakenBack == Spec => FinalStays
<1>1. IInv /\ [Next]_vars =>
        [\A id \in DOMAIN snapshot : snapshot[id] /\ id \in DOMAIN snapshot' => snapshot'[id]]_vars
  BY NextKeeps
<1> QED
  BY <1>1, IInvAlways, PTL DEF Spec, FinalStays

\* on_session_end runs once for a session, be it that SessionEnd or the stop
\* comes first.
THEOREM HookRunsOnce == Spec => []SessionEndsOnce
<1>1. IInv => SessionEndsOnce
  BY DEF IInv
<1> QED
  BY <1>1, IInvAlways, PTL
=============================================================================
