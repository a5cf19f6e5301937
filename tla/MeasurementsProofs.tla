------------------------- MODULE MeasurementsProofs -------------------------
(***************************************************************************)
(* What reaches the database is valid, was measured, is complete and is     *)
(* stored once, for every producer, window, data set, table of regions and  *)
(* points, and any number of samples and faults.                           *)
(***************************************************************************)
EXTENDS Measurements, Arithmetic, TLAPS

-----------------------------------------------------------------------------
(* Sequences and bags, as far as their elements go.                         *)

IsSeq(s) == s \in Seq(Range(s))

\* A sequence over any set is one over its own elements.
LEMMA OwnElements ==
    ASSUME NEW S, NEW s \in Seq(S)
    PROVE  IsSeq(s) /\ DOMAIN s = 1 .. Len(s) /\ Len(s) \in Nat
  BY DEF IsSeq, Range

\* Append adds an element and leaves the others where they are.
LEMMA Appended ==
    ASSUME NEW s, IsSeq(s), NEW x
    PROVE  /\ IsSeq(Append(s, x)) /\ Len(Append(s, x)) = Len(s) + 1 /\ Len(s) \in Nat
           /\ DOMAIN s = 1 .. Len(s) /\ DOMAIN Append(s, x) = 1 .. (Len(s) + 1)
           /\ \A i \in DOMAIN s : Append(s, x)[i] = s[i]
           /\ Append(s, x)[Len(s) + 1] = x
           /\ Range(Append(s, x)) = Range(s) \cup {x}
  <1> DEFINE S == Range(s) \cup {x}
             a == Append(s, x)
  <1>1. s \in Seq(S) /\ x \in S
    BY DEF IsSeq
  <1>2. a \in Seq(S) /\ Len(a) = Len(s) + 1 /\ Len(s) \in Nat
    BY <1>1
  <1>3. DOMAIN s = 1 .. Len(s) /\ DOMAIN a = 1 .. (Len(s) + 1)
    BY <1>1, <1>2
  <1>4. (\A i \in DOMAIN s : a[i] = s[i]) /\ a[Len(s) + 1] = x
    BY <1>1, <1>2, <1>3
  <1>5. Range(a) = Range(s) \cup {x}
    BY <1>2, <1>3, <1>4 DEF Range
  <1>6. QED
    BY <1>2, <1>3, <1>4, <1>5, OwnElements

\* A sequence is its head and its tail.
LEMMA HeadAndTail ==
    ASSUME NEW s, IsSeq(s), s # <<>>
    PROVE  /\ IsSeq(Tail(s)) /\ Len(Tail(s)) = Len(s) - 1 /\ Len(s) \in Nat
           /\ Head(s) \in Range(s)
           /\ Range(s) = {Head(s)} \cup Range(Tail(s))
  <1> DEFINE S == Range(s)
             t == Tail(s)
  <1>1. s \in Seq(S) /\ DOMAIN s = 1 .. Len(s) /\ Len(s) \in Nat /\ Len(s) > 0
    BY OwnElements DEF IsSeq
  <1>2. t \in Seq(S) /\ Len(t) = Len(s) - 1 /\ DOMAIN t = 1 .. (Len(s) - 1)
    BY <1>1
  <1>3. Head(s) = s[1] /\ 1 \in DOMAIN s /\ \A i \in DOMAIN t : t[i] = s[i + 1]
    BY <1>1, <1>2
  <1>4. Range(t) \subseteq Range(s)
    BY <1>1, <1>2, <1>3 DEF Range
  <1>5. \A i \in DOMAIN s : i = 1 \/ (i - 1 \in DOMAIN t /\ s[i] = t[i - 1])
    BY <1>1, <1>2, <1>3
  <1>6. Range(s) = {Head(s)} \cup Range(t)
    <2>1. ASSUME NEW y \in Range(s) PROVE y \in {Head(s)} \cup Range(t)
      <3>1. PICK i \in DOMAIN s : y = s[i]
        BY <2>1 DEF Range
      <3>2. QED
        BY <3>1, <1>3, <1>5 DEF Range
    <2>2. Head(s) \in Range(s)
      BY <1>3 DEF Range
    <2>3. QED
      BY <2>1, <2>2, <1>4
  <1>7. QED
    BY <1>1, <1>2, <1>3, <1>6, OwnElements DEF Range

\* The empty list.
LEMMA EmptySequence == IsSeq(<<>>) /\ Len(<<>>) = 0 /\ Range(<<>>) = {}
  <1>1. <<>> \in Seq({}) /\ Len(<<>>) = 0
    OBVIOUS
  <1>2. Range(<<>>) = {}
    BY DEF Range
  <1>3. QED
    BY <1>1, <1>2, OwnElements

\* A list of one.
LEMMA OneElement ==
    ASSUME NEW x
    PROVE  IsSeq(<<x>>) /\ Len(<<x>>) = 1 /\ Range(<<x>>) = {x}
  <1>1. <<x>> \in Seq({x}) /\ Len(<<x>>) = 1
    OBVIOUS
  <1>2. Range(<<x>>) = {x}
    BY DEF Range
  <1>3. QED
    BY <1>1, <1>2, OwnElements

\* Adding an element to a bag adds it to the bag's set.
LEMMA AddedToBag ==
    ASSUME NEW B, NEW x
    PROVE  BagToSet(Bag!BagAdd(B, x)) = BagToSet(B) \cup {x}
  BY DEF Bag!BagAdd, BagToSet

\* A message of the flow is replaced: what is new is known, and nothing else goes.
LEMMA Replaced ==
    ASSUME NEW f, NEW next, Becomes(f, next)
    PROVE  /\ BagToSet(flow') \subseteq BagToSet(flow) \cup next
           /\ (BagToSet(flow) \ {f}) \cup next \subseteq BagToSet(flow')
  BY DEF Becomes, Bag!BagRemove, BagToSet, SetToBag, (+)

-----------------------------------------------------------------------------
(* The nearest point.                                                      *)

\* A square is a natural number.
LEMMA SquareNat == ASSUME NEW a \in Int PROVE a * a \in Nat
  OBVIOUS

\* Only a region without points has no nearest one.
LEMMA NearestOfNone ==
    ASSUME NEW m, WithinBoundaries(m), Nearest(m) = {}
    PROVE  \A p \in Points : p.region # m.region
  <1>1. SUFFICES ASSUME NEW p \in Points, p.region = m.region PROVE FALSE
    OBVIOUS
  <1> DEFINE here == {q \in Points : q.region = m.region}
             T == {Distance(q, m.at) : q \in here}
  <1>2. m.at[1] \in Int /\ m.at[2] \in Int
    BY DEF WithinBoundaries
  <1>3. ASSUME NEW q \in Points PROVE Distance(q, m.at) \in Nat
    <2> DEFINE dx == q.coord_x - m.at[1]
               dy == q.coord_y - m.at[2]
    <2>1. dx \in Int /\ dy \in Int
      BY <1>2, <1>3, PointsAssumption
    <2>2. Distance(q, m.at) = dx * dx + dy * dy
      BY DEF Distance
    <2> HIDE DEF dx, dy
    <2>3. dx * dx \in Nat /\ dy * dy \in Nat
      BY <2>1, SquareNat
    <2>4. QED
      BY <2>2, <2>3
  <1>4. T \subseteq Nat /\ T # {}
    BY <1>1, <1>3
  <1>5. PICK x \in T : \A y \in T : x <= y
    BY <1>4, LeastNat
  <1>6. PICK q \in here : x = Distance(q, m.at)
    BY <1>5
  <1>7. \A o \in here : Distance(q, m.at) <= Distance(o, m.at)
    BY <1>5, <1>6
  <1>8. q \in Nearest(m)
    BY <1>6, <1>7 DEF Nearest
  <1>9. QED
    BY <1>8

-----------------------------------------------------------------------------
(* The inductive invariant.                                                *)

Valid(m) == Schema(m) /\ WithinBoundaries(m)

NearestRight(m, id) ==
    \/ id = 0 /\ \A p \in Points : p.region # m.region
    \/ \E p \in Nearest(m) : p.id = id

\* Message m is the one of its sample.
Genuine(m) == m.sample \in DOMAIN said /\ m = said[m.sample]

Histories ==
    /\ IsSeq(outbox) /\ IsSeq(broker) /\ IsSeq(said) /\ IsSeq(taken)
    /\ Len(said) = Len(taken)
    /\ \A k \in DOMAIN said : said[k].sample = k

\* A sensor's library holds one message at most.
Link ==
    /\ kind = "mpi" <=> client # "none"
    /\ client = "none" => Len(outbox) <= 1

OnTheWay ==
    /\ \A m \in Range(outbox) \cup Range(broker) : Genuine(m)
    /\ \A f \in BagToSet(flow) : Genuine(f.msg)

\* What the flow has found out about a message when it gets to a stage.
Checked(f) ==
    /\ f = [msg |-> f.msg, stage |-> f.stage, nearestPoint |-> f.nearestPoint, left |-> f.left]
    /\ f.stage \in {"boundaries", "nearest", "insert"}
    /\ Schema(f.msg)
    /\ f.stage # "boundaries" => WithinBoundaries(f.msg)
    /\ f.stage = "insert" => NearestRight(f.msg, f.nearestPoint)
    /\ f.stage # "insert" => f.left = {}
    /\ f.left \subseteq DOMAIN f.msg.noise

FlowChecked == \A f \in BagToSet(flow) : Checked(f)

RowOfSample(r) ==
    /\ r.sample \in DOMAIN said
    /\ Valid(said[r.sample]) /\ r.value \in DOMAIN said[r.sample].noise
    /\ r = Row(said[r.sample], r.value, r.nearest_point)
    /\ NearestRight(said[r.sample], r.nearest_point)

RowsOfSamples == \A r \in BagToSet(rows) : RowOfSample(r)

\* Value i of sample k is in the database, or can still get there.
Stored(k, i) == \E r \in BagToSet(rows) : r.sample = k /\ r.value = i
Coming(k, i) ==
    \/ \E m \in Range(outbox) \cup Range(broker) : m.sample = k
    \/ \E f \in BagToSet(flow) : f.msg.sample = k /\ (f.stage = "insert" => i \in f.left)

NothingForgotten ==
    \A k \in DOMAIN said \ lost : Valid(said[k]) =>
        \A i \in DOMAIN said[k].noise : Stored(k, i) \/ Coming(k, i)

\* How many readings ago place i of the ring was written.
Age(i) == IF i < position THEN position - 1 - i ELSE position - 1 - i + MAX_WINDOW_SIZE

WindowRecent ==
    kind # "mpi" =>
        /\ position \in Ring /\ DOMAIN noise_values = Ring
        /\ noise_values = [i \in Ring |-> noise_values[i]]
        /\ \A i \in Ring :
               \/ noise_values[i] = 0
               \/ Age(i) < Len(taken) /\ noise_values[i] = taken[Len(taken) - Age(i)].noise

RawIsRecent ==
    \A k \in DOMAIN said : said[k].mode = "raw" =>
        \A i \in DOMAIN said[k].noise :
            \/ said[k].noise[i] = 0
            \/ \E j \in Recent(k) : said[k].noise[i] = 100 * taken[j].noise

IInv ==
    /\ Histories /\ Link /\ OnTheWay /\ FlowChecked /\ RowsOfSamples
    /\ NothingForgotten /\ WindowRecent /\ RawIsRecent

-----------------------------------------------------------------------------
(* The steps, seen from the invariant.                                     *)

\* A new sample: its message is in the outbox, or lost.
NewSample(reading, m) ==
    /\ Recorded(reading, m)
    /\ m.sample = Len(said) + 1
    /\ UNCHANGED <<kind, client, backendVars>>
    /\ \/ IsSeq(outbox') /\ Range(outbox') = Range(outbox) \cup {m} /\ lost' = lost
       \/ outbox' = outbox /\ lost' = lost \cup {m.sample}

\* A message gets on, gets to the broker again, or is lost.
LinkStep ==
    /\ UNCHANGED <<kind, said, taken, windowVars, flow, rows>>
    /\ IsSeq(outbox') /\ IsSeq(broker')
    /\ Range(outbox') \subseteq Range(outbox)
    /\ Range(broker) \subseteq Range(broker')
    /\ \A m \in Range(broker') \ Range(broker) : Genuine(m)
    /\ lost \subseteq lost'
    /\ \A m \in Range(outbox) \ Range(outbox') : m \in Range(broker') \/ m.sample \in lost'
    /\ client # "none" => client' # "none"
    /\ client = "none" => client' = "none" /\ Len(outbox') <= 1

\* The producer and its link do nothing.
BackendOnly == UNCHANGED <<kind, said, taken, windowVars, client, outbox>>

\* A sensor's sample.
LEMMA SensorStep ==
    ASSUME IInv, NEW reading, noise_processing(reading), kind # "mpi"
    PROVE  \E m : /\ m = Message(publish_noise(noise_values'), reading.at)
                  /\ NewSample(reading, m) /\ Len(outbox') <= 1
  <1> DEFINE m == Message(publish_noise(noise_values'), reading.at)
  <1>1. /\ outbox = <<>> /\ Recorded(reading, m)
        /\ UNCHANGED <<kind, client, backendVars>>
        /\ Accepted(m) \/ Dropped(m)
    BY DEF noise_processing
  <1>2. m.sample = Len(said) + 1
    BY DEF Message
  <1>3. NewSample(reading, m) /\ Len(outbox') <= 1
    <2> HIDE DEF m
    <2>1. CASE Accepted(m)
      BY <1>1, <1>2, <2>1, OneElement, EmptySequence DEF Accepted, NewSample
    <2>2. CASE Dropped(m)
      BY <1>1, <1>2, <2>2, EmptySequence DEF Dropped, NewSample
    <2>3. QED
      BY <1>1, <2>1, <2>2
  <1>4. QED
    BY <1>3

\* A rank's sample.
LEMMA RankStep ==
    ASSUME IInv, RankPublishes
    PROVE  \E reading, m : NewSample(reading, m) /\ m.mode = "avg" /\ client # "none"
  <1>1. PICK level \in Levels, at \in Squares :
            LET m == Message([mode |-> "avg", noise |-> <<100 * level>>], at)
            IN  /\ mosquitto_publish(m)
                /\ Recorded([noise |-> level, at |-> at], m)
                /\ lost' = IF client \in Missing THEN lost \cup {m.sample} ELSE lost
    BY DEF RankPublishes
  <1> DEFINE m == Message([mode |-> "avg", noise |-> <<100 * level>>], at)
  <1>2. m.sample = Len(said) + 1 /\ m.mode = "avg"
    BY DEF Message
  <1>3. /\ mosquitto_publish(m) /\ Recorded([noise |-> level, at |-> at], m)
        /\ lost' = IF client \in Missing THEN lost \cup {m.sample} ELSE lost
    BY <1>1
  <1> HIDE DEF m
  <1>4. IsSeq(outbox) /\ client # "none"
    BY DEF IInv, Histories, Link, RankPublishes
  <1>5. UNCHANGED <<kind, client, backendVars>>
    BY <1>3 DEF RankPublishes, mosquitto_publish
  <1>6. NewSample([noise |-> level, at |-> at], m)
    BY <1>2, <1>3, <1>4, <1>5, Appended DEF mosquitto_publish, NewSample
  <1>7. QED
    BY <1>2, <1>4, <1>6

\* The steps of the links.
LEMMA LinkSteps ==
    ASSUME IInv,
           SensorSends \/ SensorGivesUp \/ ClientStarts \/ ClientSends
               \/ ClientReconnects \/ BridgeRepeats
    PROVE  LinkStep
  <1>1. /\ IsSeq(outbox) /\ IsSeq(broker) /\ \A m \in Range(outbox) : Genuine(m)
        /\ client = "none" => Len(outbox) <= 1
        /\ \A k \in DOMAIN said : said[k].sample = k
    BY DEF IInv, Histories, OnTheWay, Link
  <1>2. ASSUME outbox # <<>>
        PROVE  /\ IsSeq(Tail(outbox)) /\ Head(outbox) \in Range(outbox)
               /\ Range(outbox) = {Head(outbox)} \cup Range(Tail(outbox))
               /\ Len(Tail(outbox)) = Len(outbox) - 1 /\ Len(outbox) \in Nat
    BY <1>1, <1>2, HeadAndTail
  <1>3. ASSUME NEW m, ReachesBroker(m)
        PROVE  IsSeq(broker') /\ Range(broker') = Range(broker) \cup {m} /\ UNCHANGED <<flow, rows>>
    BY <1>1, <1>3, Appended DEF ReachesBroker
  <1>4. ASSUME outbox # <<>>, client = "none" PROVE Range(outbox) = {Head(outbox)}
    <2>1. Len(Tail(outbox)) = 0
      <3>1. Len(outbox) # 0
        BY <1>1, <1>4, OwnElements DEF IsSeq
      <3>2. Len(outbox) <= 1
        BY <1>1, <1>4
      <3>3. Len(Tail(outbox)) = Len(outbox) - 1 /\ Len(outbox) \in Nat
        BY <1>2, <1>4
      <3>4. QED
        BY <3>1, <3>2, <3>3
    <2>2. Range(Tail(outbox)) = {}
      <3>1. DOMAIN Tail(outbox) = 1 .. 0
        BY <2>1, <1>2, <1>4, OwnElements DEF IsSeq
      <3>2. QED
        BY <3>1 DEF Range
    <2>3. QED
      BY <2>2, <1>2, <1>4
  <1>5. CASE SensorSends
    <2>1. /\ client = "none" /\ outbox # <<>> /\ ReachesBroker(Head(outbox)) /\ outbox' = <<>>
          /\ UNCHANGED <<kind, windowVars, client, taken, said, lost>>
      BY <1>5 DEF SensorSends, historyVars
    <2>2. QED
      BY <2>1, <1>1, <1>2, <1>3, <1>4, EmptySequence DEF LinkStep
  <1>6. CASE SensorGivesUp
    <2>1. /\ client = "none" /\ outbox # <<>> /\ outbox' = <<>>
          /\ lost' = lost \cup {Head(outbox).sample}
          /\ UNCHANGED <<kind, windowVars, client, taken, said, broker, flow, rows>>
      BY <1>6 DEF SensorGivesUp, backendVars
    <2>2. QED
      BY <2>1, <1>1, <1>4, EmptySequence DEF LinkStep
  <1>7. CASE ClientStarts
    <2>1. /\ client # "none" /\ client' # "none"
          /\ UNCHANGED <<outbox, kind, windowVars, taken, said, lost, broker, flow, rows>>
      BY <1>7 DEF ClientStarts, init_mosquitto, on_connect, backendVars, historyVars
    <2>2. QED
      BY <2>1, <1>1 DEF LinkStep
  <1>8. CASE ClientSends
    <2>1. /\ client = "connected" /\ outbox # <<>> /\ outbox' = Tail(outbox)
          /\ ReachesBroker(Head(outbox))
          /\ UNCHANGED <<client, kind, windowVars, taken, said, lost>>
      BY <1>8 DEF ClientSends, Acknowledged, historyVars
    <2>2. QED
      BY <2>1, <1>1, <1>2, <1>3 DEF LinkStep
  <1>9. CASE ClientReconnects
    <2>1. /\ client = "connected" /\ client' = "connecting" /\ outbox # <<>>
          /\ UNCHANGED <<outbox, kind, windowVars, taken, said, lost>>
          /\ ReachesBroker(Head(outbox)) \/ UNCHANGED <<broker, flow, rows>>
      BY <1>9 DEF ClientReconnects, ConnectionBreaks, backendVars
    <2>2. CASE ReachesBroker(Head(outbox))
      BY <2>1, <2>2, <1>1, <1>2, <1>3 DEF LinkStep
    <2>3. CASE UNCHANGED <<broker, flow, rows>>
      BY <2>1, <2>3, <1>1 DEF LinkStep
    <2>4. QED
      BY <2>1, <2>2, <2>3
  <1>10. CASE BridgeRepeats
    <2>1. PICK k \in DOMAIN said : ReachesBroker(said[k])
      BY <1>10 DEF BridgeRepeats
    <2>2. UNCHANGED <<client, outbox, kind, windowVars, taken, said, lost>>
      BY <1>10 DEF BridgeRepeats, publisherVars
    <2>3. Genuine(said[k])
      BY <1>1 DEF Genuine
    <2>4. QED
      BY <2>1, <2>2, <2>3, <1>1, <1>3 DEF LinkStep
  <1>11. QED
    BY <1>5, <1>6, <1>7, <1>8, <1>9, <1>10

-----------------------------------------------------------------------------
(* A new sample.                                                           *)

\* The histories grow together.
LEMMA SampleGrows ==
    ASSUME IInv, NEW reading, NEW m, NewSample(reading, m)
    PROVE  /\ Histories'
           /\ DOMAIN said' = DOMAIN said \cup {m.sample} /\ m.sample \notin DOMAIN said
           /\ said'[m.sample] = m /\ taken'[m.sample] = reading
           /\ m.sample = Len(said) + 1 /\ Len(taken') = Len(taken) + 1 /\ Len(taken) = Len(said)
           /\ Len(said) \in Nat /\ DOMAIN said = 1 .. Len(said)
           /\ \A k \in DOMAIN said : said'[k] = said[k] /\ taken'[k] = taken[k]
  <1>1. /\ IsSeq(outbox) /\ IsSeq(broker) /\ IsSeq(said) /\ IsSeq(taken) /\ Len(said) = Len(taken)
        /\ \A k \in DOMAIN said : said[k].sample = k
    BY DEF IInv, Histories
  <1>2. said' = Append(said, m) /\ taken' = Append(taken, reading) /\ m.sample = Len(said) + 1
    BY DEF NewSample, Recorded
  <1>3. /\ IsSeq(said') /\ Len(said') = Len(said) + 1 /\ Len(said) \in Nat
        /\ DOMAIN said = 1 .. Len(said) /\ DOMAIN said' = 1 .. (Len(said) + 1)
        /\ \A k \in DOMAIN said : said'[k] = said[k]
        /\ said'[Len(said) + 1] = m
    BY <1>1, <1>2, Appended
  <1>4. /\ IsSeq(taken') /\ Len(taken') = Len(taken) + 1
        /\ DOMAIN taken = 1 .. Len(taken)
        /\ \A k \in DOMAIN taken : taken'[k] = taken[k]
        /\ taken'[Len(taken) + 1] = reading
    BY <1>1, <1>2, Appended
  <1>5. IsSeq(outbox') /\ IsSeq(broker')
    BY <1>1 DEF NewSample, backendVars
  <1>6. \A k \in DOMAIN said' : said'[k].sample = k
    BY <1>1, <1>2, <1>3
  <1>7. QED
    BY <1>1, <1>2, <1>3, <1>4, <1>5, <1>6 DEF Histories

\* What is on its way and what is stored stays what it was.
LEMMA SampleKeepsMessages ==
    ASSUME IInv, NEW reading, NEW m, NewSample(reading, m)
    PROVE  OnTheWay' /\ FlowChecked' /\ RowsOfSamples'
  <1>1. /\ DOMAIN said \subseteq DOMAIN said' /\ m.sample \in DOMAIN said' /\ said'[m.sample] = m
        /\ \A k \in DOMAIN said : said'[k] = said[k]
    BY SampleGrows
  <1>2. UNCHANGED <<broker, flow, rows>> /\ Range(outbox') \subseteq Range(outbox) \cup {m}
    BY DEF NewSample, backendVars
  <1>3. \A n : Genuine(n) => Genuine(n)'
    BY <1>1 DEF Genuine
  <1>4. Genuine(m)'
    BY <1>1 DEF Genuine
  <1>5. OnTheWay'
    BY <1>2, <1>3, <1>4 DEF OnTheWay, IInv
  <1>6. FlowChecked'
    BY <1>2 DEF FlowChecked, IInv
  <1>7. ASSUME NEW r \in BagToSet(rows) PROVE RowOfSample(r)'
    <2>1. RowOfSample(r)
      BY <1>7 DEF IInv, RowsOfSamples
    <2>2. QED
      BY <2>1, <1>1 DEF RowOfSample
  <1>8. RowsOfSamples'
    BY <1>2, <1>7 DEF RowsOfSamples
  <1>9. QED
    BY <1>5, <1>6, <1>8

\* The new sample is on its way or lost, the others are where they were.
LEMMA SampleForgetsNothing ==
    ASSUME IInv, NEW reading, NEW m, NewSample(reading, m)
    PROVE  NothingForgotten'
  <1>1. /\ DOMAIN said' = DOMAIN said \cup {m.sample}
        /\ \A k \in DOMAIN said : said'[k] = said[k]
    BY SampleGrows
  <1>2. /\ UNCHANGED <<broker, flow, rows>> /\ Range(outbox) \subseteq Range(outbox')
        /\ lost \subseteq lost' /\ (m \in Range(outbox') \/ m.sample \in lost')
    BY DEF NewSample, backendVars
  <1>3. SUFFICES ASSUME NEW k \in DOMAIN said' \ lost', Valid(said'[k]),
                        NEW i \in DOMAIN said'[k].noise
                 PROVE  Stored(k, i)' \/ Coming(k, i)'
    BY DEF NothingForgotten
  <1>4. CASE k = m.sample
    BY <1>2, <1>4 DEF Coming
  <1>5. CASE k # m.sample
    <2>1. k \in DOMAIN said \ lost /\ said'[k] = said[k]
      BY <1>1, <1>2, <1>5
    <2>2. Stored(k, i) \/ Coming(k, i)
      BY <2>1, <1>3 DEF IInv, NothingForgotten
    <2>3. Stored(k, i) => Stored(k, i)'
      BY <1>2 DEF Stored
    <2>4. Coming(k, i) => Coming(k, i)'
      BY <1>2 DEF Coming
    <2>5. QED
      BY <2>2, <2>3, <2>4
  <1>6. QED
    BY <1>4, <1>5

-----------------------------------------------------------------------------
(* A step of a link.                                                       *)

\* Messages only move on, are repeated, or are lost.
LEMMA LinkKeeps ==
    ASSUME IInv, LinkStep
    PROVE  IInv'
  <1>1. /\ UNCHANGED <<kind, said, taken, noise_values, position, flow, rows>>
        /\ IsSeq(outbox') /\ IsSeq(broker')
        /\ Range(outbox') \subseteq Range(outbox) /\ Range(broker) \subseteq Range(broker')
        /\ \A m \in Range(broker') \ Range(broker) : Genuine(m)
        /\ lost \subseteq lost'
        /\ \A m \in Range(outbox) \ Range(outbox') : m \in Range(broker') \/ m.sample \in lost'
    BY DEF LinkStep, windowVars
  <1>2. Histories'
    BY <1>1 DEF IInv, Histories
  <1>3. Link'
    BY <1>1 DEF IInv, Link, LinkStep
  <1>4. OnTheWay'
    <2>1. \A n : Genuine(n) => Genuine(n)'
      BY <1>1 DEF Genuine
    <2>2. QED
      BY <2>1, <1>1 DEF IInv, OnTheWay
  <1>5. FlowChecked'
    BY <1>1 DEF IInv, FlowChecked
  <1>6. RowsOfSamples'
    BY <1>1 DEF IInv, RowsOfSamples, RowOfSample
  <1>7. NothingForgotten'
    <2>1. SUFFICES ASSUME NEW k \in DOMAIN said \ lost', Valid(said[k]),
                          NEW i \in DOMAIN said[k].noise
                   PROVE  Stored(k, i)' \/ Coming(k, i)'
      BY <1>1 DEF NothingForgotten
    <2>2. Stored(k, i) \/ Coming(k, i)
      BY <2>1, <1>1 DEF IInv, NothingForgotten
    <2>3. Stored(k, i) => Stored(k, i)'
      BY <1>1 DEF Stored
    <2>4. Coming(k, i) => Coming(k, i)'
      BY <2>1, <1>1 DEF Coming
    <2>5. QED
      BY <2>2, <2>3, <2>4
  <1>8. WindowRecent' /\ RawIsRecent'
    BY <1>1 DEF IInv, WindowRecent, RawIsRecent, Age
  <1>9. QED
    BY <1>2, <1>3, <1>4, <1>5, <1>6, <1>7, <1>8 DEF IInv

-----------------------------------------------------------------------------
(* The steps of the back end.                                              *)

\* The parts of the invariant about the producer do not notice them.
LEMMA ProducerKeeps ==
    ASSUME IInv, BackendOnly, IsSeq(broker')
    PROVE  Histories' /\ Link' /\ WindowRecent' /\ RawIsRecent' /\ \A n : Genuine(n) => Genuine(n)'
  <1>1. UNCHANGED <<kind, said, taken, noise_values, position, client, outbox>>
    BY DEF BackendOnly, windowVars
  <1>2. Histories' /\ Link'
    BY <1>1 DEF IInv, Histories, Link
  <1>3. WindowRecent' /\ RawIsRecent'
    BY <1>1 DEF IInv, WindowRecent, RawIsRecent, Age
  <1>4. \A n : Genuine(n) => Genuine(n)'
    BY <1>1 DEF Genuine
  <1>5. QED
    BY <1>2, <1>3, <1>4

\* The first checks.
LEMMA ArriveKeeps ==
    ASSUME IInv, BackendOnly, UNCHANGED lost, Arrive
    PROVE  IInv'
  <1> DEFINE m == Head(broker)
  <1>1. /\ broker # <<>> /\ broker' = Tail(broker) /\ UNCHANGED rows
        /\ flow' = IF CheckRegion(m) /\ Schema(m) THEN Bag!BagAdd(flow, Waiting(m)) ELSE flow
    BY DEF Arrive
  <1>2. /\ IsSeq(broker') /\ m \in Range(broker)
        /\ Range(broker) = {m} \cup Range(broker')
    BY <1>1, HeadAndTail DEF IInv, Histories
  <1> HIDE DEF m
  <1>3. UNCHANGED <<said, outbox, lost, rows>>
    BY <1>1 DEF BackendOnly
  <1>4. Histories' /\ Link' /\ WindowRecent' /\ RawIsRecent' /\ \A n : Genuine(n) => Genuine(n)'
    BY <1>2, ProducerKeeps
  <1>5. Genuine(m)
    BY <1>2 DEF IInv, OnTheWay
  <1>6. \/ CheckRegion(m) /\ Schema(m) /\ BagToSet(flow') = BagToSet(flow) \cup {Waiting(m)}
        \/ ~ (CheckRegion(m) /\ Schema(m)) /\ flow' = flow
    BY <1>1, AddedToBag
  <1>7. Waiting(m).msg = m /\ Waiting(m).stage = "boundaries"
    BY DEF Waiting
  <1>8. Schema(m) => Checked(Waiting(m))
    BY DEF Checked, Waiting
  <1>9. OnTheWay'
    BY <1>2, <1>3, <1>4, <1>5, <1>6, <1>7 DEF IInv, OnTheWay
  <1>10. FlowChecked'
    BY <1>6, <1>8 DEF IInv, FlowChecked
  <1>11. RowsOfSamples'
    BY <1>3 DEF IInv, RowsOfSamples, RowOfSample
  <1>12. NothingForgotten'
    <2>1. SUFFICES ASSUME NEW k \in DOMAIN said \ lost, Valid(said[k]),
                          NEW i \in DOMAIN said[k].noise
                   PROVE  Stored(k, i)' \/ Coming(k, i)'
      BY <1>3 DEF NothingForgotten
    <2>2. Stored(k, i) \/ Coming(k, i)
      BY <2>1 DEF IInv, NothingForgotten
    <2>3. Stored(k, i) => Stored(k, i)'
      BY <1>3 DEF Stored
    <2>4. CASE m.sample = k
      <3>1. Valid(m)
        BY <2>1, <2>4, <1>5 DEF Genuine
      <3>2. CheckRegion(m)
        BY <3>1, RegionsAssumption DEF Valid, WithinBoundaries, CheckRegion
      <3>3. Waiting(m) \in BagToSet(flow')
        BY <3>1, <3>2, <1>6 DEF Valid
      <3>4. QED
        BY <2>4, <3>3, <1>7 DEF Coming
    <2>5. CASE m.sample # k
      <3>1. Coming(k, i) => Coming(k, i)'
        BY <2>5, <1>2, <1>3, <1>6 DEF Coming
      <3>2. QED
        BY <2>2, <2>3, <3>1
    <2>6. QED
      BY <2>4, <2>5
  <1>13. QED
    BY <1>4, <1>9, <1>10, <1>11, <1>12 DEF IInv

\* A message of the flow gets further, or drops out after a check or a fault.
LEMMA FlowKeeps ==
    ASSUME IInv, BackendOnly, UNCHANGED <<broker, rows>>, lost \subseteq lost',
           NEW f \in BagToSet(flow), NEW next, Becomes(f, next),
           \A g \in next : Checked(g) /\ g.msg = f.msg,
           \/ f.msg.sample \in lost'
           \/ ~ Valid(f.msg)
           \/ \E g \in next : g.stage = "insert" =>
                  IF f.stage = "insert" THEN f.left \subseteq g.left ELSE g.left = DOMAIN f.msg.noise
    PROVE  IInv'
  <1>1. UNCHANGED <<said, outbox, broker, rows>>
    BY DEF BackendOnly
  <1>2. IsSeq(broker')
    BY <1>1 DEF IInv, Histories
  <1>3. Histories' /\ Link' /\ WindowRecent' /\ RawIsRecent' /\ \A n : Genuine(n) => Genuine(n)'
    BY <1>2, ProducerKeeps
  <1>4. /\ BagToSet(flow') \subseteq BagToSet(flow) \cup next
        /\ (BagToSet(flow) \ {f}) \cup next \subseteq BagToSet(flow')
    BY Replaced
  <1>5. Genuine(f.msg)
    BY DEF IInv, OnTheWay
  <1>6. OnTheWay'
    BY <1>1, <1>3, <1>4, <1>5 DEF IInv, OnTheWay
  <1>7. FlowChecked'
    BY <1>4 DEF IInv, FlowChecked
  <1>8. RowsOfSamples'
    BY <1>1 DEF IInv, RowsOfSamples, RowOfSample
  <1>9. NothingForgotten'
    <2>1. SUFFICES ASSUME NEW k \in DOMAIN said \ lost', Valid(said[k]),
                          NEW i \in DOMAIN said[k].noise
                   PROVE  Stored(k, i)' \/ Coming(k, i)'
      BY <1>1 DEF NothingForgotten
    <2>2. Stored(k, i) \/ Coming(k, i)
      BY <2>1 DEF IInv, NothingForgotten
    <2>3. Stored(k, i) => Stored(k, i)'
      BY <1>1 DEF Stored
    <2>4. CASE f.msg.sample = k /\ (f.stage = "insert" => i \in f.left)
      <3>1. f.msg = said[k]
        BY <2>4, <1>5 DEF Genuine
      <3>2. PICK g \in next : g.stage = "insert" =>
                IF f.stage = "insert" THEN f.left \subseteq g.left ELSE g.left = DOMAIN f.msg.noise
        BY <2>1, <2>4, <3>1
      <3>3. g \in BagToSet(flow') /\ g.msg = f.msg
        BY <3>2, <1>4
      <3>4. g.stage = "insert" => i \in g.left
        BY <2>1, <2>4, <3>1, <3>2
      <3>5. QED
        BY <2>4, <3>3, <3>4 DEF Coming
    <2>5. CASE ~ (f.msg.sample = k /\ (f.stage = "insert" => i \in f.left))
      <3>1. Coming(k, i) => Coming(k, i)'
        BY <2>5, <1>1, <1>4 DEF Coming
      <3>2. QED
        BY <2>2, <2>3, <3>1
    <2>6. QED
      BY <2>4, <2>5
  <1>10. QED
    BY <1>3, <1>6, <1>7, <1>8, <1>9 DEF IInv

\* The region's bounds are known.
LEMMA BoundariesKeeps ==
    ASSUME IInv, BackendOnly, UNCHANGED lost, BoundariesAnswered
    PROVE  IInv'
  <1>1. PICK f \in BagToSet(flow) :
            /\ f.stage = "boundaries"
            /\ Becomes(f, IF WithinBoundaries(f.msg) THEN {[f EXCEPT !.stage = "nearest"]} ELSE {})
            /\ UNCHANGED <<broker, rows>>
    BY DEF BoundariesAnswered
  <1>2. Checked(f)
    BY DEF IInv, FlowChecked
  <1> DEFINE g == [f EXCEPT !.stage = "nearest"]
  <1>3. /\ g = [msg |-> f.msg, stage |-> "nearest", nearestPoint |-> f.nearestPoint, left |-> f.left]
        /\ g.msg = f.msg /\ g.stage = "nearest" /\ g.left = f.left /\ g.nearestPoint = f.nearestPoint
    BY <1>2 DEF Checked
  <1> HIDE DEF g
  <1>4. CASE WithinBoundaries(f.msg)
    <2>1. Checked(g)
      BY <1>1, <1>2, <1>3, <1>4 DEF Checked
    <2>2. Becomes(f, {g})
      BY <1>1, <1>4 DEF g
    <2>3. QED
      BY <1>1, <1>3, <2>1, <2>2, FlowKeeps
  <1>5. CASE ~ WithinBoundaries(f.msg)
    <2>1. Becomes(f, {}) /\ ~ Valid(f.msg)
      BY <1>1, <1>5 DEF Valid
    <2>2. QED
      BY <1>1, <2>1, FlowKeeps
  <1>6. QED
    BY <1>4, <1>5

\* The nearest point is known.
LEMMA NearestKeeps ==
    ASSUME IInv, BackendOnly, UNCHANGED lost, NearestAnswered
    PROVE  IInv'
  <1>1. PICK f \in BagToSet(flow) :
            /\ f.stage = "nearest"
            /\ \E id \in IF Nearest(f.msg) = {} THEN {0} ELSE {p.id : p \in Nearest(f.msg)} :
                   Becomes(f, {[f EXCEPT !.stage = "insert", !.nearestPoint = id,
                                         !.left = DOMAIN f.msg.noise]})
            /\ UNCHANGED <<broker, rows>>
    BY DEF NearestAnswered
  <1>2. PICK id \in IF Nearest(f.msg) = {} THEN {0} ELSE {p.id : p \in Nearest(f.msg)} :
            Becomes(f, {[f EXCEPT !.stage = "insert", !.nearestPoint = id,
                                  !.left = DOMAIN f.msg.noise]})
    BY <1>1
  <1>3. Checked(f)
    BY DEF IInv, FlowChecked
  <1> DEFINE g == [f EXCEPT !.stage = "insert", !.nearestPoint = id, !.left = DOMAIN f.msg.noise]
  <1>4. /\ g = [msg |-> f.msg, stage |-> "insert", nearestPoint |-> id, left |-> DOMAIN f.msg.noise]
        /\ g.msg = f.msg /\ g.stage = "insert" /\ g.left = DOMAIN f.msg.noise /\ g.nearestPoint = id
    <2>1. f = [msg |-> f.msg, stage |-> f.stage, nearestPoint |-> f.nearestPoint, left |-> f.left]
      BY <1>3 DEF Checked
    <2>2. g = [[msg |-> f.msg, stage |-> f.stage, nearestPoint |-> f.nearestPoint, left |-> f.left]
                   EXCEPT !.stage = "insert", !.nearestPoint = id, !.left = DOMAIN f.msg.noise]
      BY <2>1
    <2> HIDE DEF g
    <2>3. QED
      BY <2>2
  <1>5. Becomes(f, {g})
    BY <1>2
  <1> HIDE DEF g
  <1>6. NearestRight(f.msg, id)
    <2>1. CASE Nearest(f.msg) = {}
      <3>1. id = 0
        BY <2>1, <1>2
      <3>2. QED
        BY <1>1, <1>3, <2>1, <3>1, NearestOfNone DEF Checked, NearestRight
    <2>2. CASE Nearest(f.msg) # {}
      <3>1. PICK p \in Nearest(f.msg) : id = p.id
        BY <2>2, <1>2
      <3>2. QED
        BY <3>1 DEF NearestRight
    <2>3. QED
      BY <2>1, <2>2
  <1>7. Checked(g)
    BY <1>1, <1>3, <1>4, <1>6 DEF Checked
  <1>8. QED
    BY <1>1, <1>4, <1>5, <1>7, FlowKeeps

\* What is left of a message has been checked like it.
LEMMA WithoutChecked ==
    ASSUME NEW f, Checked(f), NEW i \in f.left
    PROVE  /\ f.stage = "insert"
           /\ \A g \in Without(f, i) : Checked(g) /\ g.msg = f.msg /\ g.left = f.left \ {i}
           /\ Without(f, i) = {} => f.left = {i}
  <1>1. f.stage = "insert"
    BY DEF Checked
  <1>2. ASSUME NEW g \in Without(f, i) PROVE Checked(g) /\ g.msg = f.msg /\ g.left = f.left \ {i}
    <2>1. g = [f EXCEPT !.left = @ \ {i}]
      BY <1>2 DEF Without
    <2>2. f = [msg |-> f.msg, stage |-> f.stage, nearestPoint |-> f.nearestPoint, left |-> f.left]
      BY DEF Checked
    <2>3. /\ g = [msg |-> f.msg, stage |-> f.stage, nearestPoint |-> f.nearestPoint,
                  left |-> f.left \ {i}]
          /\ g.msg = f.msg /\ g.stage = f.stage /\ g.nearestPoint = f.nearestPoint
          /\ g.left = f.left \ {i}
      BY <2>1, <2>2
    <2>4. Checked(g)
      BY <1>1, <2>3 DEF Checked
    <2>5. QED
      BY <2>3, <2>4
  <1>3. Without(f, i) = {} => f.left = {i}
    BY DEF Without
  <1>4. QED
    BY <1>1, <1>2, <1>3

\* One value is stored.
LEMMA InsertedKeeps ==
    ASSUME IInv, BackendOnly, UNCHANGED lost, Inserted
    PROVE  IInv'
  <1>0. PICK f \in BagToSet(flow) : \E i \in f.left :
            /\ rows' = Bag!BagAdd(rows, Row(f.msg, i, f.nearestPoint))
            /\ Becomes(f, Without(f, i))
            /\ UNCHANGED broker
    BY DEF Inserted
  <1>1. PICK i \in f.left :
            /\ rows' = Bag!BagAdd(rows, Row(f.msg, i, f.nearestPoint))
            /\ Becomes(f, Without(f, i))
            /\ UNCHANGED broker
    BY <1>0
  <1> DEFINE row == Row(f.msg, i, f.nearestPoint)
             next == Without(f, i)
  <1>2. Checked(f) /\ Genuine(f.msg)
    BY DEF IInv, FlowChecked, OnTheWay
  <1>3. /\ f.stage = "insert"
        /\ \A g \in next : Checked(g) /\ g.msg = f.msg /\ g.left = f.left \ {i}
        /\ next = {} => f.left = {i}
    BY <1>2, WithoutChecked
  <1>4. BagToSet(rows') = BagToSet(rows) \cup {row}
    BY <1>1, AddedToBag
  <1>5. /\ row.sample = f.msg.sample /\ row.value = i /\ row.nearest_point = f.nearestPoint
    BY DEF Row
  <1>6. RowOfSample(row)
    <2>1. said[row.sample] = f.msg /\ row.sample \in DOMAIN said
      BY <1>2, <1>5 DEF Genuine
    <2>2. Valid(f.msg) /\ i \in DOMAIN f.msg.noise /\ NearestRight(f.msg, f.nearestPoint)
      BY <1>2, <1>3 DEF Checked, Valid
    <2>3. row = Row(said[row.sample], row.value, row.nearest_point)
      BY <2>1, <1>5
    <2> HIDE DEF row
    <2>4. QED
      BY <2>1, <2>2, <2>3, <1>5 DEF RowOfSample
  <1>7. /\ BagToSet(flow') \subseteq BagToSet(flow) \cup next
        /\ (BagToSet(flow) \ {f}) \cup next \subseteq BagToSet(flow')
    BY <1>1, Replaced
  <1> HIDE DEF row, next
  <1>8. UNCHANGED <<said, outbox, broker, lost>>
    BY <1>1 DEF BackendOnly
  <1>9. IsSeq(broker')
    BY <1>8 DEF IInv, Histories
  <1>10. Histories' /\ Link' /\ WindowRecent' /\ RawIsRecent' /\ \A n : Genuine(n) => Genuine(n)'
    BY <1>9, ProducerKeeps
  <1>11. OnTheWay'
    BY <1>2, <1>3, <1>7, <1>8, <1>10 DEF IInv, OnTheWay
  <1>12. FlowChecked'
    BY <1>3, <1>7 DEF IInv, FlowChecked
  <1>13. RowsOfSamples'
    <2>1. \A r : RowOfSample(r) => RowOfSample(r)'
      BY <1>8 DEF RowOfSample
    <2>2. QED
      BY <2>1, <1>4, <1>6 DEF IInv, RowsOfSamples
  <1>14. NothingForgotten'
    <2>1. SUFFICES ASSUME NEW k \in DOMAIN said \ lost, Valid(said[k]),
                          NEW j \in DOMAIN said[k].noise
                   PROVE  Stored(k, j)' \/ Coming(k, j)'
      BY <1>8 DEF NothingForgotten
    <2>2. Stored(k, j) \/ Coming(k, j)
      BY <2>1 DEF IInv, NothingForgotten
    <2>3. Stored(k, j) => Stored(k, j)'
      BY <1>4 DEF Stored
    <2>4. CASE f.msg.sample = k /\ j = i
      BY <2>4, <1>4, <1>5 DEF Stored
    <2>5. CASE f.msg.sample = k /\ j \in f.left /\ j # i
      <3>1. PICK g : g \in next
        BY <2>5, <1>3
      <3>2. g \in BagToSet(flow') /\ g.msg.sample = k /\ j \in g.left
        BY <2>5, <3>1, <1>3, <1>7
      <3>3. QED
        BY <3>2 DEF Coming
    <2>6. CASE ~ (f.msg.sample = k /\ j \in f.left)
      <3>1. Coming(k, j) => Coming(k, j)'
        BY <2>6, <1>3, <1>7, <1>8 DEF Coming
      <3>2. QED
        BY <2>2, <2>3, <3>1
    <2>7. QED
      BY <2>4, <2>5, <2>6
  <1>15. QED
    BY <1>10, <1>11, <1>12, <1>13, <1>14 DEF IInv

\* A query fails, or Node-RED's session is lost.
LEMMA FailsKeeps ==
    ASSUME IInv, BackendOnly,
           \/ \E f \in BagToSet(flow) : QueryFails(f) /\ lost' = lost \cup {f.msg.sample}
           \/ /\ broker # <<>> /\ SessionLost
              /\ lost' = lost \cup {broker[i].sample : i \in DOMAIN broker}
    PROVE  IInv'
  <1>1. ASSUME NEW f \in BagToSet(flow), QueryFails(f), lost' = lost \cup {f.msg.sample}
        PROVE  IInv'
    <2>1. UNCHANGED <<broker, rows>> /\ Checked(f)
      BY <1>1 DEF QueryFails, IInv, FlowChecked
    <2>2. CASE Becomes(f, {})
      BY <1>1, <2>1, <2>2, FlowKeeps
    <2>3. ASSUME NEW i \in f.left, Becomes(f, Without(f, i)) PROVE IInv'
      <3>1. \A g \in Without(f, i) : Checked(g) /\ g.msg = f.msg
        BY <2>1, WithoutChecked
      <3>2. QED
        BY <1>1, <2>1, <2>3, <3>1, FlowKeeps
    <2>4. QED
      BY <1>1, <2>2, <2>3 DEF QueryFails
  <1>2. ASSUME SessionLost, lost' = lost \cup {broker[i].sample : i \in DOMAIN broker}
        PROVE  IInv'
    <2>1. UNCHANGED <<said, outbox, flow, rows>> /\ broker' = <<>>
      BY <1>2 DEF SessionLost, BackendOnly
    <2>2. IsSeq(broker') /\ Range(broker') = {}
      BY <2>1, EmptySequence
    <2>3. Histories' /\ Link' /\ WindowRecent' /\ RawIsRecent' /\ \A n : Genuine(n) => Genuine(n)'
      BY <2>2, ProducerKeeps
    <2>4. OnTheWay'
      BY <2>1, <2>2, <2>3 DEF IInv, OnTheWay
    <2>5. FlowChecked' /\ RowsOfSamples'
      BY <2>1 DEF IInv, FlowChecked, RowsOfSamples, RowOfSample
    <2>6. NothingForgotten'
      <3>1. SUFFICES ASSUME NEW k \in DOMAIN said \ lost', Valid(said[k]),
                            NEW i \in DOMAIN said[k].noise
                     PROVE  Stored(k, i)' \/ Coming(k, i)'
        BY <2>1 DEF NothingForgotten
      <3>2. Stored(k, i) \/ Coming(k, i)
        BY <3>1, <1>2 DEF IInv, NothingForgotten
      <3>3. Stored(k, i) => Stored(k, i)'
        BY <2>1 DEF Stored
      <3>4. \A m \in Range(broker) : m.sample # k
        BY <3>1, <1>2 DEF Range
      <3>5. Coming(k, i) => Coming(k, i)'
        BY <3>4, <2>1 DEF Coming
      <3>6. QED
        BY <3>2, <3>3, <3>5
    <2>7. QED
      BY <2>3, <2>4, <2>5, <2>6 DEF IInv
  <1>3. QED
    BY <1>1, <1>2

-----------------------------------------------------------------------------
(* The window.                                                             *)

\* The place after p in the ring.
LEMMA NextPlace ==
    ASSUME NEW p \in Ring
    PROVE  (p + 1) % MAX_WINDOW_SIZE = IF p = MAX_WINDOW_SIZE - 1 THEN 0 ELSE p + 1
  <1> DEFINE W == MAX_WINDOW_SIZE
  <1>1. W \in Nat \ {0} /\ p \in 0 .. (W - 1)
    BY WindowAssumption DEF Ring
  <1> HIDE DEF W
  <1>2. CASE p = W - 1
    <2>1. (W * 1 + 0) % W = 0
      <3>1. 1 \in Nat /\ 0 \in 0 .. (W - 1)
        BY <1>1
      <3>2. QED
        BY <1>1, <3>1, DivModUnique
    <2>2. W * 1 + 0 = p + 1
      BY <1>1, <1>2
    <2>3. QED
      BY <2>1, <2>2, <1>2 DEF W
  <1>3. CASE p # W - 1
    <2>1. p + 1 \in 0 .. (W - 1)
      BY <1>1, <1>3
    <2>2. (W * 0 + (p + 1)) % W = p + 1
      <3>1. 0 \in Nat
        OBVIOUS
      <3>2. QED
        BY <1>1, <2>1, <3>1, DivModUnique
    <2>3. W * 0 + (p + 1) = p + 1
      BY <1>1
    <2>4. QED
      BY <2>2, <2>3, <1>3 DEF W
  <1>4. QED
    BY <1>2, <1>3

\* A reading enters the ring; the others are one reading older.
LEMMA ReadingEnters ==
    ASSUME IInv, NEW reading, noise_processing(reading), kind # "mpi"
    PROVE  WindowRecent'
  <1>1. PICK m : NewSample(reading, m)
    BY SensorStep
  <1>2. /\ taken'[Len(taken) + 1] = reading /\ Len(taken') = Len(taken) + 1 /\ Len(taken) \in Nat
        /\ \A k \in 1 .. Len(taken) : taken'[k] = taken[k]
    <2>1. /\ taken'[m.sample] = reading /\ Len(taken') = Len(taken) + 1 /\ Len(taken) = Len(said)
          /\ m.sample = Len(said) + 1 /\ Len(said) \in Nat /\ DOMAIN said = 1 .. Len(said)
          /\ \A k \in DOMAIN said : taken'[k] = taken[k]
      BY <1>1, SampleGrows
    <2>2. QED
      BY <2>1
  <1>3. /\ position \in Ring /\ DOMAIN noise_values = Ring
        /\ noise_values = [i \in Ring |-> noise_values[i]]
        /\ \A i \in Ring :
               \/ noise_values[i] = 0
               \/ Age(i) < Len(taken) /\ noise_values[i] = taken[Len(taken) - Age(i)].noise
    BY DEF IInv, WindowRecent
  <1>4. /\ noise_values' = [noise_values EXCEPT ![position] = reading.noise]
        /\ position' = IF position = MAX_WINDOW_SIZE - 1 THEN 0 ELSE position + 1
        /\ kind' = kind
    BY <1>3, NextPlace DEF noise_processing, TakeReading
  <1>5. MAX_WINDOW_SIZE \in Nat \ {0} /\ \A i \in Ring : i \in 0 .. (MAX_WINDOW_SIZE - 1)
    BY WindowAssumption DEF Ring
  <1>6. position' \in Ring
    BY <1>3, <1>4, <1>5 DEF Ring
  <1>7. DOMAIN noise_values' = Ring /\ noise_values' = [i \in Ring |-> noise_values'[i]]
    BY <1>3, <1>4
  <1>8. ASSUME NEW i \in Ring
        PROVE  \/ noise_values'[i] = 0
               \/ Age(i)' < Len(taken') /\ noise_values'[i] = taken'[Len(taken') - Age(i)'].noise
    <2>1. CASE i = position
      <3>1. Age(i)' = 0
        BY <2>1, <1>3, <1>4, <1>5 DEF Age
      <3>2. noise_values'[i] = reading.noise
        BY <2>1, <1>3, <1>4
      <3>3. QED
        BY <3>1, <3>2, <1>2
    <2>2. CASE i # position
      <3>1. Age(i)' = Age(i) + 1 /\ Age(i) \in Nat
        <4>1. i \in Int /\ 0 <= i /\ i <= MAX_WINDOW_SIZE - 1 /\ MAX_WINDOW_SIZE \in Int
          BY <1>5, <1>8
        <4>2. position \in Int /\ 0 <= position /\ position <= MAX_WINDOW_SIZE - 1
          BY <1>3, <1>5
        <4>3. CASE position = MAX_WINDOW_SIZE - 1
          BY <2>2, <4>1, <4>2, <4>3, <1>4 DEF Age
        <4>4. CASE position # MAX_WINDOW_SIZE - 1
          BY <2>2, <4>1, <4>2, <4>4, <1>4 DEF Age
        <4>5. QED
          BY <4>3, <4>4
      <3>2. noise_values'[i] = noise_values[i]
        BY <2>2, <1>3, <1>4
      <3>3. CASE noise_values[i] = 0
        BY <3>2, <3>3
      <3>4. CASE Age(i) < Len(taken) /\ noise_values[i] = taken[Len(taken) - Age(i)].noise
        <4>1. Len(taken) - Age(i) \in 1 .. Len(taken) /\ Len(taken') - Age(i)' = Len(taken) - Age(i)
          BY <3>1, <3>4, <1>2
        <4>2. QED
          BY <4>1, <3>1, <3>2, <3>4, <1>2
      <3>5. QED
        BY <3>3, <3>4, <1>3
    <2>3. QED
      BY <2>1, <2>2
  <1>9. QED
    BY <1>6, <1>7, <1>8 DEF WindowRecent

\* The readings of older samples are still those.
LEMMA OlderAreRecent ==
    ASSUME IInv, NEW reading, NEW m, NewSample(reading, m), NEW k \in DOMAIN said,
           said'[k].mode = "raw", NEW i \in DOMAIN said'[k].noise
    PROVE  \/ said'[k].noise[i] = 0
           \/ \E j \in Recent(k) : said'[k].noise[i] = 100 * taken'[j].noise
  <1>1. /\ \A n \in DOMAIN said : said'[n] = said[n] /\ taken'[n] = taken[n]
        /\ DOMAIN said = 1 .. Len(said) /\ Len(said) \in Nat
    BY SampleGrows
  <1>2. \/ said[k].noise[i] = 0
        \/ \E j \in Recent(k) : said[k].noise[i] = 100 * taken[j].noise
    BY <1>1 DEF IInv, RawIsRecent
  <1>3. \A j \in Recent(k) : j \in DOMAIN said
    BY <1>1 DEF Recent
  <1>4. QED
    BY <1>1, <1>2, <1>3

\* The window a sensor publishes.
LEMMA WindowPublished ==
    ASSUME IInv, NEW reading, noise_processing(reading), kind # "mpi"
    PROVE  RawIsRecent'
  <1> DEFINE W == MAX_WINDOW_SIZE
  <1>1. PICK m : m = Message(publish_noise(noise_values'), reading.at) /\ NewSample(reading, m)
    BY SensorStep
  <1>2. m.mode = "raw" => m.noise = [i \in 1 .. W |-> 100 * noise_values'[i - 1]]
    BY <1>1 DEF Message, publish_noise, publish_avg, publish_raw
  <1>3. /\ DOMAIN said' = DOMAIN said \cup {m.sample} /\ said'[m.sample] = m
        /\ m.sample = Len(taken') /\ Len(taken') \in Nat
    <2>1. /\ DOMAIN said' = DOMAIN said \cup {m.sample} /\ said'[m.sample] = m
          /\ m.sample = Len(said) + 1 /\ Len(taken') = Len(taken) + 1
          /\ Len(taken) = Len(said) /\ Len(said) \in Nat
      BY <1>1, SampleGrows
    <2>2. QED
      BY <2>1
  <1>4. /\ position' \in Ring
        /\ \A i \in Ring :
               \/ noise_values'[i] = 0
               \/ Age(i)' < Len(taken') /\ noise_values'[i] = taken'[Len(taken') - Age(i)'].noise
    <2>1. kind' # "mpi"
      BY DEF noise_processing
    <2>2. QED
      BY <2>1, ReadingEnters DEF WindowRecent
  <1>5. W \in Nat \ {0}
    BY WindowAssumption
  <1>6. ASSUME NEW k \in DOMAIN said', said'[k].mode = "raw", NEW i \in DOMAIN said'[k].noise
        PROVE  \/ said'[k].noise[i] = 0
               \/ \E j \in Recent(k) : said'[k].noise[i] = 100 * taken'[j].noise
    <2>1. CASE k \in DOMAIN said
      BY <1>1, <1>6, <2>1, OlderAreRecent
    <2>2. CASE k = m.sample
      <3>1. i \in 1 .. W /\ said'[k].noise[i] = 100 * noise_values'[i - 1]
        BY <1>2, <1>3, <1>6, <2>2
      <3>2. i - 1 \in Ring
        BY <3>1, <1>5 DEF Ring
      <3>3. CASE noise_values'[i - 1] = 0
        BY <3>1, <3>3
      <3>4. CASE /\ Age(i - 1)' < Len(taken')
                 /\ noise_values'[i - 1] = taken'[Len(taken') - Age(i - 1)'].noise
        <4>1. Age(i - 1)' \in Int /\ 0 <= Age(i - 1)' /\ Age(i - 1)' < W
          <5>1. position' \in Int /\ 0 <= position' /\ position' <= W - 1
            BY <1>4, <1>5 DEF Ring
          <5>2. i - 1 \in Int /\ 0 <= i - 1 /\ i - 1 <= W - 1
            BY <3>1, <1>5
          <5>3. QED
            BY <5>1, <5>2, <1>5 DEF Age
        <4>2. Len(taken') - Age(i - 1)' \in Recent(k)
          BY <4>1, <3>4, <1>3, <1>5, <2>2 DEF Recent
        <4>3. QED
          BY <4>2, <3>1, <3>4
      <3>5. QED
        BY <3>2, <3>3, <3>4, <1>4
    <2>3. QED
      BY <2>1, <2>2, <1>3
  <1>7. QED
    BY <1>6 DEF RawIsRecent, Recent

-----------------------------------------------------------------------------
(* The invariant.                                                          *)

\* A sensor takes a sample.
LEMMA SensorKeeps ==
    ASSUME IInv, NEW reading, noise_processing(reading), kind # "mpi"
    PROVE  IInv'
  <1>1. PICK m : NewSample(reading, m) /\ Len(outbox') <= 1
    BY SensorStep
  <1>2. Histories' /\ OnTheWay' /\ FlowChecked' /\ RowsOfSamples' /\ NothingForgotten'
    BY <1>1, SampleGrows, SampleKeepsMessages, SampleForgetsNothing
  <1>3. Link'
    BY <1>1 DEF IInv, Link, NewSample
  <1>4. WindowRecent' /\ RawIsRecent'
    BY ReadingEnters, WindowPublished
  <1>5. QED
    BY <1>2, <1>3, <1>4 DEF IInv

\* A rank publishes a level.
LEMMA RankKeeps ==
    ASSUME IInv, RankPublishes
    PROVE  IInv'
  <1>1. PICK reading, m : NewSample(reading, m) /\ m.mode = "avg" /\ client # "none"
    BY RankStep
  <1>2. Histories' /\ OnTheWay' /\ FlowChecked' /\ RowsOfSamples' /\ NothingForgotten'
    BY <1>1, SampleGrows, SampleKeepsMessages, SampleForgetsNothing
  <1>3. Link'
    BY <1>1 DEF IInv, Link, NewSample
  <1>4. WindowRecent'
    BY <1>1 DEF RankPublishes, WindowRecent, NewSample
  <1>5. RawIsRecent'
    <2>1. DOMAIN said' = DOMAIN said \cup {m.sample} /\ said'[m.sample] = m
      BY <1>1, SampleGrows
    <2>2. ASSUME NEW k \in DOMAIN said', said'[k].mode = "raw", NEW i \in DOMAIN said'[k].noise
          PROVE  \/ said'[k].noise[i] = 0
                 \/ \E j \in Recent(k) : said'[k].noise[i] = 100 * taken'[j].noise
      <3>1. k \in DOMAIN said
        BY <1>1, <2>1, <2>2
      <3>2. QED
        BY <1>1, <2>2, <3>1, OlderAreRecent
    <2>3. QED
      BY <2>2 DEF RawIsRecent, Recent
  <1>6. QED
    BY <1>2, <1>3, <1>4, <1>5 DEF IInv

\* Everything is empty at first.
LEMMA InitIInv ==
    ASSUME Init
    PROVE  IInv
  <1>1. /\ outbox = <<>> /\ broker = <<>> /\ said = <<>> /\ taken = <<>>
        /\ BagToSet(flow) = {} /\ BagToSet(rows) = {} /\ lost = {}
        /\ client = IF kind = "mpi" THEN "uninitialised" ELSE "none"
        /\ position = 0 /\ noise_values = [i \in Ring |-> 0]
    BY DEF Init, BackendInit, init_noise_values, BagToSet, EmptyBag, SetToBag
  <1>2. IsSeq(<<>>) /\ Len(<<>>) = 0 /\ Range(<<>>) = {} /\ DOMAIN <<>> = {}
    BY EmptySequence
  <1>3. Histories /\ Link /\ OnTheWay
    BY <1>1, <1>2 DEF Histories, Link, OnTheWay
  <1>4. FlowChecked /\ RowsOfSamples /\ NothingForgotten /\ RawIsRecent
    BY <1>1, <1>2 DEF FlowChecked, RowsOfSamples, NothingForgotten, RawIsRecent
  <1>5. WindowRecent
    BY <1>1, WindowAssumption DEF WindowRecent, Ring
  <1>6. QED
    BY <1>3, <1>4, <1>5 DEF IInv

\* Every step keeps the invariant.
LEMMA NextIInv ==
    ASSUME IInv, [Next]_vars
    PROVE  IInv'
  <1>1. CASE SensorSamples
    <2>1. PICK rssi \in Rssi : noise_processing([noise |-> rssi + 110, at |-> spot])
      BY <1>1 DEF SensorSamples
    <2>2. PICK reading : reading = [noise |-> rssi + 110, at |-> spot]
      OBVIOUS
    <2>3. noise_processing(reading) /\ kind # "mpi"
      BY <1>1, <2>1, <2>2 DEF SensorSamples
    <2>4. QED
      BY <2>3, SensorKeeps
  <1>2. CASE SimulatedSensorSamples
    <2>1. PICK reading : reading = RowRead
      OBVIOUS
    <2>2. noise_processing(reading) /\ kind # "mpi"
      BY <1>2, <2>1 DEF SimulatedSensorSamples
    <2>3. QED
      BY <2>2, SensorKeeps
  <1>3. CASE RankPublishes
    BY <1>3, RankKeeps
  <1>4. CASE \/ SensorSends \/ SensorGivesUp \/ ClientStarts \/ ClientSends
             \/ ClientReconnects \/ BridgeRepeats
    BY <1>4, LinkSteps, LinkKeeps
  <1>5. CASE BackendStep
    <2>1. BackendOnly /\ UNCHANGED lost
      BY <1>5 DEF BackendStep, BackendOnly, publisherVars, historyVars
    <2>2. Arrive \/ BoundariesAnswered \/ NearestAnswered \/ Inserted
      BY <1>5 DEF BackendStep
    <2>3. QED
      BY <2>1, <2>2, ArriveKeeps, BoundariesKeeps, NearestKeeps, InsertedKeeps
  <1>6. CASE BackendFails
    <2>1. BackendOnly
      BY <1>6 DEF BackendFails, BackendOnly, publisherVars
    <2>2. QED
      BY <1>6, <2>1, FailsKeeps DEF BackendFails
  <1>7. CASE UNCHANGED vars
    <2>1. BackendOnly /\ UNCHANGED <<broker, flow, rows, lost>>
      BY <1>7 DEF vars, BackendOnly, publisherVars, backendVars, historyVars
    <2>2. LinkStep
      BY <2>1 DEF IInv, Histories, Link, LinkStep, BackendOnly
    <2>3. QED
      BY <2>2, LinkKeeps
  <1>8. QED
    BY <1>1, <1>2, <1>3, <1>4, <1>5, <1>6, <1>7 DEF Next, Done

\* The invariant holds throughout.
LEMMA IInvHolds == Spec => []IInv
  <1>1. Init => IInv
    BY InitIInv
  <1>2. IInv /\ [Next]_vars => IInv'
    BY NextIInv
  <1>3. QED
    BY <1>1, <1>2, PTL DEF Spec

-----------------------------------------------------------------------------
(* The theorems.                                                           *)

\* A message speaks of the producer's region, and of the place of its last reading.
WhereTaken == \A k \in DOMAIN said : said[k].region = region /\ said[k].at = taken[k].at

\* A reading and its message are of one place.
LEMMA PlaceRecorded ==
    ASSUME IInv, WhereTaken, region' = region,
           NEW reading, NEW m, Recorded(reading, m), m.region = region, m.at = reading.at
    PROVE  WhereTaken'
  <1>1. IsSeq(said) /\ IsSeq(taken) /\ Len(said) = Len(taken)
    BY DEF IInv, Histories
  <1>2. said' = Append(said, m) /\ taken' = Append(taken, reading)
    BY DEF Recorded
  <1>3. /\ Len(said) \in Nat /\ DOMAIN said = 1 .. Len(said) /\ DOMAIN said' = 1 .. (Len(said) + 1)
        /\ \A k \in DOMAIN said : said'[k] = said[k]
        /\ said'[Len(said) + 1] = m
    BY <1>1, <1>2, Appended
  <1>4. /\ \A k \in DOMAIN said : taken'[k] = taken[k]
        /\ taken'[Len(said) + 1] = reading
    BY <1>1, <1>2, <1>3, Appended
  <1>5. ASSUME NEW k \in DOMAIN said' PROVE said'[k].region = region /\ said'[k].at = taken'[k].at
    <2>1. CASE k \in DOMAIN said
      BY <1>3, <1>4, <2>1 DEF WhereTaken
    <2>2. CASE k = Len(said) + 1
      BY <1>3, <1>4, <2>2
    <2>3. QED
      BY <1>3, <2>1, <2>2
  <1>6. QED
    BY <1>5 DEF WhereTaken

\* What a sensor's sample records.
LEMMA SensorRecords ==
    ASSUME IInv, WhereTaken, NEW reading, noise_processing(reading)
    PROVE  WhereTaken'
  <1>1. PICK m : m = Message(publish_noise(noise_values'), reading.at)
    OBVIOUS
  <1>2. Recorded(reading, m) /\ region' = region
    BY <1>1 DEF noise_processing
  <1>3. m.region = region /\ m.at = reading.at
    BY <1>1 DEF Message
  <1>4. QED
    BY <1>2, <1>3, PlaceRecorded

\* Every step keeps it.
LEMMA NextWhereTaken ==
    ASSUME IInv, WhereTaken, [Next]_vars
    PROVE  WhereTaken'
  <1>1. CASE SensorSamples
    BY <1>1, SensorRecords DEF SensorSamples
  <1>2. CASE SimulatedSensorSamples
    BY <1>2, SensorRecords DEF SimulatedSensorSamples
  <1>3. CASE RankPublishes
    <2>1. PICK level \in Levels, at \in Squares :
              Recorded([noise |-> level, at |-> at],
                       Message([mode |-> "avg", noise |-> <<100 * level>>], at))
      BY <1>3 DEF RankPublishes
    <2>2. PICK reading, m : /\ reading = [noise |-> level, at |-> at]
                            /\ m = Message([mode |-> "avg", noise |-> <<100 * level>>], at)
      OBVIOUS
    <2>3. Recorded(reading, m) /\ m.region = region /\ m.at = reading.at /\ region' = region
      BY <1>3, <2>1, <2>2 DEF Message, RankPublishes
    <2>4. QED
      BY <2>3, PlaceRecorded
  <1>4. CASE UNCHANGED <<region, said, taken>>
    BY <1>4 DEF WhereTaken
  <1>5. ASSUME \/ SensorSends \/ SensorGivesUp \/ ClientStarts \/ ClientSends
               \/ ClientReconnects \/ BridgeRepeats
        PROVE  UNCHANGED <<region, said, taken>>
    BY <1>5 DEF SensorSends, SensorGivesUp, ClientStarts, ClientSends, ClientReconnects,
                BridgeRepeats, historyVars
  <1>6. ASSUME BackendStep \/ BackendFails \/ Done \/ UNCHANGED vars
        PROVE  UNCHANGED <<region, said, taken>>
    BY <1>6 DEF BackendStep, BackendFails, Done, vars, historyVars
  <1>7. QED
    BY <1>1, <1>2, <1>3, <1>4, <1>5, <1>6 DEF Next

\* Every row has a valid level, lies where the last reading of its own message was
\* taken, inside the producer's region, and names the nearest point to that place,
\* whatever the producers send, in whatever order the queries are answered and
\* whichever of them fail (flows.json).
THEOREM RowsAlwaysPlaced == Spec => []RowsPlaced
  <1>1. ASSUME IInv, WhereTaken PROVE RowsPlaced
    <2>1. SUFFICES ASSUME NEW r \in BagToSet(rows)
                   PROVE  /\ r.noise \in Storable
                          /\ r.region = region /\ r.at = taken[r.sample].at /\ WithinBoundaries(r)
                          /\ NearestTo(r.nearest_point, taken[r.sample].at)
      BY DEF RowsPlaced
    <2> DEFINE m == said[r.sample]
    <2>2. /\ Valid(m) /\ r.value \in DOMAIN m.noise /\ NearestRight(m, r.nearest_point)
          /\ r = Row(m, r.value, r.nearest_point) /\ r.sample \in DOMAIN said
      BY <1>1 DEF IInv, RowsOfSamples, RowOfSample
    <2>3. r.noise = m.noise[r.value] /\ r.region = m.region /\ r.at = m.at
      BY <2>2 DEF Row
    <2>4. m.region = region /\ m.at = taken[r.sample].at
      BY <1>1, <2>2 DEF WhereTaken
    <2> HIDE DEF m
    <2>5. r.noise \in Storable
      BY <2>2, <2>3 DEF Valid, Schema
    <2>6. WithinBoundaries(r)
      BY <2>2, <2>3 DEF Valid, WithinBoundaries
    <2>7. NearestTo(r.nearest_point, m.at)
      <3>1. CASE r.nearest_point = 0 /\ \A p \in Points : p.region # m.region
        BY <3>1, <2>4 DEF NearestTo
      <3>2. ASSUME NEW p \in Nearest(m), p.id = r.nearest_point
            PROVE  NearestTo(r.nearest_point, m.at)
        <4>1. /\ p \in Points /\ p.region = m.region
              /\ \A q \in Points : q.region = m.region => Distance(p, m.at) <= Distance(q, m.at)
          BY <3>2 DEF Nearest
        <4>2. QED
          BY <4>1, <3>2, <2>4 DEF NearestTo
      <3>3. QED
        BY <3>1, <3>2, <2>2 DEF NearestRight
    <2>8. QED
      BY <2>3, <2>4, <2>5, <2>6, <2>7
  <1>2. Init => WhereTaken
    BY EmptySequence DEF Init, WhereTaken
  <1>3. IInv /\ WhereTaken /\ [Next]_vars => WhereTaken'
    BY NextWhereTaken
  <1>4. IInv /\ WhereTaken => RowsPlaced
    BY <1>1
  <1>5. QED
    BY <1>2, <1>3, <1>4, IInvHolds, PTL DEF Spec

\* A stored single reading has been taken, within the last MAX_WINDOW_SIZE samples,
\* for every size of the window and every threshold.
THEOREM RowsAlwaysReadings == Spec => []RowsAreReadings
  <1>1. ASSUME IInv PROVE RowsAreReadings
    <2>1. SUFFICES ASSUME NEW r \in BagToSet(rows), r.mode = "raw"
                   PROVE  \E j \in Recent(r.sample) : r.noise = 100 * taken[j].noise
      BY DEF RowsAreReadings
    <2> DEFINE m == said[r.sample]
    <2>2. /\ r.sample \in DOMAIN said /\ Valid(m) /\ r.value \in DOMAIN m.noise
          /\ r = Row(m, r.value, r.nearest_point)
      BY <1>1 DEF IInv, RowsOfSamples, RowOfSample
    <2>3. r.noise = m.noise[r.value] /\ r.mode = m.mode
      BY <2>2 DEF Row
    <2>4. r.noise # 0
      BY <2>2, <2>3 DEF Valid, Schema, Storable
    <2>5. QED
      BY <1>1, <2>1, <2>2, <2>3, <2>4 DEF IInv, RawIsRecent
  <1>2. IInv => RowsAreReadings
    BY <1>1
  <1>3. QED
    BY <1>2, IInvHolds, PTL

\* A sample no fault has hit is stored in full once it is through, or not at all if
\* it is not valid, for any number of samples, faults and repeated deliveries.
THEOREM AlwaysStoredInFull == Spec => []StoredInFull
  <1>1. ASSUME IInv PROVE StoredInFull
    <2>1. SUFFICES ASSUME NEW k \in DOMAIN said \ lost, ~ Waits(k)
                   PROVE  {r.value : r \in {s \in BagToSet(rows) : s.sample = k}} =
                              IF Schema(said[k]) /\ WithinBoundaries(said[k])
                              THEN DOMAIN said[k].noise ELSE {}
      BY DEF StoredInFull
    <2> DEFINE values == {r.value : r \in {s \in BagToSet(rows) : s.sample = k}}
    <2>2. \A r \in BagToSet(rows) : r.sample = k => Valid(said[k]) /\ r.value \in DOMAIN said[k].noise
      BY <1>1 DEF IInv, RowsOfSamples, RowOfSample
    <2>3. ASSUME NEW i PROVE ~ Coming(k, i)
      BY <2>1 DEF Waits, Coming, Range
    <2>4. CASE Valid(said[k])
      <3>1. ASSUME NEW i \in DOMAIN said[k].noise PROVE i \in values
        <4>1. Stored(k, i)
          BY <1>1, <2>3, <2>4 DEF IInv, NothingForgotten
        <4>2. QED
          BY <4>1 DEF Stored
      <3>2. values \subseteq DOMAIN said[k].noise
        BY <2>2
      <3>3. QED
        BY <2>4, <3>1, <3>2 DEF Valid
    <2>5. CASE ~ Valid(said[k])
      <3>1. values = {}
        BY <2>2, <2>5
      <3>2. QED
        BY <2>5, <3>1 DEF Valid
    <2>6. QED
      BY <2>4, <2>5
  <1>2. IInv => StoredInFull
    BY <1>1
  <1>3. QED
    BY <1>2, IInvHolds, PTL

-----------------------------------------------------------------------------
(* Counting the copies in a bag and the messages in a list.                 *)

FiniteBag(B) == B = [e \in DOMAIN B |-> B[e]] /\ IsFiniteSet(DOMAIN B)
                /\ \A e \in DOMAIN B : B[e] \in Nat \ {0}

\* The copies in B of the elements of set W.
Copies(B, W) == SumFunctionOnSet(B, DOMAIN B \cap W)

Hit(W, x) == IF x \in W THEN 1 ELSE 0

LEMMA CopiesType == ASSUME NEW B, FiniteBag(B), NEW W PROVE Copies(B, W) \in Nat
  <1>1. IsFiniteSet(DOMAIN B \cap W)
    BY FS_Subset DEF FiniteBag
  <1>2. QED
    BY <1>1, SumType DEF Copies, FiniteBag

\* Two bags that agree except on x.
LEMMA CopiesDiffer ==
    ASSUME NEW B, NEW C, FiniteBag(B), FiniteBag(C), NEW x, NEW W, x \in DOMAIN B,
           DOMAIN B = DOMAIN C \cup {x},
           \A e \in DOMAIN B \ {x} : B[e] = C[e],
           B[x] = (IF x \in DOMAIN C THEN C[x] ELSE 0) + 1
    PROVE  Copies(B, W) = Copies(C, W) + Hit(W, x)
  <1> DEFINE S == DOMAIN B \cap W
             T == DOMAIN C \cap W
             R == S \ {x}
  <1>1. IsFiniteSet(S) /\ IsFiniteSet(T) /\ IsFiniteSet(R)
    BY FS_Subset DEF FiniteBag
  <1>2. (\A e \in S : B[e] \in Int) /\ (\A e \in T : C[e] \in Int)
    BY DEF FiniteBag
  <1>3. T \ {x} = R /\ \A e \in R : B[e] = C[e]
    OBVIOUS
  <1>4. SumFunctionOnSet(B, R) = SumFunctionOnSet(C, R)
    BY <1>1, <1>3, SumsAlike
  <1>5. SumFunctionOnSet(B, R) \in Int
    BY <1>1, <1>2, SumType, R \subseteq S
  <1>6. CASE x \notin W
    <2>1. S = R /\ T = R
      BY <1>6, <1>3
    <2>2. QED
      BY <2>1, <1>4, <1>5, <1>6 DEF Copies, Hit
  <1>7. CASE x \in W
    <2>1. SumFunctionOnSet(B, S) = B[x] + SumFunctionOnSet(B, R)
      BY <1>1, <1>2, <1>7, SumWithout
    <2>2. SumFunctionOnSet(C, T) = (IF x \in DOMAIN C THEN C[x] ELSE 0) + SumFunctionOnSet(C, R)
      <3>1. CASE x \in DOMAIN C
        BY <3>1, <1>1, <1>2, <1>3, <1>7, SumWithout
      <3>2. CASE x \notin DOMAIN C
        BY <3>2, <1>3, <1>4, <1>5
      <3>3. QED
        BY <3>1, <3>2
    <2>3. PICK n \in Int : n = SumFunctionOnSet(B, R)
      BY <1>5
    <2>4. PICK c \in Int : c = IF x \in DOMAIN C THEN C[x] ELSE 0
      BY DEF FiniteBag
    <2>5. Copies(B, W) = c + 1 + n /\ Copies(C, W) = c + n
      BY <2>1, <2>2, <2>3, <2>4, <1>4 DEF Copies
    <2>6. QED
      BY <2>5, <1>7 DEF Hit
  <1>8. QED
    BY <1>6, <1>7

LEMMA CopiesAdded ==
    ASSUME NEW B, FiniteBag(B), NEW x
    PROVE  /\ FiniteBag(Bag!BagAdd(B, x))
           /\ \A W : Copies(Bag!BagAdd(B, x), W) = Copies(B, W) + Hit(W, x)
  <1> DEFINE A == Bag!BagAdd(B, x)
  <1>1. /\ DOMAIN A = DOMAIN B \cup {x} /\ A = [e \in DOMAIN A |-> A[e]]
        /\ \A e \in DOMAIN A \ {x} : A[e] = B[e]
        /\ A[x] = (IF x \in DOMAIN B THEN B[x] ELSE 0) + 1
    BY DEF FiniteBag, Bag!BagAdd
  <1> HIDE DEF A
  <1>2. IsFiniteSet(DOMAIN A)
    BY <1>1, FS_AddElement DEF FiniteBag
  <1>3. \A e \in DOMAIN A : A[e] \in Nat \ {0}
    BY <1>1 DEF FiniteBag
  <1>4. FiniteBag(A)
    BY <1>1, <1>2, <1>3 DEF FiniteBag
  <1>5. ASSUME NEW W PROVE Copies(A, W) = Copies(B, W) + Hit(W, x)
    BY <1>1, <1>4, CopiesDiffer
  <1>6. QED
    BY <1>4, <1>5 DEF A

LEMMA CopiesRemoved ==
    ASSUME NEW B, FiniteBag(B), NEW x \in DOMAIN B
    PROVE  /\ FiniteBag(Bag!BagRemove(B, x))
           /\ \A W : Copies(B, W) = Copies(Bag!BagRemove(B, x), W) + Hit(W, x)
  <1> DEFINE A == Bag!BagRemove(B, x)
  <1>0. B[x] \in Nat \ {0}
    BY DEF FiniteBag
  <1>1. /\ DOMAIN B = DOMAIN A \cup {x} /\ A = [e \in DOMAIN A |-> A[e]]
        /\ \A e \in DOMAIN B \ {x} : B[e] = A[e]
        /\ B[x] = (IF x \in DOMAIN A THEN A[x] ELSE 0) + 1
        /\ x \in DOMAIN A => A[x] \in Nat \ {0}
    <2>1. CASE B[x] = 1
      BY <2>1, <1>0 DEF FiniteBag, Bag!BagRemove
    <2>2. CASE B[x] # 1
      <3>1. A = [e \in DOMAIN B |-> IF e = x THEN B[e] - 1 ELSE B[e]]
        BY <2>2 DEF Bag!BagRemove
      <3>2. DOMAIN A = DOMAIN B /\ \A e \in DOMAIN B : A[e] = IF e = x THEN B[e] - 1 ELSE B[e]
        BY <3>1
      <3>3. B[x] - 1 \in Nat \ {0}
        BY <2>2, <1>0
      <3>4. A = [e \in DOMAIN A |-> A[e]]
        BY <3>1
      <3> HIDE DEF A
      <3>5. DOMAIN B = DOMAIN A \cup {x} /\ x \in DOMAIN A
        BY <3>2
      <3>6. \A e \in DOMAIN B \ {x} : B[e] = A[e]
        BY <3>2
      <3>7. A[x] = B[x] - 1
        BY <3>2
      <3>8. B[x] = A[x] + 1 /\ A[x] \in Nat \ {0}
        BY <3>3, <3>7, <1>0
      <3>9. QED
        BY <3>4, <3>5, <3>6, <3>8
    <2>3. QED
      BY <2>1, <2>2
  <1> HIDE DEF A
  <1>2. IsFiniteSet(DOMAIN A)
    BY <1>1, FS_Subset DEF FiniteBag
  <1>3. \A e \in DOMAIN A : A[e] \in Nat \ {0}
    BY <1>1 DEF FiniteBag
  <1>4. FiniteBag(A)
    BY <1>1, <1>2, <1>3 DEF FiniteBag
  <1>5. ASSUME NEW W PROVE Copies(B, W) = Copies(A, W) + Hit(W, x)
    BY <1>1, <1>4, CopiesDiffer
  <1>6. QED
    BY <1>4, <1>5 DEF A

\* Adding a set of none or of one.
LEMMA NoneAdded == ASSUME NEW B, FiniteBag(B) PROVE B (+) SetToBag({}) = B
  BY DEF FiniteBag, SetToBag, (+)

LEMMA OneAdded ==
    ASSUME NEW B, FiniteBag(B), NEW x
    PROVE  B (+) SetToBag({x}) = Bag!BagAdd(B, x)
  <1> DEFINE A == B (+) SetToBag({x})
             C == Bag!BagAdd(B, x)
  <1>1. /\ DOMAIN A = DOMAIN B \cup {x} /\ A = [e \in DOMAIN A |-> A[e]]
        /\ \A e \in DOMAIN A \ {x} : A[e] = B[e]
        /\ A[x] = (IF x \in DOMAIN B THEN B[x] ELSE 0) + 1
    BY DEF FiniteBag, SetToBag, (+)
  <1>2. /\ DOMAIN C = DOMAIN B \cup {x} /\ C = [e \in DOMAIN C |-> C[e]]
        /\ \A e \in DOMAIN C \ {x} : C[e] = B[e]
        /\ C[x] = (IF x \in DOMAIN B THEN B[x] ELSE 0) + 1
    BY DEF FiniteBag, Bag!BagAdd
  <1> HIDE DEF A, C
  <1>3. DOMAIN A = DOMAIN C /\ \A e \in DOMAIN A : A[e] = C[e]
    BY <1>1, <1>2
  <1>4. A = C
    BY <1>1, <1>2, <1>3
  <1>5. QED
    BY <1>4 DEF A, C

\* Where the messages of sample k are in list s, and how many there are.
Places(s, k) == {j \in DOMAIN s : s[j].sample = k}
Held(s, k) == Cardinality(Places(s, k))
Is(m, k) == IF m.sample = k THEN 1 ELSE 0

LEMMA HeldFinite ==
    ASSUME NEW s, IsSeq(s), NEW k
    PROVE  IsFiniteSet(Places(s, k)) /\ Held(s, k) \in Nat
  <1>1. DOMAIN s = 1 .. Len(s) /\ Len(s) \in Nat
    BY OwnElements DEF IsSeq
  <1>2. IsFiniteSet(1 .. Len(s))
    BY <1>1, FS_Interval, 1 \in Int, Len(s) \in Int
  <1>3. IsFiniteSet(Places(s, k))
    BY <1>1, <1>2, FS_Subset, Places(s, k) \subseteq 1 .. Len(s) DEF Places
  <1>4. QED
    BY <1>3, FS_CardinalityType DEF Held

LEMMA HeldNone ==
    ASSUME NEW s, NEW k, \A m \in Range(s) : m.sample # k
    PROVE  Held(s, k) = 0
  <1>1. Places(s, k) = {}
    BY DEF Places, Range
  <1>2. QED
    BY <1>1, FS_EmptySet DEF Held

LEMMA HeldAppended ==
    ASSUME NEW s, IsSeq(s), NEW x, NEW k
    PROVE  Held(Append(s, x), k) = Held(s, k) + Is(x, k)
  <1> DEFINE a == Append(s, x)
             n == Len(s) + 1
  <1>1. /\ Len(s) \in Nat /\ DOMAIN s = 1 .. Len(s) /\ DOMAIN a = 1 .. n
        /\ (\A i \in DOMAIN s : a[i] = s[i]) /\ a[n] = x
    BY Appended
  <1> HIDE DEF a
  <1>2. IsFiniteSet(Places(s, k)) /\ Held(s, k) \in Nat
    BY HeldFinite
  <1>3. n \notin Places(s, k)
    BY <1>1 DEF Places
  <1>4. CASE x.sample = k
    <2>1. Places(a, k) = Places(s, k) \cup {n}
      BY <1>1, <1>4 DEF Places
    <2>2. Cardinality(Places(s, k) \cup {n}) = Cardinality(Places(s, k)) + 1
      BY <1>2, <1>3, FS_AddElement
    <2>3. QED
      BY <2>1, <2>2, <1>4 DEF Held, Is, a
  <1>5. CASE x.sample # k
    <2>1. Places(a, k) = Places(s, k)
      BY <1>1, <1>5 DEF Places
    <2>2. QED
      BY <2>1, <1>2, <1>5 DEF Held, Is, a
  <1>6. QED
    BY <1>4, <1>5

LEMMA HeldTail ==
    ASSUME NEW s, IsSeq(s), s # <<>>, NEW k
    PROVE  Held(s, k) = Held(Tail(s), k) + Is(Head(s), k)
  <1> DEFINE t == Tail(s)
             S == Places(s, k) \ {1}
             T == Places(t, k)
  <1>1. /\ s \in Seq(Range(s)) /\ DOMAIN s = 1 .. Len(s) /\ Len(s) \in Nat /\ Len(s) > 0
    BY OwnElements DEF IsSeq
  <1>2. Len(t) = Len(s) - 1 /\ DOMAIN t = 1 .. (Len(s) - 1)
    BY <1>1
  <1>3. Head(s) = s[1] /\ 1 \in DOMAIN s /\ \A i \in DOMAIN t : t[i] = s[i + 1]
    BY <1>1, <1>2
  <1> HIDE DEF t
  <1>4. IsFiniteSet(Places(s, k)) /\ Held(s, k) \in Nat
    BY HeldFinite
  <1>5. IsFiniteSet(S) /\ Cardinality(S) = IF 1 \in Places(s, k) THEN Held(s, k) - 1 ELSE Held(s, k)
    BY <1>4, FS_RemoveElement DEF Held
  <1>6. ExistsBijection(S, T)
    <2> DEFINE f == [i \in S |-> i - 1]
    <2>1. \A i \in S : i \in Nat /\ i > 1 /\ i <= Len(s) /\ s[i].sample = k
      BY <1>1 DEF Places
    <2>2. ASSUME NEW i \in S PROVE f[i] \in T
      <3>1. i - 1 \in DOMAIN t /\ t[i - 1] = s[(i - 1) + 1] /\ (i - 1) + 1 = i
        BY <2>1, <1>1, <1>2, <1>3
      <3>2. QED
        BY <3>1, <2>1 DEF Places
    <2>3. ASSUME NEW j \in T PROVE \E i \in S : f[i] = j
      <3>1. j \in DOMAIN t /\ t[j].sample = k
        BY <2>3 DEF Places
      <3>2. j + 1 \in DOMAIN s /\ s[j + 1].sample = k /\ j + 1 # 1
        BY <3>1, <1>1, <1>2, <1>3
      <3>3. j + 1 \in S /\ (j + 1) - 1 = j
        BY <3>1, <3>2, <1>2 DEF Places
      <3>4. f[j + 1] = j
        BY <3>3
      <3>5. QED
        BY <3>3, <3>4
    <2>4. \A a, b \in S : f[a] = f[b] => a = b
      BY <2>1
    <2>5. f \in Bijection(S, T)
      BY <2>2, <2>3, <2>4 DEF Bijection, Injection, Surjection, IsInjective
    <2>6. QED
      BY <2>5 DEF ExistsBijection
  <1>7. Cardinality(T) = Cardinality(S)
    BY <1>5, <1>6, FS_Bijection
  <1>8. 1 \in Places(s, k) <=> Head(s).sample = k
    BY <1>3 DEF Places
  <1>9. QED
    BY <1>4, <1>5, <1>7, <1>8 DEF Held, Is, t

-----------------------------------------------------------------------------
(* The copies of a value, stored and on their way.                         *)

\* A message of the flow can still store value i of sample k.
Brings(f, k, i) == f.msg.sample = k /\ (f.stage = "insert" => i \in f.left)
Bring(f, k, i) == IF Brings(f, k, i) THEN 1 ELSE 0
IsValue(r, k, i) == IF r.sample = k /\ r.value = i THEN 1 ELSE 0

FlowCopies(F, k, i) == SumFunctionOnSet(F, {f \in BagToSet(F) : Brings(f, k, i)})
RowCopies(R, k, i) == SumFunctionOnSet(R, {r \in BagToSet(R) : r.sample = k /\ r.value = i})

\* The copies in the database, in the flow, at the broker and in the outbox.
Total(R, F, b, o, k, i) ==
    RowCopies(R, k, i) + FlowCopies(F, k, i) + Held(b, k) + Held(o, k)

\* A message of the flow is replaced by nothing or by one message.
LEMMA FlowReplaced ==
    ASSUME NEW F, FiniteBag(F), NEW f \in DOMAIN F, NEW next,
           NEW G, G = Bag!BagRemove(F, f) (+) SetToBag(next), NEW k, NEW i
    PROVE  /\ next = {} => /\ FiniteBag(G)
                           /\ FlowCopies(F, k, i) = FlowCopies(G, k, i) + Bring(f, k, i)
           /\ \A g : next = {g} =>
                  /\ FiniteBag(G)
                  /\ FlowCopies(G, k, i) + Bring(f, k, i) = FlowCopies(F, k, i) + Bring(g, k, i)
  <1> DEFINE M == Bag!BagRemove(F, f)
             W == {x \in DOMAIN F \cup DOMAIN G \cup {f} \cup next : Brings(x, k, i)}
  <1>1. FiniteBag(M) /\ Copies(F, W) = Copies(M, W) + Hit(W, f)
    BY CopiesRemoved
  <1>2. G = M (+) SetToBag(next)
    OBVIOUS
  <1> HIDE DEF M
  <1>3. Copies(F, W) = FlowCopies(F, k, i) /\ Copies(G, W) = FlowCopies(G, k, i)
    <2>1. DOMAIN F \cap W = {x \in BagToSet(F) : Brings(x, k, i)}
      BY DEF BagToSet
    <2>2. DOMAIN G \cap W = {x \in BagToSet(G) : Brings(x, k, i)}
      BY DEF BagToSet
    <2>3. QED
      BY <2>1, <2>2 DEF Copies, FlowCopies
  <1>4. Hit(W, f) = Bring(f, k, i) /\ \A g \in next : Hit(W, g) = Bring(g, k, i)
    BY DEF Hit, Bring
  <1>5. ASSUME next = {} PROVE FiniteBag(G) /\ Copies(G, W) = Copies(M, W)
    BY <1>1, <1>2, <1>5, NoneAdded
  <1>6. ASSUME NEW g, next = {g} PROVE FiniteBag(G) /\ Copies(G, W) = Copies(M, W) + Hit(W, g)
    BY <1>1, <1>2, <1>6, OneAdded, CopiesAdded
  <1>7. PICK n \in Nat : n = Copies(M, W)
    BY <1>1, CopiesType
  <1>8. \A x : Bring(x, k, i) \in Nat
    BY DEF Bring
  <1> HIDE DEF W
  <1>9. ASSUME next = {}
        PROVE  FiniteBag(G) /\ FlowCopies(F, k, i) = FlowCopies(G, k, i) + Bring(f, k, i)
    BY <1>1, <1>3, <1>4, <1>5, <1>9
  <1>10. ASSUME NEW g, next = {g}
         PROVE  /\ FiniteBag(G)
                /\ FlowCopies(G, k, i) + Bring(f, k, i) = FlowCopies(F, k, i) + Bring(g, k, i)
    <2>1. /\ FlowCopies(F, k, i) = n + Bring(f, k, i) /\ FlowCopies(G, k, i) = n + Bring(g, k, i)
          /\ FiniteBag(G)
      BY <1>1, <1>3, <1>4, <1>6, <1>7, <1>10
    <2>2. QED
      BY <2>1, <1>8
  <1>11. QED
    BY <1>9, <1>10

\* A message enters the flow.
LEMMA FlowEntered ==
    ASSUME NEW F, FiniteBag(F), NEW g, NEW k, NEW i
    PROVE  /\ FiniteBag(Bag!BagAdd(F, g))
           /\ FlowCopies(Bag!BagAdd(F, g), k, i) = FlowCopies(F, k, i) + Bring(g, k, i)
  <1> DEFINE G == Bag!BagAdd(F, g)
             W == {x \in DOMAIN F \cup {g} : Brings(x, k, i)}
  <1>1. FiniteBag(G) /\ Copies(G, W) = Copies(F, W) + Hit(W, g)
    BY CopiesAdded
  <1>2. DOMAIN G = DOMAIN F \cup {g}
    BY AddedToBag DEF BagToSet
  <1> HIDE DEF G
  <1>3. /\ DOMAIN F \cap W = {x \in BagToSet(F) : Brings(x, k, i)}
        /\ DOMAIN G \cap W = {x \in BagToSet(G) : Brings(x, k, i)}
    BY <1>2 DEF BagToSet
  <1>4. Copies(F, W) = FlowCopies(F, k, i) /\ Copies(G, W) = FlowCopies(G, k, i)
    BY <1>3 DEF Copies, FlowCopies
  <1>5. Hit(W, g) = Bring(g, k, i)
    BY DEF Hit, Bring
  <1>6. QED
    BY <1>1, <1>4, <1>5 DEF G

\* A row is inserted.
LEMMA RowEntered ==
    ASSUME NEW R, FiniteBag(R), NEW r, NEW k, NEW i
    PROVE  /\ FiniteBag(Bag!BagAdd(R, r))
           /\ RowCopies(Bag!BagAdd(R, r), k, i) = RowCopies(R, k, i) + IsValue(r, k, i)
  <1> DEFINE G == Bag!BagAdd(R, r)
             W == {x \in DOMAIN R \cup {r} : x.sample = k /\ x.value = i}
  <1>1. FiniteBag(G) /\ Copies(G, W) = Copies(R, W) + Hit(W, r)
    BY CopiesAdded
  <1>2. DOMAIN G = DOMAIN R \cup {r}
    BY AddedToBag DEF BagToSet
  <1> HIDE DEF G
  <1>3. /\ DOMAIN R \cap W = {x \in BagToSet(R) : x.sample = k /\ x.value = i}
        /\ DOMAIN G \cap W = {x \in BagToSet(G) : x.sample = k /\ x.value = i}
    BY <1>2 DEF BagToSet
  <1>4. Copies(R, W) = RowCopies(R, k, i) /\ Copies(G, W) = RowCopies(G, k, i)
    BY <1>3 DEF Copies, RowCopies
  <1>5. Hit(W, r) = IsValue(r, k, i)
    BY DEF Hit, IsValue
  <1>6. QED
    BY <1>1, <1>4, <1>5 DEF G

LEMMA CopyTypes ==
    ASSUME NEW R, FiniteBag(R), NEW F, FiniteBag(F), NEW k, NEW i
    PROVE  RowCopies(R, k, i) \in Nat /\ FlowCopies(F, k, i) \in Nat
  <1>1. /\ DOMAIN R \cap {r \in BagToSet(R) : r.sample = k /\ r.value = i}
              = {r \in BagToSet(R) : r.sample = k /\ r.value = i}
        /\ DOMAIN F \cap {f \in BagToSet(F) : Brings(f, k, i)} = {f \in BagToSet(F) : Brings(f, k, i)}
    BY DEF BagToSet
  <1>2. /\ Copies(R, {r \in BagToSet(R) : r.sample = k /\ r.value = i}) \in Nat
        /\ Copies(F, {f \in BagToSet(F) : Brings(f, k, i)}) \in Nat
    BY CopiesType
  <1>3. QED
    BY <1>1, <1>2 DEF Copies, RowCopies, FlowCopies

-----------------------------------------------------------------------------
(* The invariant: a value is on its way or stored once, and once more for   *)
(* each repeated delivery.                                                 *)

FiniteState == FiniteBag(flow) /\ FiniteBag(rows) /\ again \in Nat

CopyInv ==
    /\ FiniteState
    /\ \A k \in DOMAIN said : \A i \in DOMAIN said[k].noise :
           Total(rows, flow, broker, outbox, k, i) <= 1 + again

Counts(k, i) ==
    /\ RowCopies(rows, k, i) \in Nat /\ FlowCopies(flow, k, i) \in Nat
    /\ Held(broker, k) \in Nat /\ Held(outbox, k) \in Nat

LEMMA CountTypes ==
    ASSUME IInv, FiniteState
    PROVE  \A k, i : Counts(k, i)
  BY CopyTypes, HeldFinite DEF IInv, Histories, FiniteState, Counts

LEMMA InitCopyInv == Init => CopyInv
  <1>1. SUFFICES ASSUME Init PROVE CopyInv
    OBVIOUS
  <1>2. flow = EmptyBag /\ rows = EmptyBag /\ again = 0 /\ said = <<>>
    BY <1>1 DEF Init, BackendInit
  <1>3. FiniteBag(EmptyBag)
    <2>1. EmptyBag = [e \in {} |-> 1]
      BY DEF EmptyBag, SetToBag
    <2>2. DOMAIN EmptyBag = {}
      BY <2>1
    <2>3. EmptyBag = [e \in DOMAIN EmptyBag |-> EmptyBag[e]]
      BY <2>1, <2>2
    <2>4. QED
      BY <2>2, <2>3, FS_EmptySet DEF FiniteBag
  <1>4. DOMAIN said = {}
    BY <1>2
  <1>5. QED
    BY <1>2, <1>3, <1>4 DEF CopyInv, FiniteState

-----------------------------------------------------------------------------
(* A step that makes no sample keeps the total, or repeats a delivery.      *)

Kept ==
    /\ FiniteState'
    /\ said' = said
    /\ \A k, i : Total(rows, flow, broker, outbox, k, i)' + again
                     <= Total(rows, flow, broker, outbox, k, i) + again'

LEMMA KeptKeeps ==
    ASSUME IInv, IInv', CopyInv, Kept
    PROVE  CopyInv'
  <1>1. SUFFICES ASSUME NEW k \in DOMAIN said, NEW i \in DOMAIN said[k].noise
                 PROVE  Total(rows, flow, broker, outbox, k, i)' <= 1 + again'
    BY DEF Kept, CopyInv
  <1>2. PICK t \in Nat : t = Total(rows, flow, broker, outbox, k, i)
    BY CountTypes DEF CopyInv, Counts, Total
  <1>3. PICK u \in Nat : u = Total(rows, flow, broker, outbox, k, i)'
    <2>1. Counts(k, i)'
      BY CopyTypes, HeldFinite DEF IInv, Histories, FiniteState, Counts, Kept
    <2>2. QED
      BY <2>1 DEF Counts, Total
  <1>4. t <= 1 + again
    BY <1>2 DEF CopyInv
  <1>5. PICK a \in Nat : a = again
    BY DEF CopyInv, FiniteState
  <1>6. PICK b \in Nat : b = again'
    BY DEF Kept, FiniteState
  <1>7. u + a <= t + b
    BY <1>2, <1>3, <1>5, <1>6 DEF Kept
  <1>8. QED
    BY <1>3, <1>4, <1>5, <1>6, <1>7

\* What reaches the broker counts there.
LEMMA BrokerGets ==
    ASSUME IInv, FiniteState, NEW m, ReachesBroker(m), NEW k
    PROVE  /\ UNCHANGED <<flow, rows>> /\ Held(broker, k) \in Nat /\ Held(outbox, k) \in Nat
           /\ Held(broker, k)' = Held(broker, k) + Is(m, k)
  BY HeldAppended, HeldFinite DEF IInv, Histories, ReachesBroker

\* The steps of the links.
LEMMA LinkKept ==
    ASSUME IInv, FiniteState,
           SensorSends \/ SensorGivesUp \/ ClientStarts \/ ClientSends
               \/ ClientReconnects \/ BridgeRepeats
    PROVE  Kept
  <1>1. IsSeq(outbox) /\ IsSeq(broker) /\ FiniteBag(flow) /\ FiniteBag(rows) /\ again \in Nat
    BY DEF IInv, Histories, FiniteState
  <1>2. /\ said' = said /\ UNCHANGED <<flow, rows>>
        /\ again' = again \/ again' = again + 1
    BY DEF SensorSends, SensorGivesUp, ClientStarts, ClientSends, ClientReconnects, BridgeRepeats,
           historyVars, backendVars, ReachesBroker
  <1>3. FiniteState'
    BY <1>1, <1>2 DEF FiniteState
  <1>4. SUFFICES ASSUME NEW k
                 PROVE  Held(broker, k)' + Held(outbox, k)' + again
                            <= Held(broker, k) + Held(outbox, k) + again'
    <2>1. SUFFICES ASSUME NEW k, NEW i
                   PROVE  Total(rows, flow, broker, outbox, k, i)' + again
                              <= Total(rows, flow, broker, outbox, k, i) + again'
      BY <1>2, <1>3 DEF Kept
    <2>2. PICK c \in Nat : c = RowCopies(rows, k, i) + FlowCopies(flow, k, i)
      BY <1>1, CopyTypes
    <2>3. RowCopies(rows, k, i)' + FlowCopies(flow, k, i)' = c
      BY <1>2, <2>2
    <2>4. PICK b \in Nat, o \in Nat : b = Held(broker, k) /\ o = Held(outbox, k)
      BY <1>1, HeldFinite
    <2>5. IsSeq(broker') /\ IsSeq(outbox')
      BY LinkSteps DEF LinkStep
    <2>6. PICK d \in Nat, p \in Nat : d = Held(broker, k)' /\ p = Held(outbox, k)'
      BY <2>5, HeldFinite
    <2>7. d + p + again <= b + o + again'
      BY <2>4, <2>6, <1>4
    <2>8. Total(rows, flow, broker, outbox, k, i) = c + b + o
      BY <2>2, <2>4 DEF Total
    <2>9. Total(rows, flow, broker, outbox, k, i)' = c + d + p
      BY <2>3, <2>6 DEF Total
    <2>10. QED
      BY <2>7, <2>8, <2>9, <1>1, <1>2
  <1>5. Held(broker, k) \in Nat /\ Held(outbox, k) \in Nat
    BY <1>1, HeldFinite
  <1>6. ASSUME NEW m, ReachesBroker(m)
        PROVE  Held(broker, k)' = Held(broker, k) + Is(m, k)
    BY <1>6, BrokerGets
  <1>7. \A m : Is(m, k) \in {0, 1}
    BY DEF Is
  <1>8. Held(<<>>, k) = 0
    BY HeldNone, EmptySequence
  <1>9. ASSUME outbox # <<>>
        PROVE  /\ Held(outbox, k) = Held(Tail(outbox), k) + Is(Head(outbox), k)
               /\ Held(Tail(outbox), k) \in Nat
    BY <1>1, <1>9, HeldTail, HeadAndTail, HeldFinite
  <1>10. CASE SensorSends
    <2>1. /\ outbox # <<>> /\ ReachesBroker(Head(outbox)) /\ outbox' = <<>> /\ again' = again
      BY <1>10 DEF SensorSends, historyVars
    <2>2. Held(outbox, k)' = 0 /\ Held(broker, k)' = Held(broker, k) + Is(Head(outbox), k)
      BY <2>1, <1>6, <1>8
    <2>3. QED
      BY <2>1, <2>2, <1>1, <1>5, <1>7, <1>9
  <1>11. CASE SensorGivesUp
    <2>1. outbox' = <<>> /\ UNCHANGED <<broker, again>>
      BY <1>11 DEF SensorGivesUp, backendVars
    <2>2. Held(outbox, k)' = 0 /\ Held(broker, k)' = Held(broker, k)
      BY <2>1, <1>8
    <2>3. QED
      BY <2>1, <2>2, <1>1, <1>5
  <1>12. CASE ClientStarts
    <2>1. UNCHANGED <<outbox, broker, again>>
      BY <1>12 DEF ClientStarts, init_mosquitto, on_connect, backendVars, historyVars
    <2>2. Held(outbox, k)' = Held(outbox, k) /\ Held(broker, k)' = Held(broker, k)
      BY <2>1
    <2>3. QED
      BY <2>1, <2>2, <1>1, <1>5
  <1>13. CASE ClientSends
    <2>1. outbox # <<>> /\ outbox' = Tail(outbox) /\ ReachesBroker(Head(outbox)) /\ again' = again
      BY <1>13 DEF ClientSends, Acknowledged, historyVars
    <2>2. /\ Held(outbox, k)' = Held(Tail(outbox), k)
          /\ Held(broker, k)' = Held(broker, k) + Is(Head(outbox), k)
      BY <2>1, <1>6
    <2>3. QED
      BY <2>1, <2>2, <1>1, <1>5, <1>7, <1>9
  <1>14. CASE ClientReconnects
    <2>1. /\ UNCHANGED outbox
          /\ \/ ReachesBroker(Head(outbox)) /\ again' = again + 1
             \/ UNCHANGED <<broker, again>>
      BY <1>14 DEF ClientReconnects, ConnectionBreaks, backendVars
    <2>2. Held(outbox, k)' = Held(outbox, k)
      BY <2>1
    <2>3. CASE ReachesBroker(Head(outbox)) /\ again' = again + 1
      BY <2>2, <2>3, <1>1, <1>5, <1>6, <1>7
    <2>4. CASE UNCHANGED <<broker, again>>
      <3>1. Held(broker, k)' = Held(broker, k)
        BY <2>4
      <3>2. QED
        BY <2>2, <2>4, <3>1, <1>1, <1>5
    <2>5. QED
      BY <2>1, <2>3, <2>4
  <1>15. CASE BridgeRepeats
    <2>1. PICK j \in DOMAIN said : ReachesBroker(said[j])
      BY <1>15 DEF BridgeRepeats
    <2>2. UNCHANGED outbox /\ again' = again + 1
      BY <1>15 DEF BridgeRepeats, publisherVars
    <2>3. Held(outbox, k)' = Held(outbox, k) /\ Held(broker, k)' = Held(broker, k) + Is(said[j], k)
      BY <2>1, <2>2, <1>6
    <2>4. QED
      BY <2>2, <2>3, <1>1, <1>5, <1>7
  <1>16. QED
    BY <1>10, <1>11, <1>12, <1>13, <1>14, <1>15

\* A step of the back end: what it does to the rows, the flow and the broker's list.
LEMMA BackendKept ==
    ASSUME IInv, FiniteState, FiniteBag(flow'), FiniteBag(rows'), IsSeq(broker'),
           UNCHANGED <<said, outbox, again>>,
           \A k, i : RowCopies(rows', k, i) + FlowCopies(flow', k, i) + Held(broker', k)
                         <= RowCopies(rows, k, i) + FlowCopies(flow, k, i) + Held(broker, k)
    PROVE  Kept
  <1>1. FiniteState'
    BY DEF FiniteState
  <1>2. ASSUME NEW k, NEW i
        PROVE  Total(rows, flow, broker, outbox, k, i)' + again
                   <= Total(rows, flow, broker, outbox, k, i) + again'
    <2>1. Counts(k, i)
      BY CountTypes
    <2>2. PICK o \in Nat : o = Held(outbox, k)
      BY <2>1 DEF Counts
    <2>3. Held(outbox, k)' = o
      BY <2>2
    <2>4. PICK c \in Nat : c = RowCopies(rows, k, i) + FlowCopies(flow, k, i) + Held(broker, k)
      BY <2>1 DEF Counts
    <2>5. PICK d \in Nat : d = RowCopies(rows', k, i) + FlowCopies(flow', k, i) + Held(broker', k)
      BY CopyTypes, HeldFinite
    <2>6. d <= c
      BY <2>4, <2>5
    <2>7. Total(rows, flow, broker, outbox, k, i) = c + o
      BY <2>2, <2>4 DEF Total
    <2>8. Total(rows, flow, broker, outbox, k, i)' = d + o
      BY <2>3, <2>5 DEF Total
    <2>9. again \in Nat /\ again' = again
      BY DEF FiniteState
    <2>10. QED
      BY <2>6, <2>7, <2>8, <2>9
  <1>3. QED
    BY <1>1, <1>2 DEF Kept

Still == UNCHANGED <<said, outbox, again>>

\* A message leaves the broker, and enters the flow or not.
LEMMA ArriveKept ==
    ASSUME IInv, FiniteState, Still, Arrive
    PROVE  Kept
  <1> DEFINE m == Head(broker)
  <1>1. /\ broker # <<>> /\ broker' = Tail(broker) /\ rows' = rows
        /\ flow' = Bag!BagAdd(flow, Waiting(m)) \/ flow' = flow
    BY DEF Arrive
  <1>2. IsSeq(broker) /\ IsSeq(broker')
    BY <1>1, HeadAndTail DEF IInv, Histories
  <1>3. FiniteBag(flow) /\ FiniteBag(rows)
    BY DEF FiniteState
  <1>4. FiniteBag(flow') /\ FiniteBag(rows')
    BY <1>1, <1>3, FlowEntered
  <1>5. ASSUME NEW k, NEW i
        PROVE  RowCopies(rows', k, i) + FlowCopies(flow', k, i) + Held(broker', k)
                   <= RowCopies(rows, k, i) + FlowCopies(flow, k, i) + Held(broker, k)
    <2>1. Held(broker, k) = Held(broker', k) + Is(m, k)
      BY <1>1, <1>2, HeldTail
    <2>2. Bring(Waiting(m), k, i) = Is(m, k)
      BY DEF Bring, Brings, Waiting, Is
    <2>3. FlowCopies(flow', k, i) \in {FlowCopies(flow, k, i), FlowCopies(flow, k, i) + Is(m, k)}
      BY <1>1, <1>3, <2>2, FlowEntered
    <2>4. /\ Is(m, k) \in {0, 1} /\ Held(broker', k) \in Nat
          /\ RowCopies(rows, k, i) \in Nat /\ FlowCopies(flow, k, i) \in Nat
      BY <1>2, <1>3, CopyTypes, HeldFinite DEF Is
    <2>5. RowCopies(rows', k, i) = RowCopies(rows, k, i)
      BY <1>1
    <2>6. QED
      BY <2>1, <2>3, <2>4, <2>5
  <1>6. QED
    BY <1>2, <1>4, <1>5, BackendKept DEF Still

\* A message of the flow becomes another one that brings no more, or none.
LEMMA BecomesKept ==
    ASSUME IInv, FiniteState, Still, UNCHANGED <<broker, rows>>,
           NEW f \in BagToSet(flow), NEW next, Becomes(f, next),
           next = {} \/ \E g : next = {g} /\ \A k, i : Bring(g, k, i) <= Bring(f, k, i)
    PROVE  Kept
  <1>1. FiniteBag(flow) /\ FiniteBag(rows) /\ IsSeq(broker) /\ f \in DOMAIN flow
    BY DEF FiniteState, IInv, Histories, BagToSet
  <1>2. flow' = Bag!BagRemove(flow, f) (+) SetToBag(next)
    BY DEF Becomes
  <1>3. ASSUME NEW k, NEW i
        PROVE  FiniteBag(flow') /\ FlowCopies(flow', k, i) <= FlowCopies(flow, k, i)
    <2>1. Bring(f, k, i) \in {0, 1} /\ FlowCopies(flow, k, i) \in Nat
      BY <1>1, CopyTypes DEF Bring
    <2>2. CASE next = {}
      <3>1. FiniteBag(flow') /\ FlowCopies(flow, k, i) = FlowCopies(flow', k, i) + Bring(f, k, i)
        BY <1>1, <1>2, <2>2, FlowReplaced
      <3>2. FlowCopies(flow', k, i) \in Nat
        BY <3>1, <1>1, CopyTypes
      <3>3. QED
        BY <3>1, <3>2, <2>1
    <2>3. ASSUME NEW g, next = {g}, Bring(g, k, i) <= Bring(f, k, i)
          PROVE  FiniteBag(flow') /\ FlowCopies(flow', k, i) <= FlowCopies(flow, k, i)
      <3>1. /\ FiniteBag(flow')
            /\ FlowCopies(flow', k, i) + Bring(f, k, i) = FlowCopies(flow, k, i) + Bring(g, k, i)
        BY <1>1, <1>2, <2>3, FlowReplaced
      <3>2. FlowCopies(flow', k, i) \in Nat /\ Bring(g, k, i) \in {0, 1}
        BY <3>1, <1>1, CopyTypes DEF Bring
      <3>3. QED
        BY <3>1, <3>2, <2>1, <2>3
    <2>4. QED
      BY <2>2, <2>3
  <1>4. ASSUME NEW k, NEW i
        PROVE  RowCopies(rows', k, i) + FlowCopies(flow', k, i) + Held(broker', k)
                   <= RowCopies(rows, k, i) + FlowCopies(flow, k, i) + Held(broker, k)
    <2>1. FlowCopies(flow', k, i) <= FlowCopies(flow, k, i) /\ FlowCopies(flow', k, i) \in Nat
      BY <1>1, <1>3, CopyTypes
    <2>2. RowCopies(rows, k, i) \in Nat /\ FlowCopies(flow, k, i) \in Nat /\ Held(broker, k) \in Nat
      BY <1>1, CopyTypes, HeldFinite
    <2>3. RowCopies(rows', k, i) = RowCopies(rows, k, i) /\ Held(broker', k) = Held(broker, k)
      OBVIOUS
    <2>4. QED
      BY <2>1, <2>2, <2>3
  <1>5. QED
    BY <1>1, <1>3, <1>4, BackendKept DEF Still

\* The answers to the two queries.
LEMMA AnswersKept ==
    ASSUME IInv, FiniteState, Still, BoundariesAnswered \/ NearestAnswered
    PROVE  Kept
  <1>1. \A f \in BagToSet(flow) : Checked(f)
    BY DEF IInv, FlowChecked
  <1>2. CASE BoundariesAnswered
    <2>1. PICK f \in BagToSet(flow) :
              /\ f.stage = "boundaries"
              /\ Becomes(f, IF WithinBoundaries(f.msg) THEN {[f EXCEPT !.stage = "nearest"]} ELSE {})
              /\ UNCHANGED <<broker, rows>>
      BY <1>2 DEF BoundariesAnswered
    <2> DEFINE g == [f EXCEPT !.stage = "nearest"]
    <2>2. g.msg = f.msg /\ g.stage = "nearest"
      BY <1>1 DEF Checked
    <2> HIDE DEF g
    <2>3. \A k, i : Bring(g, k, i) <= Bring(f, k, i)
      BY <2>1, <2>2 DEF Bring, Brings
    <2>4. Becomes(f, {g}) \/ Becomes(f, {})
      BY <2>1 DEF g
    <2>5. QED
      BY <2>1, <2>3, <2>4, BecomesKept
  <1>3. CASE NearestAnswered
    <2>1. PICK f \in BagToSet(flow) :
              /\ f.stage = "nearest"
              /\ \E id \in IF Nearest(f.msg) = {} THEN {0} ELSE {p.id : p \in Nearest(f.msg)} :
                     Becomes(f, {[f EXCEPT !.stage = "insert", !.nearestPoint = id,
                                           !.left = DOMAIN f.msg.noise]})
              /\ UNCHANGED <<broker, rows>>
      BY <1>3 DEF NearestAnswered
    <2>2. PICK id : Becomes(f, {[f EXCEPT !.stage = "insert", !.nearestPoint = id,
                                          !.left = DOMAIN f.msg.noise]})
      BY <2>1
    <2> DEFINE g == [f EXCEPT !.stage = "insert", !.nearestPoint = id, !.left = DOMAIN f.msg.noise]
    <2>3. g.msg = f.msg
      BY <1>1 DEF Checked
    <2> HIDE DEF g
    <2>4. \A k, i : Bring(g, k, i) <= Bring(f, k, i)
      BY <2>1, <2>3 DEF Bring, Brings
    <2>5. Becomes(f, {g})
      BY <2>2 DEF g
    <2>6. QED
      BY <2>1, <2>4, <2>5, BecomesKept
  <1>4. QED
    BY <1>2, <1>3

\* Without value v, a message brings the same other values.
LEMMA WithoutBrings ==
    ASSUME NEW f, Checked(f), NEW v \in f.left
    PROVE  /\ f.stage = "insert"
           /\ \/ Without(f, v) = {} /\ f.left = {v}
              \/ \E g : /\ Without(f, v) = {g}
                        /\ \A k, i : Brings(g, k, i) <=> Brings(f, k, i) /\ i # v
  <1>1. f.stage = "insert"
    BY DEF Checked
  <1>2. CASE f.left = {v}
    BY <1>1, <1>2 DEF Without
  <1>3. CASE f.left # {v}
    <2> DEFINE g == [f EXCEPT !.left = @ \ {v}]
    <2>1. Without(f, v) = {g}
      BY <1>3 DEF Without
    <2>2. g.msg = f.msg /\ g.stage = f.stage /\ g.left = f.left \ {v}
      BY DEF Checked
    <2> HIDE DEF g
    <2>3. \A k, i : Brings(g, k, i) <=> Brings(f, k, i) /\ i # v
      BY <2>2, <1>1 DEF Brings
    <2>4. QED
      BY <1>1, <2>1, <2>3
  <1>4. QED
    BY <1>2, <1>3

\* A value moves from the flow to the database.
LEMMA InsertedKept ==
    ASSUME IInv, FiniteState, Still, Inserted
    PROVE  Kept
  <1>1. PICK f \in BagToSet(flow) : \E v \in f.left :
            /\ rows' = Bag!BagAdd(rows, Row(f.msg, v, f.nearestPoint))
            /\ Becomes(f, Without(f, v))
            /\ UNCHANGED broker
    BY DEF Inserted
  <1>2. PICK v \in f.left :
            /\ rows' = Bag!BagAdd(rows, Row(f.msg, v, f.nearestPoint))
            /\ Becomes(f, Without(f, v))
            /\ UNCHANGED broker
    BY <1>1
  <1> DEFINE r == Row(f.msg, v, f.nearestPoint)
             next == Without(f, v)
  <1>3. FiniteBag(flow) /\ FiniteBag(rows) /\ IsSeq(broker) /\ f \in DOMAIN flow /\ Checked(f)
    BY DEF FiniteState, IInv, Histories, FlowChecked, BagToSet
  <1>4. flow' = Bag!BagRemove(flow, f) (+) SetToBag(next)
    BY <1>2 DEF Becomes
  <1>5. /\ f.stage = "insert"
        /\ \/ next = {} /\ f.left = {v}
           \/ \E g : next = {g} /\ \A k, i : Brings(g, k, i) <=> Brings(f, k, i) /\ i # v
    BY <1>3, WithoutBrings
  <1>6. r.sample = f.msg.sample /\ r.value = v
    BY DEF Row
  <1>7. rows' = Bag!BagAdd(rows, r)
    BY <1>2
  <1> HIDE DEF r, next
  <1>8. FiniteBag(rows')
    BY <1>3, <1>7, RowEntered
  <1>9. ASSUME NEW k, NEW i
        PROVE  /\ FiniteBag(flow')
               /\ FlowCopies(flow', k, i) + IsValue(r, k, i) <= FlowCopies(flow, k, i)
    <2>1. /\ Bring(f, k, i) \in {0, 1} /\ IsValue(r, k, i) \in {0, 1}
          /\ FlowCopies(flow, k, i) \in Nat
      BY <1>3, CopyTypes DEF Bring, IsValue
    <2>2. CASE next = {} /\ f.left = {v}
      <3>1. FiniteBag(flow') /\ FlowCopies(flow, k, i) = FlowCopies(flow', k, i) + Bring(f, k, i)
        BY <1>3, <1>4, <2>2, FlowReplaced
      <3>2. FlowCopies(flow', k, i) \in Nat
        BY <3>1, <1>3, CopyTypes
      <3>3. IsValue(r, k, i) <= Bring(f, k, i)
        BY <1>5, <1>6, <2>2 DEF IsValue, Bring, Brings
      <3>4. QED
        BY <3>1, <3>2, <3>3, <2>1
    <2>3. ASSUME NEW g, next = {g}, Brings(g, k, i) <=> Brings(f, k, i) /\ i # v
          PROVE  /\ FiniteBag(flow')
                 /\ FlowCopies(flow', k, i) + IsValue(r, k, i) <= FlowCopies(flow, k, i)
      <3>1. /\ FiniteBag(flow')
            /\ FlowCopies(flow', k, i) + Bring(f, k, i) = FlowCopies(flow, k, i) + Bring(g, k, i)
        BY <1>3, <1>4, <2>3, FlowReplaced
      <3>2. FlowCopies(flow', k, i) \in Nat /\ Bring(g, k, i) \in {0, 1}
        BY <3>1, <1>3, CopyTypes DEF Bring
      <3>3. Bring(g, k, i) + IsValue(r, k, i) <= Bring(f, k, i)
        <4>1. r.sample = k /\ r.value = i => Brings(f, k, i) /\ i = v
          BY <1>5, <1>6 DEF Brings
        <4>2. QED
          BY <4>1, <2>3 DEF IsValue, Bring
      <3>4. QED
        BY <3>1, <3>2, <3>3, <2>1
    <2>4. QED
      BY <1>5, <2>2, <2>3
  <1>10. ASSUME NEW k, NEW i
         PROVE  RowCopies(rows', k, i) + FlowCopies(flow', k, i) + Held(broker', k)
                    <= RowCopies(rows, k, i) + FlowCopies(flow, k, i) + Held(broker, k)
    <2>1. RowCopies(rows', k, i) = RowCopies(rows, k, i) + IsValue(r, k, i)
      BY <1>3, <1>7, RowEntered
    <2>2. /\ FlowCopies(flow', k, i) + IsValue(r, k, i) <= FlowCopies(flow, k, i)
          /\ FlowCopies(flow', k, i) \in Nat
      BY <1>3, <1>9, CopyTypes
    <2>3. /\ RowCopies(rows, k, i) \in Nat /\ FlowCopies(flow, k, i) \in Nat
          /\ Held(broker, k) \in Nat /\ IsValue(r, k, i) \in {0, 1}
      BY <1>3, CopyTypes, HeldFinite DEF IsValue
    <2>4. Held(broker', k) = Held(broker, k)
      BY <1>2
    <2>5. QED
      BY <2>1, <2>2, <2>3, <2>4
  <1>11. QED
    BY <1>2, <1>3, <1>8, <1>9, <1>10, BackendKept DEF Still

\* What fails is gone.
LEMMA FailsKept ==
    ASSUME IInv, FiniteState, Still,
           (\E f \in BagToSet(flow) : QueryFails(f)) \/ SessionLost
    PROVE  Kept
  <1>1. ASSUME NEW f \in BagToSet(flow), QueryFails(f) PROVE Kept
    <2>1. UNCHANGED <<broker, rows>> /\ (Becomes(f, {}) \/ \E v \in f.left : Becomes(f, Without(f, v)))
      BY <1>1 DEF QueryFails
    <2>2. CASE Becomes(f, {})
      BY <2>1, <2>2, BecomesKept
    <2>3. ASSUME NEW v \in f.left, Becomes(f, Without(f, v)) PROVE Kept
      <3>1. Checked(f)
        BY DEF IInv, FlowChecked
      <3>2. \/ Without(f, v) = {}
            \/ \E g : /\ Without(f, v) = {g}
                      /\ \A k, i : Brings(g, k, i) <=> Brings(f, k, i) /\ i # v
        BY <3>1, WithoutBrings
      <3>3. \/ Without(f, v) = {}
            \/ \E g : Without(f, v) = {g} /\ \A k, i : Bring(g, k, i) <= Bring(f, k, i)
        BY <3>2 DEF Bring
      <3>4. QED
        BY <2>1, <2>3, <3>3, BecomesKept
    <2>4. QED
      BY <2>1, <2>2, <2>3
  <1>2. CASE SessionLost
    <2>1. broker' = <<>> /\ UNCHANGED <<flow, rows>>
      BY <1>2 DEF SessionLost
    <2>2. IsSeq(broker') /\ FiniteBag(flow') /\ FiniteBag(rows') /\ IsSeq(broker)
      BY <2>1, EmptySequence DEF FiniteState, IInv, Histories
    <2>3. ASSUME NEW k, NEW i
          PROVE  RowCopies(rows', k, i) + FlowCopies(flow', k, i) + Held(broker', k)
                     <= RowCopies(rows, k, i) + FlowCopies(flow, k, i) + Held(broker, k)
      <3>1. RowCopies(rows, k, i) \in Nat /\ FlowCopies(flow, k, i) \in Nat /\ Held(broker, k) \in Nat
        BY <2>2, CopyTypes, HeldFinite DEF FiniteState
      <3>2. Held(broker', k) = 0
        BY <2>1, HeldNone, EmptySequence
      <3>3. RowCopies(rows', k, i) = RowCopies(rows, k, i) /\ FlowCopies(flow', k, i) = FlowCopies(flow, k, i)
        BY <2>1
      <3>4. QED
        BY <3>1, <3>2, <3>3
    <2>4. QED
      BY <2>2, <2>3, BackendKept DEF Still
  <1>3. QED
    BY <1>1, <1>2

\* A new sample is nowhere yet, and gets into the outbox once.
LEMMA SampleCopies ==
    ASSUME IInv, CopyInv, NEW reading, NEW m, NewSample(reading, m),
           outbox' = outbox \/ outbox' = Append(outbox, m), again' = again
    PROVE  CopyInv'
  <1>1. /\ DOMAIN said' = DOMAIN said \cup {m.sample} /\ m.sample \notin DOMAIN said
        /\ \A k \in DOMAIN said : said'[k] = said[k]
    BY SampleGrows
  <1>2. UNCHANGED <<broker, flow, rows>> /\ FiniteState
    BY DEF NewSample, backendVars, CopyInv
  <1>3. IsSeq(outbox) /\ IsSeq(broker) /\ FiniteBag(flow) /\ FiniteBag(rows) /\ again \in Nat
    BY <1>2 DEF IInv, Histories, FiniteState
  <1>4. SUFFICES ASSUME NEW k \in DOMAIN said', NEW i \in DOMAIN said'[k].noise
                 PROVE  Total(rows, flow, broker, outbox', k, i) <= 1 + again
    <2>1. FiniteState'
      BY <1>2 DEF FiniteState
    <2>2. \A k, i : Total(rows, flow, broker, outbox, k, i)' = Total(rows, flow, broker, outbox', k, i)
      BY <1>2
    <2>3. QED
      BY <2>1, <2>2, <1>4 DEF CopyInv
  <1>5. Counts(k, i)
    BY <1>2, CountTypes
  <1>6. Held(outbox', k) = Held(outbox, k) \/ Held(outbox', k) = Held(outbox, k) + Is(m, k)
    BY <1>3, HeldAppended
  <1>7. CASE k \in DOMAIN said
    <2>1. Is(m, k) = 0 /\ said'[k] = said[k]
      BY <1>1, <1>7 DEF Is
    <2>2. Total(rows, flow, broker, outbox, k, i) <= 1 + again
      BY <1>4, <1>7, <2>1 DEF CopyInv
    <2>3. Held(outbox', k) = Held(outbox, k)
      BY <1>5, <1>6, <2>1 DEF Counts
    <2>4. QED
      BY <2>2, <2>3 DEF Total
  <1>8. CASE k \notin DOMAIN said
    <2>1. (\A n \in Range(outbox) : n.sample # k) /\ (\A n \in Range(broker) : n.sample # k)
      BY <1>8 DEF IInv, OnTheWay, Genuine
    <2>2. Held(outbox, k) = 0 /\ Held(broker, k) = 0
      BY <2>1, HeldNone
    <2>3. {f \in BagToSet(flow) : Brings(f, k, i)} = {}
      BY <1>8 DEF IInv, OnTheWay, Genuine, Brings
    <2>4. {r \in BagToSet(rows) : r.sample = k /\ r.value = i} = {}
      BY <1>8 DEF IInv, RowsOfSamples, RowOfSample
    <2>5. RowCopies(rows, k, i) = 0 /\ FlowCopies(flow, k, i) = 0
      BY <2>3, <2>4, SumOfNone DEF RowCopies, FlowCopies
    <2>6. Is(m, k) \in {0, 1}
      BY DEF Is
    <2>7. Held(outbox', k) \in {0, 1}
      BY <1>6, <2>2, <2>6
    <2>8. QED
      BY <2>2, <2>5, <2>7, <1>3 DEF Total
  <1>9. QED
    BY <1>7, <1>8

LEMMA NextCopyInv ==
    ASSUME IInv, IInv', CopyInv, [Next]_vars
    PROVE  CopyInv'
  <1>1. FiniteState
    BY DEF CopyInv
  <1>2. ASSUME NEW reading, noise_processing(reading), kind # "mpi" PROVE CopyInv'
    <2>1. PICK m : /\ m = Message(publish_noise(noise_values'), reading.at)
                   /\ NewSample(reading, m) /\ Len(outbox') <= 1
      BY <1>2, SensorStep
    <2>2. outbox = <<>> /\ (Accepted(m) \/ Dropped(m)) /\ again' = again
      BY <1>2, <2>1 DEF noise_processing
    <2>3. outbox' = outbox \/ outbox' = <<m>>
      BY <2>2 DEF Accepted, Dropped
    <2>4. Append(<<>>, m) = <<m>>
      OBVIOUS
    <2>5. outbox' = outbox \/ outbox' = Append(outbox, m)
      BY <2>2, <2>3, <2>4
    <2>6. QED
      BY <2>1, <2>2, <2>5, SampleCopies
  <1>3. CASE SensorSamples
    BY <1>2, <1>3 DEF SensorSamples
  <1>4. CASE SimulatedSensorSamples
    BY <1>2, <1>4 DEF SimulatedSensorSamples
  <1>5. CASE RankPublishes
    <2>1. PICK level \in Levels, at \in Squares :
              LET m == Message([mode |-> "avg", noise |-> <<100 * level>>], at)
              IN  /\ mosquitto_publish(m)
                  /\ Recorded([noise |-> level, at |-> at], m)
                  /\ lost' = IF client \in Missing THEN lost \cup {m.sample} ELSE lost
      BY <1>5 DEF RankPublishes
    <2> DEFINE m == Message([mode |-> "avg", noise |-> <<100 * level>>], at)
    <2>2. m.sample = Len(said) + 1
      BY DEF Message
    <2>3. /\ mosquitto_publish(m) /\ Recorded([noise |-> level, at |-> at], m)
          /\ lost' = IF client \in Missing THEN lost \cup {m.sample} ELSE lost
      BY <2>1
    <2> HIDE DEF m
    <2>4. IsSeq(outbox) /\ again' = again /\ UNCHANGED <<kind, client, backendVars>>
      BY <1>5, <2>3 DEF IInv, Histories, RankPublishes, mosquitto_publish
    <2>5. outbox' = outbox \/ outbox' = Append(outbox, m)
      BY <2>3 DEF mosquitto_publish
    <2>6. NewSample([noise |-> level, at |-> at], m)
      BY <2>2, <2>3, <2>4, Appended DEF mosquitto_publish, NewSample
    <2>7. QED
      BY <2>4, <2>5, <2>6, SampleCopies
  <1>6. CASE \/ SensorSends \/ SensorGivesUp \/ ClientStarts \/ ClientSends
             \/ ClientReconnects \/ BridgeRepeats
    BY <1>1, <1>6, LinkKept, KeptKeeps
  <1>7. CASE BackendStep
    <2>1. Still /\ (Arrive \/ BoundariesAnswered \/ NearestAnswered \/ Inserted)
      BY <1>7 DEF BackendStep, Still, publisherVars, historyVars
    <2>2. Kept
      BY <1>1, <2>1, ArriveKept, AnswersKept, InsertedKept
    <2>3. QED
      BY <2>2, KeptKeeps
  <1>8. CASE BackendFails
    <2>1. Still /\ ((\E f \in BagToSet(flow) : QueryFails(f)) \/ SessionLost)
      BY <1>8 DEF BackendFails, Still, publisherVars
    <2>2. QED
      BY <1>1, <2>1, FailsKept, KeptKeeps
  <1>9. CASE UNCHANGED vars
    BY <1>9 DEF vars, publisherVars, backendVars, historyVars, CopyInv, FiniteState
  <1>10. QED
    BY <1>3, <1>4, <1>5, <1>6, <1>7, <1>8, <1>9 DEF Next, Done

\* A value is stored once, and once more for each repeated delivery, for any number
\* of samples, faults and repeated deliveries and in whatever order the queries are
\* answered: an answer replaces one message of the flow, and an insert takes its value
\* out of the message it came with.
THEOREM AlwaysStoredOnce == Spec => []StoredOnce
  <1>1. Init => CopyInv
    BY InitCopyInv
  <1>2. IInv /\ IInv' /\ CopyInv /\ [Next]_vars => CopyInv'
    BY NextCopyInv
  <1>3. ASSUME IInv, CopyInv PROVE StoredOnce
    <2>1. SUFFICES ASSUME NEW k \in DOMAIN said, NEW i \in DOMAIN said[k].noise
                   PROVE  RowCopies(rows, k, i) <= 1 + again
      BY DEF StoredOnce, RowCopies
    <2>2. Counts(k, i) /\ again \in Nat /\ Total(rows, flow, broker, outbox, k, i) <= 1 + again
      BY <1>3, CountTypes DEF CopyInv, FiniteState
    <2>3. QED
      BY <2>2 DEF Counts, Total
  <1>4. IInv /\ CopyInv => StoredOnce
    BY <1>3
  <1>5. QED
    BY <1>1, <1>2, <1>4, IInvHolds, PTL DEF Spec
=============================================================================
