---------------------------- MODULE Measurements ----------------------------
(***************************************************************************)
(* From a reading to the rows of the database: one producer of noise        *)
(* levels (an IoT sensor, a virtual sensor, or a rank of the simulation),   *)
(* its link to the broker, and the back end.                                *)
(*                                                                         *)
(* The link of a sensor is the library of MqttEngine seen from outside: the *)
(* sensor publishes when its queue is empty, and a message either gets      *)
(* through once or is given up, for the library sends nothing twice.        *)
(***************************************************************************)
EXTENDS NoiseWindow, DataSet, MqttPublisher, Backend

CONSTANTS
    Kinds,       \* the producers
    RegionIds,   \* the region a producer is told it is in
    Spots,       \* where an IoT sensor may be
    Rssi,        \* signal strengths its radio may report
    Levels,      \* noise levels of the simulation
    Squares,     \* squares of its region, by their coordinates
    MaxSamples,  \* bound: readings, for each kind of producer
    MaxUnderWay, \* bound: messages under way (one in ten seconds is published)
    MaxFaults    \* bound: faults

\* The radio reports -100 dBm when it hears nothing (cooja-radio.c 58).
ASSUME LevelsAssumption ==
    /\ \A rssi \in Rssi : rssi \in Int /\ rssi + 110 \in Nat
    /\ Levels \subseteq Nat

VARIABLES
    kind, region, spot,  \* the producer
    taken,               \* history: its readings
    said,                \* history: the message for each of them
    lost,                \* history: samples a fault has hit
    again,               \* history: repeated deliveries
    faults               \* faults so far

historyVars == <<taken, said, lost, again, faults>>
vars == <<kind, region, spot, windowVars, dataVars, publisherVars, backendVars, historyVars>>

Init ==
    /\ kind \in Kinds /\ region \in RegionIds
    /\ spot \in IF kind = "noise-sensor" THEN Spots ELSE {<<0, 0>>}
    /\ init_noise_values
    /\ IF kind = "noise-simulated-sensor" THEN init_file_reading ELSE dataset = <<>> /\ fileptr = 0
    /\ client = IF kind = "mpi" THEN "uninitialised" ELSE "none"
    /\ outbox = <<>>
    /\ BackendInit
    /\ taken = <<>> /\ said = <<>> /\ lost = {} /\ again = 0 /\ faults = 0

UnderWay == Len(outbox) + Len(broker) + BagCardinality(flow)

\* There is another reading to take.
Due == Len(taken) < MaxSamples[kind] /\ UnderWay < MaxUnderWay

Fault == faults < MaxFaults /\ faults' = faults + 1

\* The message that tells payload of the place, on the topic of the region.
Message(payload, at) ==
    [region |-> region, mode |-> payload.mode, noise |-> payload.noise, at |-> at,
     sample |-> Len(said) + 1]

\* The reading and the message become history.
Recorded(reading, m) ==
    /\ taken' = Append(taken, reading)
    /\ said' = Append(said, m)

-----------------------------------------------------------------------------
(* The producers.                                                          *)

\* The sensor does not look at the result of mqtt_publish.
Accepted(m) == outbox' = <<m>> /\ UNCHANGED <<lost, faults>>
Dropped(m) == Fault /\ lost' = lost \cup {m.sample} /\ UNCHANGED outbox

noise_processing(reading) ==
    /\ Due /\ outbox = <<>>
    /\ TakeReading(reading.noise)
    /\ LET m == Message(publish_noise(noise_values'), reading.at)
       IN  Recorded(reading, m) /\ (Accepted(m) \/ Dropped(m))
    /\ UNCHANGED <<kind, region, spot, client, backendVars, again>>

SensorSamples ==
    /\ kind = "noise-sensor"
    /\ \E rssi \in Rssi : noise_processing([noise |-> rssi + 110, at |-> spot])
    /\ UNCHANGED dataVars

SimulatedSensorSamples ==
    /\ kind = "noise-simulated-sensor"
    /\ noise_processing(RowRead)
    /\ ReadRow
    /\ UNCHANGED dataset

\* One level of a cycle; every rank's coordinates are whole metres.
RankPublishes ==
    /\ kind = "mpi" /\ Due
    /\ \E level \in Levels, at \in Squares :
           LET m == Message([mode |-> "avg", noise |-> <<100 * level>>], at)
           IN  /\ mosquitto_publish(m)
               /\ Recorded([noise |-> level, at |-> at], m)
               /\ lost' = IF client \in Missing THEN lost \cup {m.sample} ELSE lost
    /\ UNCHANGED <<kind, region, spot, windowVars, dataVars, backendVars, again, faults>>

-----------------------------------------------------------------------------
(* The links to the broker.                                                *)

ReachesBroker(m) == broker' = Append(broker, m) /\ UNCHANGED <<flow, rows>>

SensorSends ==
    /\ client = "none" /\ outbox # <<>>
    /\ ReachesBroker(Head(outbox))
    /\ outbox' = <<>>
    /\ UNCHANGED <<kind, region, spot, windowVars, dataVars, client, historyVars>>

\* The session ends before the broker has the message.
SensorGivesUp ==
    /\ client = "none" /\ outbox # <<>>
    /\ Fault /\ lost' = lost \cup {Head(outbox).sample}
    /\ outbox' = <<>>
    /\ UNCHANGED <<kind, region, spot, windowVars, dataVars, client, backendVars, taken, said, again>>

ClientStarts ==
    /\ init_mosquitto \/ on_connect
    /\ UNCHANGED <<kind, region, spot, windowVars, dataVars, backendVars, historyVars>>

ClientSends ==
    /\ Acknowledged
    /\ ReachesBroker(Head(outbox))
    /\ UNCHANGED <<kind, region, spot, windowVars, dataVars, historyVars>>

\* The connection breaks before or after the broker has got the message.
ClientReconnects ==
    /\ ConnectionBreaks /\ Fault
    /\ \/ ReachesBroker(Head(outbox)) /\ again' = again + 1
       \/ UNCHANGED <<backendVars, again>>
    /\ UNCHANGED <<kind, region, spot, windowVars, dataVars, taken, said, lost>>

\* The bridge between the two brokers has to send a message again.
BridgeRepeats ==
    /\ Fault
    /\ \E k \in DOMAIN said \ lost :
           /\ \A j \in DOMAIN outbox : outbox[j].sample # k
           /\ ReachesBroker(said[k])
    /\ again' = again + 1
    /\ UNCHANGED <<kind, region, spot, windowVars, dataVars, publisherVars, taken, said, lost>>

-----------------------------------------------------------------------------
(* The back end.                                                           *)

BackendStep ==
    /\ Arrive \/ BoundariesAnswered \/ NearestAnswered \/ Inserted
    /\ UNCHANGED <<kind, region, spot, windowVars, dataVars, publisherVars, historyVars>>

BackendFails ==
    /\ Fault
    /\ \/ \E f \in BagToSet(flow) : QueryFails(f) /\ lost' = lost \cup {f.msg.sample}
       \/ /\ broker # <<>> /\ SessionLost
          /\ lost' = lost \cup {broker[i].sample : i \in DOMAIN broker}
    /\ UNCHANGED <<kind, region, spot, windowVars, dataVars, publisherVars, taken, said, again>>

\* Nothing is under way but what a client that has given up keeps.
Settled == broker = <<>> /\ flow = EmptyBag /\ (outbox = <<>> \/ client \in Useless)

Done == Settled /\ ~ Due /\ UNCHANGED vars

Next ==
    \/ SensorSamples \/ SimulatedSensorSamples \/ RankPublishes
    \/ SensorSends \/ SensorGivesUp
    \/ ClientStarts \/ ClientSends \/ ClientReconnects \/ BridgeRepeats
    \/ BackendStep \/ BackendFails
    \/ Done

Spec == Init /\ [][Next]_vars

\* The producers go on, the links and the back end work on what they have.
Fairness ==
    /\ WF_vars(SensorSamples \/ SimulatedSensorSamples \/ RankPublishes)
    /\ WF_vars(SensorSends \/ ClientStarts \/ ClientSends)
    /\ WF_vars(BackendStep)

FairSpec == Spec /\ Fairness

-----------------------------------------------------------------------------
MessageOK(m) ==
    /\ DOMAIN m = {"region", "mode", "noise", "at", "sample"}
    /\ m.mode \in {"avg", "raw"} /\ m.noise \in Seq(Nat)
    /\ m.sample \in DOMAIN said

TypeOK ==
    /\ position \in Ring /\ noise_values \in [Ring -> Nat]
    /\ fileptr \in Nat
    /\ client \in {"none", "uninitialised"} \cup Live \cup Useless \cup Missing
    /\ \A i \in DOMAIN outbox : MessageOK(outbox[i])
    /\ \A i \in DOMAIN broker : MessageOK(broker[i])
    /\ \A f \in BagToSet(flow) :
           /\ f.stage \in {"boundaries", "nearest", "insert"}
           /\ f.left \subseteq DOMAIN f.msg.noise
           /\ f.stage = "insert" <=> f.left # {}
    /\ Len(said) = Len(taken) /\ lost \subseteq DOMAIN said

\* The readings a window may hold when it is published with sample k.
Recent(k) == {j \in 1 .. k : j > k - MAX_WINDOW_SIZE}

\* A sensor publishes the average, or all, of its last MAX_WINDOW_SIZE readings,
\* with a 0 for each it has not taken yet (noise-sensor.c 274-320, 445-452).
TellsTheWindow ==
    kind # "mpi" =>
        \A k \in DOMAIN said :
            LET loudness == SumFunctionOnSet([j \in Recent(k) |-> taken[j].noise], Recent(k))
                count(v) == Cardinality({j \in Recent(k) : 100 * taken[j].noise = v})
            IN  \/ /\ said[k].mode = "avg" /\ loudness < MAX_WINDOW_SIZE * AVG_THRESHOLD_DB
                   /\ 2 * (said[k].noise[1] * MAX_WINDOW_SIZE - 100 * loudness)
                          \in (- MAX_WINDOW_SIZE) .. MAX_WINDOW_SIZE
                \/ /\ said[k].mode = "raw" /\ loudness >= MAX_WINDOW_SIZE * AVG_THRESHOLD_DB
                   /\ Len(said[k].noise) = MAX_WINDOW_SIZE
                   /\ \A v \in {said[k].noise[i] : i \in DOMAIN said[k].noise} \ {0} :
                          Cardinality({i \in DOMAIN said[k].noise : said[k].noise[i] = v}) = count(v)

\* The virtual sensor's readings are the rows of its file, over and over: it
\* never reads across the end of a row, because every row the generator writes
\* has RowBytes bytes (noise-simulated-sensor.c 320-336, dataset-generator.py 39-48).
Replays ==
    kind = "noise-simulated-sensor" =>
        \A k \in DOMAIN taken : taken[k] = dataset[((k - 1) % n_samples) + 1]

\* No point of the producer's region is nearer to a place than point id; 0 is
\* the answer where the region has none.
NearestTo(id, place) ==
    \/ id = 0 /\ \A p \in Points : p.region # region
    \/ \E p \in Points :
           /\ p.id = id /\ p.region = region
           /\ \A q \in Points : q.region = region => Distance(p, place) <= Distance(q, place)

\* However the messages overtake each other at the queries, what a row says is
\* its own message's: a valid level, the producer's region, the place at which
\* the last reading the message tells of was taken, inside the region, and the
\* point nearest to that place (flows.json).  Of the earlier readings of a
\* window it does not speak: see ReadingsPlaced.
RowsPlaced ==
    \A r \in BagToSet(rows) :
        /\ r.noise \in Storable
        /\ r.region = region /\ r.at = taken[r.sample].at /\ WithinBoundaries(r)
        /\ NearestTo(r.nearest_point, taken[r.sample].at)

\* "Each reading is associated with the nearest point of interest" (README 17-18):
\* a single reading that is stored has the point nearest to where that reading,
\* or one as loud in the same window, was taken (noise-simulated-sensor.c 333).
ReadingsPlaced ==
    \A r \in BagToSet(rows) : r.mode = "raw" =>
        \E j \in Recent(r.sample) :
            r.noise = 100 * taken[j].noise /\ NearestTo(r.nearest_point, taken[j].at)

\* A single reading that is stored has been taken, at most MAX_WINDOW_SIZE - 1
\* samples before the one that was published: the places of a window that have
\* not been filled yet are kept out of the database, if only by the lowest
\* level the schema lets through (global.json, noise-sensor.c 274-290).
RowsAreReadings ==
    \A r \in BagToSet(rows) :
        r.mode = "raw" => \E j \in Recent(r.sample) : r.noise = 100 * taken[j].noise

Waits(k) ==
    \/ \E i \in DOMAIN outbox : outbox[i].sample = k
    \/ \E i \in DOMAIN broker : broker[i].sample = k
    \/ \E f \in BagToSet(flow) : f.msg.sample = k

\* A sample no fault has hit, once it is through, has been stored in full if it
\* is valid and not at all if it is not, whatever happened to the samples before
\* and after it (flows.json; mqtt.c 32-69).
StoredInFull ==
    \A k \in DOMAIN said \ lost : ~ Waits(k) =>
        {r.value : r \in {s \in BagToSet(rows) : s.sample = k}} =
            IF Schema(said[k]) /\ WithinBoundaries(said[k]) THEN DOMAIN said[k].noise ELSE {}

\* A value is stored once, and once more for each repeated delivery.
StoredOnce ==
    \A k \in DOMAIN said : \A i \in DOMAIN said[k].noise :
        LET copies == {r \in BagToSet(rows) : r.sample = k /\ r.value = i}
        IN  SumFunctionOnSet(rows, copies) <= 1 + again

\* Every message gets through or is discarded, unless it waits in a client that
\* has given up.
Settles == <>[](Settled /\ ~ Due)
=============================================================================
