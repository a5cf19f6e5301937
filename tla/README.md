# A TLA+ model of the noise simulation

The repository studies the noise in the regions of a country. Three kinds of
region produce measurements: a parallel simulation of people and vehicles
(`src/mpi`), IoT sensors in a Cooja network (`src/contiki-ng/code/noise-sensor`)
and virtual sensors that replay a data set
(`src/contiki-ng/code/noise-simulated-sensor`). All publish over MQTT to a
Node-RED flow that cleans them and stores them in MySQL (`src/docker`).

This directory models the parallel simulation (what each process computes, the
exchange of partial results between processes, what is published, and how the
sources move), the connection and sampling of the sensors with the MQTT library
under them, and the way of a measurement from its producer to the database.

## 1. Inventory

| part | state | operations | talks to |
|---|---|---|---|
| MPI cycle, `mpi/main.c` 113-173 | per rank: the matrix `noise_sqm`, the array `my_noises`, the loop counters | compute, shuffle (send or receive one cell), publish, move, reset, sleep | other ranks by MPI point-to-point messages; the MQTT client |
| noise sources, `mpi/main.c` 47-107, `noise_sim.c` 172-264 | per rank `local_arr` | place at random, scatter, move | MPI collectives at start |
| level arithmetic, `noise_sim.c` 209-220 | none | `sum_noises` | - |
| MQTT publisher, `mpi/utils/mqtt.c` | mosquitto's client and its thread | init, connect callback, publish | broker |
| configuration, `mpi/utils/config_parser.c` | none | read a file | - |
| IoT sensor, `noise-sensor.c` | `state`, `position`, `noise_values`, the radio channel, timers | MQTT event callback, state machine on a timer, sampling | Contiki's MQTT engine, radio |
| virtual sensor, `noise-simulated-sensor.c` | the same, and a file position instead of the radio | the same | MQTT engine, file system |
| Contiki MQTT engine, `os/net/app-layer/mqtt/mqtt.c` | connection state, one-place output queue, acknowledgement state | connect, publish, disconnect, TCP events | TCP, the sensor's callback |
| backend, `docker/node-red/flows.json` | rows of `noise_measure` | validate, find region and nearest point, split, insert | broker, MySQL |
| data set, `dataset-generator.py`, `cfs-cooja.c` | a file of rows, the position in it | generate, read, start over | the virtual sensor |
| Cooja interfaces, border router, broker configuration | simulator plumbing, configuration | - | - |

What is hard to test here:

* the ranks run without a barrier, and a rank that waits for a message takes it
  from *any* sender; messages carry a bare integer, not the cell it is for;
* a send is started and never waited for, although its buffer is reused;
* divisions with remainder are done in three places (cells, sources, slots of
  the array) that must agree;
* a cycle accumulates into a matrix and reuses an array that is never cleared;
* levels are rounded after every addition, in an order that depends on arrival;
* in the sensor, callbacks of the network and the timer of the state machine
  interleave, and the radio is shared between sampling and the network;
* the sensors publish from one buffer the library reads again, and from a ring
  that starts as zeroes;
* in the backend, messages overtake each other at every query, a query may fail for
  one value of a window, and a message may arrive twice or not at all.

`PROJECT.json` lists each hazard at its line, with the properties that cover it.

What makes each part correct: a published level is the sum of what *all* ranks
computed for that square metre in that cycle, each counted once; no rank blocks
for ever; arrays stay in bounds; sources stay in the region and everyone counts;
the arithmetic stays close to the true sum. For the sensors: the radio is on the
network's channel unless the sensor is sampling, and a sensor that loses its
connection comes back; it publishes its last readings and no others. For the
backend: only valid measurements are stored, all of them, and each once.

## 2. Modules

    Region           ranks and cells, shared by all
    NoiseShuffle     the cycle of main.c, rank by rank and message by message
    NoiseMap         what the cycle promises: sense, then report what all sensed
    NoiseSources     people and vehicles: placed, scattered, heard, moved
    NoiseSim         NoiseShuffle driven by NoiseSources
    NoiseLevel       one square metre in decibels
    MqttEngine       Contiki's MQTT client library, TCP and the broker
    NoiseSensor      the sensor's state machine and radio, on top of MqttEngine
    NoiseWindow      the last readings of a sensor and what it publishes of them
    DataSet          the virtual sensor's file, as it is written and as it is read
    MqttPublisher    the simulation's client of libmosquitto
    Backend          broker, Node-RED flow and database
    Measurements     a producer (any of the three), its link, and Backend
    MCShuffle, MCSim, MCLevel, MCSensor, MCMeasurements   instances for TLC
    Arithmetic           quotient and remainder, least numbers, sums over finite sets
    NoiseShuffleProofs   the shuffle: types, bounds, the ranks in step and never more than
                         a cycle apart, exact reports, and that it implements NoiseMap
    ConservationProofs   each level is in one place, also when the messages are mixed up
    NoiseSimProofs       the sources, and the simulation as a whole
    NoiseLevelProofs     the drift of the levels and the order of arrival
    NoiseSensorProofs    the sensor and the MQTT library
    MeasurementsProofs   the rows of the database
    ReadingsProofs       the readings and the messages of the producers

**NoiseShuffle.** One program counter per rank. The two nested loops of the
shuffle are one counter `cell`, the number `i * MAX_X + j` that the code reduces
modulo `world_size` to find the receiver. Each turn of the loop is an action:
`Isend` if the cell is another rank's, or `StartOwn`, `world_size - 1` times
`Recv`, and `EndOwn`. `Compute`, `Publish`, `Move`, `Reset` are the rest of the
cycle, in its order. `chan[s][d]` is the list of messages from s to d; MPI
delivers between two ranks in order, and `Recv` takes the oldest of any sender.

A level is modelled as the *set of contributions* added into it, each naming the
rank, cell and cycle it was computed for. `sum_noises` becomes union and level 0
the empty set; both have the code's test for zero in them. A wrong mixture is a
different set, even where the decibels would happen to agree. What this leaves
out, the arithmetic itself, is NoiseLevel. `loud` and `published` are histories:
which cells the sources of each rank affected, and what was published, cycle by
cycle. `Publish` models what `publish_data` hands to the MQTT client: every entry
of the array that is not silent.

A message waiting in `chan` is either packed (it holds its level) or not: MPI may
copy the integer in `MPI_Isend` itself ("eager", what implementations do for
small messages) or keep the address and read it later ("deferred"; the action
`Pack` reads the matrix as it is *then*). `SendModes` says which are allowed.

**NoiseSources.** `SourcesInit` allows every placement and does the scatter with
the code's counts and displacements. `MoveSources` gives every source that
`num_elem_per_proc` covers a random direction; a step that would leave the region
is reversed. `compute_noise_sqm` is the set of squares heard, clipped as in the
code: those at most the distance away. `conf/simulation.cfg` calls the distance the
side of the affected square; the run `sim_side` shows that disagreement, and
`EveryoneIsHeard` is stated with the code's reading.

**NoiseSim** conjoins the two: `Compute` with the squares on which the rank's
sources are heard, `Move` with the sources' move. `trail` remembers where the
sources were in each cycle.

**NoiseLevel** is one square metre in one cycle: the sources of each rank are
added one at a time, people before vehicles as in the array, then the owner adds
the ranks' levels in any order. For integers a >= b,
`round(10*log10(10^(a/10) + 10^(b/10)))` is a plus a number from 0 to 3 that
depends on a - b only; `Gain` is that table. The true sum is one of powers: `Power[h]`
is the power of h half decibels, in thousandths, and ten times as much every twenty;
`Within(level, h, power)` says that a level is within h half decibels of a power's.

**MqttEngine** is the process `mqtt_process` and its callbacks. `inbox` is its
queue of events, `thread` the transaction (a protothread) it is in; while it is in
one, other events stay queued, which is what `PT_MQTT_WAIT_SEND` does by posting
them back to itself. An abort event, however, restarts the connect thread
(`RestartConnect`), wherever it is in the queue; the events before it have then been
posted back behind the others (`PostedBack`). The restarted thread writes another CONNECT into the output buffer, until the
buffer is full. `room` counts the CONNECTs that still fit. TCP is `sock`, the
`packet` it has not got acknowledged, and the answers the broker still owes.

**NoiseSensor** is both sensors: `Programs` says which of the two may be running, and
they differ in STATE_CONNECTED only (the virtual one publishes at once and has no
STATE_SAMPLING). It has one action per state of `mqtt_state_machine`, conjoins the
library's callbacks (`mqtt_event`) to the library's actions, and lets segments
through only while the radio is on the network's channel. Time is abstracted to
the orders the intervals imply: the events in `inbox` are handled in milliseconds,
before the reconnect interval (at least 2 s) or the publish interval (10 s) ends; a
sample takes 0.1 s, in which no timer of 2 s or more can both start and run out,
and at the end of which the library has seen a CONNACK that came before it. TCP
times out only on bytes it has retransmitted. Everything else happens in any order.

**NoiseWindow** is `noise_values` and `position`. `publish_noise` gives the average of
the ring, in hundredths of a decibel and rounded as "%.2f" rounds it, or, if that is
at least the threshold, all of the ring in the order of its places.

**DataSet** has the generator's walk (`Step` turns back at the bounds) and the file as
bytes: `Width` of a row, `Begin` of a row, and `cfs_read`, which returns 15 bytes or what
is left. `RowRead` is a row only if the bytes read are exactly those of one. The file
is there when the sensor boots.

**MqttPublisher** names what `init_mosquitto` can leave behind: a working client, none,
a destroyed one, or one that was never connected; `main` goes on with each. The queue
holds what libmosquitto has no PUBACK for; it sends it again after a reconnect.

**Backend** has one action for each stretch of the flow between two answers of the
database: `Arrive` (region from the topic, schema), `BoundariesAnswered`,
`NearestAnswered` (then the split), `Inserted` (one value). `flow` is the bag of the
messages under way, so that any of them may be answered next; `QueryFails` is the
catch node, which logs and drops. A query is the set it selects: `WithinBoundaries`,
`Nearest`. `rows` is a bag, since `noise_measure` has no key but its own number.

**Measurements** composes them: one producer of any kind, with a region id from its
configuration, its link to the broker, and the backend. `taken`, `said`, `lost` and
`again` are histories: the readings, the message for each, the samples a fault has
hit, and repeated deliveries. The sensors' link is the MQTT library seen from outside:
one message at a time, delivered or given up, never sent twice (the library writes
a PUBLISH once and leaves retransmission to TCP).

## 3. Properties and runs

| run | instance | states | checks |
|---|---|---|---|
| `shuffle_uneven` | 3 ranks, 2x2 cells, 3 cycles, eager, fair | 8 528 | `TypeOK`, `CountInBounds`, `SlotsFresh`, `NoDoubleCount`, `NothingLost`, `RoundSkew`, `Terminates` |
| `shuffle_deferred` | 3 ranks, 3x2 cells, 2 cycles, both modes, fair | 60 472 | `InStep`, `Terminates` |
| `sim` | 3 ranks, two people and a vehicle, 3x2 squares, 2 cycles, eager | 1 035 144 | `ReportsExact`, `EveryoneIsHeard`, `InRegion`, `Everyone`, `ImplementsNoiseMap`, `ImplementsShuffle` |
| `level` | 3 ranks, up to 10 people and 5 vehicles, 40 and 45 dB | 83 306 | `Accurate`, `BoundedDrift`, `ArrivalOrder`, `OrderDrift` |
| `sensor` | both sensors, 6 faults of any kind, room for 3 CONNECTs, fair | 908 | `TypeOK`, `RadioComesBack`, `QueueDrains`, `AbortIsForTheOld`, `BufferIsFree`, `OnlyDeadEnds` |
| `measures` | each producer, 4 readings (2 of a rank), window of 3, a fault, fair | 289 575 | `TypeOK`, `TellsTheWindow`, `Replays`, `RowsPlaced`, `RowsAreReadings`, `StoredInFull`, `StoredOnce`, `Settles` |

`ReportsExact` is the central property: what a rank publishes for a cycle is, for
each of its cells that is not silent, one report that adds up what all ranks
computed for that cell in that cycle. `InStep` is why it holds although receives
are anonymous: towards the turn a rank is at, every other rank has not sent yet,
or its message is the only one under way, or has been received. Two ranks that do
not divide the cells are not in step in this sense (one may be two messages ahead),
and exact all the same, since a receive has one possible sender; `ExactReports` proves
it for both cases. `sim` checks exactness with the real sources, of which some are not
heard everywhere, so that silent entries, messages of level zero and reports left out
occur; `ImplementsNoiseMap` adds that a cycle is reported when every rank has computed
it, and `Terminates`, checked on the same cells for both kinds of send, that every rank
goes on to its last report.

The levels are rounded after each of many additions. `BoundedDrift` says that the
result is off by half a decibel at most per source after the first, however the sources
are spread over ranks and in whatever order the ranks' sums arrive: an addition rounds
once, and its own error comes on top of the larger of its operands' errors, not of their
sum. `Accurate` says that it stays within one and a half decibels for the
levels of the configuration and up to 15 sources. `ArrivalOrder` says that with three ranks the
order of arrival changes the published level by one decibel at most, and `OrderDrift` that with any number
each rank that hears something, after the first, adds at most one decibel of
difference.

For the sensor, `RadioComesBack` says that the radio is on the noise channel
exactly while the state is SAMPLING. It depends on the library: a disconnect
reported during a sample would overwrite the state, and nobody would switch the
radio back. `QueueDrains` says that the one-place output queue is never marked
full for a publish nobody works on, although `mqtt_process` drops a publish event
it cannot serve; `AbortIsForTheOld` that the abort posted for a broken connection
is handled before another one is opened, which would not hold with the library's
default, `auto_reconnect`; `BufferIsFree` that a reading is never formatted into
`pub_buffer` while the library may still send from it. `OnlyDeadEnds` is the sensor's purpose: however often
the connection breaks, answers are late, or the broker refuses or vanishes, it gets
back to publishing, with two exceptions. After a refused connection it waits for
ever in STATE_CONNECTING; and so it does when the broker's host vanishes after it
acknowledged CONNECT and before it sent CONNACK, since the `mqtt_disconnect` that
is to "tear the connection down" (`mqtt.c` 465) does nothing in that state.

From the producer on: `TellsTheWindow` says that a sensor publishes the average or all
of its last readings, with zeroes for those it has not taken; `Replays` that the
virtual sensor's readings are the rows of its file over and over, which rests on
every row having 15 bytes, that is on the bounds of the generator's walk. `RowsPlaced`
says that each row tells its own message's story although messages overtake each other
at every query: a valid level, the producer's region, the place of the last reading, and
the point nearest to that. `RowsAreReadings` that a single
reading in the database was taken within the window before it - the zeroes of a
window that is not full are kept out only because the schema's minimum is 10.
`StoredInFull` is the backend's completeness: a sample no fault has hit is, once it is
through, stored with all its values, or with none if it is invalid, whatever happens
to the messages around it. `StoredOnce` bounds the copies by the repeated
deliveries. `Settles` says that nothing stays under way, a region without points of
interest included, except in a client that has given up.

Six runs show a disagreement between the code and what a comment or document of
the repository says (details under "findings" in `PROJECT.json`):

* `any_source`: with three ranks and four cells, rank 0 may take the first
  message of the next cycle while it waits at its last cell. Reports then mix
  cycles. `shuffle_uneven` shows what still holds there: the sums are
  misattributed, but nothing is counted twice or lost in the long run.
* `buffer_reuse`: with deferred sends a matrix entry is zeroed before it is read.
* `sim_remainder`: a rank's extra source is never computed nor moved. The shipped
  configuration, 15 sources on 2 processes, has one.
* `sim_side`: the configuration file calls the distance "side of the square area";
  the code's area has a side of twice the distance and one more. With the shipped
  distances a square is reported that is in no source's area as the file describes it.
* `refused`: a refused connection raises an event `mqtt_event` only logs; the sensor
  waits in STATE_CONNECTING for ever.
* `place`: "each reading is associated with the nearest point of interest", but a
  virtual sensor that moves publishes a window of readings with the place of the last
  one: an earlier reading may be stored with a point that is not the nearest to where
  it was taken.

**Bounds.** `MaxRounds` bounds the cycles; two are enough for a message to be
taken in the wrong cycle, and ranks are never more than one cycle apart
(`RoundSkew`), three let a mix-up of cycles 1 and 2 propagate. Three ranks are
the least for which a receive has a choice between senders. In the runs of the
shuffle the footprints are everything, which makes every message count; in those of the
simulation they are the squares on which the sources are heard, so that silent squares
and loud ones both occur. In `sim` a vehicle's step is half of the shorter side, the
largest for which walks stay inside. Its three ranks have a source each, because
`EveryoneIsHeard` fails when there is a remainder (`sim_remainder`); that the uneven
scatter loses nobody is the theorem `NobodyIsLost`. In `place` the two places of the
sensor are a step of the generator's walk apart, on two sides of the line between two
points.
In `measures` the window is 3 and the threshold 60 dB (6 and 70 in the code), so that
four readings fill the ring and go around it, and two loud ones suffice for a window
published with a zero in it; the file has two rows, read twice; regions exist with
and without points of interest, not at all, or have a negative number, which the
topic's pattern does not match. `MaxUnderWay` lets two messages overtake each other
(the producers send one in ten seconds or in a cycle), and one fault can hit any
step. Places are whole metres: the distance query rounds to four decimals, which
keeps distances between whole metres apart, so their squares are compared.
`MaxFaults` bounds the faults; each can follow every other in any phase of a
connection, and six faults are more than the phases of one. The 512-byte
buffer holds about seven CONNECTs; the number only sets how often
`RestartConnect` repeats, and `SensorTypeCorrect` holds for any.

**Fairness.** Weak fairness of every rank's next step (the operating system
schedules each process; `sleep` ends) and of the library's progress on pending
sends (MPI guarantees that a send whose receive is posted completes). Nothing is
assumed about the order in which ranks or messages advance. For the sensor: weak fairness of its timer and of the
library's process (Contiki's scheduler runs every posted event and expired timer),
strong fairness of the segments (TCP retransmits, so what can get through again
and again does), and of the TCP timeout when there is nobody to answer. Strong fairness
of the connect thread's last step says that the virtual sensor's timer does not
expire in the milliseconds between a CONNACK and that step each time it connects.
In `measures`, weak fairness of producer, link and flow: timers fire, TCP and the
database answer. Faults are never forced. A run of the simulation ends when all
ranks have done `MaxRounds` cycles; the program itself loops for ever, so the
model stutters there and deadlock is checked everywhere else, except in the
sensor's runs, where the sensor does stop.

**Mutants.** Every property of every passing run has a mutated operation
(named "Mutation" in the modules) under which TLC finds it violated.

## 4. What is proved

TLAPS proves these for every number of ranks, every region size, and any number
of cycles:

| theorem | assumes | says |
|---|---|---|
| `TypeCorrect` | - | `Spec => []TypeOK` |
| `CountStaysInBounds` | - | `Spec => []CountInBounds` |
| `SlotsStayFresh` | - | `Spec => []SlotsFresh` |
| `RanksStayInStep` | the ranks divide the cells | `Spec => []InStep` |
| `ExactReports` | they do, or are two; sends are eager | `Spec => []ReportsExact` |
| `SimulationImplementsNoiseMap` | the same | `Spec => ImplementsNoiseMap` |
| `RanksStayTogether` | - | `Spec => []RoundSkew` |
| `NothingCountedTwice` | sends are eager | `Spec => []NoDoubleCount` |
| `NothingIsLost` | sends are eager | `Spec => []NothingLost` |
| `SourcesStayInRegion` | the region is two steps wide | `SourcesSpec => []InRegion` |
| `NobodyIsLost` | people differ from vehicles | `SourcesSpec => []Everyone` |
| `SimulationImplementsSources` | - | `SimSpec => SourcesSpec` |
| `SimulationImplementsShuffle` | - | `SimSpec => ImplementsShuffle` |
| `EverySourceIsReported` | as `ExactReports`, and the ranks divide the sources | `SimSpec => []EveryoneIsHeard` |
| `DriftIsBounded` | - | `Spec => []BoundedDrift` |
| `FewAreAccurate` | at most four sources | `Spec => []Accurate` |
| `OrderMatters1dB` | at most three ranks | `Spec => []ArrivalOrder` |
| `OrderDriftIsBounded` | - | `Spec => []OrderDrift` |
| `SensorTypeCorrect` | - | `Spec => []TypeOK` of NoiseSensor |
| `RadioAlwaysComesBack` | - | `Spec => []RadioComesBack` |
| `QueueAlwaysDrains` | - | `Spec => []QueueDrains` |
| `AbortsAreForTheOld` | - | `Spec => []AbortIsForTheOld` |
| `BufferAlwaysFree` | - | `Spec => []BufferIsFree` |
| `RowsAlwaysPlaced` | - | `Spec => []RowsPlaced` |
| `RowsAlwaysReadings` | - | `Spec => []RowsAreReadings` |
| `AlwaysStoredInFull` | - | `Spec => []StoredInFull` |
| `AlwaysStoredOnce` | - | `Spec => []StoredOnce` |
| `FileIsReplayed` | every row of the walk has `RowBytes` bytes | `Spec => []Replays` |
| `WindowsAreTold` | - | `Spec => []TellsTheWindow` |
| `MeasurementsTypes` | - | `Spec => []TypeOK` of Measurements |

The four of the level are for every two levels (a vehicle at least as loud as a
person). The five of the sensor are for every buffer size and every set and number of faults,
the last seven for every window, threshold, file, table of regions and points, and any
number of samples, messages and faults.

*The assumptions on constants*, all evaluated by TLC on the runs: region ids are natural
numbers and the points' coordinates integers; the two levels of the simulation are from
1 to 180 decibels, a vehicle's the larger; the radio reports at least -110 dBm (it
says -100 when it hears nothing), so that a reading is a natural number; the walk of
the generator starts within its bounds, a step is at most half of their distance, so
that a step turned round stays within them, and every level within them is written
with the same number of digits. The generator's own numbers (10 to 99 decibels, steps
of at most 10) satisfy the last two; a walk from 5 to 105 would not.

*The argument.* `CountInBounds` is not inductive: `count` is one counter and
`cell` another. The invariant added is that `count` is the number of the rank's
cells before `cell`, which is `cell \div world_size`, plus one if the remainder
has passed the rank; `Arithmetic` has the facts on quotients this needs, since the
SMT solver does not do nonlinear division. `SlotsFresh` follows the same counter:
the entries below `count` are those of the first `count` cells of the rank.

`InStep` compares two ranks by the next turn each comes to. A step of the sender
moves its turn on and puts the message in the empty channel; a receive takes it;
`EndOwn` needs `world_size - 1` receives, and since each channel holds at most
one message for this turn, each came from a different sender - which takes a count
of the senders received from, part of the inductive invariant. That the turns of all ranks are in one-to-one correspondence is
where "the ranks divide the cells" is used: otherwise the last, incomplete row of
turns has receivers that not every rank passes between two of its own.

`RoundSkew` counts. `PastTurns(s, d)` is how many turns of d the loops of s have passed
since the start: what s has posted for d, or for s = d the entries d has completed.
`CountInv` says that the messages d has received (those posted and not in a channel) are
`world_size - 1` for each entry completed, and `recvd` for the one at hand. A rank two
cycles ahead of another would have received more than all of them can have posted: hence
`RoundSkew`, for both kinds of send and whether or not the ranks divide the cells. When all
are done the counts leave nothing in the channels.

`ExactReports` needs that every receive takes a message for the turn at hand. `OrderInv`
says that the messages of one rank to another are for consecutive turns, the first one
for the turn after those received; it always holds. `OnePerTurn` says that d has
received from every other rank as many messages as it has completed entries, or one more.
It follows from `InStep` when the ranks divide the cells, and from `CountInv` when there
is only one other rank; with three ranks and four cells it fails. From these two, the message taken is the
one for this turn, and of this cycle. `DataInv` adds what each entry holds at each
moment: the rank's own level and those of the ranks received from at this turn, so that
at the end it holds all; and that a message holds the level of the cell and cycle it is
tagged with, which is where eager sends are used. The refinement of `NoiseMap`
needs besides that a rank publishes a cycle only when every rank has computed it.

*When three or more ranks do not divide the cells*, an entry may hold messages meant for
another cell or cycle, and nothing can be said of which. `PlaceInv` says instead that
each contribution computed is in exactly one place - the matrix of its rank, a channel,
the entry of a rank that has not been published, or one report - from which
`NoDoubleCount` and `NothingLost` follow. It needs eager sends: a message that is read
later has no contribution of its own, and `buffer_reuse` shows it lost.

`Everyone` is a cardinality over arrays that were cut out of one. The sources whose
place in the whole array is a or more are in bijection with the numbers from a to
P + V (`SeatsOfStretch`), since each part begins where the one before it ends
(`NextPart`, `PartsApart`) and the last ends at the last source (`LastPart`); the
vehicles are those from P + 1 on, and moving changes no kind (`KindsKept`). It assumes that people and
vehicles can be told apart, which the property's count of vehicles needs.
`SimulationImplementsSources` carries it over to the whole simulation.

The levels' theorems compare integers only. One call of `sum_noises` is within half a
decibel of the sum of two powers (`GainFits`): for levels less than ten decibels apart
that is a table of inequalities over the twenty powers below 10 decibels, beyond it the
smaller power is too little for half a decibel. Since the table of powers repeats
tenfold every twenty half decibels, this holds wherever on it the two levels are. `Near`
carries it to levels that are themselves off, and `NearSum` is the step: two sums of m
and n sources, each off by less than its number of sources, add up to one off by less
than m + n. `LevelInv` says so of every rank's sum and of the owner's. `OrderDrift`
takes the ranks' levels, instead of the sources, as the exact powers: the level in order of arrival (`HearInv`)
and the one in rank order are both near the same sum, so they are near each
other (`NearEachOther`). That gives two decibels for three ranks; that it is one there
is `EitherOrder`, over the distances of the three levels, with `OrderInv`.

The sensor's four invariants are proved together, from one invariant `Phases`
that says what can be going on in each phase of a connection. The radio comes
back because a sample starts with `out_buffer_sent`; that flag is false whenever TCP
holds bytes (`SocketPhase`), so TCP has nothing to time out. For this to stay
true, a connection must be opened with nothing posted and nothing running
(`ConnectPhase`), and a session's CONNECT must have been answered once
(`AnswerPhase`), so that a disconnecting library is never told that it is connected.
The queue drains because a publish is posted only with the buffer sent and stays
the only one (`SamplePhase`, `PublishPhase`). `Phases` was checked with TLC first, also
from every small state that satisfies it.

The rows' three theorems share the invariant `IInv` of `MeasurementsProofs`. A message
anywhere is that of its sample (`OnTheWay`); a message in the flow has passed the
checks of the stages behind it (`FlowChecked`), so a row has (`RowsOfSamples`); its place
is where its sample's reading was taken (`WhereTaken`);
place i of the ring is zero or the reading taken `Age(i)` samples ago, which is less
than the window (`WindowRecent`), so a window published whole holds recent readings
and zeroes (`RawIsRecent`); and each value of a valid sample no fault has hit is stored
or still on its way (`NothingForgotten`). The last one is where it matters that an
answer replaces one message of the bag and that a message leaves it only with its
last value. A region whose nearest point is missing has no points because distances
are natural numbers and a set of those has a least one. The steps are grouped into
new samples, steps of a link, and steps of the backend. TLC checked `IInv` first.

`StoredOnce` counts, in the bag `rows`. Alone it is not inductive: the copies still on
their way have to be in the sum. `CopyInv` says of every value of every sample that its
copies in the database, in the flow (a message brings a value until it has been
inserted), at the broker and in the outbox are together at most `1 + again`. Every step
keeps that total or lowers it, except a new sample, which is nowhere before, and a
repeated delivery, which raises `again` too. TLC checked `CopyInv` first, on `measures`.

`Replays` needs that the file position is that of a row: `FileInv` says it is
`c * RowBytes` where c is the number of readings since the file was last begun. The walk
stays within its bounds, so every row has `RowBytes` bytes, row i begins at
`(i - 1) * RowBytes`, and 15 bytes from there are that row or, at the end, nothing.
`TellsTheWindow` rests on `WindowInv`: the ring holds the last readings, each at the
place its number has modulo the window, and zeroes elsewhere (`RingHolds`), so its sum is
that of the recent readings and every level is in it as often as among them; the rounded
average is then off by at most half a hundredth.

*Sums and recursive functions.* The library's sum over a set is a fold, a recursive
function on subsets; `Begin`, the walk, `Power` and `InRankOrder` are recursive functions
on numbers.
None of the provers does induction over data with a predicate as parameter. The lemmas
of `Arithmetic` (a sum exists, is unique, is a natural number, does not depend on
which element is taken out first) and those on the walk are proved by least counterexample
instead: the set of sizes at which the claim fails is a set of natural numbers, has
a least element if it has one (`LeastNat`), and that one contradicts the step below it.

The shipped configuration (100 x 100 cells, 2 processes) meets the assumption on
the cells twice over. It does not meet the one on the sources.

Left to TLC, because the prover has no fairness: the liveness properties
(`Terminates`, `OnlyDeadEnds`, `Settles`). Two theorems are
narrower than the run, because the property is not true of every value of the constants.
`Accurate` is proved for up to four sources at any levels, and checked for up to 15 at
the shipped ones: with enough sources ten decibels below the sum, rounding loses them
all, and the level drifts without limit (within `BoundedDrift`). `ArrivalOrder` is proved
for up to three ranks: with four whose levels are 104, 105, 100 and 108, two
orders differ by two decibels (within `OrderDrift`). `ImplementsNoiseMap`
and `ImplementsShuffle` are both proved and checked. Every invariant of the passing runs is a theorem.

## 5. Not modelled

* Placement and movement use `rand`; every outcome is allowed.
* The gather under `DEBUG` (0 in the code), the clean-up after the endless loop,
  MPI datatypes, printing.
* The memory layout: rows of the matrix are always there. (`init_noise_sqm`
  allocates one byte per row for its extra pointer, enough from 8 rows on.)
* MPI errors and crashed ranks: the default error handler ends the program.
* The configuration parser: a file that cannot be read leaves the configuration
  uninitialised, and nothing can be said of a program that runs on arbitrary sizes.
* Time stamps, and the order of rows.
* The virtual sensor without its file: Cooja fills it before the mote boots, or the
  first read crashes.
* In `publish_data` of the simulation, the return when the payload is longer than its
  buffer: integer coordinates and levels never make it so long.
* The walk of the two coordinates in the data set: places are drawn from a few.
* The vendored Contiki-NG, Cooja and their examples, by far the most of the source
  tree, beyond the MQTT library and the file system used here; the border router and
  the Cooja interfaces, which move packets, signal strengths and positions.
* In the MQTT library: subscriptions (the sensors have none), the keep-alive (180 s after the
  last acknowledged byte, and the sensors publish every 10 s), a full event queue
  (Contiki has room for 32; the model never holds more than 3), and a
  `tcp_socket_connect` that cannot start, whose result `connect_tcp` ignores: of TCP
  only the events are modelled. A mote uses one of uIP's ten connections at a time;
  were none free, the sensor would wait in STATE_CONNECTING, another dead end.

## 6. Further work

The invariants are proved as far as they hold. What could be added is a model of
several sensors on one broker, should the flow ever keep state between messages; today
each message goes through it on its own.
