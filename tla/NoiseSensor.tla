----------------------------- MODULE NoiseSensor -----------------------------
(***************************************************************************)
(* The IoT noise sensor (contiki-ng/code/noise-sensor/noise-sensor.c): a    *)
(* state machine run by a timer, the callback of the MQTT library, and the  *)
(* radio, which is switched away from the network's channel for a tenth of  *)
(* a second to listen to the noise.  The virtual sensor                     *)
(* (noise-simulated-sensor.c) is the same program but for the sample: it    *)
(* reads it from a file and publishes at once.                             *)
(*                                                                         *)
(* Timers are abstracted to their order where it matters: a response timer  *)
(* of two seconds cannot run out within the tenth of a second of a sample,  *)
(* nor the reconnect interval (2 s and more) or the publish interval (10 s) *)
(* before the library has handled the events already posted to it, which    *)
(* takes milliseconds; the thread that got its CONNACK has seen it before a *)
(* sample is over.  Otherwise a timer runs out any time.                    *)
(***************************************************************************)
EXTENDS MqttEngine, Functions

CONSTANT
    Programs \* the programs whose behaviours are wanted

ASSUME ProgramsAssumption == Programs \subseteq {"noise-sensor", "noise-simulated-sensor"}

VARIABLES
    state,   \* the state of the state machine
    channel  \* the radio's channel

vars == <<engineVars, state, channel>>

States == {"INIT", "REGISTERED", "CONNECTING", "CONNECTED", "SAMPLING", "DISCONNECTED"}

Init == EngineInit /\ state = "INIT" /\ channel = "RPL_CHANNEL"

\* Mutation: a lost connection goes unnoticed.
mqtt_eventUnaware(event) == state' = IF event = "CONNECTED" THEN "CONNECTED" ELSE state

\* The callback: other events are only logged.
mqtt_event(event) ==
    state' = CASE event = "CONNECTED" -> "CONNECTED"
               [] event = "DISCONNECTED" -> "DISCONNECTED"
               [] OTHER -> state

Posted(event) == event \in Range(inbox)

-----------------------------------------------------------------------------
(* mqtt_state_machine, one action per state.                               *)

connect_to_broker ==
    /\ mqtt_connect
    /\ state' = "CONNECTING"

\* The library is registered; goes on to REGISTERED in the same step.
StateInit ==
    /\ state = "INIT"
    /\ \/ connect_to_broker
       \/ state' = "REGISTERED" /\ UNCHANGED engineVars
    /\ UNCHANGED channel

\* The sensor has joined the network.  (Until then nothing changes.)
StateRegistered ==
    /\ state = "REGISTERED"
    /\ inbox = <<>> /\ thread = "idle"
    /\ connect_to_broker
    /\ UNCHANGED channel

\* The condition both programs publish under.
Idle == state = "CONNECTED" /\ mqtt_ready /\ out_buffer_sent

\* Mutation: only mqtt_ready is looked at.
StateConnectedHasty ==
    /\ "noise-sensor" \in Programs /\ state = "CONNECTED" /\ mqtt_ready
    /\ channel' = "NOISE_CHANNEL"
    /\ state' = "SAMPLING"
    /\ UNCHANGED engineVars

StateConnected ==
    /\ "noise-sensor" \in Programs /\ Idle
    /\ channel' = "NOISE_CHANNEL"
    /\ state' = "SAMPLING"
    /\ UNCHANGED engineVars

\* The virtual sensor publishes at once.  Its timer may run out between the
\* callback for the CONNACK and the connect thread's look at it: the publish
\* then resets the acknowledgement the thread waits for.
StateConnectedSimulated ==
    /\ "noise-simulated-sensor" \in Programs /\ Idle
    /\ mqtt_publish
    /\ UNCHANGED <<state, channel>>

\* Back to the network, publish.  (What is published: NoiseWindow.)
noise_processing ==
    /\ channel' = "RPL_CHANNEL"
    /\ mqtt_publish

StateSampling ==
    /\ state = "SAMPLING" /\ thread # "connect"
    /\ noise_processing
    /\ state' = "CONNECTED"

StateDisconnected ==
    /\ state = "DISCONNECTED"
    /\ mqtt_disconnect
    /\ state' = "REGISTERED"
    /\ UNCHANGED <<out_buffer_sent, out_queue_full, got_ack, room, thread, tcpVars, faults, channel>>

mqtt_state_machine ==
    \/ StateInit \/ StateRegistered \/ StateDisconnected
    \/ StateConnected \/ StateSampling \/ StateConnectedSimulated

-----------------------------------------------------------------------------
(* The library and the network, with their callbacks.  Segments are sent   *)
(* and received on the network's channel only.                             *)

OnNetwork == channel = "RPL_CHANNEL"

Library == EngineStep /\ UNCHANGED <<state, channel>>

LibraryDisconnects ==
    /\ DisconnectDone /\ (out_buffer_sent \/ state # "SAMPLING")
    /\ mqtt_event("DISCONNECTED") /\ UNCHANGED channel

Connects == OnNetwork /\ TcpConnected /\ UNCHANGED <<state, channel>>
Delivers == OnNetwork /\ TcpDataSent /\ UNCHANGED <<state, channel>>
Accepts == OnNetwork /\ handle_connack /\ mqtt_event("CONNECTED") /\ UNCHANGED channel
Acknowledges == OnNetwork /\ handle_puback /\ mqtt_event("PUBACK") /\ UNCHANGED channel
Refuses == OnNetwork /\ ConnackRefused /\ mqtt_event("CONNECTION_REFUSED_ERROR") /\ UNCHANGED channel
Closes == OnNetwork /\ TcpClosed /\ mqtt_event("DISCONNECTED") /\ UNCHANGED channel
TimesOut == TcpTimedOut /\ mqtt_event("DISCONNECTED") /\ UNCHANGED channel
Waits == OnNetwork /\ Retransmit /\ UNCHANGED <<state, channel>>
Dies == BrokerDies /\ UNCHANGED <<state, channel>>

Next ==
    \/ mqtt_state_machine
    \/ Library \/ LibraryDisconnects
    \/ Connects \/ Delivers \/ Accepts \/ Acknowledges
    \/ Refuses \/ Closes \/ TimesOut \/ Waits \/ Dies

Spec == Init /\ [][Next]_vars

\* Timers fire and posted events are handled; TCP keeps retransmitting, so
\* what can get through again and again gets through, or times out when there
\* is nobody to answer.  The virtual sensor's timer does not run out at the very
\* moment of the CONNACK time and again.
Fairness ==
    /\ WF_vars(mqtt_state_machine)
    /\ WF_vars(Library) /\ WF_vars(LibraryDisconnects)
    /\ SF_vars(Connects) /\ SF_vars(Delivers) /\ SF_vars(Accepts) /\ SF_vars(Acknowledges)
    /\ SF_vars(ConnectDone /\ UNCHANGED <<state, channel>>)
    /\ WF_vars(~ alive /\ (Waits \/ TimesOut))

FairSpec == Spec /\ Fairness

-----------------------------------------------------------------------------
(* The type invariant in two parts, the flags and the others.              *)
FlagsOK ==
    /\ out_buffer_sent \in BOOLEAN /\ out_queue_full \in BOOLEAN /\ got_ack \in BOOLEAN
    /\ overdue \in BOOLEAN /\ alive \in BOOLEAN

ValuesOK ==
    /\ conn \in Unconnected \cup Busy
    /\ room \in 0 .. Room
    /\ thread \in {"idle", "connect", "publish", "disconnect"}
    /\ inbox \in Seq(Events)
    /\ sock \in {"none", "connecting", "open"}
    /\ packet \in {"none", "CONNECT", "PUBLISH", "DISCONNECT"}
    /\ owed \subseteq {"CONNACK", "PUBACK"}
    /\ faults \in 0 .. MaxFaults
    /\ state \in States
    /\ channel \in {"RPL_CHANNEL", "NOISE_CHANNEL"}

\* Every variable has its type; in particular the output buffer is not overrun
\* (write_bytes, mqtt.c 311-332).
TypeOK == FlagsOK /\ ValuesOK

\* The radio is away from the network exactly while a sample is taken: no
\* callback takes the state machine out of SAMPLING, whose step is the only
\* one that switches the radio back (noise-sensor.c 137-144, 313, 373-379).
RadioComesBack == channel = "NOISE_CHANNEL" <=> state = "SAMPLING"

\* The one place of the output queue is never taken for nothing: a publish is
\* posted or under way, or the connection is being given up (mqtt.c 711, 1249-1256,
\* 1433-1437).
QueueDrains ==
    out_queue_full =>
        \/ thread = "publish"
        \/ Posted("do_publish")
        \/ conn = "SENDING_MQTT_DISCONNECT"

\* The library reads pub_buffer, and the topic, where the program wrote them, from
\* mqtt_publish to the last byte of the packet: they are not in use whenever the
\* program may write the next message there, although it does so before
\* mqtt_publish can refuse it (noise-sensor.c 251-261, 372-379; mqtt.c 1426-1450).
BufferIsFree ==
    state = "SAMPLING" \/ Idle => ~ Posted("do_publish") /\ thread # "publish"

\* The abort posted when a connection breaks is handled before another one is
\* opened: it never tears down a new one (mqtt.c 1115-1125, 1162-1168;
\* noise-sensor.c 343-344).
AbortIsForTheOld ==
    Posted("abort_now") => sock = "none"

\* The broker has refused: the library has given up, the sensor waits (747-760 of
\* mqtt.c, 145-152 of noise-sensor.c).
Refused ==
    /\ state = "CONNECTING" /\ conn = "NOT_CONNECTED"
    /\ thread = "idle" /\ inbox = <<>>

\* The broker has vanished before its CONNACK: the library has waited in vain and
\* its mqtt_disconnect did nothing in this state (463-467, 1359 of mqtt.c).
HalfOpen ==
    /\ state = "CONNECTING" /\ conn = "CONNECTING_TO_BROKER"
    /\ thread = "idle" /\ packet = "none" /\ ~ alive

\* Whatever fails, as long as it fails finitely often, the sensor gets back to
\* publishing, unless it ends in one of these two states, and then it stays there
\* (reconnection, 401-424 of noise-sensor.c).
OnlyDeadEnds == []<>(thread = "publish") \/ <>[](Refused \/ HalfOpen)

\* The sensor publishes again and again: it retries for ever (noise-sensor.c 51-55).
KeepsPublishing == []<>(thread = "publish")
=============================================================================
