----------------------------- MODULE MqttEngine -----------------------------
(***************************************************************************)
(* The MQTT client library of Contiki-NG (os/net/app-layer/mqtt/mqtt.c), as *)
(* far as the noise sensors use it: connect, publish with QoS 1,           *)
(* disconnect.  The library is a process that handles the events posted to *)
(* it one by one; a transaction is a protothread the process stays in,     *)
(* posting the other events it gets back to itself, until the broker's     *)
(* answer or a timeout.  TCP calls it back at any time in between.          *)
(*                                                                         *)
(* The callbacks into the application (call_event) are the application     *)
(* module's to conjoin: the actions that make one say so.                  *)
(*                                                                         *)
(* The keep-alive is left out: it fires 180 seconds after the last byte was *)
(* acknowledged and does nothing while a byte is not, and the sensors       *)
(* publish every 10 seconds.                                               *)
(***************************************************************************)
EXTENDS Naturals, Sequences

CONSTANTS
    Room,      \* CONNECT packets that fit into the output buffer
    Faults,    \* what may go wrong: subset of {"close", "slow", "refuse", "die"}
    MaxFaults  \* bound: how often

ASSUME RoomPositive == Room \in Nat \ {0}
ASSUME FaultsAssumption ==
    Faults \subseteq {"close", "slow", "refuse", "die"} /\ MaxFaults \in Nat

VARIABLES
    conn,            \* conn->state
    out_buffer_sent, \* the output buffer has been acknowledged by TCP
    out_queue_full,  \* a publish is queued or under way
    got_ack,         \* out_packet.qos_state = MQTT_QOS_STATE_GOT_ACK
    room,            \* room in the output buffer, in CONNECT packets
    thread,          \* the protothread mqtt_process is in
    inbox,           \* events posted to mqtt_process
    sock,            \* the TCP connection of conn->socket
    packet,          \* what TCP has not got acknowledged yet
    overdue,         \* TCP has been retransmitting it
    owed,            \* answers the broker has still to send
    alive,           \* the broker's end of the TCP connection is there
    faults           \* faults so far

tcpVars == <<sock, packet, overdue, owed, alive>>
engineVars == <<conn, out_buffer_sent, out_queue_full, got_ack, room, thread, inbox, tcpVars, faults>>

Events == {"abort_now", "do_connect_tcp", "do_connect_mqtt", "do_publish", "do_disconnect_mqtt"}

\* In the order of mqtt_conn_state_t, up to NOT_CONNECTED and beyond it.
Unconnected == {"ERROR", "ABORT_IMMEDIATE", "NOT_CONNECTED"}
Busy == {"TCP_CONNECTING", "TCP_CONNECTED", "CONNECTING_TO_BROKER",
         "CONNECTED_TO_BROKER", "SENDING_MQTT_DISCONNECT"}

\* mqtt_register: everything is zero.
EngineInit ==
    /\ conn = "ERROR"
    /\ out_buffer_sent = FALSE /\ out_queue_full = FALSE /\ got_ack = FALSE
    /\ room = Room
    /\ thread = "idle" /\ inbox = <<>>
    /\ sock = "none" /\ packet = "none" /\ overdue = FALSE /\ owed = {} /\ alive = TRUE
    /\ faults = 0

Fault(kind) == kind \in Faults /\ faults < MaxFaults /\ faults' = faults + 1

-----------------------------------------------------------------------------
(* Pieces of handlers.                                                     *)

process_post(event) == inbox' = Append(inbox, event)

\* Mutation: the place in the queue stays taken.
abort_connectionFull ==
    /\ conn' = "NOT_CONNECTED"
    /\ got_ack' = FALSE
    /\ room' = Room
    /\ sock' = "none" /\ packet' = "none" /\ overdue' = FALSE /\ owed' = {} /\ alive' = TRUE
    /\ UNCHANGED out_queue_full

\* The socket is closed and forgotten, the transaction too.  out_buffer_sent stays.
abort_connection ==
    /\ conn' = "NOT_CONNECTED"
    /\ out_queue_full' = FALSE
    /\ got_ack' = FALSE
    /\ room' = Room
    /\ sock' = "none" /\ packet' = "none" /\ overdue' = FALSE /\ owed' = {} /\ alive' = TRUE

\* send_out_buffer: TCP takes the bytes if there is a connection.
send_out_buffer(what) ==
    /\ out_buffer_sent' = FALSE
    /\ packet' = IF sock = "open" THEN what ELSE "none"
    /\ overdue' = FALSE
    /\ UNCHANGED <<sock, owed, alive>>

\* Mutation: writes past the end of the buffer.
connect_ptUnbounded ==
    /\ conn' = "CONNECTING_TO_BROKER"
    /\ room' = room - 1
    /\ thread' = "connect"
    /\ send_out_buffer("CONNECT")

\* connect_pt up to the wait for CONNACK.
connect_pt ==
    /\ room > 0
    /\ conn' = "CONNECTING_TO_BROKER"
    /\ room' = room - 1
    /\ thread' = "connect"
    /\ send_out_buffer("CONNECT")

-----------------------------------------------------------------------------
(* Calls of the application.                                               *)

\* Mutation: a publish under way does not matter.
mqtt_readyAnyway == conn = "CONNECTED_TO_BROKER"

mqtt_ready == ~ out_queue_full /\ conn = "CONNECTED_TO_BROKER"

mqtt_connect ==
    IF conn \in Unconnected
    THEN /\ room' = Room
         /\ got_ack' = FALSE
         /\ process_post("do_connect_tcp")
         /\ UNCHANGED <<conn, out_buffer_sent, out_queue_full, thread, tcpVars, faults>>
    ELSE UNCHANGED engineVars

mqtt_disconnect ==
    IF conn = "CONNECTED_TO_BROKER"
    THEN conn' = "SENDING_MQTT_DISCONNECT" /\ process_post("do_disconnect_mqtt")
    ELSE UNCHANGED <<conn, inbox>>

\* With QoS 1.  The caller does not look at the result.
mqtt_publish ==
    \/ /\ conn = "CONNECTED_TO_BROKER" /\ ~ out_queue_full
       /\ out_queue_full' = TRUE
       /\ got_ack' = FALSE
       /\ process_post("do_publish")
       /\ UNCHANGED <<conn, out_buffer_sent, room, thread, tcpVars, faults>>
    \/ /\ conn # "CONNECTED_TO_BROKER" \/ out_queue_full
       /\ UNCHANGED engineVars

-----------------------------------------------------------------------------
(* mqtt_process.                                                           *)

Handles(event) == thread = "idle" /\ inbox # <<>> /\ Head(inbox) = event /\ inbox' = Tail(inbox)

HandleAbort ==
    /\ Handles("abort_now")
    /\ abort_connection
    /\ UNCHANGED <<out_buffer_sent, thread, faults>>

\* connect_tcp.  It does not look at the result of tcp_socket_connect, which
\* fails only when uIP has no connection left; the sensors have this one only.
HandleConnectTcp ==
    /\ Handles("do_connect_tcp")
    /\ conn' = "TCP_CONNECTING"
    /\ out_buffer_sent' = FALSE
    /\ sock' = "connecting"
    /\ UNCHANGED <<out_queue_full, got_ack, room, thread, packet, overdue, owed, alive, faults>>

HandleConnectMqtt ==
    /\ Handles("do_connect_mqtt")
    /\ IF out_buffer_sent
       THEN connect_pt
       ELSE UNCHANGED <<conn, out_buffer_sent, room, thread, tcpVars>>
    /\ UNCHANGED <<out_queue_full, got_ack, faults>>

\* The first i events of a queue have been posted back to its end.
PostedBack(s, i) == SubSeq(s, i + 1, Len(s)) \o SubSeq(s, 1, i)

\* While the thread waits it posts the events it gets back to itself.  When it
\* gets an abort it starts over as well, on a socket that is gone, until the
\* CONNECTs nobody takes have filled the buffer and it is stopped before it sets
\* the state.
RestartConnect ==
    /\ thread = "connect"
    /\ \E i \in DOMAIN inbox : inbox[i] = "abort_now" /\ inbox' = PostedBack(inbox, i)
    /\ \/ connect_pt
       \/ /\ room = 0
          /\ conn' = "ABORT_IMMEDIATE"
          /\ thread' = "idle"
          /\ out_buffer_sent' = FALSE
          /\ UNCHANGED <<room, tcpVars>>
    /\ UNCHANGED <<out_queue_full, got_ack, faults>>

ConnectDone ==
    /\ thread = "connect" /\ got_ack
    /\ thread' = "idle"
    /\ UNCHANGED <<conn, out_buffer_sent, out_queue_full, got_ack, room, inbox, tcpVars, faults>>

\* Ten seconds without a CONNACK.  If it came in the last moment it is the
\* answered connection that is given up.  Late answers are a fault of the network.
ConnectTimeout ==
    /\ thread = "connect"
    /\ IF got_ack \/ packet # "none" \/ owed # {} THEN Fault("slow") ELSE UNCHANGED faults
    /\ mqtt_disconnect
    /\ thread' = "idle"
    /\ UNCHANGED <<out_buffer_sent, out_queue_full, got_ack, room, tcpVars>>

HandlePublish ==
    /\ Handles("do_publish")
    /\ \/ /\ out_buffer_sent /\ conn = "CONNECTED_TO_BROKER"
          /\ thread' = "publish"
          /\ send_out_buffer("PUBLISH")
       \/ /\ ~ out_buffer_sent \/ conn # "CONNECTED_TO_BROKER"
          /\ UNCHANGED <<thread, out_buffer_sent, tcpVars>>
    /\ UNCHANGED <<conn, out_queue_full, got_ack, room, faults>>

\* PUBACK, or ten seconds without one.
PublishDone ==
    /\ thread = "publish" /\ conn = "CONNECTED_TO_BROKER"
    /\ thread' = "idle"
    /\ out_queue_full' = FALSE
    /\ UNCHANGED <<conn, out_buffer_sent, got_ack, room, inbox, tcpVars, faults>>

PublishStopped ==
    /\ thread = "publish" /\ conn # "CONNECTED_TO_BROKER"
    /\ thread' = "idle"
    /\ UNCHANGED <<conn, out_buffer_sent, out_queue_full, got_ack, room, inbox, tcpVars, faults>>

HandleDisconnect ==
    /\ thread = "idle" /\ inbox # <<>> /\ Head(inbox) = "do_disconnect_mqtt"
    /\ IF conn = "SENDING_MQTT_DISCONNECT" /\ out_buffer_sent
       THEN /\ inbox' = Tail(inbox)
            /\ thread' = "disconnect"
            /\ send_out_buffer("DISCONNECT")
       ELSE /\ inbox' = IF conn = "SENDING_MQTT_DISCONNECT"
                        THEN Append(Tail(inbox), "do_disconnect_mqtt") ELSE Tail(inbox)
            /\ UNCHANGED <<thread, out_buffer_sent, tcpVars>>
    /\ UNCHANGED <<conn, out_queue_full, got_ack, room, faults>>

\* Sent, aborted, or two seconds are over.  Calls back with DISCONNECTED.
DisconnectDone ==
    /\ thread = "disconnect"
    /\ abort_connection
    /\ thread' = "idle"
    /\ UNCHANGED <<out_buffer_sent, inbox, faults>>

EngineStep ==
    \/ HandleAbort \/ HandleConnectTcp \/ HandleConnectMqtt \/ HandlePublish \/ HandleDisconnect
    \/ RestartConnect \/ ConnectDone \/ ConnectTimeout \/ PublishDone \/ PublishStopped

-----------------------------------------------------------------------------
(* TCP and the broker.                                                     *)

TcpConnected ==
    /\ sock = "connecting"
    /\ sock' = "open"
    /\ conn' = "TCP_CONNECTED"
    /\ out_buffer_sent' = TRUE
    /\ process_post("do_connect_mqtt")
    /\ UNCHANGED <<out_queue_full, got_ack, room, thread, packet, overdue, owed, alive, faults>>

\* The bytes are acknowledged, and the broker has the packet.
TcpDataSent ==
    /\ packet # "none" /\ alive
    /\ out_buffer_sent' = TRUE
    /\ room' = Room
    /\ owed' = owed \cup (CASE packet = "CONNECT" -> {"CONNACK"}
                            [] packet = "PUBLISH" -> {"PUBACK"}
                            [] OTHER -> {})
    /\ packet' = "none" /\ overdue' = FALSE
    /\ UNCHANGED <<conn, out_queue_full, got_ack, thread, inbox, sock, alive, faults>>

\* Calls back with CONNECTED.
handle_connack ==
    /\ "CONNACK" \in owed
    /\ owed' = owed \ {"CONNACK"}
    /\ got_ack' = TRUE
    /\ conn' = "CONNECTED_TO_BROKER"
    /\ UNCHANGED <<out_buffer_sent, out_queue_full, room, thread, inbox,
                   sock, packet, overdue, alive, faults>>

\* The broker refuses.  Calls back with CONNECTION_REFUSED_ERROR.
ConnackRefused ==
    /\ "CONNACK" \in owed
    /\ Fault("refuse")
    /\ abort_connection
    /\ UNCHANGED <<out_buffer_sent, thread, inbox>>

handle_puback ==
    /\ "PUBACK" \in owed
    /\ owed' = owed \ {"PUBACK"}
    /\ got_ack' = TRUE
    /\ UNCHANGED <<conn, out_buffer_sent, out_queue_full, room, thread, inbox,
                   sock, packet, overdue, alive, faults>>

\* Mutation: auto_reconnect is on, the connection is opened again at once.
tcp_event_closedReconnecting ==
    /\ process_post("abort_now")
    /\ conn' = "TCP_CONNECTING" /\ sock' = "connecting"
    /\ out_queue_full' = FALSE /\ got_ack' = FALSE /\ out_buffer_sent' = FALSE
    /\ room' = Room
    /\ packet' = "none" /\ overdue' = FALSE /\ owed' = {} /\ alive' = TRUE
    /\ UNCHANGED thread

\* TCP_SOCKET_CLOSED, TIMEDOUT or ABORTED.  Calls back with DISCONNECTED.
\* auto_reconnect is off.
tcp_event_closed ==
    /\ process_post("abort_now")
    /\ abort_connection
    /\ UNCHANGED <<out_buffer_sent, thread>>

\* A segment of the other side closes or refuses the connection.
TcpClosed ==
    /\ sock # "none" /\ alive
    /\ Fault("close")
    /\ tcp_event_closed

Retransmit ==
    /\ packet # "none" /\ ~ overdue
    /\ overdue' = TRUE
    /\ UNCHANGED <<conn, out_buffer_sent, out_queue_full, got_ack, room, thread, inbox,
                   sock, packet, owed, alive, faults>>

\* The retransmissions of unacknowledged bytes are used up.
TcpTimedOut ==
    /\ packet # "none" /\ overdue
    /\ IF alive THEN Fault("close") ELSE UNCHANGED faults
    /\ tcp_event_closed

\* The broker's host goes away without a word.
BrokerDies ==
    /\ sock = "open" /\ alive
    /\ Fault("die")
    /\ alive' = FALSE
    /\ owed' = {}
    /\ UNCHANGED <<conn, out_buffer_sent, out_queue_full, got_ack, room, thread, inbox,
                   sock, packet, overdue>>
=============================================================================
