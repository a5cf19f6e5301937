-------------------------- MODULE NoiseSensorProofs --------------------------
(* For every buffer size and every set and number of faults: the radio       *)
(* comes back to the network after each sample, an abort hits no new         *)
(* connection, and the queue is never taken for nothing.                     *)
EXTENDS NoiseSensor, TLAPS

Once(event, s) == \A i, j \in DOMAIN s : s[i] = event /\ s[j] = event => i = j

Session == {"CONNECTED_TO_BROKER", "SENDING_MQTT_DISCONNECT"}

\* What TCP holds: nothing without a connection; while it has bytes, the
\* buffer does not count as sent.
SocketPhase ==
    /\ sock # "open" => packet = "none" /\ owed = {} /\ conn \notin Session
    /\ packet # "none" => ~ out_buffer_sent
    /\ overdue => packet # "none"
    /\ conn \in Unconnected => sock = "none"

\* A connection is opened with nothing else going on.
ConnectPhase ==
    /\ state = "INIT" => inbox = <<>> /\ thread = "idle" /\ sock = "none"
    /\ Posted("do_connect_tcp") =>
           inbox = <<"do_connect_tcp">> /\ thread = "idle" /\ conn \in Unconnected
    /\ sock = "connecting" => inbox = <<>> /\ thread = "idle" /\ conn = "TCP_CONNECTING"
    /\ sock = "open" /\ Posted("do_connect_mqtt") =>
           /\ inbox = <<"do_connect_mqtt">> /\ thread = "idle"
           /\ conn = "TCP_CONNECTED" /\ packet = "none" /\ owed = {}

\* The CONNECT of a session has been answered once and for all.
AnswerPhase ==
    /\ "CONNACK" \in owed => packet # "CONNECT"
    /\ conn \in Session \/ thread = "disconnect" => "CONNACK" \notin owed /\ packet # "CONNECT"
    /\ thread = "disconnect" => conn # "CONNECTED_TO_BROKER"

\* A sample is taken with nothing outstanding, and nothing is handed to TCP
\* for a session meanwhile.
SamplePhase ==
    /\ state = "SAMPLING" => ~ overdue /\ ~ Posted("do_publish") /\ thread # "publish"
    /\ state = "SAMPLING" /\ thread = "disconnect" => ~ out_buffer_sent
    /\ state = "SAMPLING" \/ Posted("do_publish") =>
           (conn = "CONNECTED_TO_BROKER" => out_buffer_sent)

PublishPhase ==
    /\ out_queue_full => conn \in Session
    /\ sock = "open" /\ Posted("do_publish") => out_queue_full /\ thread # "publish"
    /\ sock = "open" /\ thread = "publish" => out_queue_full
    /\ Once("do_publish", inbox)

Phases ==
    /\ RadioComesBack /\ AbortIsForTheOld /\ QueueDrains
    /\ SocketPhase /\ ConnectPhase /\ AnswerPhase /\ SamplePhase /\ PublishPhase

-----------------------------------------------------------------------------
(* Queues of events.                                                       *)

\* Posting adds the event at the end and keeps the others.
LEMMA PostingAdds ==
    ASSUME NEW s \in Seq(Events), NEW e \in Events
    PROVE  /\ Append(s, e) \in Seq(Events)
           /\ Range(Append(s, e)) = Range(s) \cup {e}
           /\ \A x : x # e /\ Once(x, s) => Once(x, Append(s, e))
           /\ e \notin Range(s) => Once(e, Append(s, e))
BY DEF Range, Once

\* Taking the first event leaves the others; one that occurs once is gone.
LEMMA TakingLeaves ==
    ASSUME NEW s \in Seq(Events), s # <<>>
    PROVE  /\ Tail(s) \in Seq(Events)
           /\ Head(s) \in Range(s)
           /\ Range(Tail(s)) \subseteq Range(s)
           /\ Range(s) \subseteq Range(Tail(s)) \cup {Head(s)}
           /\ \A x : Once(x, s) => Once(x, Tail(s))
           /\ Once(Head(s), s) => Head(s) \notin Range(Tail(s))
<1> DEFINE n == Len(s)
           t == Tail(s)
<1>1. /\ n \in Nat \ {0} /\ DOMAIN s = 1 .. n
      /\ t \in Seq(Events) /\ DOMAIN t = 1 .. (n - 1)
      /\ Head(s) = s[1]
  OBVIOUS
<1>2. \A i \in 1 .. (n - 1) : t[i] = s[i + 1] /\ i + 1 \in 1 .. n
  OBVIOUS
<1>3. \A i \in 1 .. n : i # 1 => i - 1 \in 1 .. (n - 1) /\ t[i - 1] = s[i]
  BY <1>1, <1>2
<1> HIDE DEF n, t
<1>4. Range(t) \subseteq Range(s)
  BY <1>1, <1>2 DEF Range
<1>5. Range(s) \subseteq Range(t) \cup {Head(s)}
  BY <1>1, <1>3 DEF Range
<1>6. ASSUME NEW x, Once(x, s)
      PROVE  Once(x, t)
  <2> SUFFICES ASSUME NEW i \in 1 .. (n - 1), NEW j \in 1 .. (n - 1), t[i] = x, t[j] = x
               PROVE  i = j
    BY <1>1 DEF Once
  <2>1. i + 1 = j + 1
    BY <1>1, <1>2, <1>6 DEF Once
  <2> QED BY <1>1, <2>1
<1>7. ASSUME Once(Head(s), s), NEW i \in 1 .. (n - 1), t[i] = Head(s)
      PROVE  FALSE
  <2>1. i + 1 = 1
    BY <1>1, <1>2, <1>7 DEF Once
  <2> QED BY <1>1, <2>1
<1>8. Head(s) \in Range(s)
  BY <1>1 DEF Range
<1> QED
  BY <1>1, <1>4, <1>5, <1>6, <1>7, <1>8 DEF Range, t

\* Posting events back changes their order only.
LEMMA PostedBackKeeps ==
    ASSUME NEW s \in Seq(Events), NEW i \in DOMAIN s
    PROVE  /\ PostedBack(s, i) \in Seq(Events)
           /\ Range(PostedBack(s, i)) = Range(s)
           /\ \A x : Once(x, s) => Once(x, PostedBack(s, i))
<1> DEFINE n == Len(s)
           a == SubSeq(s, i + 1, n)
           b == SubSeq(s, 1, i)
           t == PostedBack(s, i)
<1>1. n \in Nat /\ DOMAIN s = 1 .. n /\ i \in 1 .. n
  OBVIOUS
<1>2. /\ a \in Seq(Events) /\ Len(a) = n - i
      /\ \A j \in 1 .. (n - i) : a[j] = s[i + j]
  BY <1>1
<1>3. b \in Seq(Events) /\ Len(b) = i /\ \A j \in 1 .. i : b[j] = s[j]
  BY <1>1
<1>4. t = a \o b
  BY DEF PostedBack
<1> HIDE DEF a, b, t, n
<1>5. t \in Seq(Events) /\ Len(t) = n /\ DOMAIN t = 1 .. n
  <2>1. a \in Seq(Events) /\ b \in Seq(Events)
    BY <1>2, <1>3
  <2>2. a \o b \in Seq(Events) /\ Len(a \o b) = Len(a) + Len(b)
    BY <2>1
  <2>3. DOMAIN t = 1 .. Len(t)
    BY <1>4, <2>2
  <2>4. Len(a) + Len(b) = n
    BY <1>1, <1>2, <1>3
  <2> QED BY <1>4, <2>2, <2>3, <2>4
<1>6. \A j \in 1 .. n : t[j] = IF j <= n - i THEN a[j] ELSE b[j - (n - i)]
  BY <1>1, <1>2, <1>3, <1>4
<1>7. \A j \in 1 .. (n - i) : t[j] = s[i + j]
  BY <1>1, <1>2, <1>6
<1>8. \A j \in (n - i + 1) .. n : t[j] = s[j - (n - i)]
  BY <1>1, <1>3, <1>6
<1>9. \A j \in 1 .. n : \E k \in 1 .. n : t[j] = s[k]
  BY <1>1, <1>7, <1>8
<1>10. ASSUME NEW k \in 1 .. n PROVE \E j \in 1 .. n : t[j] = s[k]
  <2>1. CASE k <= i
    <3>1. k + (n - i) \in (n - i + 1) .. n /\ (k + (n - i)) - (n - i) = k
      BY <1>1, <2>1
    <3> QED BY <1>1, <1>8, <3>1
  <2>2. CASE k > i
    <3>1. k - i \in 1 .. (n - i) /\ i + (k - i) = k
      BY <1>1, <2>2
    <3> QED BY <1>1, <1>7, <3>1
  <2> QED BY <1>1, <2>1, <2>2
<1>11. Range(t) = Range(s)
  <2>1. Range(t) = {t[j] : j \in 1 .. n} /\ Range(s) = {s[k] : k \in 1 .. n}
    BY <1>1, <1>5 DEF Range
  <2> QED BY <1>9, <1>10, <2>1
<1>12. ASSUME NEW x, Once(x, s), NEW j \in 1 .. n, NEW k \in 1 .. n, t[j] = x, t[k] = x
       PROVE  j = k
  <2> DEFINE from(l) == IF l <= n - i THEN i + l ELSE l - (n - i)
  <2>1. \A l \in 1 .. n : from(l) \in 1 .. n /\ t[l] = s[from(l)]
    <3> SUFFICES ASSUME NEW l \in 1 .. n PROVE from(l) \in 1 .. n /\ t[l] = s[from(l)]
      OBVIOUS
    <3>1. CASE l <= n - i
      BY <1>1, <1>7, <3>1
    <3>2. CASE l > n - i
      BY <1>1, <1>8, <3>2
    <3> QED BY <1>1, <3>1, <3>2
  <2>2. from(j) = from(k)
    BY <1>1, <1>12, <2>1 DEF Once
  <2> QED BY <1>1, <2>2
<1>13. \A x : Once(x, s) => Once(x, t)
  BY <1>5, <1>12 DEF Once
<1> QED
  BY <1>5, <1>11, <1>13 DEF t

\* The empty queue and the queue with one event.
LEMMA ShortQueues ==
    /\ <<>> \in Seq(Events) /\ Range(<<>>) = {} /\ \A x : Once(x, <<>>)
    /\ \A e \in Events :
           /\ <<e>> \in Seq(Events) /\ Range(<<e>>) = {e} /\ \A x : Once(x, <<e>>)
           /\ Head(<<e>>) = e /\ Tail(<<e>>) = <<>> /\ Append(<<>>, e) = <<e>>
BY DEF Range, Once

\* What a posted event does to the inbox.
LEMMA Posts ==
    ASSUME inbox \in Seq(Events), NEW e \in Events, process_post(e)
    PROVE  /\ inbox' \in Seq(Events)
           /\ Range(inbox') = Range(inbox) \cup {e}
           /\ inbox = <<>> => inbox' = <<e>>
           /\ Once("do_publish", inbox) /\ (e = "do_publish" => e \notin Range(inbox))
                  => Once("do_publish", inbox')
BY PostingAdds, ShortQueues DEF process_post

\* What taking an event does to the inbox.
LEMMA Takes ==
    ASSUME inbox \in Seq(Events), NEW e \in Events,
           inbox # <<>>, Head(inbox) = e, inbox' = Tail(inbox)
    PROVE  /\ inbox' \in Seq(Events)
           /\ e \in Range(inbox)
           /\ Range(inbox') \subseteq Range(inbox)
           /\ Range(inbox) \subseteq Range(inbox') \cup {e}
           /\ inbox = <<e>> => inbox' = <<>> /\ Range(inbox') = {}
           /\ Once("do_publish", inbox) => Once("do_publish", inbox')
           /\ e = "do_publish" /\ Once("do_publish", inbox) => e \notin Range(inbox')
BY TakingLeaves, ShortQueues

\* A queue that holds another event is none of the short ones.
LEMMA NotShort ==
    ASSUME NEW s, NEW e \in Range(s)
    PROVE  s # <<>> /\ \A x \in Events : x # e => s # <<x>>
BY ShortQueues

-----------------------------------------------------------------------------
(* Type correctness.                                                       *)

\* The names of the events.
LEMMA EventNames ==
    /\ "abort_now" \in Events /\ "do_connect_tcp" \in Events /\ "do_connect_mqtt" \in Events
    /\ "do_publish" \in Events /\ "do_disconnect_mqtt" \in Events
BY DEF Events

\* Every variable starts with a value of its type.
LEMMA InitTypeOK == Init => TypeOK
<1> SUFFICES ASSUME Init PROVE TypeOK
  OBVIOUS
<1>1. FlagsOK
  BY Zenon DEF Init, EngineInit, FlagsOK
<1>2. ValuesOK
  BY ShortQueues, RoomPositive, FaultsAssumption
     DEF Init, EngineInit, ValuesOK, Unconnected, Busy, States
<1> QED BY <1>1, <1>2 DEF TypeOK

\* Every step sets a flag to TRUE or FALSE or leaves it.
LEMMA FlagsStep == ASSUME FlagsOK, Next PROVE FlagsOK'
<1> USE DEF FlagsOK, tcpVars, engineVars
<1>a. ASSUME abort_connection
      PROVE  /\ out_queue_full' \in BOOLEAN /\ got_ack' \in BOOLEAN
             /\ overdue' \in BOOLEAN /\ alive' \in BOOLEAN
  BY <1>a, Zenon DEF abort_connection
<1>s. ASSUME NEW what, send_out_buffer(what)
      PROVE  out_buffer_sent' \in BOOLEAN /\ overdue' \in BOOLEAN /\ alive' \in BOOLEAN
  BY <1>s, Zenon DEF send_out_buffer
<1>k. ASSUME connect_pt
      PROVE  out_buffer_sent' \in BOOLEAN /\ overdue' \in BOOLEAN /\ alive' \in BOOLEAN
  BY <1>k, <1>s, Zenon DEF connect_pt
<1>c. ASSUME connect_to_broker PROVE FlagsOK'
  BY <1>c, Zenon DEF connect_to_broker, mqtt_connect
<1>1. CASE StateInit
  BY <1>1, <1>c, Zenon DEF StateInit
<1>2. CASE StateRegistered
  BY <1>2, <1>c, Zenon DEF StateRegistered
<1>3. CASE StateConnected
  BY <1>3, Zenon DEF StateConnected
<1>4. CASE StateSampling
  BY <1>4, Zenon DEF StateSampling, noise_processing, mqtt_publish
<1>v. CASE StateConnectedSimulated
  BY <1>v, Zenon DEF StateConnectedSimulated, mqtt_publish
<1>5. CASE StateDisconnected
  BY <1>5, Zenon DEF StateDisconnected
<1>6. CASE HandleAbort
  BY <1>6, <1>a, Zenon DEF HandleAbort
<1>7. CASE HandleConnectTcp
  BY <1>7, Zenon DEF HandleConnectTcp
<1>8. CASE HandleConnectMqtt
  BY <1>8, <1>k, Zenon DEF HandleConnectMqtt
<1>9. CASE HandlePublish
  BY <1>9, <1>s, Zenon DEF HandlePublish
<1>10. CASE HandleDisconnect
  BY <1>10, <1>s, Zenon DEF HandleDisconnect
<1>11. CASE RestartConnect
  BY <1>11, <1>k, Zenon DEF RestartConnect
<1>12. CASE ConnectDone
  BY <1>12, Zenon DEF ConnectDone
<1>13. CASE ConnectTimeout
  BY <1>13, Zenon DEF ConnectTimeout
<1>14. CASE PublishDone
  BY <1>14, Zenon DEF PublishDone
<1>15. CASE PublishStopped
  BY <1>15, Zenon DEF PublishStopped
<1>16. CASE DisconnectDone
  BY <1>16, <1>a, Zenon DEF DisconnectDone
<1>17. CASE TcpConnected
  BY <1>17, Zenon DEF TcpConnected
<1>18. CASE TcpDataSent
  BY <1>18, Zenon DEF TcpDataSent
<1>19. CASE handle_connack
  BY <1>19, Zenon DEF handle_connack
<1>20. CASE ConnackRefused
  BY <1>20, <1>a, Zenon DEF ConnackRefused
<1>21. CASE handle_puback
  BY <1>21, Zenon DEF handle_puback
<1>22. CASE TcpClosed
  BY <1>22, <1>a, Zenon DEF TcpClosed, tcp_event_closed
<1>23. CASE Retransmit
  BY <1>23, Zenon DEF Retransmit
<1>24. CASE TcpTimedOut
  BY <1>24, <1>a, Zenon DEF TcpTimedOut, tcp_event_closed
<1>25. CASE BrokerDies
  BY <1>25, Zenon DEF BrokerDies
<1> QED
  BY <1>1, <1>2, <1>3, <1>4, <1>5, <1>6, <1>7, <1>8, <1>9, <1>10,
     <1>11, <1>12, <1>13, <1>14, <1>15, <1>16, <1>17, <1>18, <1>19, <1>20,
     <1>21, <1>22, <1>23, <1>24, <1>25, <1>v
     DEF Next, mqtt_state_machine, Library, EngineStep, LibraryDisconnects, Connects, Delivers,
         Accepts, Acknowledges, Refuses, Closes, TimesOut, Waits, Dies

\* Every other variable keeps its type: the room in the buffer is not overdrawn.
LEMMA ValuesStep == ASSUME ValuesOK, Next PROVE ValuesOK'
<1> USE EventNames, RoomPositive, FaultsAssumption
    DEF ValuesOK, Unconnected, Busy, States, tcpVars, engineVars
<1>p. ASSUME NEW e \in Events, process_post(e) PROVE inbox' \in Seq(Events)
  BY <1>p, Posts
<1>h. ASSUME NEW e \in Events, Handles(e) PROVE inbox' \in Seq(Events)
  BY <1>h, Takes DEF Handles
<1>f. ASSUME NEW kind, Fault(kind) PROVE faults' \in 0 .. MaxFaults
  BY <1>f DEF Fault
<1>s. ASSUME NEW what \in {"CONNECT", "PUBLISH", "DISCONNECT"}, send_out_buffer(what)
      PROVE  /\ sock' \in {"none", "connecting", "open"}
             /\ packet' \in {"none", "CONNECT", "PUBLISH", "DISCONNECT"}
             /\ owed' \subseteq {"CONNACK", "PUBACK"}
  BY <1>s DEF send_out_buffer
<1>k. ASSUME connect_pt
      PROVE  /\ conn' \in Unconnected \cup Busy /\ room' \in 0 .. Room
             /\ thread' \in {"idle", "connect", "publish", "disconnect"}
             /\ send_out_buffer("CONNECT")
  BY <1>k DEF connect_pt
<1>b. ASSUME connect_to_broker, channel' = channel PROVE ValuesOK'
  <2>1. CASE conn \in Unconnected
    <3>1. inbox' \in Seq(Events)
      BY <1>b, <1>p, <2>1 DEF connect_to_broker, mqtt_connect
    <3>2. conn' = conn /\ room' = Room /\ thread' = thread /\ UNCHANGED tcpVars
          /\ faults' = faults /\ state' = "CONNECTING"
      BY <1>b, <2>1 DEF connect_to_broker, mqtt_connect
    <3> QED BY <1>b, <3>1, <3>2
  <2>2. CASE conn \notin Unconnected
    BY <1>b, <2>2 DEF connect_to_broker, mqtt_connect
  <2> QED BY <2>1, <2>2
<1>1. CASE mqtt_state_machine
  <2>1. CASE StateInit \/ StateRegistered \/ StateConnected
    <3>1. CASE StateInit
      BY <3>1, <1>b DEF StateInit
    <3>2. CASE StateRegistered
      BY <3>2, <1>b DEF StateRegistered
    <3>3. CASE StateConnected
      BY <3>3, <1>b DEF StateConnected
    <3> QED BY <2>1, <3>1, <3>2, <3>3
  <2>2. CASE StateSampling
    BY <2>2, <1>p DEF StateSampling, noise_processing, mqtt_publish
  <2>3. CASE StateDisconnected
    BY <2>3, <1>p DEF StateDisconnected, mqtt_disconnect
  <2>4. CASE StateConnectedSimulated
    <3>1. inbox' \in Seq(Events)
      BY <2>4, <1>p DEF StateConnectedSimulated, mqtt_publish
    <3>2. UNCHANGED <<conn, room, thread, sock, packet, owed, faults, state, channel>>
      BY <2>4 DEF StateConnectedSimulated, mqtt_publish
    <3> QED BY <3>1, <3>2
  <2> QED BY <1>1, <2>1, <2>2, <2>3, <2>4 DEF mqtt_state_machine
<1>2. CASE Library
  <2>a. CASE HandleAbort
    <3>1. inbox' \in Seq(Events)
      BY <2>a, <1>h DEF HandleAbort
    <3> QED BY <1>2, <2>a, <3>1 DEF Library, HandleAbort, abort_connection
  <2>1. CASE HandleConnectTcp
    BY <1>2, <2>1, <1>h DEF Library, HandleConnectTcp
  <2>2. CASE HandleConnectMqtt
    <3>1. inbox' \in Seq(Events)
      BY <2>2, <1>h DEF HandleConnectMqtt
    <3>2. CASE out_buffer_sent
      BY <1>2, <2>2, <3>1, <3>2, <1>k, <1>s DEF Library, HandleConnectMqtt
    <3>3. CASE ~ out_buffer_sent
      <4>1. UNCHANGED <<conn, room, thread, sock, packet, owed, faults, state, channel>>
        BY <1>2, <2>2, <3>3 DEF Library, HandleConnectMqtt
      <4> QED BY <3>1, <4>1
    <3> QED BY <3>2, <3>3
  <2>p. CASE HandlePublish
    <3>1. /\ inbox' \in Seq(Events) /\ UNCHANGED <<conn, room, faults, state, channel>>
      BY <1>2, <2>p, <1>h DEF Library, HandlePublish
    <3>2. \/ thread' = "publish" /\ send_out_buffer("PUBLISH")
          \/ UNCHANGED <<thread, sock, packet, owed>>
      BY <2>p DEF HandlePublish
    <3>3. /\ thread' \in {"idle", "connect", "publish", "disconnect"}
          /\ sock' \in {"none", "connecting", "open"}
          /\ packet' \in {"none", "CONNECT", "PUBLISH", "DISCONNECT"}
          /\ owed' \subseteq {"CONNACK", "PUBACK"}
      BY <3>2, <1>s
    <3> QED BY <3>1, <3>3
  <2>3. CASE HandleDisconnect
    <3>1. Tail(inbox) \in Seq(Events)
      BY <2>3, TakingLeaves DEF HandleDisconnect
    <3>2. inbox' = Tail(inbox) \/ inbox' = Append(Tail(inbox), "do_disconnect_mqtt")
      BY <2>3 DEF HandleDisconnect
    <3>3. inbox' \in Seq(Events)
      BY <3>1, <3>2, PostingAdds
    <3> QED BY <1>2, <2>3, <3>3, <1>s DEF Library, HandleDisconnect
  <2>4. CASE RestartConnect
    <3>1. inbox' \in Seq(Events)
      BY <2>4, PostedBackKeeps DEF RestartConnect
    <3> QED BY <1>2, <2>4, <3>1, <1>k, <1>s DEF Library, RestartConnect
  <2>5. CASE ConnectDone \/ PublishDone \/ PublishStopped
    <3>1. /\ UNCHANGED <<conn, room, inbox, sock, packet, owed, faults, state, channel>>
          /\ thread' = "idle"
      BY <1>2, <2>5 DEF Library, ConnectDone, PublishDone, PublishStopped
    <3> QED BY <3>1
  <2>6. CASE ConnectTimeout
    BY <1>2, <2>6, <1>p, <1>f DEF Library, ConnectTimeout, mqtt_disconnect
  <2> QED BY <1>2, <2>a, <2>1, <2>2, <2>p, <2>3, <2>4, <2>5, <2>6 DEF Library, EngineStep
<1>3. CASE LibraryDisconnects \/ Refuses
  BY <1>3, <1>f
     DEF LibraryDisconnects, DisconnectDone, Refuses, ConnackRefused, abort_connection, mqtt_event
<1>4. CASE Connects \/ Delivers \/ Waits
  BY <1>4, <1>p DEF Connects, TcpConnected, Delivers, TcpDataSent, Waits, Retransmit
<1>5. CASE Accepts \/ Acknowledges \/ Dies
  BY <1>5, <1>f DEF Accepts, handle_connack, Acknowledges, handle_puback, Dies, BrokerDies, mqtt_event
<1>6. CASE Closes \/ TimesOut
  BY <1>6, <1>p, <1>f
     DEF Closes, TcpClosed, TimesOut, TcpTimedOut, tcp_event_closed, abort_connection, mqtt_event
<1> QED BY <1>1, <1>2, <1>3, <1>4, <1>5, <1>6 DEF Next

-----------------------------------------------------------------------------
(* The phases of a connection: they hold initially, and each action keeps  *)
(* them.                                                                   *)

\* The sensor starts on the network's channel, with nothing posted.
LEMMA InitPhases == Init => Phases
<1> SUFFICES ASSUME Init PROVE Phases
  OBVIOUS
<1>1. inbox = <<>> /\ Range(inbox) = {} /\ Once("do_publish", inbox)
  BY ShortQueues DEF Init, EngineInit
<1> QED
  BY <1>1
     DEF Init, EngineInit, Phases, RadioComesBack, AbortIsForTheOld, QueueDrains, SocketPhase,
         ConnectPhase, AnswerPhase, SamplePhase, PublishPhase, Posted, Unconnected, Session

\* The state machine keeps the phases.
LEMMA ApplicationKeepsPhases ==
    ASSUME inbox \in Seq(Events), Phases, mqtt_state_machine
    PROVE  Phases'
<1> USE DEF Phases, RadioComesBack, AbortIsForTheOld, QueueDrains, SocketPhase, ConnectPhase,
            AnswerPhase, SamplePhase, PublishPhase, Posted, Unconnected, Session, tcpVars, engineVars
<1>b. ASSUME inbox = <<>>, thread = "idle", connect_to_broker, UNCHANGED channel, state # "SAMPLING"
      PROVE  Phases'
  <2>1. CASE conn \in Unconnected
    <3>1. process_post("do_connect_tcp")
      BY <1>b, <2>1 DEF connect_to_broker, mqtt_connect
    <3>2. inbox' = <<"do_connect_tcp">> /\ Range(inbox') = {"do_connect_tcp"} /\ Once("do_publish", inbox')
      BY <1>b, <3>1, EventNames, ShortQueues DEF process_post
    <3> QED BY <1>b, <2>1, <3>2 DEF connect_to_broker, mqtt_connect
  <2>2. CASE conn \notin Unconnected
    BY <1>b, <2>2 DEF connect_to_broker, mqtt_connect
  <2> QED BY <2>1, <2>2
<1>1. CASE StateInit
  BY <1>1, <1>b DEF StateInit
<1>2. CASE StateRegistered
  BY <1>2, <1>b DEF StateRegistered
<1>3. CASE StateConnected
  BY <1>3 DEF StateConnected, Idle, mqtt_ready
<1>v. CASE StateConnectedSimulated
  <2>1. /\ process_post("do_publish") /\ out_queue_full' = TRUE
        /\ UNCHANGED <<conn, out_buffer_sent, thread, tcpVars, state, channel>>
    BY <1>v DEF StateConnectedSimulated, Idle, mqtt_ready, mqtt_publish
  <2>2. /\ sock = "open" /\ thread # "publish" /\ out_buffer_sent /\ conn = "CONNECTED_TO_BROKER"
        /\ ~ Posted("do_publish") /\ ~ Posted("abort_now")
        /\ ~ Posted("do_connect_tcp") /\ ~ Posted("do_connect_mqtt")
        /\ state = "CONNECTED"
    BY <1>v DEF StateConnectedSimulated, Idle, mqtt_ready
  <2>3. Range(inbox') = Range(inbox) \cup {"do_publish"} /\ Once("do_publish", inbox')
    BY <2>1, <2>2, EventNames, Posts
  <2>4. RadioComesBack' /\ AbortIsForTheOld' /\ QueueDrains' /\ PublishPhase'
    BY <2>1, <2>2, <2>3
  <2>5. SocketPhase' /\ AnswerPhase'
    BY <2>1
  <2>6. ConnectPhase'
    BY <2>1, <2>2, <2>3
  <2>7. SamplePhase'
    BY <2>1, <2>2
  <2> QED BY <2>4, <2>5, <2>6, <2>7
<1>4. CASE StateSampling
  <2>1. CASE conn = "CONNECTED_TO_BROKER" /\ ~ out_queue_full
    <3>1. process_post("do_publish")
      BY <1>4, <2>1 DEF StateSampling, noise_processing, mqtt_publish
    <3>2. /\ Range(inbox') = Range(inbox) \cup {"do_publish"}
          /\ Once("do_publish", inbox')
      BY <1>4, <3>1, EventNames, Posts DEF StateSampling, noise_processing
    <3>3. /\ sock = "open" /\ thread # "publish" /\ out_buffer_sent
          /\ ~ Posted("abort_now") /\ ~ Posted("do_connect_tcp") /\ ~ Posted("do_connect_mqtt")
      BY <1>4, <2>1 DEF StateSampling, noise_processing
    <3>4. RadioComesBack' /\ AbortIsForTheOld' /\ QueueDrains' /\ PublishPhase'
      BY <1>4, <2>1, <3>2, <3>3 DEF StateSampling, noise_processing, mqtt_publish
    <3>u. UNCHANGED <<conn, out_buffer_sent, thread, tcpVars>>
      BY <1>4, <2>1 DEF StateSampling, noise_processing, mqtt_publish
    <3>5. SocketPhase' /\ AnswerPhase'
      BY <3>u
    <3>6. ConnectPhase'
      BY <1>4, <2>1, <3>2, <3>3 DEF StateSampling, noise_processing, mqtt_publish
    <3>7. SamplePhase'
      BY <1>4, <2>1, <3>3 DEF StateSampling, noise_processing, mqtt_publish
    <3> QED BY <3>4, <3>5, <3>6, <3>7
  <2>2. CASE conn # "CONNECTED_TO_BROKER" \/ out_queue_full
    BY <1>4, <2>2 DEF StateSampling, noise_processing, mqtt_publish
  <2> QED BY <2>1, <2>2
<1>5. CASE StateDisconnected
  <2>1. CASE conn = "CONNECTED_TO_BROKER"
    <3>1. process_post("do_disconnect_mqtt")
      BY <1>5, <2>1 DEF StateDisconnected, mqtt_disconnect
    <3>2. /\ Range(inbox') = Range(inbox) \cup {"do_disconnect_mqtt"}
          /\ Once("do_publish", inbox')
      BY <3>1, EventNames, Posts
    <3> QED BY <1>5, <2>1, <3>2 DEF StateDisconnected, mqtt_disconnect
  <2>2. CASE conn # "CONNECTED_TO_BROKER"
    BY <1>5, <2>2 DEF StateDisconnected, mqtt_disconnect
  <2> QED BY <2>1, <2>2
<1> QED BY <1>1, <1>2, <1>3, <1>4, <1>5, <1>v DEF mqtt_state_machine

\* The library's steps keep the phases.
LEMMA LibraryKeepsPhases ==
    ASSUME ValuesOK, Phases, Library
    PROVE  Phases'
<1> USE DEF Phases, RadioComesBack, AbortIsForTheOld, QueueDrains, SocketPhase, ConnectPhase,
            AnswerPhase, SamplePhase, PublishPhase, Posted, Unconnected, Session, tcpVars, engineVars
<1>0. inbox \in Seq(Events) /\ UNCHANGED <<state, channel>>
  BY DEF ValuesOK, Library
<1>1. CASE HandleAbort
  <2>1. /\ thread = "idle" /\ "abort_now" \in Range(inbox)
        /\ Range(inbox') \subseteq Range(inbox)
        /\ Range(inbox) \subseteq Range(inbox') \cup {"abort_now"}
        /\ inbox = <<"abort_now">> => inbox' = <<>> /\ Range(inbox') = {}
        /\ Once("do_publish", inbox')
    BY <1>0, <1>1, EventNames, Takes DEF HandleAbort, Handles
  <2>2. inbox # <<>> /\ inbox # <<"do_connect_tcp">>
    BY <2>1, EventNames, NotShort
  <2> QED BY <1>0, <1>1, <2>1, <2>2 DEF HandleAbort, abort_connection
<1>2. CASE HandleConnectTcp
  <2>1. /\ thread = "idle" /\ "do_connect_tcp" \in Range(inbox)
        /\ Range(inbox') \subseteq Range(inbox)
        /\ Range(inbox) \subseteq Range(inbox') \cup {"do_connect_tcp"}
        /\ inbox = <<"do_connect_tcp">> => inbox' = <<>> /\ Range(inbox') = {}
        /\ Once("do_publish", inbox')
    BY <1>0, <1>2, EventNames, Takes DEF HandleConnectTcp, Handles
  <2> QED BY <1>0, <1>2, <2>1 DEF HandleConnectTcp
<1>3. CASE HandleConnectMqtt
  <2>1. /\ thread = "idle" /\ "do_connect_mqtt" \in Range(inbox)
        /\ Range(inbox') \subseteq Range(inbox)
        /\ Range(inbox) \subseteq Range(inbox') \cup {"do_connect_mqtt"}
        /\ inbox = <<"do_connect_mqtt">> => inbox' = <<>> /\ Range(inbox') = {}
        /\ Once("do_publish", inbox')
    BY <1>0, <1>3, EventNames, Takes DEF HandleConnectMqtt, Handles
  <2>2. inbox # <<>> /\ ~ Posted("do_connect_tcp")
    BY <2>1, EventNames, NotShort
  <2>3. ~ out_queue_full
    BY <2>1
  <2>4. sock = "open" => owed = {} /\ packet = "none" /\ Range(inbox') = {}
    BY <2>1
  <2>5. CASE out_buffer_sent
    BY <1>0, <1>3, <2>1, <2>2, <2>3, <2>4, <2>5 DEF HandleConnectMqtt, connect_pt, send_out_buffer
  <2>6. CASE ~ out_buffer_sent
    BY <1>0, <1>3, <2>1, <2>2, <2>3, <2>4, <2>6 DEF HandleConnectMqtt
  <2> QED BY <2>5, <2>6
<1>4. CASE HandlePublish
  <2>1. /\ thread = "idle" /\ "do_publish" \in Range(inbox)
        /\ Range(inbox') \subseteq Range(inbox)
        /\ Range(inbox) \subseteq Range(inbox') \cup {"do_publish"}
        /\ inbox = <<"do_publish">> => inbox' = <<>> /\ Range(inbox') = {}
        /\ Once("do_publish", inbox') /\ "do_publish" \notin Range(inbox')
    BY <1>0, <1>4, EventNames, Takes DEF HandlePublish, Handles
  <2>2. inbox # <<>> /\ inbox # <<"do_connect_tcp">> /\ inbox # <<"do_connect_mqtt">>
    BY <2>1, EventNames, NotShort
  <2>3. CASE out_buffer_sent /\ conn = "CONNECTED_TO_BROKER"
    BY <1>0, <1>4, <2>1, <2>2, <2>3 DEF HandlePublish, send_out_buffer
  <2>4. CASE ~ out_buffer_sent \/ conn # "CONNECTED_TO_BROKER"
    BY <1>0, <1>4, <2>1, <2>2, <2>4 DEF HandlePublish
  <2> QED BY <2>3, <2>4
<1>5. CASE HandleDisconnect
  <2>1. /\ "do_disconnect_mqtt" \in Range(inbox)
        /\ Tail(inbox) \in Seq(Events) /\ Range(Tail(inbox)) \subseteq Range(inbox)
        /\ Range(inbox) \subseteq Range(Tail(inbox)) \cup {"do_disconnect_mqtt"}
        /\ Once("do_publish", Tail(inbox))
    BY <1>0, <1>5, TakingLeaves DEF HandleDisconnect
  <2>2. \/ inbox' = Tail(inbox)
        \/ inbox' = Append(Tail(inbox), "do_disconnect_mqtt")
    BY <1>5 DEF HandleDisconnect
  <2>3. /\ Once("do_publish", inbox')
        /\ Range(inbox') \subseteq Range(inbox)
        /\ Range(inbox) \subseteq Range(inbox') \cup {"do_disconnect_mqtt"}
    <3>1. CASE inbox' = Tail(inbox)
      BY <2>1, <3>1
    <3>2. CASE inbox' = Append(Tail(inbox), "do_disconnect_mqtt")
      <4>1. Range(inbox') = Range(Tail(inbox)) \cup {"do_disconnect_mqtt"} /\ Once("do_publish", inbox')
        BY <2>1, <3>2, EventNames, PostingAdds
      <4> QED BY <2>1, <4>1
    <3> QED BY <2>2, <3>1, <3>2
  <2>4. inbox # <<>> /\ inbox # <<"do_connect_tcp">> /\ inbox # <<"do_connect_mqtt">>
    BY <2>1, EventNames, NotShort
  <2>5. CASE conn = "SENDING_MQTT_DISCONNECT" /\ out_buffer_sent
    BY <1>0, <1>5, <2>3, <2>4, <2>5 DEF HandleDisconnect, send_out_buffer
  <2>6. CASE ~ (conn = "SENDING_MQTT_DISCONNECT" /\ out_buffer_sent)
    BY <1>0, <1>5, <2>3, <2>4, <2>6 DEF HandleDisconnect
  <2> QED BY <2>5, <2>6
<1>6. CASE RestartConnect
  <2>0. PICK i \in DOMAIN inbox : inbox[i] = "abort_now" /\ inbox' = PostedBack(inbox, i)
    BY <1>6 DEF RestartConnect
  <2>1. "abort_now" \in Range(inbox)
    BY <2>0 DEF Range
  <2>2. Range(inbox') = Range(inbox) /\ Once("do_publish", inbox')
    BY <1>0, <2>0, PostedBackKeeps
  <2>3. sock = "none" /\ ~ out_queue_full /\ ~ Posted("do_connect_tcp") /\ state # "INIT"
    BY <1>6, <2>1 DEF RestartConnect
  <2>4. CASE connect_pt
    BY <1>0, <1>6, <2>2, <2>3, <2>4 DEF RestartConnect, connect_pt, send_out_buffer
  <2>5. CASE ~ connect_pt
    BY <1>0, <1>6, <2>2, <2>3, <2>5 DEF RestartConnect
  <2> QED BY <2>4, <2>5
<1>7. CASE ConnectDone
  BY <1>0, <1>7 DEF ConnectDone
<1>8. CASE ConnectTimeout
  <2>1. CASE conn = "CONNECTED_TO_BROKER"
    <3>1. process_post("do_disconnect_mqtt")
      BY <1>8, <2>1 DEF ConnectTimeout, mqtt_disconnect
    <3>2. Range(inbox') = Range(inbox) \cup {"do_disconnect_mqtt"} /\ Once("do_publish", inbox')
      BY <1>0, <3>1, EventNames, Posts
    <3> QED BY <1>0, <1>8, <2>1, <3>2 DEF ConnectTimeout, mqtt_disconnect
  <2>2. CASE conn # "CONNECTED_TO_BROKER"
    BY <1>0, <1>8, <2>2 DEF ConnectTimeout, mqtt_disconnect
  <2> QED BY <2>1, <2>2
<1>9. CASE PublishDone
  BY <1>0, <1>9 DEF PublishDone
<1>10. CASE PublishStopped
  BY <1>0, <1>10 DEF PublishStopped
<1> QED BY <1>1, <1>2, <1>3, <1>4, <1>5, <1>6, <1>7, <1>8, <1>9, <1>10 DEF Library, EngineStep

\* A broken connection is forgotten altogether.
LEMMA ClosingKeepsPhases ==
    ASSUME inbox \in Seq(Events), Phases, tcp_event_closed, mqtt_event("DISCONNECTED"),
           UNCHANGED channel, sock # "none", state # "SAMPLING"
    PROVE  Phases'
<1> USE DEF Phases, RadioComesBack, AbortIsForTheOld, QueueDrains, SocketPhase, ConnectPhase,
            AnswerPhase, SamplePhase, PublishPhase, Posted, Unconnected, Session, tcpVars, engineVars
<1>1. Range(inbox') = Range(inbox) \cup {"abort_now"} /\ Once("do_publish", inbox')
  BY EventNames, Posts DEF tcp_event_closed
<1>2. ~ Posted("do_connect_tcp")
  OBVIOUS
<1> QED BY <1>1, <1>2 DEF tcp_event_closed, abort_connection, mqtt_event

\* TCP, the broker and the end of a session keep the phases.
LEMMA NetworkKeepsPhases ==
    ASSUME ValuesOK, Phases,
           \/ LibraryDisconnects \/ Connects \/ Delivers \/ Accepts \/ Acknowledges
           \/ Refuses \/ Closes \/ TimesOut \/ Waits \/ Dies
    PROVE  Phases'
<1> USE DEF Phases, RadioComesBack, AbortIsForTheOld, QueueDrains, SocketPhase, ConnectPhase,
            AnswerPhase, SamplePhase, PublishPhase, Posted, Unconnected, Session, tcpVars, engineVars
<1>0. inbox \in Seq(Events)
  BY DEF ValuesOK
<1>1. CASE LibraryDisconnects
  BY <1>1 DEF LibraryDisconnects, DisconnectDone, abort_connection, mqtt_event
<1>2. CASE Connects
  <2>1. inbox = <<>> /\ process_post("do_connect_mqtt")
    BY <1>2 DEF Connects, TcpConnected
  <2>2. inbox' = <<"do_connect_mqtt">> /\ Range(inbox') = {"do_connect_mqtt"}
        /\ Once("do_publish", inbox')
    BY <2>1, EventNames, ShortQueues DEF process_post
  <2> QED BY <1>2, <2>2 DEF Connects, TcpConnected
<1>3. CASE Delivers
  BY <1>3 DEF Delivers, TcpDataSent, OnNetwork
<1>4. CASE Accepts
  BY <1>4 DEF Accepts, handle_connack, mqtt_event, OnNetwork
<1>5. CASE Acknowledges
  BY <1>5 DEF Acknowledges, handle_puback, mqtt_event
<1>6. CASE Refuses
  BY <1>6 DEF Refuses, ConnackRefused, abort_connection, mqtt_event
<1>7. CASE Closes
  BY <1>0, <1>7, ClosingKeepsPhases DEF Closes, TcpClosed, OnNetwork
<1>8. CASE TimesOut
  BY <1>0, <1>8, ClosingKeepsPhases DEF TimesOut, TcpTimedOut
<1>9. CASE Waits
  BY <1>9 DEF Waits, Retransmit, OnNetwork
<1>10. CASE Dies
  BY <1>10 DEF Dies, BrokerDies
<1> QED BY <1>1, <1>2, <1>3, <1>4, <1>5, <1>6, <1>7, <1>8, <1>9, <1>10

-----------------------------------------------------------------------------
(* The theorems.                                                           *)

\* The sensor and the library are type correct; the output buffer is never
\* overrun, however often connect_pt starts over (mqtt.c 148-163, 311-332).
THEOREM SensorTypeCorrect == Spec => []TypeOK
<1>1. TypeOK /\ [Next]_vars => TypeOK'
  <2>1. TypeOK /\ Next => TypeOK'
    BY FlagsStep, ValuesStep DEF TypeOK
  <2>2. TypeOK /\ UNCHANGED vars => TypeOK'
    <3>1. FlagsOK /\ UNCHANGED vars => FlagsOK'
      BY Zenon DEF FlagsOK, vars, engineVars, tcpVars
    <3>2. ValuesOK /\ UNCHANGED vars => ValuesOK'
      BY DEF ValuesOK, vars, engineVars, tcpVars
    <3> QED BY <3>1, <3>2 DEF TypeOK
  <2> QED BY <2>1, <2>2
<1> QED BY <1>1, InitTypeOK, PTL DEF Spec

\* The phases hold in every reachable state.
LEMMA AlwaysPhases == Spec => []Phases
<1>1. TypeOK /\ Phases /\ [Next]_vars => Phases'
  <2>1. TypeOK /\ Phases /\ Next => Phases'
    BY ApplicationKeepsPhases, LibraryKeepsPhases, NetworkKeepsPhases DEF Next, TypeOK, ValuesOK
  <2>2. Phases /\ UNCHANGED vars => Phases'
    BY DEF Phases, RadioComesBack, AbortIsForTheOld, QueueDrains, SocketPhase, ConnectPhase,
           AnswerPhase, SamplePhase, PublishPhase, Posted, vars, engineVars, tcpVars
  <2> QED BY <2>1, <2>2
<1> QED BY <1>1, InitPhases, SensorTypeCorrect, PTL DEF Spec

\* The radio is on the noise channel exactly while a sample is taken, whatever
\* the network and the broker do: the check of out_buffer_sent before a sample
\* is enough (noise-sensor.c 313, 373-379).
THEOREM RadioAlwaysComesBack == Spec => []RadioComesBack
<1>1. Phases => RadioComesBack
  BY DEF Phases
<1> QED BY <1>1, AlwaysPhases, PTL

\* The place in the output queue is never taken for nothing, although
\* mqtt_process drops publish events it cannot serve (mqtt.c 1245-1257).
THEOREM QueueAlwaysDrains == Spec => []QueueDrains
<1>1. Phases => QueueDrains
  BY DEF Phases
<1> QED BY <1>1, AlwaysPhases, PTL

\* The buffer of the next message is free when the program writes it, for both
\* programs: mqtt_ready before a sample is enough (noise-sensor.c 251-261, 372).
THEOREM BufferAlwaysFree == Spec => []BufferIsFree
<1>1. Phases => BufferIsFree
  BY DEF Phases, SamplePhase, PublishPhase, SocketPhase, Session, BufferIsFree, Idle, mqtt_ready
<1> QED BY <1>1, AlwaysPhases, PTL

\* A pending abort never finds a new connection (mqtt.c 1115, 1162-1168).
THEOREM AbortsAreForTheOld == Spec => []AbortIsForTheOld
<1>1. Phases => AbortIsForTheOld
  BY DEF Phases
<1> QED BY <1>1, AlwaysPhases, PTL
=============================================================================
