---------------------------- MODULE MqttPublisher ----------------------------
(***************************************************************************)
(* How a rank of the simulation gets its levels to the broker               *)
(* (mpi/utils/mqtt.c): a client of libmosquitto, whose own thread sends what *)
(* publish_data queues.  main goes on whatever init_mosquitto returns.      *)
(***************************************************************************)
EXTENDS Sequences

VARIABLES
    client,  \* the state of the client
    outbox   \* queued messages without a PUBACK

publisherVars == <<client, outbox>>

\* Clients that may reach the broker, clients that exist but never will, and
\* pointers to none.
Live == {"connecting", "connected"}
Useless == {"not set up", "stopped"}
Missing == {"null", "destroyed"}

\* The client cannot be made; the login cannot be set; the broker cannot be
\* reached or the thread cannot be started; all is well.
init_mosquitto ==
    /\ client = "uninitialised"
    /\ client' \in {"null", "not set up", "destroyed", "connecting"}
    /\ UNCHANGED outbox

\* A refusal is final: the callback disconnects.
on_connect ==
    /\ client = "connecting"
    /\ client' \in {"connected", "stopped"}
    /\ UNCHANGED outbox

\* The result is only printed.  With a destroyed client the behaviour is
\* undefined; nothing reaches the broker.
mosquitto_publish(m) ==
    /\ client # "uninitialised"
    /\ outbox' = IF client \in Missing THEN outbox ELSE Append(outbox, m)
    /\ UNCHANGED client

\* Mutation: a message counts as done when it has been written.
ConnectionBreaksUnsaved ==
    /\ client = "connected" /\ outbox # <<>>
    /\ client' = "connecting"
    /\ outbox' = Tail(outbox)

\* The connection breaks; the library connects again and sends again what has
\* no PUBACK.
ConnectionBreaks ==
    /\ client = "connected" /\ outbox # <<>>
    /\ client' = "connecting"
    /\ UNCHANGED outbox

\* The head of the queue is sent and acknowledged.
Acknowledged ==
    /\ client = "connected" /\ outbox # <<>>
    /\ outbox' = Tail(outbox)
    /\ UNCHANGED client
=============================================================================
