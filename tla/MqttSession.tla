---------------------------- MODULE MqttSession ----------------------------
(***************************************************************************)
(* The way out: mqtt_manager (src/src/tasks/mqtt_manager.rs) keeps the     *)
(* session with the broker, publish_imu_stream and publish_telemetry       *)
(* queue what they are given for it.  What comes in is MqttClient's.       *)
(*                                                                         *)
(* A sample is what the properties ask of it: whether it was queued for    *)
(* publication in the session that is up now; between two of them nothing  *)
(* is.                                                                     *)
(***************************************************************************)
EXTENDS Naturals, Sequences, SequencesExt

CONSTANTS
    StreamCap,    \* depth of IMU_STREAM
    BundleCap,    \* depth of AGGREGATED_TELEMETRY
    PublishCap    \* depth of MQTT_PUBLISH

ASSUME SessionAssumption == {StreamCap, BundleCap, PublishCap} \subseteq Nat \ {0}

VARIABLES
    pc,       \* where mqtt_manager is
    online,   \* NETWORK_READY
    alive,    \* the connection to the broker has not broken
    status,   \* BROKER_STATUS
    gate,     \* which publishers have seen the first connection
    source,   \* how much waits in IMU_STREAM and AGGREGATED_TELEMETRY
    publish,  \* MQTT_PUBLISH
    sent      \* the message conn.publish has in hand

sessionVars == <<pc, online, alive, status, gate, source, publish, sent>>

Publisher == {"imu", "telemetry"}
Depth(p) == IF p = "imu" THEN StreamCap ELSE BundleCap

Sample == [of : Publisher, queued : BOOLEAN]

SessionTypeOK ==
    /\ pc \in {"boot", "network", "connect", "handshake", "subscribe", "backoff", "serve", "publish"}
    /\ online \in BOOLEAN
    /\ alive \in BOOLEAN
    /\ status \in {"Unset", "Disconnected", "Connected"}
    /\ gate \in [Publisher -> BOOLEAN]
    /\ source \in [Publisher -> Nat] /\ \A p \in Publisher : source[p] <= Depth(p)
    /\ publish \in Seq(Sample) /\ Len(publish) <= PublishCap
    /\ sent \in Seq(Sample) /\ Len(sent) <= 1

SessionInit ==
    /\ pc = "boot"
    /\ online = FALSE
    /\ alive = FALSE
    /\ status = "Unset"
    /\ gate = [p \in Publisher |-> FALSE]
    /\ source = [p \in Publisher |-> 0]
    /\ publish = <<>>
    /\ sent = <<>>

-----------------------------------------------------------------------------
(* mqtt_manager *)

Boot ==
    /\ pc = "boot"
    /\ status' = "Disconnected"
    /\ pc' = "network"
    /\ UNCHANGED <<online, alive, gate, source, publish, sent>>

\* Bug: changed in place of get: a network that came up before is missed.
BugNetworkReady ==
    /\ pc = "network"
    /\ ~online
    /\ pc' = "connect"
    /\ UNCHANGED <<online, alive, status, gate, source, publish, sent>>

NetworkReady ==
    /\ pc = "network"
    /\ online
    /\ pc' = "connect"
    /\ UNCHANGED <<online, alive, status, gate, source, publish, sent>>

\* The socket is aborted first, so nothing of an earlier connection is left.
TcpConnects ==
    /\ pc = "connect"
    /\ pc' = "handshake"
    /\ alive' = TRUE
    /\ UNCHANGED <<online, status, gate, source, publish, sent>>

TcpFails ==
    /\ pc = "connect"
    /\ pc' = "backoff"
    /\ alive' = FALSE
    /\ UNCHANGED <<online, status, gate, source, publish, sent>>

Retry ==
    /\ pc = "backoff"
    /\ pc' = "connect"
    /\ UNCHANGED <<online, alive, status, gate, source, publish, sent>>

SessionOpens ==
    /\ pc = "handshake"
    /\ alive
    /\ pc' = "subscribe"
    /\ UNCHANGED <<online, alive, status, gate, source, publish, sent>>

SessionRefused ==
    /\ pc = "handshake"
    /\ pc' = "backoff"
    /\ UNCHANGED <<online, alive, status, gate, source, publish, sent>>

SubscribeFails ==
    /\ pc = "subscribe"
    /\ pc' = "connect"
    /\ UNCHANGED <<online, alive, status, gate, source, publish, sent>>

\* Bug: the queue is left as the disconnection found it.
BugSubscribed ==
    /\ pc = "subscribe"
    /\ alive
    /\ status' = "Connected"
    /\ pc' = "serve"
    /\ UNCHANGED <<online, alive, gate, source, publish, sent>>

\* Connected is sent and the queue drained without an await in between.
Subscribed ==
    /\ pc = "subscribe"
    /\ alive
    /\ status' = "Connected"
    /\ publish' = <<>>
    /\ pc' = "serve"
    /\ UNCHANGED <<online, alive, gate, source, sent>>

\* History: what waits was queued in a session that is over.
Earlier(samples) == [i \in DOMAIN samples |-> [samples[i] EXCEPT !.queued = FALSE]]

\* Every break of the inner loop; what waits stays in the queue.
Disconnect ==
    /\ status' = "Disconnected"
    /\ pc' = "connect"
    /\ sent' = <<>>
    /\ publish' = Earlier(publish)
    /\ UNCHANGED <<online, alive, gate, source>>

\* Bug: an error of conn.recv is logged and the loop goes on.
BugReceiveFails == pc = "serve" /\ UNCHANGED sessionVars

\* A connection that broke, or a packet minimq cannot make sense of.
ReceiveFails == pc = "serve" /\ Disconnect

TakeMessage ==
    /\ pc = "serve"
    /\ publish # <<>>
    /\ sent' = <<Head(publish)>>
    /\ publish' = Tail(publish)
    /\ pc' = "publish"
    /\ UNCHANGED <<online, alive, status, gate, source>>

Published ==
    /\ pc = "publish"
    /\ alive
    /\ sent' = <<>>
    /\ pc' = "serve"
    /\ UNCHANGED <<online, alive, status, gate, source, publish>>

\* Bug: the loop is left without a word to the watch.
BugPublishFails ==
    /\ pc = "publish"
    /\ pc' = "connect"
    /\ sent' = <<>>
    /\ UNCHANGED <<online, alive, status, gate, source, publish>>

PublishFails == pc = "publish" /\ Disconnect

Manager == \/ Boot \/ NetworkReady \/ TcpConnects \/ TcpFails \/ Retry
           \/ SessionOpens \/ SessionRefused \/ SubscribeFails \/ Subscribed
           \/ ReceiveFails \/ TakeMessage \/ Published \/ PublishFails

-----------------------------------------------------------------------------
(* publish_imu_stream and publish_telemetry *)

\* get and changed read the latest value: a session that came and went between two
\* runs of the task is not noticed.
OpenGate(p) ==
    /\ ~gate[p]
    /\ status = "Connected"
    /\ gate' = [gate EXCEPT ![p] = TRUE]
    /\ UNCHANGED <<pc, online, alive, status, source, publish, sent>>

\* A payload too large for a message, or a full queue, costs the sample.
Queue(p) ==
    /\ gate[p]
    /\ source[p] > 0
    /\ source' = [source EXCEPT ![p] = @ - 1]
    /\ publish' \in {publish} \cup
         (IF Len(publish) < PublishCap
          THEN {Append(publish, [of |-> p, queued |-> status = "Connected"])} ELSE {})
    /\ UNCHANGED <<pc, online, alive, status, gate, sent>>

-----------------------------------------------------------------------------
(* Their surroundings *)

\* monitor_imu and aggregate_telemetry: try_send.
Take(p) ==
    /\ source' = [source EXCEPT ![p] = IF @ < Depth(p) THEN @ + 1 ELSE @]
    /\ UNCHANGED <<pc, online, alive, status, gate, publish, sent>>

NetworkUp ==
    /\ ~online
    /\ online' = TRUE
    /\ UNCHANGED <<pc, alive, status, gate, source, publish, sent>>

ConnectionBreaks ==
    /\ alive
    /\ alive' = FALSE
    /\ UNCHANGED <<pc, online, status, gate, source, publish, sent>>

SessionNext ==
    \/ Manager
    \/ \E p \in Publisher : OpenGate(p) \/ Queue(p) \/ Take(p)
    \/ NetworkUp
    \/ ConnectionBreaks

SessionSpec == SessionInit /\ [][SessionNext]_sessionVars

\* The manager is scheduled, the transport reports a broken connection, and a
\* broker that is asked over and over is not always unreachable.
SessionFairSpec ==
    /\ SessionSpec
    /\ WF_sessionVars(Manager)
    /\ SF_sessionVars(TcpConnects) /\ SF_sessionVars(SessionOpens)
    /\ SF_sessionVars(Subscribed)

-----------------------------------------------------------------------------
(* Properties *)

\* mqtt_manager.rs, lines 35, 95 and 147-149: whichever way a session ends or fails to
\* begin, the watch says Connected while there is one and at no other time.
ConnectedIffServing == status = "Connected" <=> pc \in {"serve", "publish"}

\* mqtt_manager.rs, lines 97-98: what was queued for an earlier session is never
\* published in this one, although the publishers go on queueing meanwhile.
QueuedInSession ==
    pc \in {"serve", "publish"} => \A m \in ToSet(publish) \cup ToSet(sent) : m.queued

\* data/mqtt.rs, lines 21-24: the manager retries indefinitely.
Reconnects == online ~> status = "Connected"

\* data/mqtt.rs, lines 21-24: the watch does not stay Connected over a connection
\* that broke.
StatusFollows == (status = "Connected" /\ ~alive) ~> status = "Disconnected"

=============================================================================
