----------------------------- MODULE MqttClient -----------------------------
(***************************************************************************)
(* What becomes of a message from the broker: mqtt_manager resolves its    *)
(* topic and queues it (src/src/tasks/mqtt_manager.rs, 103-127),           *)
(* manage_mqtt_client parses it and hands it on                            *)
(* (src/src/tasks/mqtt_client.rs), and the motor controller and manage_ota *)
(* take it from there.                                                     *)
(*                                                                         *)
(* A payload is the kind of text it is; a drive command and an OTA         *)
(* configuration also carry a number that tells them apart.                *)
(***************************************************************************)
EXTENDS Naturals, Sequences, SequencesExt

CONSTANTS
    Devices,       \* device IDs that share the broker
    DeviceId,      \* the one of this board
    Forms,         \* kinds of payload the broker may deliver
    MessageCap,    \* bound: messages delivered
    ReceiveCap,    \* depth of MQTT_RECEIVE
    CommandCap,    \* depth of MOTOR_COMMAND
    ConfigCap      \* depth of MOTOR_CONFIGURATION

\* What a payload may be: the text serde expects for the topic, a text that parses but
\* is no HTTP authority, any other text, bytes that are no UTF-8, more bytes than a
\* message holds.
Form == {"expected", "invalid", "text", "binary", "large"}

ASSUME MqttAssumption ==
    /\ DeviceId \in Devices
    /\ Forms \subseteq Form
    /\ {MessageCap, ReceiveCap, CommandCap, ConfigCap} \subseteq Nat \ {0}

VARIABLES
    delivered,   \* how many messages the broker has delivered
    receive,     \* MQTT_RECEIVE
    hand,        \* what manage_mqtt_client cannot get rid of: send().await
    commands,    \* MOTOR_COMMAND
    configs,     \* MOTOR_CONFIGURATION
    requested,   \* OTA_CHECK_REQUEST
    server,      \* OTA_CONFIGURATION; 0 before any
    paused,      \* an update keeps the motor controller from receiving
    accepted,    \* history: the set of drive commands queued in MQTT_RECEIVE
    executed,    \* history: the drive commands the motor controller took
    announced    \* history: the latest server that got into MQTT_RECEIVE

vars == <<delivered, receive, hand, commands, configs, requested, server, paused,
          accepted, executed, announced>>

InboundTopic == {"MotorCommand", "MotorConfiguration", "OtaCheck", "OtaConfig"}

\* Wire topics: a prefix, and the device it is for; "fleet" for the shared ones.
WireTopic == ({"/motors/", "/ota/check/"} \X Devices)
             \cup ({"/config/ota", "/config/motors"} \X {"fleet"})

\* Bug: the prefix alone decides.
BugResolve(topic) ==
    CASE topic[1] = "/motors/"       -> "MotorCommand"
      [] topic[1] = "/ota/check/"    -> "OtaCheck"
      [] topic[1] = "/config/ota"    -> "OtaConfig"
      [] topic[1] = "/config/motors" -> "MotorConfiguration"

\* Topics::resolve.
Resolve(topic) ==
    CASE topic = <<"/motors/", DeviceId>>     -> "MotorCommand"
      [] topic = <<"/ota/check/", DeviceId>>  -> "OtaCheck"
      [] topic = <<"/config/ota", "fleet">>    -> "OtaConfig"
      [] topic = <<"/config/motors", "fleet">> -> "MotorConfiguration"
      [] OTHER                                 -> "None"

Message == [topic : InboundTopic, form : Form, id : 1..MessageCap, device : Devices \cup {"fleet"}]

\* from_str::<DriveCommand> takes "Stop" and {"Move":{..}}; serde tells an
\* OtaConfiguration by its server, which is_valid then looks at.
Parses(message) ==
    \/ message.form = "expected"
    \/ message.form = "invalid" /\ message.topic = "OtaConfig"

IsValid(message) == message.form # "invalid"

IsDrive(message) == message.topic = "MotorCommand" /\ Parses(message)

TypeOK ==
    /\ delivered \in 0..MessageCap
    /\ receive \in Seq(Message) /\ Len(receive) <= ReceiveCap
    /\ hand \in Seq(Message) /\ Len(hand) <= 1
    /\ commands \in Seq(Message) /\ Len(commands) <= CommandCap
    /\ configs \in Seq(Message) /\ Len(configs) <= ConfigCap
    /\ requested \in BOOLEAN
    /\ server \in 0..MessageCap
    /\ paused \in BOOLEAN
    /\ accepted \subseteq 1..MessageCap
    /\ executed \in Seq(1..MessageCap)
    /\ announced \in 0..MessageCap

Init ==
    /\ delivered = 0
    /\ receive = <<>> /\ hand = <<>> /\ commands = <<>> /\ configs = <<>>
    /\ requested = FALSE
    /\ server = 0
    /\ paused = FALSE
    /\ accepted = {} /\ executed = <<>>
    /\ announced = 0

-----------------------------------------------------------------------------
(* mqtt_manager *)

\* A message that resolves to nothing, is too large or finds the queue full is
\* dropped; the broker is not told.
Receive(topic, form, id) ==
    LET message == [topic |-> Resolve(topic), form |-> form, id |-> id, device |-> topic[2]]
    IN  IF Resolve(topic) # "None" /\ form # "large" /\ Len(receive) < ReceiveCap
        THEN /\ receive' = Append(receive, message)
             /\ accepted' = accepted \cup (IF IsDrive(message) THEN {id} ELSE {})
        ELSE UNCHANGED <<receive, accepted>>

\* The broker may still deliver what an earlier session was subscribed to.
Deliver ==
    /\ delivered < MessageCap
    /\ delivered' = delivered + 1
    /\ \E topic \in WireTopic, form \in Forms :
         /\ Receive(topic, form, delivered')
         /\ announced' = IF topic[1] = "/config/ota" /\ form = "expected" /\ receive' # receive
                         THEN delivered' ELSE announced
    /\ UNCHANGED <<hand, commands, configs, requested, server, paused, executed>>

-----------------------------------------------------------------------------
(* manage_mqtt_client *)

Idle == hand = <<>>

\* Bug: try_send instead of send().await.
BugHandOn(message) ==
    /\ UNCHANGED <<requested, server, hand>>
    /\ CASE message.topic = "MotorCommand" /\ Len(commands) < CommandCap ->
              commands' = Append(commands, message) /\ UNCHANGED configs
         [] message.topic = "MotorConfiguration" /\ Len(configs) < ConfigCap ->
              configs' = Append(configs, message) /\ UNCHANGED commands
         [] OTHER -> UNCHANGED <<commands, configs>>

\* What was received is put into the queue at once or, when that is full, kept in
\* hand: until it fits nothing else is received.
HandOn(message) ==
    /\ UNCHANGED <<requested, server>>
    /\ CASE message.topic = "MotorCommand" /\ Len(commands) < CommandCap ->
              commands' = Append(commands, message) /\ hand' = <<>> /\ UNCHANGED configs
         [] message.topic = "MotorConfiguration" /\ Len(configs) < ConfigCap ->
              configs' = Append(configs, message) /\ hand' = <<>> /\ UNCHANGED commands
         [] OTHER -> hand' = <<message>> /\ UNCHANGED <<commands, configs>>

Ignore == UNCHANGED <<hand, commands, configs, requested, server>>

\* Bug: what parses is taken for a server.
BugConfigure(message) ==
    /\ server' = message.id
    /\ UNCHANGED <<hand, commands, configs, requested>>

Configure(message) ==
    /\ server' = IF IsValid(message) THEN message.id ELSE server
    /\ UNCHANGED <<hand, commands, configs, requested>>

Request ==
    /\ requested' = TRUE
    /\ UNCHANGED <<hand, commands, configs, server>>

Dispatch(message) ==
    IF message.form = "binary" THEN Ignore
    ELSE IF message.topic = "OtaCheck" THEN Request
    ELSE IF ~Parses(message) THEN Ignore
    ELSE IF message.topic = "OtaConfig" THEN Configure(message)
    ELSE HandOn(message)

\* Bug: a payload that is no UTF-8 is unwrapped, and the task is gone.
BugHandle ==
    /\ Idle
    /\ receive # <<>>
    /\ Head(receive).form # "binary"
    /\ receive' = Tail(receive)
    /\ Dispatch(Head(receive))
    /\ UNCHANGED <<delivered, paused, accepted, executed, announced>>

Handle ==
    /\ Idle
    /\ receive # <<>>
    /\ receive' = Tail(receive)
    /\ Dispatch(Head(receive))
    /\ UNCHANGED <<delivered, paused, accepted, executed, announced>>

\* The place the task waits for.
Unblock ==
    /\ ~Idle
    /\ HandOn(Head(hand))
    /\ hand' = <<>>
    /\ UNCHANGED <<delivered, receive, paused, accepted, executed, announced>>

-----------------------------------------------------------------------------
(* The motor controller: it prefers commands, and takes nothing while paused *)

TakeCommand ==
    /\ ~paused
    /\ commands # <<>>
    /\ executed' = Append(executed, Head(commands).id)
    /\ commands' = Tail(commands)
    /\ UNCHANGED <<delivered, receive, hand, configs, requested, server, paused, accepted,
                   announced>>

TakeConfig ==
    /\ ~paused
    /\ commands = <<>>
    /\ configs # <<>>
    /\ configs' = Tail(configs)
    /\ UNCHANGED <<delivered, receive, hand, commands, requested, server, paused, accepted,
                   executed, announced>>

Pause ==
    /\ ~paused
    /\ paused' = TRUE
    /\ UNCHANGED <<delivered, receive, hand, commands, configs, requested, server, accepted,
                   executed, announced>>

Resume ==
    /\ paused
    /\ paused' = FALSE
    /\ UNCHANGED <<delivered, receive, hand, commands, configs, requested, server, accepted,
                   executed, announced>>

Next == Deliver \/ Handle \/ Unblock \/ TakeCommand \/ TakeConfig \/ Pause \/ Resume

Spec == Init /\ [][Next]_vars

\* Both tasks are scheduled and updates end; there may always be another one.
FairSpec == /\ Spec
            /\ WF_vars(Handle \/ Unblock)
            /\ WF_vars(Resume)
            /\ SF_vars(TakeCommand) /\ SF_vars(TakeConfig)

-----------------------------------------------------------------------------
(* Properties *)

Ids(messages) == [i \in DOMAIN messages |-> messages[i].id]
Drives(messages) == {message.id : message \in {m \in ToSet(messages) : IsDrive(m)}}

\* All there is of what was received, the oldest first.
Waiting == Ids(commands) \o (Ids(hand) \o Ids(receive))

Increasing(ids) == \A i, j \in DOMAIN ids : i < j => ids[i] < ids[j]

\* mqtt_client.rs, lines 42-70: drive commands are dropped at MQTT_RECEIVE or not at
\* all: those accepted there are executed in the order of their delivery, once each,
\* whatever waits where.
NothingAcceptedIsLost ==
    /\ accepted = ToSet(executed) \cup Drives(commands) \cup Drives(hand) \cup Drives(receive)
    /\ Increasing(executed \o Waiting)

\* topics.rs, lines 117-130: on a broker the fleet shares, a board acts on its own
\* messages and on the fleet's, even when the broker delivers others.
OnlyMine ==
    \A message \in ToSet(receive) \cup ToSet(hand) \cup ToSet(commands) :
        message.device \in {DeviceId, "fleet"}

\* mqtt_manager.rs, lines 117-124: however often updates pause the motors, whatever is
\* queued is dealt with.
QueueDrains == receive # <<>> ~> receive = <<>> /\ Idle

Settled == receive = <<>> /\ Idle

\* mqtt_client.rs, lines 75-95, and README.md, line 46: once everything that got into
\* MQTT_RECEIVE has been dealt with, the server in force is the latest of them that was
\* a valid one, whatever was sent after it and wherever the task had to wait.  One that
\* finds the queue full is lost.
ConfigurationApplies == Settled => server = announced

=============================================================================
