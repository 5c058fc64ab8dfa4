-------------------------- MODULE MqttProofs ----------------------------
(* The way out: the watch and the queue of the session with the broker, over  *)
(* any number of sessions.  The way in: what becomes of the messages received, *)
(* whatever they are.  Both for every depth of the queues.                     *)
EXTENDS MqttSession, MqttClient, SequenceTheorems, TLAPS

-----------------------------------------------------------------------------
(* The inductive invariant *)

\* Between sessions the manager has nothing in hand; in one, what it has in hand and what
\* waits is of this session.
SentInv ==
    /\ pc # "publish" => sent = <<>>
    /\ pc \in {"serve", "publish"} =>
           /\ \A i \in 1..Len(publish) : publish[i].queued
           /\ \A i \in 1..Len(sent) : sent[i].queued

\* The broker's status is published before anybody can wait for it.
BootInv == status = "Unset" <=> pc = "boot"

SessionInv == SessionTypeOK /\ ConnectedIffServing /\ SentInv /\ BootInv

-----------------------------------------------------------------------------
(* Queues of samples *)

LEMMA SampleTypes ==
    ASSUME SessionTypeOK
    PROVE  /\ publish \in Seq(Sample) /\ Len(publish) \in Nat
           /\ sent \in Seq(Sample) /\ Len(sent) \in Nat
  BY LenProperties DEF SessionTypeOK

\* What has waited through the end of a session is a queue as before.
LEMMA EarlierTypes ==
    ASSUME NEW q \in Seq(Sample)
    PROVE  Earlier(q) \in Seq(Sample) /\ Len(Earlier(q)) = Len(q)
<1>1. Len(q) \in Nat /\ DOMAIN q = 1..Len(q) /\ \A i \in 1..Len(q) : q[i] \in Sample
  BY LenProperties, ElementOfSeq
<1>2. \A i \in 1..Len(q) : [q[i] EXCEPT !.queued = FALSE] \in Sample
  BY <1>1 DEF Sample
<1>3. Earlier(q) = [i \in 1..Len(q) |-> [q[i] EXCEPT !.queued = FALSE]]
  BY <1>1 DEF Earlier
<1> QED
  BY <1>1, <1>2, <1>3

LEMMA Depths == \A p \in Publisher : Depth(p) \in Nat
  BY SessionAssumption DEF Depth

LEMMA FirstSample ==
    ASSUME NEW q \in Seq(Sample), q # <<>>
    PROVE  /\ Tail(q) \in Seq(Sample) /\ Len(Tail(q)) = Len(q) - 1
           /\ <<Head(q)>> \in Seq(Sample) /\ Len(<<Head(q)>>) = 1
           /\ <<Head(q)>>[1] = q[1]
           /\ \A i \in 1..Len(Tail(q)) : Tail(q)[i] = q[i + 1]
  BY HeadTailProperties

-----------------------------------------------------------------------------
(* Steps *)

\* A step that leaves the queues alone, and the session as it was.
LEMMA SameSession ==
    ASSUME SessionInv, UNCHANGED <<status, publish, sent>>, SessionTypeOK',
           pc' \in {"serve", "publish"} <=> pc \in {"serve", "publish"},
           pc' = "boot" <=> pc = "boot",
           pc' # "publish" => pc # "publish"
    PROVE  SessionInv'
  BY DEF SessionInv, ConnectedIffServing, SentInv, BootInv

LEMMA DisconnectKeepsInv ==
    ASSUME SessionInv, Disconnect
    PROVE  SessionInv'
<1>1. SessionTypeOK'
  <2>1. Earlier(publish) \in Seq(Sample) /\ Len(Earlier(publish)) = Len(publish)
    BY SampleTypes, EarlierTypes DEF SessionInv
  <2>2. <<>> \in Seq(Sample) /\ Len(<<>>) = 0
    BY EmptySeq
  <2> QED
    BY <2>1, <2>2 DEF SessionInv, SessionTypeOK, Disconnect
<1> QED
  BY <1>1 DEF SessionInv, Disconnect, ConnectedIffServing, SentInv, BootInv

LEMMA ManagerKeepsInv == SessionInv /\ Manager => SessionInv'
<1> SUFFICES ASSUME SessionInv, Manager PROVE SessionInv'
  OBVIOUS
<1>1. CASE Boot
  BY <1>1 DEF Boot, SessionInv, SessionTypeOK, ConnectedIffServing, SentInv, BootInv
<1>2. CASE NetworkReady \/ TcpConnects \/ TcpFails \/ Retry \/ SessionOpens \/ SessionRefused
           \/ SubscribeFails
  <2>1. SessionTypeOK'
    BY <1>2 DEF SessionInv, SessionTypeOK, NetworkReady, TcpConnects, TcpFails, Retry, SessionOpens,
                SessionRefused, SubscribeFails
  <2> QED
    BY <1>2, <2>1, SameSession
       DEF NetworkReady, TcpConnects, TcpFails, Retry, SessionOpens, SessionRefused, SubscribeFails
<1>3. CASE Subscribed
  <2>1. <<>> \in Seq(Sample) /\ Len(<<>>) = 0
    BY EmptySeq
  <2>2. SessionTypeOK' /\ sent' = <<>>
    BY <1>3, <2>1, SessionAssumption DEF Subscribed, SessionInv, SessionTypeOK, SentInv
  <2> QED
    BY <1>3, <2>1, <2>2 DEF Subscribed, SessionInv, ConnectedIffServing, SentInv, BootInv
<1>4. CASE ReceiveFails \/ PublishFails
  BY <1>4, DisconnectKeepsInv DEF ReceiveFails, PublishFails
<1>5. CASE TakeMessage
  <2>1. /\ publish \in Seq(Sample) /\ publish # <<>> /\ Len(publish) \in Nat
        /\ publish' = Tail(publish) /\ sent' = <<Head(publish)>>
    BY <1>5, SampleTypes DEF TakeMessage, SessionInv
  <2>6. /\ publish' \in Seq(Sample) /\ Len(publish') = Len(publish) - 1
        /\ sent' \in Seq(Sample) /\ Len(sent') = 1
    BY <2>1, FirstSample
  <2>2. SessionTypeOK'
    BY <1>5, <2>1, <2>6, SessionAssumption DEF TakeMessage, SessionInv, SessionTypeOK
  <2>3. Len(publish) > 0 /\ \A i \in 1..Len(publish) : publish[i].queued
    BY <1>5, <2>1, EmptySeq DEF TakeMessage, SessionInv, SentInv
  <2>4. \A i \in 1..Len(publish') : publish'[i].queued
    BY <2>1, <2>3, FirstSample
  <2>5. \A i \in 1..Len(sent') : sent'[i].queued
    BY <2>1, <2>3, FirstSample
  <2> QED
    BY <1>5, <2>2, <2>4, <2>5 DEF TakeMessage, SessionInv, ConnectedIffServing, SentInv, BootInv
<1>6. CASE Published
  <2>1. <<>> \in Seq(Sample) /\ Len(<<>>) = 0
    BY EmptySeq
  <2> QED
    BY <1>6, <2>1 DEF Published, SessionInv, SessionTypeOK, ConnectedIffServing, SentInv, BootInv
<1> QED
  BY <1>1, <1>2, <1>3, <1>4, <1>5, <1>6 DEF Manager

LEMMA QueueKeepsInv == ASSUME SessionInv, NEW p \in Publisher, Queue(p) PROVE SessionInv'
<1>1. publish \in Seq(Sample) /\ Len(publish) \in Nat /\ Len(publish) <= PublishCap
  BY SampleTypes DEF SessionInv, SessionTypeOK
<1>2. /\ UNCHANGED <<pc, online, alive, status, gate, sent>>
      /\ source[p] > 0 /\ source' = [source EXCEPT ![p] = @ - 1]
  BY DEF Queue
<1>3. CASE publish' = publish
  <2>1. source' \in [Publisher -> Nat] /\ \A q \in Publisher : source'[q] <= Depth(q)
    BY <1>2, Depths DEF SessionInv, SessionTypeOK
  <2>2. SessionTypeOK'
    BY <1>2, <1>3, <2>1 DEF SessionInv, SessionTypeOK
  <2> QED
    BY <1>2, <1>3, <2>2, SameSession
<1>4. CASE publish' # publish
  <2> DEFINE m == [of |-> p, queued |-> status = "Connected"]
  <2>1. Len(publish) < PublishCap /\ publish' = Append(publish, m) /\ m \in Sample
    BY <1>4 DEF Queue, Sample
  <2>2. m.queued <=> status = "Connected"
    OBVIOUS
  <2> HIDE DEF m
  <2>3. /\ publish' \in Seq(Sample) /\ Len(publish') = Len(publish) + 1
        /\ publish'[Len(publish) + 1] = m
        /\ \A i \in 1..Len(publish) : publish'[i] = publish[i]
    BY <1>1, <2>1
  <2>4. source' \in [Publisher -> Nat] /\ \A q \in Publisher : source'[q] <= Depth(q)
    BY <1>2, Depths DEF SessionInv, SessionTypeOK
  <2>5. SessionTypeOK'
    BY <1>1, <1>2, <2>1, <2>3, <2>4, SessionAssumption DEF SessionInv, SessionTypeOK
  <2>6. pc \in {"serve", "publish"} => \A i \in 1..Len(publish') : publish'[i].queued
    BY <1>1, <2>2, <2>3 DEF SessionInv, ConnectedIffServing, SentInv
  <2> QED
    BY <1>2, <2>5, <2>6 DEF SessionInv, ConnectedIffServing, SentInv, BootInv
<1> QED
  BY <1>3, <1>4

\* What goes on around the manager and the publishers' queue.
LEMMA OthersKeepInv ==
    SessionInv /\ ((\E p \in Publisher : OpenGate(p) \/ Take(p)) \/ NetworkUp \/ ConnectionBreaks)
    => SessionInv'
<1> SUFFICES ASSUME SessionInv,
                    (\E p \in Publisher : OpenGate(p) \/ Take(p)) \/ NetworkUp \/ ConnectionBreaks
             PROVE  SessionInv'
  OBVIOUS
<1>1. ASSUME NEW p \in Publisher, OpenGate(p) PROVE SessionInv'
  <2>1. SessionTypeOK'
    BY <1>1 DEF OpenGate, SessionInv, SessionTypeOK
  <2> QED
    BY <1>1, <2>1, SameSession DEF OpenGate
<1>2. ASSUME NEW p \in Publisher, Take(p) PROVE SessionInv'
  <2>1. source' \in [Publisher -> Nat] /\ \A q \in Publisher : source'[q] <= Depth(q)
    BY <1>2, Depths DEF Take, SessionInv, SessionTypeOK
  <2>2. SessionTypeOK'
    BY <1>2, <2>1 DEF Take, SessionInv, SessionTypeOK
  <2> QED
    BY <1>2, <2>2, SameSession DEF Take
<1>3. CASE NetworkUp \/ ConnectionBreaks
  <2>1. SessionTypeOK'
    BY <1>3 DEF NetworkUp, ConnectionBreaks, SessionInv, SessionTypeOK
  <2> QED
    BY <1>3, <2>1, SameSession DEF NetworkUp, ConnectionBreaks
<1> QED
  BY <1>1, <1>2, <1>3

-----------------------------------------------------------------------------
(* The theorems *)

LEMMA SessionInitInv == SessionInit => SessionInv
<1> SUFFICES ASSUME SessionInit PROVE SessionInv
  OBVIOUS
<1>1. <<>> \in Seq(Sample) /\ Len(<<>>) = 0
  BY EmptySeq
<1>2. source \in [Publisher -> Nat] /\ \A p \in Publisher : source[p] <= Depth(p)
  BY Depths DEF SessionInit
<1>3. SessionTypeOK
  <2>1. /\ publish \in Seq(Sample) /\ Len(publish) <= PublishCap
        /\ sent \in Seq(Sample) /\ Len(sent) <= 1
    BY <1>1, SessionAssumption DEF SessionInit
  <2>2. gate \in [Publisher -> BOOLEAN]
    BY DEF SessionInit
  <2> QED
    BY <1>2, <2>1, <2>2 DEF SessionInit, SessionTypeOK
<1> QED
  BY <1>3 DEF SessionInit, SessionInv, ConnectedIffServing, SentInv, BootInv

LEMMA SessionNextInv == SessionInv /\ [SessionNext]_sessionVars => SessionInv'
<1> SUFFICES ASSUME SessionInv, [SessionNext]_sessionVars PROVE SessionInv'
  OBVIOUS
<1>1. CASE UNCHANGED sessionVars
  BY <1>1 DEF sessionVars, SessionInv, SessionTypeOK, ConnectedIffServing, SentInv, BootInv
<1>2. CASE SessionNext
  BY <1>2, ManagerKeepsInv, QueueKeepsInv, OthersKeepInv DEF SessionNext
<1> QED
  BY <1>1, <1>2

THEOREM SessionInvariance == SessionSpec => []SessionInv
<1> QED
  BY SessionInitInv, SessionNextInv, PTL DEF SessionSpec

\* mqtt_manager.rs, lines 35, 95 and 147-149: the watch says Connected while there is a
\* session and at no other time.
THEOREM StatusIsTrue == SessionSpec => []ConnectedIffServing
<1>1. SessionInv => ConnectedIffServing
  BY DEF SessionInv
<1> QED
  BY <1>1, SessionInvariance, PTL

\* mqtt_manager.rs, lines 97-98: nothing that was queued before a session is published in
\* it, however deep the queue.
THEOREM NothingOldIsSent == SessionSpec => []QueuedInSession
<1>1. SessionInv => QueuedInSession
  <2> SUFFICES ASSUME SessionInv, pc \in {"serve", "publish"},
                      NEW m \in ToSet(publish) \cup ToSet(sent)
               PROVE  m.queued
    BY DEF QueuedInSession
  <2>1. DOMAIN publish = 1..Len(publish) /\ DOMAIN sent = 1..Len(sent)
    BY SampleTypes, LenProperties DEF SessionInv
  <2>2. \/ \E i \in 1..Len(publish) : m = publish[i]
        \/ \E i \in 1..Len(sent) : m = sent[i]
    BY <2>1 DEF ToSet
  <2> QED
    BY <2>2 DEF SessionInv, SentInv
<1> QED
  BY <1>1, SessionInvariance, PTL


(***************************************************************************)
(* The way in                                                              *)
(***************************************************************************)

-----------------------------------------------------------------------------
(* The inductive invariant *)

\* Deliveries are counted, so what came later is told by its number.
Numbers(messages) == {messages[i].id : i \in 1..Len(messages)}
InOrder(messages) == \A i, j \in 1..Len(messages) : i < j => messages[i].id < messages[j].id
Before(ids, later) == \A m \in ids, n \in later : m < n

\* From the first command executed to the message that came last, each is older than the
\* next, whichever queue it is in.
LineInv ==
    /\ Increasing(executed) /\ InOrder(commands) /\ InOrder(receive)
    /\ Before(ToSet(executed), Numbers(commands) \cup Numbers(hand) \cup Numbers(receive))
    /\ Before(Numbers(commands), Numbers(hand) \cup Numbers(receive))
    /\ Before(Numbers(hand), Numbers(receive))
    /\ Before(ToSet(executed) \cup Numbers(commands) \cup Numbers(hand) \cup Numbers(receive),
              {delivered + 1})

AcceptedInv ==
    accepted = ToSet(executed) \cup Drives(commands) \cup Drives(hand) \cup Drives(receive)

\* Only drive commands are queued for the motors, and the client waits with nothing but
\* what it could parse for them.
KindInv ==
    /\ \A i \in 1..Len(commands) : IsDrive(commands[i])
    /\ \A i \in 1..Len(hand) : /\ hand[i].topic \in {"MotorCommand", "MotorConfiguration"}
                               /\ Parses(hand[i])

Own(message) == message.device \in {DeviceId, "fleet"}
OwnInv ==
    /\ \A i \in 1..Len(receive) : Own(receive[i])
    /\ \A i \in 1..Len(hand) : Own(hand[i])
    /\ \A i \in 1..Len(commands) : Own(commands[i])

IsServer(message) == message.topic = "OtaConfig" /\ message.form = "expected"

\* The latest valid server waits in the queue, or it is in force.
ServerInv ==
    \/ server = announced /\ \A i \in 1..Len(receive) : ~IsServer(receive[i])
    \/ \E i \in 1..Len(receive) :
           /\ IsServer(receive[i]) /\ receive[i].id = announced
           /\ \A j \in 1..Len(receive) : j > i => ~IsServer(receive[j])

ClientInv == TypeOK /\ LineInv /\ AcceptedInv /\ KindInv /\ OwnInv /\ ServerInv

-----------------------------------------------------------------------------
(* Queues of messages, and the numbers in them *)

DriveId(message) == IF IsDrive(message) THEN {message.id} ELSE {}

LEMMA MessageQueue ==
    ASSUME NEW q \in Seq(Message)
    PROVE  /\ Len(q) \in Nat /\ DOMAIN q = 1..Len(q)
           /\ \A i \in 1..Len(q) : q[i] \in Message /\ q[i].id \in 1..MessageCap
           /\ Numbers(q) \subseteq 1..MessageCap
           /\ Drives(q) = UNION {DriveId(q[i]) : i \in 1..Len(q)}
<1>1. Len(q) \in Nat /\ DOMAIN q = 1..Len(q) /\ \A i \in 1..Len(q) : q[i] \in Message
  BY LenProperties, ElementOfSeq
<1>2. \A i \in 1..Len(q) : q[i].id \in 1..MessageCap
  BY <1>1 DEF Message
<1>3. Drives(q) = UNION {DriveId(q[i]) : i \in 1..Len(q)}
  BY <1>1 DEF Drives, DriveId, ToSet
<1> QED
  BY <1>1, <1>2, <1>3 DEF Numbers

LEMMA NoMessages == /\ <<>> \in Seq(Message) /\ Len(<<>>) = 0
                    /\ Numbers(<<>>) = {} /\ Drives(<<>>) = {} /\ InOrder(<<>>)
<1>1. <<>> \in Seq(Message) /\ Len(<<>>) = 0
  BY EmptySeq
<1>2. \A i : i \notin 1..Len(<<>>)
  BY <1>1
<1>3. Drives(<<>>) = UNION {DriveId(<<>>[i]) : i \in 1..Len(<<>>)}
  BY <1>1, MessageQueue
<1> QED
  BY <1>1, <1>2, <1>3 DEF Numbers, InOrder

\* r is q with m at its end.
Joins(q, m, r) ==
    /\ r \in Seq(Message) /\ Len(q) \in Nat /\ Len(r) = Len(q) + 1
    /\ r[Len(q) + 1] = m
    /\ \A i \in 1..Len(q) : r[i] = q[i]
    /\ Numbers(r) = Numbers(q) \cup {m.id}
    /\ Drives(r) = Drives(q) \cup DriveId(m)
    /\ InOrder(q) /\ Before(Numbers(q), {m.id}) => InOrder(r)

LEMMA Joined ==
    ASSUME NEW q \in Seq(Message), NEW m \in Message, NEW r, r = Append(q, m)
    PROVE  Joins(q, m, r)
<1>1. Len(q) \in Nat
  BY LenProperties
<1>2. /\ r \in Seq(Message) /\ Len(r) = Len(q) + 1 /\ r[Len(q) + 1] = m
      /\ \A i \in 1..Len(q) : r[i] = q[i]
  BY <1>1
<1>3. 1..Len(r) = 1..Len(q) \cup {Len(q) + 1}
  BY <1>1, <1>2
<1>4. Numbers(r) = Numbers(q) \cup {m.id}
  BY <1>2, <1>3 DEF Numbers
<1>5. Drives(r) = Drives(q) \cup DriveId(m)
  <2>1. Drives(r) = UNION {DriveId(r[i]) : i \in 1..Len(r)}
    BY <1>2, MessageQueue
  <2>2. Drives(q) = UNION {DriveId(q[i]) : i \in 1..Len(q)}
    BY MessageQueue
  <2>3. ASSUME NEW n \in Drives(r) PROVE n \in Drives(q) \cup DriveId(m)
    <3>1. PICK i \in 1..Len(r) : n \in DriveId(r[i])
      BY <2>1
    <3> QED
      BY <3>1, <1>2, <1>3, <2>2
  <2>4. ASSUME NEW n \in Drives(q) PROVE n \in Drives(r)
    <3>1. PICK i \in 1..Len(q) : n \in DriveId(q[i])
      BY <2>2
    <3>2. i \in 1..Len(r) /\ r[i] = q[i]
      BY <3>1, <1>2, <1>3
    <3> QED
      BY <3>1, <3>2, <2>1
  <2>5. DriveId(m) \subseteq Drives(r)
    BY <1>2, <1>3, <2>1
  <2> QED
    BY <2>3, <2>4, <2>5
<1>6. ASSUME InOrder(q), Before(Numbers(q), {m.id}) PROVE InOrder(r)
  <2>1. ASSUME NEW i \in 1..Len(r), NEW j \in 1..Len(r), i < j PROVE r[i].id < r[j].id
    <3>1. i \in 1..Len(q) /\ r[i] = q[i]
      BY <1>1, <1>2, <1>3, <2>1
    <3>2. CASE j = Len(q) + 1
      BY <1>2, <1>6, <3>1, <3>2 DEF Before, Numbers
    <3>3. CASE j \in 1..Len(q)
      BY <1>2, <1>6, <2>1, <3>1, <3>3 DEF InOrder
    <3> QED
      BY <1>3, <3>2, <3>3
  <2> QED
    BY <2>1 DEF InOrder
<1> QED
  BY <1>1, <1>2, <1>4, <1>5, <1>6 DEF Joins

\* q is h, and t after it.
Parts(q, h, t) ==
    /\ h \in Message /\ h = q[1] /\ Len(q) \in Nat /\ Len(q) > 0
    /\ t \in Seq(Message) /\ Len(t) = Len(q) - 1
    /\ \A i \in 1..Len(q) - 1 : t[i] = q[i + 1]
    /\ Numbers(q) = {h.id} \cup Numbers(t)
    /\ Drives(q) = DriveId(h) \cup Drives(t)
    /\ InOrder(q) => InOrder(t) /\ Before({h.id}, Numbers(t))

LEMMA Parted ==
    ASSUME NEW q \in Seq(Message), q # <<>>, NEW h, NEW t, h = Head(q), t = Tail(q)
    PROVE  Parts(q, h, t)
<1>1. /\ h \in Message /\ h = q[1] /\ Len(q) \in Nat /\ Len(q) > 0
      /\ t \in Seq(Message) /\ Len(t) = Len(q) - 1
      /\ \A i \in 1..Len(q) - 1 : t[i] = q[i + 1]
  BY HeadTailProperties, EmptySeq
<1>2. \A i \in 1..Len(q) : i = 1 \/ (i - 1 \in 1..Len(q) - 1 /\ q[i] = t[i - 1])
  BY <1>1
<1>3. 1 \in 1..Len(q) /\ \A i \in 1..Len(q) - 1 : i + 1 \in 1..Len(q) /\ i + 1 > 1
  BY <1>1
<1>4. Numbers(q) = {h.id} \cup Numbers(t)
  <2>1. Numbers(q) \subseteq {h.id} \cup Numbers(t)
    <3>1. ASSUME NEW i \in 1..Len(q) PROVE q[i].id \in {h.id} \cup Numbers(t)
      BY <1>1, <1>2 DEF Numbers
    <3> QED
      BY <3>1 DEF Numbers
  <2>2. {h.id} \cup Numbers(t) \subseteq Numbers(q)
    BY <1>1, <1>3 DEF Numbers
  <2> QED
    BY <2>1, <2>2
<1>5. Drives(q) = DriveId(h) \cup Drives(t)
  <2>1. Drives(t) = UNION {DriveId(t[i]) : i \in 1..Len(q) - 1}
    BY <1>1, MessageQueue
  <2>2. Drives(q) = UNION {DriveId(q[i]) : i \in 1..Len(q)}
    BY MessageQueue
  <2>3. ASSUME NEW n \in Drives(q) PROVE n \in DriveId(h) \cup Drives(t)
    <3>1. PICK i \in 1..Len(q) : n \in DriveId(q[i])
      BY <2>2
    <3> QED
      BY <3>1, <1>1, <1>2, <2>1
  <2>4. ASSUME NEW n \in Drives(t) PROVE n \in Drives(q)
    <3>1. PICK i \in 1..Len(q) - 1 : n \in DriveId(t[i])
      BY <2>1
    <3>2. i + 1 \in 1..Len(q) /\ n \in DriveId(q[i + 1])
      BY <3>1, <1>1, <1>3
    <3> QED
      BY <3>2, <2>2
  <2>5. DriveId(h) \subseteq Drives(q)
    BY <1>1, <1>3, <2>2
  <2> QED
    BY <2>3, <2>4, <2>5
<1>6. ASSUME InOrder(q) PROVE InOrder(t) /\ Before({h.id}, Numbers(t))
  <2>1. ASSUME NEW i \in 1..Len(t), NEW j \in 1..Len(t), i < j PROVE t[i].id < t[j].id
    <3>1. i + 1 \in 1..Len(q) /\ j + 1 \in 1..Len(q) /\ i + 1 < j + 1
      BY <1>1, <2>1
    <3>2. t[i] = q[i + 1] /\ t[j] = q[j + 1]
      BY <1>1
    <3> QED
      BY <1>6, <3>1, <3>2 DEF InOrder
  <2>2. ASSUME NEW j \in 1..Len(t) PROVE h.id < t[j].id
    BY <1>1, <1>3, <1>6 DEF InOrder
  <2> QED
    BY <2>1, <2>2 DEF InOrder, Before, Numbers
<1> QED
  BY <1>1, <1>4, <1>5, <1>6 DEF Parts

-----------------------------------------------------------------------------
(* The state of the client *)

LEMMA ClientTypes ==
    ASSUME TypeOK
    PROVE  /\ receive \in Seq(Message) /\ hand \in Seq(Message)
           /\ commands \in Seq(Message) /\ configs \in Seq(Message)
           /\ Len(receive) \in Nat /\ Len(hand) \in Nat
           /\ Len(commands) \in Nat /\ Len(configs) \in Nat
           /\ executed \in Seq(Nat) /\ delivered \in Nat
           /\ MessageCap \in Nat \ {0} /\ ReceiveCap \in Nat \ {0}
           /\ CommandCap \in Nat \ {0} /\ ConfigCap \in Nat \ {0}
<1>1. /\ receive \in Seq(Message) /\ hand \in Seq(Message)
      /\ commands \in Seq(Message) /\ configs \in Seq(Message)
  BY DEF TypeOK
<1>2. /\ Len(receive) \in Nat /\ Len(hand) \in Nat
      /\ Len(commands) \in Nat /\ Len(configs) \in Nat
  BY <1>1, MessageQueue
<1>3. /\ MessageCap \in Nat \ {0} /\ ReceiveCap \in Nat \ {0}
      /\ CommandCap \in Nat \ {0} /\ ConfigCap \in Nat \ {0}
  BY MqttAssumption
<1>4. executed \in Seq(Nat) /\ delivered \in Nat
  <2>1. 1..MessageCap \subseteq Nat /\ executed \in Seq(1..MessageCap)
    BY <1>3 DEF TypeOK
  <2> QED
    BY <1>3, <2>1, SeqMonotonic DEF TypeOK
<1> QED
  BY <1>1, <1>2, <1>3, <1>4

\* Every number there is.
AllNumbers == ToSet(executed) \cup Numbers(commands) \cup Numbers(hand) \cup Numbers(receive)

LEMMA NumbersAreIds == ASSUME TypeOK PROVE AllNumbers \subseteq 1..MessageCap
<1>1. ToSet(executed) \subseteq 1..MessageCap
  <2>1. executed \in Seq(1..MessageCap)
    BY DEF TypeOK
  <2>2. DOMAIN executed = 1..Len(executed) /\ \A i \in 1..Len(executed) : executed[i] \in 1..MessageCap
    BY <2>1, LenProperties, ElementOfSeq
  <2> QED
    BY <2>2 DEF ToSet
<1> QED
  BY <1>1, ClientTypes, MessageQueue DEF AllNumbers

-----------------------------------------------------------------------------
(* Steps of mqtt_manager *)

\* A message that is queued is for this board, and is a valid server exactly when it is
\* recorded as one.
LEMMA ReceiveCases ==
    ASSUME TypeOK, NEW topic \in WireTopic, NEW form \in Forms, NEW n \in 1..MessageCap,
           Receive(topic, form, n)
    PROVE  \/ receive' = receive /\ accepted' = accepted
           \/ \E m \in Message :
                 /\ Len(receive) < ReceiveCap
                 /\ receive' = Append(receive, m) /\ receive' # receive
                 /\ accepted' = accepted \cup DriveId(m)
                 /\ m.id = n /\ Own(m)
                 /\ IsServer(m) <=> topic[1] = "/config/ota" /\ form = "expected"
<1> DEFINE m == [topic |-> Resolve(topic), form |-> form, id |-> n, device |-> topic[2]]
<1>1. topic \in (({"/motors/", "/ota/check/"} \X Devices)
                 \cup ({"/config/ota", "/config/motors"} \X {"fleet"}))
  BY DEF WireTopic
<1>2. topic = <<topic[1], topic[2]>> /\ topic[2] \in Devices \cup {"fleet"}
  BY <1>1
<1>3. topic[1] \in {"/motors/", "/ota/check/", "/config/ota", "/config/motors"}
      /\ (topic[1] \in {"/config/ota", "/config/motors"} => topic[2] = "fleet")
  BY <1>1
<1>4. CASE Resolve(topic) # "None" /\ form # "large" /\ Len(receive) < ReceiveCap
  <2>1. /\ receive' = Append(receive, m)
        /\ accepted' = accepted \cup DriveId(m)
    BY <1>4 DEF Receive, DriveId
  <2>2. Resolve(topic) \in InboundTopic
    BY <1>4 DEF Resolve, InboundTopic
  <2>3. m \in Message
    <3>1. form \in Form
      BY MqttAssumption
    <3> QED
      BY <1>2, <2>2, <3>1 DEF Message
  <2>4. Own(m)
    <3>1. topic[2] \in {DeviceId, "fleet"}
      BY <1>2, <1>4 DEF Resolve
    <3> QED
      BY <3>1 DEF Own
  <2>5. IsServer(m) <=> topic[1] = "/config/ota" /\ form = "expected"
    <3>1. Resolve(topic) = "OtaConfig" <=> topic[1] = "/config/ota"
      BY <1>2, <1>3, <1>4 DEF Resolve
    <3> QED
      BY <3>1 DEF IsServer
  <2>6. m.id = n
    OBVIOUS
  <2> HIDE DEF m
  <2>7. receive' # receive
    <3>1. Len(Append(receive, m)) = Len(receive) + 1 /\ Len(receive) \in Nat
      BY <2>3, ClientTypes, Joined
    <3> QED
      BY <2>1, <3>1
  <2> QED
    BY <1>4, <2>1, <2>3, <2>4, <2>5, <2>6, <2>7
<1>5. CASE ~(Resolve(topic) # "None" /\ form # "large" /\ Len(receive) < ReceiveCap)
  BY <1>5 DEF Receive
<1> QED
  BY <1>4, <1>5

\* A delivery that changes nothing but the count.
LEMMA LostKeepsInv ==
    ASSUME ClientInv, delivered < MessageCap, delivered' = delivered + 1,
           UNCHANGED <<receive, hand, commands, configs, requested, server, paused, accepted,
                       executed, announced>>
    PROVE  ClientInv'
<1>1. TypeOK'
  <2>1. delivered' \in 0..MessageCap
    BY ClientTypes DEF ClientInv
  <2> QED
    BY <2>1 DEF ClientInv, TypeOK
<1>2. LineInv'
  <2>1. AllNumbers \subseteq Int /\ delivered \in Nat
    BY ClientTypes, NumbersAreIds DEF ClientInv
  <2>2. Before(AllNumbers, {delivered + 1})
    BY DEF ClientInv, LineInv, AllNumbers
  <2>3. Before(AllNumbers, {delivered' + 1})
    BY <2>1, <2>2 DEF Before
  <2> QED
    BY <2>3 DEF ClientInv, LineInv, AllNumbers, Numbers, InOrder
<1> QED
  BY <1>1, <1>2 DEF ClientInv, AcceptedInv, Drives, KindInv, OwnInv, ServerInv

LEMMA DeliverKeepsInv == ASSUME ClientInv, Deliver PROVE ClientInv'
<1>1. PICK topic \in WireTopic, form \in Forms :
         /\ Receive(topic, form, delivered + 1)
         /\ announced' = IF topic[1] = "/config/ota" /\ form = "expected" /\ receive' # receive
                         THEN delivered + 1 ELSE announced
  BY DEF Deliver
<1>2. /\ delivered < MessageCap /\ delivered' = delivered + 1
      /\ UNCHANGED <<hand, commands, configs, requested, server, paused, executed>>
  BY DEF Deliver
<1>3. delivered + 1 \in 1..MessageCap /\ delivered \in Nat
  BY <1>2, ClientTypes DEF ClientInv
<1>4. CASE receive' = receive /\ accepted' = accepted
  <2>1. announced' = announced
    BY <1>1, <1>4
  <2> QED
    BY <1>2, <1>4, <2>1, LostKeepsInv
<1>5. ASSUME NEW m \in Message,
             Len(receive) < ReceiveCap, receive' = Append(receive, m), receive' # receive,
             accepted' = accepted \cup DriveId(m), m.id = delivered + 1, Own(m),
             IsServer(m) <=> topic[1] = "/config/ota" /\ form = "expected"
      PROVE  ClientInv'
  <2>1. /\ receive \in Seq(Message) /\ Len(receive) \in Nat
        /\ receive' \in Seq(Message) /\ Len(receive') = Len(receive) + 1
        /\ receive'[Len(receive) + 1] = m
        /\ \A i \in 1..Len(receive) : receive'[i] = receive[i]
        /\ Numbers(receive') = Numbers(receive) \cup {delivered + 1}
        /\ Drives(receive') = Drives(receive) \cup DriveId(m)
        /\ InOrder(receive) /\ Before(Numbers(receive), {delivered + 1}) => InOrder(receive')
    <3>1. receive \in Seq(Message) /\ Len(receive) \in Nat
      BY ClientTypes DEF ClientInv
    <3> DEFINE r == receive'
    <3>2. r = Append(receive, m)
      BY <1>5
    <3> HIDE DEF r
    <3>3. Joins(receive, m, r)
      BY <3>1, <3>2, Joined
    <3> QED
      BY <1>5, <3>1, <3>3 DEF r, Joins
  <2>2. \A i \in 1..Len(receive') : i = Len(receive) + 1 \/ i \in 1..Len(receive)
    BY <2>1
  <2>3. announced' = IF IsServer(m) THEN delivered + 1 ELSE announced
    BY <1>1, <1>5
  <2>4. TypeOK'
    <3>1. receive' \in Seq(Message) /\ Len(receive') <= ReceiveCap
      BY <1>5, <2>1, ClientTypes DEF ClientInv
    <3>2. DriveId(m) \subseteq 1..MessageCap
      BY <1>3, <1>5 DEF DriveId
    <3>3. announced' \in 0..MessageCap /\ delivered' \in 0..MessageCap
      BY <1>2, <1>3, <2>3, ClientTypes DEF ClientInv, TypeOK
    <3> QED
      BY <1>2, <1>5, <3>1, <3>2, <3>3 DEF ClientInv, TypeOK
  <2>5. LineInv'
    <3>1. AllNumbers \subseteq Int /\ delivered \in Nat
      BY ClientTypes, NumbersAreIds DEF ClientInv
    <3>2. /\ Before(AllNumbers, {delivered + 1})
          /\ Numbers(hand)' = Numbers(hand) /\ Numbers(commands)' = Numbers(commands)
          /\ InOrder(commands)' = InOrder(commands) /\ executed' = executed
          /\ Numbers(receive)' = Numbers(receive) \cup {delivered + 1}
      BY <1>2, <2>1 DEF ClientInv, LineInv, AllNumbers, Numbers, InOrder
    <3>3. InOrder(receive)'
      BY <2>1, <3>2 DEF ClientInv, LineInv, Before, AllNumbers, InOrder
    <3>4. Before(AllNumbers', {delivered' + 1})
      BY <1>2, <3>1, <3>2 DEF Before, AllNumbers
    <3>5. Increasing(executed)'
      BY <3>2 DEF ClientInv, LineInv, Increasing
    <3>6. /\ Before(ToSet(executed), Numbers(commands) \cup Numbers(hand) \cup Numbers(receive))'
          /\ Before(Numbers(commands), Numbers(hand) \cup Numbers(receive))'
          /\ Before(Numbers(hand), Numbers(receive))'
      BY <3>2 DEF ClientInv, LineInv, Before, AllNumbers
    <3> QED
      BY <3>2, <3>3, <3>4, <3>5, <3>6 DEF ClientInv, LineInv, AllNumbers
  <2>6. AcceptedInv'
    BY <1>2, <1>5, <2>1 DEF ClientInv, AcceptedInv, Drives
  <2>7. KindInv'
    BY <1>2 DEF ClientInv, KindInv
  <2>8. OwnInv'
    BY <1>2, <1>5, <2>1, <2>2 DEF ClientInv, OwnInv
  <2>9. ServerInv'
    <3>1. CASE IsServer(m)
      <4>1. /\ Len(receive) + 1 \in 1..Len(receive')
            /\ IsServer(receive'[Len(receive) + 1])
            /\ receive'[Len(receive) + 1].id = announced'
            /\ \A j \in 1..Len(receive') : ~(j > Len(receive) + 1)
        BY <3>1, <1>5, <2>1, <2>3
      <4> QED
        BY <4>1 DEF ServerInv
    <3>2. CASE ~IsServer(m)
      <4>1. announced' = announced /\ server' = server /\ ~IsServer(receive'[Len(receive) + 1])
        BY <3>2, <1>2, <2>1, <2>3
      <4>2. CASE server = announced /\ \A i \in 1..Len(receive) : ~IsServer(receive[i])
        BY <4>1, <4>2, <2>1, <2>2 DEF ServerInv
      <4>3. ASSUME NEW i \in 1..Len(receive),
                   IsServer(receive[i]), receive[i].id = announced,
                   \A j \in 1..Len(receive) : j > i => ~IsServer(receive[j])
            PROVE  ServerInv'
        <5>1. i \in 1..Len(receive') /\ IsServer(receive'[i]) /\ receive'[i].id = announced'
          BY <4>1, <4>3, <2>1
        <5>2. \A j \in 1..Len(receive') : j > i => ~IsServer(receive'[j])
          BY <4>1, <4>3, <2>1, <2>2
        <5> QED
          BY <5>1, <5>2 DEF ServerInv
      <4> QED
        BY <4>2, <4>3 DEF ClientInv, ServerInv
    <3> QED
      BY <3>1, <3>2
  <2> QED
    BY <2>4, <2>5, <2>6, <2>7, <2>8, <2>9 DEF ClientInv
<1> QED
  BY <1>1, <1>3, <1>4, <1>5, ReceiveCases DEF ClientInv

-----------------------------------------------------------------------------
(* Steps of manage_mqtt_client *)

\* What Dispatch makes of a message: it has its effect and is gone, it is queued for the
\* motors, or it stays in hand.
Gone(m) == commands' = commands /\ hand' = hand /\ ~IsDrive(m)
QueuedUp(m) == IsDrive(m) /\ Joins(commands, m, commands') /\ hand' = hand
Held(m) ==
    /\ m.topic \in {"MotorCommand", "MotorConfiguration"} /\ Parses(m)
    /\ commands' = commands /\ hand' = <<m>>

LEMMA HandOnCases ==
    ASSUME TypeOK, NEW m \in Message, HandOn(m), Parses(m),
           m.topic \in {"MotorCommand", "MotorConfiguration"}
    PROVE  /\ \/ m.topic = "MotorCommand" /\ commands' = Append(commands, m) /\ hand' = <<>>
              \/ m.topic = "MotorConfiguration" /\ commands' = commands /\ hand' = <<>>
              \/ commands' = commands /\ hand' = <<m>>
           /\ commands' \in Seq(Message) /\ Len(commands') <= CommandCap
           /\ configs' \in Seq(Message) /\ Len(configs') <= ConfigCap
           /\ UNCHANGED <<requested, server>>
<1>1. /\ commands \in Seq(Message) /\ Len(commands) \in Nat /\ Len(commands) <= CommandCap
      /\ configs \in Seq(Message) /\ Len(configs) \in Nat /\ Len(configs) <= ConfigCap
      /\ CommandCap \in Nat /\ ConfigCap \in Nat
  BY ClientTypes DEF TypeOK
<1>2. CASE m.topic = "MotorCommand" /\ Len(commands) < CommandCap
  <2>1. commands' = Append(commands, m) /\ hand' = <<>> /\ configs' = configs
        /\ UNCHANGED <<requested, server>>
    BY <1>2 DEF HandOn
  <2>2. commands' \in Seq(Message) /\ Len(commands') = Len(commands) + 1
    BY <1>1, <2>1
  <2> QED
    BY <1>1, <1>2, <2>1, <2>2
<1>3. CASE m.topic = "MotorConfiguration" /\ Len(configs) < ConfigCap
  <2>1. configs' = Append(configs, m) /\ hand' = <<>> /\ commands' = commands
        /\ UNCHANGED <<requested, server>>
    BY <1>3 DEF HandOn
  <2>2. configs' \in Seq(Message) /\ Len(configs') = Len(configs) + 1
    BY <1>1, <2>1
  <2> QED
    BY <1>1, <1>3, <2>1, <2>2
<1>4. CASE ~(m.topic = "MotorCommand" /\ Len(commands) < CommandCap)
           /\ ~(m.topic = "MotorConfiguration" /\ Len(configs) < ConfigCap)
  BY <1>1, <1>4 DEF HandOn
<1> QED
  BY <1>2, <1>3, <1>4

LEMMA DispatchCases ==
    ASSUME TypeOK, hand = <<>>, NEW m \in Message, Dispatch(m)
    PROVE  /\ Gone(m) \/ QueuedUp(m) \/ Held(m)
           /\ server' = IF IsServer(m) THEN m.id ELSE server
           /\ commands' \in Seq(Message) /\ Len(commands') <= CommandCap
           /\ configs' \in Seq(Message) /\ Len(configs') <= ConfigCap
           /\ requested' \in BOOLEAN
<1>1. m.topic \in InboundTopic
  BY DEF Message
<1>2. CASE m.form = "binary" \/ m.topic = "OtaCheck" \/ ~Parses(m) \/ m.topic = "OtaConfig"
  <2>1. ~IsDrive(m)
    BY <1>2 DEF IsDrive, Parses
  <2>2. UNCHANGED <<commands, configs, hand>> /\ requested' \in {requested, TRUE}
    BY <1>2 DEF Dispatch, Ignore, Request, Configure
  <2>3. server' = IF IsServer(m) THEN m.id ELSE server
    BY <1>2 DEF Dispatch, Ignore, Request, Configure, IsServer, IsValid, Parses
  <2> QED
    BY <2>1, <2>2, <2>3 DEF TypeOK, Gone
<1>3. CASE m.form # "binary" /\ Parses(m) /\ m.topic \in {"MotorCommand", "MotorConfiguration"}
  <2>1. HandOn(m)
    BY <1>3 DEF Dispatch
  <2>2. /\ \/ m.topic = "MotorCommand" /\ commands' = Append(commands, m) /\ hand' = <<>>
           \/ m.topic = "MotorConfiguration" /\ commands' = commands /\ hand' = <<>>
           \/ commands' = commands /\ hand' = <<m>>
        /\ commands' \in Seq(Message) /\ Len(commands') <= CommandCap
        /\ configs' \in Seq(Message) /\ Len(configs') <= ConfigCap
        /\ UNCHANGED <<requested, server>>
    BY <1>3, <2>1, HandOnCases
  <2>3. ~IsServer(m) /\ requested' \in BOOLEAN
    BY <1>3, <2>2 DEF IsServer, TypeOK
  <2>4. CASE m.topic = "MotorCommand" /\ commands' = Append(commands, m) /\ hand' = <<>>
    <3>1. Joins(commands, m, commands')
      BY <2>4, ClientTypes, Joined
    <3> QED
      BY <1>3, <2>2, <2>3, <2>4, <3>1 DEF QueuedUp, IsDrive
  <2>5. CASE m.topic = "MotorConfiguration" /\ commands' = commands /\ hand' = <<>>
    BY <2>2, <2>3, <2>5 DEF Gone, IsDrive
  <2>6. CASE commands' = commands /\ hand' = <<m>>
    BY <1>3, <2>2, <2>3, <2>6 DEF Held
  <2> QED
    BY <2>2, <2>4, <2>5, <2>6
<1> QED
  BY <1>1, <1>2, <1>3 DEF InboundTopic

LEMMA HeldAlone ==
    ASSUME NEW m \in Message
    PROVE  /\ <<m>> \in Seq(Message) /\ Len(<<m>>) = 1 /\ <<m>>[1] = m
           /\ Numbers(<<m>>) = {m.id} /\ Drives(<<m>>) = DriveId(m)
<1>1. <<m>> = Append(<<>>, m)
  OBVIOUS
<1>2. Joins(<<>>, m, <<m>>)
  BY <1>1, NoMessages, Joined
<1> QED
  BY <1>2, NoMessages DEF Joins

\* The latest valid server, when the oldest message is taken.
LEMMA HandledServer ==
    ASSUME ServerInv, NEW m, Parts(receive, m, receive'), announced' = announced,
           server' = IF IsServer(m) THEN m.id ELSE server
    PROVE  ServerInv'
<1>1. /\ m = receive[1] /\ Len(receive) \in Nat /\ 1 \in 1..Len(receive)
      /\ Len(receive') = Len(receive) - 1
      /\ \A j \in 1..Len(receive') : /\ j + 1 \in 1..Len(receive) /\ j + 1 > 1
                                     /\ receive'[j] = receive[j + 1]
  BY DEF Parts
<1>2. CASE server = announced /\ \A i \in 1..Len(receive) : ~IsServer(receive[i])
  BY <1>1, <1>2 DEF ServerInv
<1>3. ASSUME NEW i \in 1..Len(receive),
             IsServer(receive[i]), receive[i].id = announced,
             \A j \in 1..Len(receive) : j > i => ~IsServer(receive[j])
      PROVE  ServerInv'
  <2>1. CASE i = 1
    <3>1. server' = announced'
      BY <1>1, <1>3, <2>1
    <3>2. \A j \in 1..Len(receive') : ~IsServer(receive'[j])
      BY <1>1, <1>3, <2>1
    <3> QED
      BY <3>1, <3>2 DEF ServerInv
  <2>2. CASE i > 1
    <3>1. i - 1 \in 1..Len(receive') /\ (i - 1) + 1 = i
      BY <1>1, <2>2
    <3>2. IsServer(receive'[i - 1]) /\ receive'[i - 1].id = announced'
      BY <1>1, <1>3, <3>1
    <3>3. ASSUME NEW j \in 1..Len(receive'), j > i - 1 PROVE ~IsServer(receive'[j])
      <4>1. j + 1 > i /\ j + 1 \in 1..Len(receive) /\ receive'[j] = receive[j + 1]
        BY <1>1, <3>3
      <4> QED
        BY <1>3, <4>1
    <3> QED
      BY <3>1, <3>2, <3>3 DEF ServerInv
  <2> QED
    BY <1>1, <2>1, <2>2
<1> QED
  BY <1>2, <1>3 DEF ServerInv

LEMMA HandleKeepsInv == ASSUME ClientInv, Handle PROVE ClientInv'
<1> DEFINE m == Head(receive)
<1>1. /\ hand = <<>> /\ receive # <<>> /\ receive' = Tail(receive) /\ Dispatch(m)
      /\ UNCHANGED <<delivered, paused, accepted, executed, announced>>
  BY DEF Handle, Idle
<1>2. Parts(receive, m, receive')
  BY <1>1, ClientTypes, Parted DEF ClientInv
<1> HIDE DEF m
<1>3. m \in Message /\ m = receive[1] /\ 1 \in 1..Len(receive)
  BY <1>2 DEF Parts
<1>4. /\ Gone(m) \/ QueuedUp(m) \/ Held(m)
      /\ server' = IF IsServer(m) THEN m.id ELSE server
      /\ commands' \in Seq(Message) /\ Len(commands') <= CommandCap
      /\ configs' \in Seq(Message) /\ Len(configs') <= ConfigCap
      /\ requested' \in BOOLEAN
  BY <1>1, <1>3, DispatchCases DEF ClientInv
<1>5. hand' = <<>> \/ hand' = <<m>>
  BY <1>1, <1>4 DEF Gone, QueuedUp, Held
<1>6. TypeOK'
  <2>1. hand' \in Seq(Message) /\ Len(hand') <= 1
    <3>1. CASE hand' = <<>>
      BY <3>1, NoMessages
    <3>2. CASE hand' = <<m>>
      BY <3>2, <1>3, HeldAlone
    <3> QED
      BY <1>5, <3>1, <3>2
  <2>2. receive' \in Seq(Message) /\ Len(receive') <= ReceiveCap
    <3>1. receive \in Seq(Message) /\ Len(receive) <= ReceiveCap /\ ReceiveCap \in Nat
      BY MqttAssumption DEF ClientInv, TypeOK
    <3> QED
      BY <1>2, <3>1 DEF Parts
  <2>3. server' \in 0..MessageCap
    BY <1>3, <1>4 DEF Message, ClientInv, TypeOK
  <2> QED
    BY <1>1, <1>4, <2>1, <2>2, <2>3 DEF ClientInv, TypeOK
<1>7. ServerInv'
  BY <1>1, <1>2, <1>4, HandledServer DEF ClientInv
<1>8. /\ Numbers(hand) = {} /\ Drives(hand) = {}
      /\ Numbers(receive) = {m.id} \cup Numbers(receive')
      /\ Drives(receive) = DriveId(m) \cup Drives(receive')
      /\ InOrder(receive') /\ Before({m.id}, Numbers(receive'))
  BY <1>1, <1>2, NoMessages DEF Parts, ClientInv, LineInv
<1>9. /\ Increasing(executed)' /\ ToSet(executed)' = ToSet(executed)
      /\ Before(ToSet(executed), Numbers(commands) \cup {m.id} \cup Numbers(receive'))
      /\ Before(Numbers(commands), {m.id} \cup Numbers(receive'))
      /\ Before(ToSet(executed) \cup Numbers(commands) \cup {m.id} \cup Numbers(receive'),
                {delivered' + 1})
  BY <1>1, <1>8 DEF ClientInv, LineInv, Before, Increasing
<1>10. /\ \A i \in 1..Len(receive') : Own(receive'[i])
       /\ Own(m)
  <2>1. \A i \in 1..Len(receive) : Own(receive[i])
    BY DEF ClientInv, OwnInv
  <2> QED
    BY <1>2, <1>3, <2>1 DEF Parts
<1>11. CASE Gone(m)
  <2>1. commands' = commands /\ hand' = <<>> /\ DriveId(m) = {}
    BY <1>1, <1>11 DEF Gone, DriveId
  <2>2. Numbers(hand') = {} /\ Drives(hand') = {} /\ Len(hand') = 0
    BY <2>1, NoMessages
  <2>3. LineInv'
    BY <1>8, <1>9, <2>1, <2>2 DEF ClientInv, LineInv, Before, InOrder
  <2>4. AcceptedInv'
    BY <1>1, <1>8, <2>1, <2>2 DEF ClientInv, AcceptedInv
  <2>5. KindInv' /\ OwnInv'
    BY <1>10, <2>1, <2>2 DEF ClientInv, KindInv, OwnInv
  <2> QED
    BY <1>6, <1>7, <2>3, <2>4, <2>5 DEF ClientInv
<1>12. CASE QueuedUp(m)
  <2>1. IsDrive(m) /\ Joins(commands, m, commands') /\ hand' = <<>>
    BY <1>1, <1>12 DEF QueuedUp
  <2>2. Numbers(hand') = {} /\ Drives(hand') = {} /\ Len(hand') = 0
    BY <2>1, NoMessages
  <2>3. /\ Numbers(commands') = Numbers(commands) \cup {m.id}
        /\ Drives(commands') = Drives(commands) \cup DriveId(m)
        /\ InOrder(commands')
    BY <1>9, <2>1 DEF Joins, ClientInv, LineInv, Before
  <2>4. LineInv'
    BY <1>8, <1>9, <2>2, <2>3 DEF LineInv, Before, InOrder
  <2>5. AcceptedInv'
    BY <1>1, <1>8, <2>2, <2>3 DEF ClientInv, AcceptedInv
  <2>6. \A i \in 1..Len(commands') : i \in 1..Len(commands) \/ i = Len(commands) + 1
    BY <2>1 DEF Joins
  <2>7. KindInv' /\ OwnInv'
    BY <1>10, <2>1, <2>2, <2>6 DEF Joins, ClientInv, KindInv, OwnInv
  <2> QED
    BY <1>6, <1>7, <2>4, <2>5, <2>7 DEF ClientInv
<1>13. CASE Held(m)
  <2>1. /\ m.topic \in {"MotorCommand", "MotorConfiguration"} /\ Parses(m)
        /\ commands' = commands /\ hand' = <<m>>
    BY <1>13 DEF Held
  <2>2. Numbers(hand') = {m.id} /\ Drives(hand') = DriveId(m) /\ Len(hand') = 1 /\ hand'[1] = m
    BY <1>3, <2>1, HeldAlone
  <2>3. LineInv'
    BY <1>8, <1>9, <2>1, <2>2 DEF ClientInv, LineInv, Before, InOrder
  <2>4. AcceptedInv'
    BY <1>1, <1>8, <2>1, <2>2 DEF ClientInv, AcceptedInv
  <2>5. \A i \in 1..Len(hand') : hand'[i] = m
    BY <2>2
  <2>6. KindInv' /\ OwnInv'
    BY <1>10, <2>1, <2>5 DEF ClientInv, KindInv, OwnInv
  <2> QED
    BY <1>6, <1>7, <2>3, <2>4, <2>6 DEF ClientInv
<1> QED
  BY <1>4, <1>11, <1>12, <1>13

LEMMA UnblockKeepsInv == ASSUME ClientInv, Unblock PROVE ClientInv'
<1> DEFINE m == Head(hand)
<1>1. /\ hand # <<>> /\ HandOn(m) /\ hand' = <<>>
      /\ UNCHANGED <<delivered, receive, paused, accepted, executed, announced>>
  BY DEF Unblock, Idle
<1>2. Parts(hand, m, Tail(hand))
  BY <1>1, ClientTypes, Parted DEF ClientInv
<1> HIDE DEF m
<1>3. m \in Message /\ m = hand[1] /\ 1 \in 1..Len(hand) /\ Len(hand) = 1
  BY <1>2 DEF Parts, ClientInv, TypeOK
<1>4. Numbers(hand) = {m.id} /\ Drives(hand) = DriveId(m)
  <2>1. \A i \in 1..Len(hand) : hand[i] = m
    BY <1>3
  <2>2. Drives(hand) = UNION {DriveId(hand[i]) : i \in 1..Len(hand)}
    BY ClientTypes, MessageQueue DEF ClientInv
  <2> QED
    BY <1>3, <2>1, <2>2 DEF Numbers
<1>5. Parses(m) /\ m.topic \in {"MotorCommand", "MotorConfiguration"} /\ Own(m)
  BY <1>3 DEF ClientInv, KindInv, OwnInv
<1>6. /\ \/ m.topic = "MotorCommand" /\ commands' = Append(commands, m)
         \/ m.topic = "MotorConfiguration" /\ commands' = commands
      /\ commands' \in Seq(Message) /\ Len(commands') <= CommandCap
      /\ configs' \in Seq(Message) /\ Len(configs') <= ConfigCap
      /\ UNCHANGED <<requested, server>>
  <2>1. <<m>> # <<>>
    OBVIOUS
  <2> QED
    BY <1>1, <1>3, <1>5, <2>1, HandOnCases DEF ClientInv
<1>7. <<>> \in Seq(Message) /\ Len(<<>>) = 0 /\ Numbers(hand') = {} /\ Drives(hand') = {}
  BY <1>1, NoMessages
<1>8. TypeOK'
  BY <1>1, <1>6, <1>7 DEF ClientInv, TypeOK
<1>9. ServerInv'
  BY <1>1, <1>6 DEF ClientInv, ServerInv
<1>10. /\ Numbers(receive') = Numbers(receive) /\ Drives(receive') = Drives(receive)
       /\ Increasing(executed)' /\ ToSet(executed)' = ToSet(executed) /\ InOrder(receive')
       /\ delivered' = delivered
  BY <1>1 DEF ClientInv, LineInv, Increasing
<1>11. CASE m.topic = "MotorCommand" /\ commands' = Append(commands, m)
  <2>1. Joins(commands, m, commands')
    BY <1>3, <1>11, ClientTypes, Joined DEF ClientInv
  <2>2. /\ Numbers(commands') = Numbers(commands) \cup {m.id}
        /\ Drives(commands') = Drives(commands) \cup DriveId(m)
        /\ InOrder(commands')
    BY <1>4, <2>1 DEF Joins, ClientInv, LineInv, Before
  <2>3. LineInv'
    BY <1>4, <1>7, <1>10, <2>2 DEF ClientInv, LineInv, Before
  <2>4. AcceptedInv'
    BY <1>1, <1>4, <1>7, <1>10, <2>2 DEF ClientInv, AcceptedInv
  <2>5. \A i \in 1..Len(commands') : i \in 1..Len(commands) \/ i = Len(commands) + 1
    BY <2>1 DEF Joins
  <2>6. KindInv' /\ OwnInv'
    BY <1>1, <1>5, <1>7, <1>11, <2>1, <2>5
       DEF Joins, ClientInv, KindInv, OwnInv, IsDrive
  <2> QED
    BY <1>8, <1>9, <2>3, <2>4, <2>6 DEF ClientInv
<1>12. CASE m.topic = "MotorConfiguration" /\ commands' = commands
  <2>1. DriveId(m) = {}
    BY <1>12 DEF DriveId, IsDrive
  <2>2. LineInv'
    BY <1>7, <1>10, <1>12 DEF ClientInv, LineInv, Before
  <2>3. AcceptedInv'
    BY <1>1, <1>4, <1>7, <1>10, <1>12, <2>1 DEF ClientInv, AcceptedInv
  <2>4. KindInv' /\ OwnInv'
    BY <1>1, <1>7, <1>12 DEF ClientInv, KindInv, OwnInv
  <2> QED
    BY <1>8, <1>9, <2>2, <2>3, <2>4 DEF ClientInv
<1> QED
  BY <1>6, <1>11, <1>12

-----------------------------------------------------------------------------
(* Steps of the motor controller *)

LEMMA ExecutedGrows ==
    ASSUME NEW s \in Seq(Nat), NEW n \in Nat, NEW r, r = Append(s, n)
    PROVE  /\ ToSet(r) = ToSet(s) \cup {n}
           /\ Increasing(s) /\ Before(ToSet(s), {n}) => Increasing(r)
<1>1. /\ Len(s) \in Nat /\ DOMAIN s = 1..Len(s)
      /\ r \in Seq(Nat) /\ Len(r) = Len(s) + 1 /\ r[Len(s) + 1] = n
      /\ \A i \in 1..Len(s) : r[i] = s[i]
  BY LenProperties
<1>2. DOMAIN r = 1..Len(s) \cup {Len(s) + 1}
  BY <1>1, LenProperties
<1>3. ToSet(r) = ToSet(s) \cup {n}
  BY <1>1, <1>2 DEF ToSet
<1>4. ASSUME Increasing(s), Before(ToSet(s), {n}) PROVE Increasing(r)
  <2>1. ASSUME NEW i \in DOMAIN r, NEW j \in DOMAIN r, i < j PROVE r[i] < r[j]
    <3>1. i \in 1..Len(s) /\ r[i] = s[i] /\ s[i] \in ToSet(s)
      BY <1>1, <1>2, <2>1 DEF ToSet
    <3>2. CASE j = Len(s) + 1
      BY <1>1, <1>4, <3>1, <3>2 DEF Before
    <3>3. CASE j \in 1..Len(s)
      BY <1>1, <1>4, <2>1, <3>1, <3>3 DEF Increasing
    <3> QED
      BY <1>2, <3>2, <3>3
  <2> QED
    BY <2>1 DEF Increasing
<1> QED
  BY <1>3, <1>4

LEMMA TakeCommandKeepsInv == ASSUME ClientInv, TakeCommand PROVE ClientInv'
<1> DEFINE m == Head(commands)
<1>1. /\ commands # <<>> /\ commands' = Tail(commands) /\ executed' = Append(executed, m.id)
      /\ UNCHANGED <<delivered, receive, hand, configs, requested, server, paused, accepted,
                     announced>>
  BY DEF TakeCommand
<1>2. Parts(commands, m, commands')
  BY <1>1, ClientTypes, Parted DEF ClientInv
<1> HIDE DEF m
<1>3. m \in Message /\ m = commands[1] /\ 1 \in 1..Len(commands)
  BY <1>2 DEF Parts
<1>4. IsDrive(m)
  BY <1>3 DEF ClientInv, KindInv
<1>5. m.id \in Nat /\ m.id \in 1..MessageCap
  BY <1>3, ClientTypes DEF Message, ClientInv
<1>6. /\ Numbers(commands) = {m.id} \cup Numbers(commands')
      /\ Drives(commands) = {m.id} \cup Drives(commands')
      /\ InOrder(commands') /\ Before({m.id}, Numbers(commands'))
  BY <1>2, <1>4 DEF Parts, ClientInv, LineInv, DriveId
<1>7. /\ ToSet(executed') = ToSet(executed) \cup {m.id}
      /\ Increasing(executed')
  <2>1. Before(ToSet(executed), {m.id}) /\ Increasing(executed)
    BY <1>6 DEF ClientInv, LineInv, Before
  <2> QED
    BY <1>1, <1>5, <2>1, ClientTypes, ExecutedGrows DEF ClientInv
<1>8. TypeOK'
  <2>1. executed' \in Seq(1..MessageCap)
    BY <1>1, <1>5 DEF ClientInv, TypeOK
  <2>2. commands' \in Seq(Message) /\ Len(commands') <= CommandCap
    <3>1. Len(commands) <= CommandCap /\ CommandCap \in Nat
      BY MqttAssumption DEF ClientInv, TypeOK
    <3> QED
      BY <1>2, <3>1 DEF Parts
  <2> QED
    BY <1>1, <2>1, <2>2 DEF ClientInv, TypeOK
<1>9. LineInv'
  <2>1. /\ Numbers(hand)' = Numbers(hand) /\ Numbers(receive)' = Numbers(receive)
        /\ InOrder(receive)' /\ delivered' = delivered
    BY <1>1 DEF ClientInv, LineInv, Numbers, InOrder
  <2> QED
    BY <1>6, <1>7, <2>1 DEF ClientInv, LineInv, Before
<1>10. AcceptedInv'
  BY <1>1, <1>6, <1>7 DEF ClientInv, AcceptedInv
<1>11. KindInv' /\ OwnInv'
  <2>1. \A i \in 1..Len(commands') : i + 1 \in 1..Len(commands)
                                     /\ commands'[i] = commands[i + 1]
    BY <1>2 DEF Parts
  <2> QED
    BY <1>1, <2>1 DEF ClientInv, KindInv, OwnInv
<1>12. ServerInv'
  BY <1>1 DEF ClientInv, ServerInv
<1> QED
  BY <1>8, <1>9, <1>10, <1>11, <1>12 DEF ClientInv

\* What touches neither the messages' way nor the server.
LEMMA AsideKeepsInv ==
    ASSUME ClientInv, TypeOK',
           UNCHANGED <<delivered, receive, hand, commands, server, accepted, executed, announced>>
    PROVE  ClientInv'
<1>1. LineInv'
  BY DEF ClientInv, LineInv, Increasing, InOrder, Numbers, ToSet, Before
<1> QED
  BY <1>1 DEF ClientInv, AcceptedInv, KindInv, OwnInv, ServerInv

LEMMA OtherStepsKeepInv ==
    ASSUME ClientInv, TakeConfig \/ Pause \/ Resume
    PROVE  ClientInv'
<1>1. CASE TakeConfig
  <2>1. /\ configs # <<>> /\ configs' = Tail(configs)
        /\ UNCHANGED <<delivered, receive, hand, commands, requested, server, paused, accepted,
                       executed, announced>>
    BY <1>1 DEF TakeConfig
  <2>2. Parts(configs, Head(configs), configs')
    BY <2>1, ClientTypes, Parted DEF ClientInv
  <2>3. configs' \in Seq(Message) /\ Len(configs') <= ConfigCap
    <3>1. Len(configs) <= ConfigCap /\ ConfigCap \in Nat
      BY MqttAssumption DEF ClientInv, TypeOK
    <3> QED
      BY <2>2, <3>1 DEF Parts
  <2>4. TypeOK'
    BY <2>1, <2>3 DEF ClientInv, TypeOK
  <2> QED
    BY <2>1, <2>4, AsideKeepsInv
<1>2. CASE Pause \/ Resume
  <2>1. TypeOK'
    BY <1>2 DEF Pause, Resume, ClientInv, TypeOK
  <2> QED
    BY <1>2, <2>1, AsideKeepsInv DEF Pause, Resume
<1> QED
  BY <1>1, <1>2

-----------------------------------------------------------------------------
(* The theorems about what comes in *)

LEMMA ClientInitInv == Init => ClientInv
<1> SUFFICES ASSUME Init PROVE ClientInv
  OBVIOUS
<1>1. /\ receive = <<>> /\ hand = <<>> /\ commands = <<>> /\ configs = <<>> /\ executed = <<>>
      /\ delivered = 0 /\ requested = FALSE /\ server = 0 /\ paused = FALSE /\ announced = 0
      /\ accepted = {}
  BY DEF Init
<1>2. /\ <<>> \in Seq(Message) /\ Len(<<>>) = 0 /\ <<>> \in Seq(1..MessageCap)
      /\ Numbers(<<>>) = {} /\ Drives(<<>>) = {} /\ InOrder(<<>>)
  BY NoMessages, EmptySeq
<1>3. DOMAIN <<>> = {} /\ ToSet(<<>>) = {} /\ Increasing(<<>>)
  <2>1. DOMAIN <<>> = {}
    OBVIOUS
  <2> QED
    BY <2>1 DEF ToSet, Increasing
<1>4. TypeOK
  <2>1. /\ ReceiveCap \in Nat /\ CommandCap \in Nat /\ ConfigCap \in Nat
        /\ MessageCap \in Nat
    BY MqttAssumption
  <2> QED
    <3>1. /\ delivered \in 0..MessageCap /\ server \in 0..MessageCap /\ announced \in 0..MessageCap
          /\ Len(receive) <= ReceiveCap /\ Len(hand) <= 1 /\ Len(commands) <= CommandCap
          /\ Len(configs) <= ConfigCap
      BY <1>1, <1>2, <2>1
    <3>2. accepted \subseteq 1..MessageCap /\ executed \in Seq(1..MessageCap)
      BY <1>1, <1>2
    <3> QED
      BY <1>1, <1>2, <3>1, <3>2 DEF TypeOK
<1>5. LineInv
  BY <1>1, <1>2, <1>3 DEF LineInv, Before
<1>6. AcceptedInv
  BY <1>1, <1>2, <1>3 DEF AcceptedInv
<1>7. \A i : i \notin 1..Len(<<>>)
  BY <1>2
<1> QED
  BY <1>1, <1>4, <1>5, <1>6, <1>7 DEF ClientInv, KindInv, OwnInv, ServerInv

LEMMA ClientNextInv == ClientInv /\ [Next]_vars => ClientInv'
<1> SUFFICES ASSUME ClientInv, [Next]_vars PROVE ClientInv'
  OBVIOUS
<1>1. CASE UNCHANGED vars
  <2>1. TypeOK'
    BY <1>1 DEF vars, ClientInv, TypeOK
  <2> QED
    BY <1>1, <2>1, AsideKeepsInv DEF vars
<1>2. CASE Next
  BY <1>2, DeliverKeepsInv, HandleKeepsInv, UnblockKeepsInv, TakeCommandKeepsInv,
     OtherStepsKeepInv DEF Next
<1> QED
  BY <1>1, <1>2

THEOREM ClientInvariance == Spec => []ClientInv
<1> QED
  BY ClientInitInv, ClientNextInv, PTL DEF Spec

LEMMA Chain ==
    ASSUME NEW a \in Seq(Nat), NEW b \in Seq(Nat)
    PROVE  /\ a \o b \in Seq(Nat) /\ Len(a \o b) = Len(a) + Len(b)
           /\ \A i \in 1..Len(a) : (a \o b)[i] = a[i]
           /\ \A i \in 1..Len(b) : (a \o b)[Len(a) + i] = b[i]
<1>1. Len(a) \in Nat /\ Len(b) \in Nat
  BY LenProperties
<1>2. /\ a \o b \in Seq(Nat) /\ Len(a \o b) = Len(a) + Len(b)
      /\ \A i \in 1..Len(a) + Len(b) : (a \o b)[i] = IF i <= Len(a) THEN a[i] ELSE b[i - Len(a)]
  BY ConcatProperties
<1>3. ASSUME NEW i \in 1..Len(a) PROVE (a \o b)[i] = a[i]
  <2>1. i \in 1..Len(a) + Len(b) /\ i <= Len(a)
    BY <1>1
  <2> QED
    BY <1>2, <2>1, Zenon
<1>4. ASSUME NEW i \in 1..Len(b) PROVE (a \o b)[Len(a) + i] = b[i]
  <2>1. Len(a) + i \in 1..Len(a) + Len(b) /\ ~(Len(a) + i <= Len(a)) /\ (Len(a) + i) - Len(a) = i
    BY <1>1
  <2>2. (a \o b)[Len(a) + i] = b[(Len(a) + i) - Len(a)]
    BY <1>2, <2>1, Zenon
  <2> QED
    BY <2>1, <2>2
<1> QED
  BY <1>2, <1>3, <1>4

\* Numbers of one sequence after those of another.
LEMMA ChainInOrder ==
    ASSUME NEW a \in Seq(Nat), NEW b \in Seq(Nat), Increasing(a), Increasing(b),
           Before(ToSet(a), ToSet(b))
    PROVE  /\ a \o b \in Seq(Nat) /\ Increasing(a \o b)
           /\ ToSet(a \o b) \subseteq ToSet(a) \cup ToSet(b)
<1> DEFINE w == a \o b
<1>1. /\ w \in Seq(Nat) /\ Len(w) = Len(a) + Len(b)
      /\ \A i \in 1..Len(a) : w[i] = a[i]
      /\ \A i \in 1..Len(b) : w[Len(a) + i] = b[i]
  BY Chain
<1>2. /\ Len(a) \in Nat /\ Len(b) \in Nat
      /\ DOMAIN a = 1..Len(a) /\ DOMAIN b = 1..Len(b) /\ DOMAIN w = 1..Len(w)
  BY <1>1, LenProperties
<1> HIDE DEF w
<1>3. \A i \in 1..Len(w) : i \in 1..Len(a) \/ (i - Len(a) \in 1..Len(b) /\ i = Len(a) + (i - Len(a)))
  BY <1>1, <1>2
<1>4. \A i \in 1..Len(w) : \/ i \in 1..Len(a) /\ w[i] = a[i]
                           \/ i - Len(a) \in 1..Len(b) /\ w[i] = b[i - Len(a)]
  BY <1>1, <1>3
<1>5. Increasing(w)
  <2> SUFFICES ASSUME NEW i \in 1..Len(w), NEW j \in 1..Len(w), i < j PROVE w[i] < w[j]
    BY <1>2 DEF Increasing
  <2>1. CASE i \in 1..Len(a) /\ j \in 1..Len(a)
    BY <2>1, <1>1, <1>2 DEF Increasing
  <2>2. CASE i \in 1..Len(a) /\ j - Len(a) \in 1..Len(b)
    <3>1. w[i] = a[i] /\ w[j] = b[j - Len(a)]
      BY <2>2, <1>2, <1>4
    <3>2. a[i] \in ToSet(a) /\ b[j - Len(a)] \in ToSet(b)
      BY <2>2, <1>2 DEF ToSet
    <3> QED
      BY <3>1, <3>2 DEF Before
  <2>3. CASE i - Len(a) \in 1..Len(b)
    <3>1. j - Len(a) \in 1..Len(b) /\ i - Len(a) < j - Len(a)
      BY <2>3, <1>1, <1>2
    <3>2. w[i] = b[i - Len(a)] /\ w[j] = b[j - Len(a)]
      BY <2>3, <3>1, <1>2, <1>4
    <3> QED
      BY <2>3, <3>1, <3>2, <1>2 DEF Increasing
  <2> QED
    BY <1>3, <2>1, <2>2, <2>3
<1>6. ToSet(w) \subseteq ToSet(a) \cup ToSet(b)
  BY <1>2, <1>4 DEF ToSet
<1> QED
  BY <1>1, <1>5, <1>6 DEF w

LEMMA IdsInOrder ==
    ASSUME NEW q \in Seq(Message), InOrder(q)
    PROVE  Ids(q) \in Seq(Nat) /\ Increasing(Ids(q)) /\ ToSet(Ids(q)) = Numbers(q)
<1>1. /\ Len(q) \in Nat /\ DOMAIN q = 1..Len(q) /\ \A i \in 1..Len(q) : q[i].id \in Nat
  BY MessageQueue, MqttAssumption
<1>2. Ids(q) = [i \in 1..Len(q) |-> q[i].id]
  BY <1>1 DEF Ids
<1>3. DOMAIN Ids(q) = 1..Len(q) /\ \A i \in 1..Len(q) : Ids(q)[i] = q[i].id
  BY <1>2
<1>4. Ids(q) \in Seq(Nat)
  BY <1>1, <1>2
<1>5. Increasing(Ids(q))
  BY <1>3 DEF Increasing, InOrder
<1>6. ToSet(Ids(q)) = Numbers(q)
  BY <1>3 DEF ToSet, Numbers
<1> QED
  BY <1>4, <1>5, <1>6

LEMMA LineIsIncreasing == ASSUME ClientInv PROVE Increasing(executed \o Waiting)
<1> DEFINE c == Ids(commands)
           h == Ids(hand)
           r == Ids(receive)
<1>1. /\ executed \in Seq(Nat) /\ commands \in Seq(Message) /\ hand \in Seq(Message)
      /\ receive \in Seq(Message)
  BY ClientTypes DEF ClientInv
<1>2. InOrder(commands) /\ InOrder(hand) /\ InOrder(receive)
  <2>1. Len(hand) \in Nat /\ Len(hand) <= 1
    BY ClientTypes DEF ClientInv, TypeOK
  <2>2. \A i, j \in 1..Len(hand) : ~(i < j)
    BY <2>1
  <2> QED
    BY <2>2 DEF ClientInv, LineInv, InOrder
<1>3. /\ c \in Seq(Nat) /\ Increasing(c) /\ ToSet(c) = Numbers(commands)
      /\ h \in Seq(Nat) /\ Increasing(h) /\ ToSet(h) = Numbers(hand)
      /\ r \in Seq(Nat) /\ Increasing(r) /\ ToSet(r) = Numbers(receive)
  BY <1>1, <1>2, IdsInOrder
<1>4. executed \o Waiting = executed \o (c \o (h \o r))
  BY DEF Waiting
<1> HIDE DEF c, h, r
<1>5. /\ h \o r \in Seq(Nat) /\ Increasing(h \o r)
      /\ ToSet(h \o r) \subseteq Numbers(hand) \cup Numbers(receive)
  <2>1. Before(ToSet(h), ToSet(r))
    BY <1>3 DEF ClientInv, LineInv
  <2> QED
    BY <1>3, <2>1, ChainInOrder
<1> DEFINE hr == h \o r
<1> HIDE DEF hr
<1>6. /\ c \o hr \in Seq(Nat) /\ Increasing(c \o hr)
      /\ ToSet(c \o hr) \subseteq Numbers(commands) \cup Numbers(hand) \cup Numbers(receive)
  <2>1. hr \in Seq(Nat) /\ Increasing(hr) /\ ToSet(hr) \subseteq Numbers(hand) \cup Numbers(receive)
    BY <1>5 DEF hr
  <2>2. Before(ToSet(c), ToSet(hr))
    BY <1>3, <2>1 DEF ClientInv, LineInv, Before
  <2>3. /\ c \o hr \in Seq(Nat) /\ Increasing(c \o hr)
        /\ ToSet(c \o hr) \subseteq ToSet(c) \cup ToSet(hr)
    BY <1>3, <2>1, <2>2, ChainInOrder
  <2> QED
    BY <1>3, <2>1, <2>3
<1> DEFINE chr == c \o hr
<1> HIDE DEF chr
<1>7. Increasing(executed \o chr)
  <2>1. chr \in Seq(Nat) /\ Increasing(chr)
        /\ ToSet(chr) \subseteq Numbers(commands) \cup Numbers(hand) \cup Numbers(receive)
    BY <1>6 DEF chr
  <2>2. Before(ToSet(executed), ToSet(chr)) /\ Increasing(executed)
    BY <2>1 DEF ClientInv, LineInv, Before
  <2> QED
    BY <1>1, <2>1, <2>2, ChainInOrder
<1> QED
  BY <1>4, <1>7 DEF hr, chr

\* mqtt_client.rs, lines 42-70: whatever is accepted in MQTT_RECEIVE is executed in the
\* order of its delivery, once, for every depth of the queues and number of deliveries.
THEOREM CommandsAreKept == Spec => []NothingAcceptedIsLost
<1>1. ClientInv => NothingAcceptedIsLost
  BY LineIsIncreasing DEF NothingAcceptedIsLost, ClientInv, AcceptedInv
<1> QED
  BY <1>1, ClientInvariance, PTL

\* topics.rs, lines 117-130: a board acts on its own messages and on the fleet's, however
\* many boards share the broker.
THEOREM OthersAreIgnored == Spec => []OnlyMine
<1>1. ClientInv => OnlyMine
  <2> SUFFICES ASSUME ClientInv,
                      NEW message \in ToSet(receive) \cup ToSet(hand) \cup ToSet(commands)
               PROVE  message.device \in {DeviceId, "fleet"}
    BY DEF OnlyMine
  <2>1. /\ DOMAIN receive = 1..Len(receive) /\ DOMAIN hand = 1..Len(hand)
        /\ DOMAIN commands = 1..Len(commands)
    BY ClientTypes, LenProperties DEF ClientInv
  <2>2. \/ \E i \in 1..Len(receive) : message = receive[i]
        \/ \E i \in 1..Len(hand) : message = hand[i]
        \/ \E i \in 1..Len(commands) : message = commands[i]
    BY <2>1 DEF ToSet
  <2> QED
    BY <2>2 DEF ClientInv, OwnInv, Own
<1> QED
  BY <1>1, ClientInvariance, PTL

\* mqtt_client.rs, lines 75-95, and README.md, line 46: with nothing left to handle, the
\* server in force is the latest valid one that was accepted.
THEOREM LatestServerApplies == Spec => []ConfigurationApplies
<1>1. ClientInv => ConfigurationApplies
  <2> SUFFICES ASSUME ClientInv, receive = <<>> PROVE server = announced
    BY DEF ConfigurationApplies, Settled
  <2>1. \A i : i \notin 1..Len(receive)
    BY NoMessages
  <2> QED
    BY <2>1 DEF ClientInv, ServerInv
<1> QED
  BY <1>1, ClientInvariance, PTL

=============================================================================
