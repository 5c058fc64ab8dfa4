--------------------------- MODULE PowerDownProofs ---------------------------
(* The announcement of a shutdown, for every depth of POWER_EVENTS and of     *)
(* SHUTDOWN_REQUESTS and whatever else the display is given to draw; and the  *)
(* types of both tasks.                                                       *)
EXTENDS PowerDown, SequenceTheorems, TLAPS

-----------------------------------------------------------------------------
(* The inductive invariant *)

\* From the decision to power off on there is a reason for it.
IInv ==
    /\ events \in Seq(Button!PowerEvent)
    /\ requests \in Seq(Button!ShutdownReason)
    /\ buttonPc \in {"announce", "notice", "off"} => reason \in Button!ShutdownReason
    /\ AnnouncedOnce

LEMMA Queue ==
    ASSUME IInv
    PROVE  /\ Len(events) \in Nat /\ DOMAIN events = 1..Len(events)
           /\ \A i \in Notices : i \in 1..Len(events)
  BY LenProperties DEF IInv, Notices

\* A step that leaves the queue alone, the announcement as far as it was, and the display
\* on its last screen if it was there.
LEMMA SameQueue ==
    ASSUME IInv, events' = events, requests' \in Seq(Button!ShutdownReason),
           Announced' <=> Announced, Farewell' <=> Farewell,
           Announced => reason' = reason /\ (buttonPc = "off" => buttonPc' = "off"),
           Farewell => view' = view, latch' = latch,
           buttonPc' \in {"announce", "notice", "off"} => reason' \in Button!ShutdownReason
    PROVE  IInv'
<1>1. Notices' = Notices
  BY DEF Notices
<1>2. /\ Notices' = IF Announced' /\ ~Farewell' THEN {Len(events')} ELSE {}
      /\ \A i \in Notices' : events'[i] = reason'
  BY <1>1 DEF IInv, AnnouncedOnce
<1>3. Farewell' => Announced' /\ view' = Screen!NoticeView(reason')
  BY DEF IInv, AnnouncedOnce, Screen!NoticeView
<1>4. latch' = "released" => buttonPc' = "off" /\ reason' # "None"
  BY DEF IInv, AnnouncedOnce, Announced
<1> QED
  BY <1>2, <1>3, <1>4 DEF IInv, AnnouncedOnce, Screen!NoticeView

-----------------------------------------------------------------------------
(* Steps of the button *)

LEMMA ShortPressKeepsInv ==
    ASSUME IInv, Button!ShortPress, UNCHANGED screenOnly
    PROVE  IInv'
<1>1. /\ buttonPc = "held" /\ buttonPc' = "release"
      /\ UNCHANGED <<line, lifted, reason, latch, requests, pc, view>>
      /\ events' = events \/ events' = Append(events, "ShortPress")
  BY DEF Button!ShortPress, screenOnly
<1>2. Notices = {} /\ ~Announced /\ ~Farewell
  BY <1>1 DEF IInv, AnnouncedOnce, Announced
<1>3. events' \in Seq(Button!PowerEvent) /\ Notices' = {}
  <2>1. CASE events' = events
    BY <1>2, <2>1 DEF IInv, Notices
  <2>2. CASE events' = Append(events, "ShortPress")
    <3>1. /\ events' \in Seq(Button!PowerEvent) /\ Len(events') = Len(events) + 1
          /\ events'[Len(events) + 1] = "ShortPress"
          /\ \A i \in 1..Len(events) : events'[i] = events[i]
      BY <2>2, Queue DEF IInv, Button!PowerEvent
    <3>2. DOMAIN events' = 1..Len(events) \cup {Len(events) + 1}
      BY <3>1, Queue, LenProperties
    <3> QED
      BY <1>2, <3>1, <3>2, Queue DEF Notices
  <2> QED
    BY <1>1, <2>1, <2>2
<1> QED
  BY <1>1, <1>2, <1>3 DEF IInv, AnnouncedOnce, Announced, Farewell

LEMMA AnnounceKeepsInv ==
    ASSUME IInv, Button!Announce, UNCHANGED screenOnly
    PROVE  IInv'
<1>1. /\ buttonPc = "announce" /\ buttonPc' = "notice"
      /\ UNCHANGED <<line, lifted, reason, latch, requests, pc, view>>
      /\ events' = Append(events, reason)
  BY DEF Button!Announce, Button!buttonVars, screenOnly
<1>2. Notices = {} /\ ~Announced /\ ~Farewell /\ reason \in Button!ShutdownReason
      /\ latch # "released"
  BY <1>1 DEF IInv, AnnouncedOnce, Announced
<1>3. /\ events' \in Seq(Button!PowerEvent) /\ Len(events') = Len(events) + 1
      /\ events'[Len(events) + 1] = reason
      /\ \A i \in 1..Len(events) : events'[i] = events[i]
  BY <1>1, <1>2, Queue DEF IInv, Button!PowerEvent
<1>4. DOMAIN events' = 1..Len(events) \cup {Len(events) + 1}
  BY <1>3, Queue, LenProperties
<1>5. reason # "ShortPress"
  BY <1>2 DEF Button!ShutdownReason
<1>6. Notices' = {Len(events')}
  BY <1>2, <1>3, <1>4, <1>5, Queue DEF Notices
<1>7. Announced' /\ ~Farewell'
  BY <1>1, <1>2 DEF Announced, Farewell
<1> QED
  BY <1>1, <1>2, <1>3, <1>6, <1>7 DEF IInv, AnnouncedOnce

LEMMA CutPowerKeepsInv ==
    ASSUME IInv, Button!CutPower, UNCHANGED screenOnly
    PROVE  IInv'
<1>1. /\ buttonPc = "notice" /\ buttonPc' = "off" /\ latch' = "released"
      /\ UNCHANGED <<reason, events, requests, pc, view>>
  BY DEF Button!CutPower, screenOnly
<1>2. Announced /\ Announced' /\ Farewell' = Farewell /\ Notices' = Notices
  BY <1>1 DEF Announced, Farewell, Notices
<1>3. reason \in Button!ShutdownReason /\ reason # "None"
  BY <1>1 DEF IInv, Button!ShutdownReason
<1> QED
  BY <1>1, <1>2, <1>3 DEF IInv, AnnouncedOnce, Screen!NoticeView

\* Up to the decision nothing has been announced; HoldExpires and TakeRequest take it.
LEMMA UpToDecision ==
    ASSUME IInv, UNCHANGED screenOnly,
           \/ Button!PowerOnReleased \/ Button!PowerOnDebounced \/ Button!Pressed
           \/ Button!Spike \/ Button!Hold \/ Button!HoldExpires \/ Button!ReleaseDebounced
           \/ Button!TakeRequest
    PROVE  IInv'
<1>1. /\ buttonPc \notin {"announce", "notice", "off"} /\ buttonPc' \notin {"notice", "off"}
      /\ UNCHANGED <<events, latch, pc, view>>
      /\ requests' \in Seq(Button!ShutdownReason)
      /\ buttonPc' = "announce" => reason' \in Button!ShutdownReason
  <2>1. CASE \/ Button!PowerOnReleased \/ Button!PowerOnDebounced \/ Button!Pressed
             \/ Button!Spike \/ Button!Hold \/ Button!ReleaseDebounced
    BY <2>1 DEF Button!PowerOnReleased, Button!PowerOnDebounced, Button!Pressed, Button!Spike,
       Button!Hold, Button!ReleaseDebounced, Button!WaitAt, screenOnly, IInv
  <2>2. CASE Button!HoldExpires
    BY <2>2 DEF Button!HoldExpires, Button!ShutdownReason, screenOnly, IInv
  <2>3. CASE Button!TakeRequest
    <3>1. requests # <<>> /\ requests \in Seq(Button!ShutdownReason)
      BY <2>3 DEF Button!TakeRequest, IInv
    <3>2. Tail(requests) \in Seq(Button!ShutdownReason)
          /\ Head(requests) \in Button!ShutdownReason
      BY <3>1
    <3> QED
      BY <2>3, <3>2 DEF Button!TakeRequest, Button!buttonVars, screenOnly
  <2> QED
    BY <2>1, <2>2, <2>3
<1> QED
  BY <1>1, SameQueue DEF Announced, Farewell

LEMMA ButtonKeepsInv == ASSUME IInv, ButtonTask PROVE IInv'
  BY ShortPressKeepsInv, AnnounceKeepsInv, CutPowerKeepsInv, UpToDecision
     DEF ButtonTask, Button!Task

-----------------------------------------------------------------------------
(* Steps of the display *)

\* An event is taken off the queue.
LEMMA TakenEvent ==
    ASSUME IInv, events # <<>>, events' = Tail(events)
    PROVE  /\ Len(events) > 0 /\ 1 \in DOMAIN events /\ Head(events) = events[1]
           /\ events' \in Seq(Button!PowerEvent) /\ Len(events') = Len(events) - 1
           /\ Notices' = {i \in 1..Len(events) - 1 : i + 1 \in Notices}
           /\ \A i \in 1..Len(events) - 1 : events'[i] = events[i + 1]
<1>1. /\ Len(events) \in Nat /\ Len(events) > 0 /\ DOMAIN events = 1..Len(events)
      /\ Head(events) = events[1]
      /\ events' \in Seq(Button!PowerEvent) /\ Len(events') = Len(events) - 1
      /\ \A i \in 1..Len(events) - 1 : events'[i] = events[i + 1]
  BY HeadTailProperties, EmptySeq, LenProperties DEF IInv
<1>2. DOMAIN events' = 1..Len(events) - 1
  BY <1>1, LenProperties
<1>3. \A i \in 1..Len(events) - 1 : i + 1 \in 1..Len(events)
  BY <1>1
<1> QED
  BY <1>1, <1>2, <1>3 DEF Notices

LEMMA ShortPressedKeepsInv ==
    ASSUME IInv, Screen!ShortPressed, UNCHANGED buttonOnly
    PROVE  IInv'
<1>1. /\ pc = "wait" /\ pc' \in {"wait", "drawing"} /\ events # <<>>
      /\ Head(events) = "ShortPress" /\ events' = Tail(events)
      /\ UNCHANGED <<buttonPc, reason, latch, requests>>
  BY DEF Screen!ShortPressed, Screen!PowerArm, Screen!DrawPage, Screen!Draw, Screen!Record,
         buttonOnly
<1>2. ~Farewell /\ ~Farewell' /\ (Announced' <=> Announced)
  BY <1>1 DEF Farewell, Announced
<1>3. /\ Len(events) \in Nat /\ Len(events) > 0 /\ events[1] = "ShortPress"
      /\ events' \in Seq(Button!PowerEvent) /\ Len(events') = Len(events) - 1
      /\ Notices' = {i \in 1..Len(events) - 1 : i + 1 \in Notices}
      /\ \A i \in 1..Len(events) - 1 : events'[i] = events[i + 1]
  BY <1>1, TakenEvent, Queue
<1>4. 1 \notin Notices
  BY <1>3 DEF Notices
<1>5. Notices = IF Announced THEN {Len(events)} ELSE {}
  BY <1>2 DEF IInv, AnnouncedOnce
<1>6. Notices' = IF Announced THEN {Len(events) - 1} ELSE {}
  <2>1. CASE Announced
    <3>1. Len(events) # 1
      BY <1>4, <1>5, <2>1
    <3> QED
      BY <1>3, <1>5, <2>1, <3>1
  <2>2. CASE ~Announced
    BY <1>3, <1>5, <2>2
  <2> QED
    BY <2>1, <2>2
<1>7. \A i \in Notices' : events'[i] = reason'
  BY <1>1, <1>3 DEF IInv, AnnouncedOnce
<1> QED
  BY <1>1, <1>2, <1>3, <1>6, <1>7 DEF IInv, AnnouncedOnce

LEMMA ShuttingDownKeepsInv ==
    ASSUME IInv, Screen!ShuttingDown, UNCHANGED buttonOnly
    PROVE  IInv'
<1>1. /\ pc = "wait" /\ pc' = "farewell" /\ events # <<>>
      /\ Head(events) \in Screen!ShutdownReason /\ events' = Tail(events)
      /\ view' = Screen!NoticeView(Head(events))
      /\ UNCHANGED <<buttonPc, reason, latch, requests>>
  BY DEF Screen!ShuttingDown, Screen!PowerArm, buttonOnly
<1>2. ~Farewell /\ Farewell' /\ (Announced' <=> Announced)
  BY <1>1 DEF Farewell, Announced
<1>3. /\ Len(events) \in Nat /\ Len(events) > 0 /\ Head(events) = events[1] /\ 1 \in DOMAIN events
      /\ events' \in Seq(Button!PowerEvent) /\ Len(events') = Len(events) - 1
      /\ Notices' = {i \in 1..Len(events) - 1 : i + 1 \in Notices}
  BY <1>1, TakenEvent, Queue
<1>4. 1 \in Notices
  BY <1>1, <1>3 DEF Notices, Screen!ShutdownReason
<1>5. Announced /\ Len(events) = 1 /\ events[1] = reason
  BY <1>2, <1>4 DEF IInv, AnnouncedOnce
<1>6. Notices' = {}
  BY <1>3, <1>5
<1>7. view' = Screen!NoticeView(reason')
  BY <1>1, <1>3, <1>5
<1> QED
  BY <1>1, <1>2, <1>3, <1>5, <1>6, <1>7 DEF IInv, AnnouncedOnce

\* What else the display does; from the last screen on it only ends its draw.
LEMMA OtherTakesKeepInv ==
    ASSUME IInv, UNCHANGED buttonOnly,
           \/ Screen!InitDone \/ Screen!InitFails \/ Screen!DrawEnds \/ Screen!TakeNetwork
           \/ Screen!TakeOta \/ Screen!TakeBroker \/ Screen!TakeCharger
    PROVE  IInv'
<1>1. /\ events' = events /\ (Farewell' <=> Farewell) /\ (Farewell => view' = view)
  <2>1. CASE Screen!InitDone \/ Screen!InitFails
    BY <2>1 DEF Screen!InitDone, Screen!InitFails, Screen!DrawPage, Screen!Draw, Farewell
  <2>2. CASE Screen!DrawEnds
    BY <2>2 DEF Screen!DrawEnds, Farewell
  <2>3. CASE Screen!TakeNetwork \/ Screen!TakeOta \/ Screen!TakeBroker \/ Screen!TakeCharger
    <3>1. pc = "wait" /\ pc' \in {"wait", "drawing"} /\ events' = events
      BY <2>3 DEF Screen!TakeNetwork, Screen!TakeOta, Screen!TakeBroker, Screen!TakeCharger,
         Screen!Take, Screen!DrawPage, Screen!Draw, Screen!Record
    <3> QED
      BY <3>1 DEF Farewell
  <2> QED
    BY <2>1, <2>2, <2>3
<1>2. UNCHANGED <<buttonPc, reason, latch, requests>>
  BY DEF buttonOnly
<1> QED
  BY <1>1, <1>2, SameQueue DEF Announced, IInv

LEMMA DisplayKeepsInv == ASSUME IInv, DisplayTask PROVE IInv'
  BY ShortPressedKeepsInv, ShuttingDownKeepsInv, OtherTakesKeepInv
     DEF DisplayTask, Screen!Task

-----------------------------------------------------------------------------
(* The others, and the theorem *)

LEMMA OthersKeepInv == ASSUME IInv, User \/ Battery \/ Sources PROVE IInv'
<1>1. /\ UNCHANGED <<buttonPc, reason, latch, pc, view, events>>
      /\ requests' \in Seq(Button!ShutdownReason)
  <2>1. CASE User
    BY <2>1 DEF User, Button!Lift, Button!Press, Button!taskVars, screenOnly, IInv
  <2>2. CASE Battery
    BY <2>2 DEF Battery, Button!RequestShutdown, Button!buttonVars, Button!taskVars, screenOnly,
       IInv, Button!ShutdownReason
  <2>3. CASE Sources
    BY <2>3 DEF Sources, Screen!Sources, Screen!OtaChanges, Screen!BrokerChanges,
       Screen!ChargerReports, Screen!Publish, Screen!taskVars, buttonOnly, IInv
  <2> QED
    BY <2>1, <2>2, <2>3
<1> QED
  BY <1>1, SameQueue DEF Announced, Farewell, IInv

LEMMA InitInv == Init => IInv
<1> SUFFICES ASSUME Init PROVE IInv
  OBVIOUS
<1>1. /\ events = <<>> /\ requests = <<>> /\ latch = "held" /\ pc = "init"
      /\ buttonPc \in {"boot", "select"}
  BY DEF Init, Button!Init, Screen!Init
<1>2. Notices = {}
  <2>1. DOMAIN <<>> = {}
    OBVIOUS
  <2> QED
    BY <1>1, <2>1 DEF Notices
<1>3. events \in Seq(Button!PowerEvent) /\ requests \in Seq(Button!ShutdownReason)
  BY <1>1, EmptySeq
<1> QED
  BY <1>1, <1>2, <1>3 DEF IInv, AnnouncedOnce, Announced, Farewell

LEMMA NextInv == IInv /\ [Next]_vars => IInv'
<1> SUFFICES ASSUME IInv, [Next]_vars PROVE IInv'
  OBVIOUS
<1>1. CASE UNCHANGED vars
  BY <1>1, SameQueue DEF vars, buttonOnly, screenOnly, Announced, Farewell, IInv
<1>2. CASE Next
  BY <1>2, ButtonKeepsInv, DisplayKeepsInv, OthersKeepInv DEF Next
<1> QED
  BY <1>1, <1>2

\* power_button.rs, lines 82-97 and 106-125: a shutdown is announced exactly once, nothing
\* follows the announcement, the display keeps it as its last screen, and the supply is cut
\* only after it.
THEOREM ShutdownIsAnnouncedOnce == Spec => []AnnouncedOnce
<1>1. IInv => AnnouncedOnce
  BY DEF IInv
<1> QED
  BY <1>1, InitInv, NextInv, PTL DEF Spec

-----------------------------------------------------------------------------
(* The types of both tasks *)

\* A watch that is empty wakes nobody.
OtaIsSet == source.Ota.unseen => source.Ota.value # "Unset"

LEMMA PagesAreViews ==
    ASSUME NEW p \in Screen!MenuPage, NEW a \in Addresses \cup {None}, NEW b \in Screen!BrokerStatus,
           NEW c \in Readings \cup {None}
    PROVE  /\ Screen!PageView(p, a, b, c) \in Screen!View
           /\ Screen!PageView(p, a, b, c) \notin {"Update"} \X Screen!Progress!OtaStatus
  BY DEF Screen!PageView, Screen!View, Screen!PageViews, Screen!MenuPage

LEMMA UpdatesAreViews ==
    ASSUME NEW s \in Screen!Progress!OtaStatus
    PROVE  /\ Screen!UpdateView(s) \in Screen!View
           /\ Screen!UpdateView(s) \in {"Update"} \X Screen!Progress!OtaStatus
  BY DEF Screen!UpdateView, Screen!View

LEMMA NoticesAreViews ==
    ASSUME NEW r \in Screen!ShutdownReason PROVE Screen!NoticeView(r) \in Screen!View
  BY DEF Screen!NoticeView, Screen!View

\* An input that is taken keeps its value.
LEMMA TakeSource ==
    ASSUME Screen!TypeOK, NEW s \in {"Network", "Ota", "Broker", "Charger"}, Screen!Take(s)
    PROVE  /\ source[s].unseen /\ ~source'[s].unseen /\ source'[s].value = source[s].value
           /\ \A t \in {"Network", "Ota", "Broker", "Charger"} \ {s} : source'[t] = source[t]
           /\ source' \in [Network : Screen!Input(Addresses \cup {None}),
                           Ota     : Screen!Input(Screen!Progress!OtaStatus \cup {"Unset"}),
                           Broker  : Screen!Input(Screen!BrokerStatus),
                           Charger : Screen!Input(Readings \cup {None})]
           /\ events' = events
  BY DEF Screen!TypeOK, Screen!Take, Screen!Unseen, Screen!Input

\* An input that is published is there to be taken.
LEMMA PublishSource ==
    ASSUME Screen!TypeOK, NEW s \in {"Network", "Ota", "Broker", "Charger"}, NEW values,
           Screen!Publish(s, values)
    PROVE  /\ source'[s].unseen /\ source'[s].value \in values
           /\ \A t \in {"Network", "Ota", "Broker", "Charger"} \ {s} : source'[t] = source[t]
           /\ DOMAIN source' = DOMAIN source
           /\ UNCHANGED <<Screen!taskVars, events>>
  BY DEF Screen!TypeOK, Screen!Publish, Screen!Input

LEMMA TailIsEvents ==
    ASSUME NEW S, NEW q \in Seq(S), q # <<>>
    PROVE  Head(q) \in S /\ Tail(q) \in Seq(S) /\ Len(Tail(q)) = Len(q) - 1
  OBVIOUS

\* A redraw of the page is a transfer to begin, of a page.
LEMMA DrawPageTypes ==
    ASSUME Screen!DrawPage, page' \in Screen!MenuPage, address' \in Addresses \cup {None},
           broker' \in Screen!BrokerStatus, charger' \in Readings \cup {None}
    PROVE  /\ pc' = "drawing" /\ shown' = FALSE /\ view' \in Screen!View
           /\ view' = Screen!PageView(page', address', broker', charger')
  BY PagesAreViews DEF Screen!DrawPage, Screen!Draw

LEMMA DisplayInitTypes == Screen!Init => Screen!TypeOK
<1> SUFFICES ASSUME Screen!Init PROVE Screen!TypeOK
  OBVIOUS
<1>1. view \in Screen!View
  BY PagesAreViews DEF Screen!Init, Screen!MenuPage, Screen!BrokerStatus
<1>2. events \in Seq({"ShortPress"} \cup Screen!ShutdownReason) /\ Len(events) <= EventCap
  BY PowerAssumption DEF Screen!Init
<1> QED
  BY <1>1, <1>2 DEF Screen!Init, Screen!TypeOK, Screen!MenuPage, Screen!BrokerStatus, Screen!Input,
     Screen!Unpublished

\* An update screen has a status to show, because a watch that is empty wakes nobody.
LEMMA DisplayTaskTypes == Screen!TypeOK /\ OtaIsSet /\ Screen!Task => Screen!TypeOK'
<1> SUFFICES ASSUME Screen!TypeOK, OtaIsSet, Screen!Task PROVE Screen!TypeOK'
  OBVIOUS
<1>1. CASE Screen!InitDone
  BY <1>1, DrawPageTypes DEF Screen!InitDone, Screen!TypeOK, Screen!copies
<1>2. CASE Screen!InitFails
  BY <1>2 DEF Screen!InitFails, Screen!TypeOK, Screen!copies
<1>3. CASE Screen!DrawEnds
  BY <1>3 DEF Screen!DrawEnds, Screen!TypeOK, Screen!copies
<1>4. CASE Screen!TakeNetwork
  <2>1. source.Network.value \in Addresses \cup {None}
    BY DEF Screen!TypeOK, Screen!Input
  <2>2. Screen!Take("Network")
    BY <1>4 DEF Screen!TakeNetwork
  <2>3. \/ pc' = pc /\ view' = view /\ shown' = shown
        \/ pc' = "drawing" /\ shown' = FALSE /\ view' \in Screen!View
    BY <1>4, <2>1, DrawPageTypes DEF Screen!TakeNetwork, Screen!Record, Screen!TypeOK
  <2> QED
    BY <1>4, <2>1, <2>2, <2>3, TakeSource DEF Screen!TakeNetwork, Screen!TypeOK
<1>5. CASE Screen!TakeOta
  <2>1. source.Ota.value \in Screen!Progress!OtaStatus \cup {"Unset"}
    BY DEF Screen!TypeOK, Screen!Input
  <2>2. Screen!Take("Ota")
    BY <1>5 DEF Screen!TakeOta
  <2>3. source.Ota.value # "Unset"
    BY <1>5 DEF OtaIsSet, Screen!TakeOta, Screen!Take, Screen!Unseen
  <2>4. pc' = "drawing" /\ shown' = FALSE /\ view' \in Screen!View
    BY <1>5, <2>1, <2>3, DrawPageTypes, UpdatesAreViews DEF Screen!TakeOta, Screen!Draw, Screen!TypeOK
  <2>5. ota_active' \in BOOLEAN
    BY <1>5 DEF Screen!TakeOta, Screen!Progress!IsActive
  <2> QED
    BY <1>5, <2>2, <2>4, <2>5, TakeSource DEF Screen!TakeOta, Screen!TypeOK
<1>6. CASE Screen!ShortPressed
  <2>1. page' \in Screen!MenuPage
    BY <1>6 DEF Screen!ShortPressed, Screen!NextPage, Screen!MenuPage
  <2>2. \/ pc' = pc /\ view' = view /\ shown' = shown
        \/ pc' = "drawing" /\ shown' = FALSE /\ view' \in Screen!View
    BY <1>6, <2>1, DrawPageTypes DEF Screen!ShortPressed, Screen!Record, Screen!TypeOK
  <2>3. events' \in Seq({"ShortPress"} \cup Screen!ShutdownReason) /\ Len(events') <= EventCap
    BY <1>6, TailIsEvents, PowerAssumption DEF Screen!ShortPressed, Screen!PowerArm, Screen!TypeOK
  <2> QED
    BY <1>6, <2>1, <2>2, <2>3 DEF Screen!ShortPressed, Screen!TypeOK
<1>7. CASE Screen!ShuttingDown
  <2>1. view' \in Screen!View
    BY <1>7, NoticesAreViews DEF Screen!ShuttingDown
  <2>2. events' \in Seq({"ShortPress"} \cup Screen!ShutdownReason) /\ Len(events') <= EventCap
    BY <1>7, TailIsEvents, PowerAssumption DEF Screen!ShuttingDown, Screen!PowerArm, Screen!TypeOK
  <2> QED
    BY <1>7, <2>1, <2>2 DEF Screen!ShuttingDown, Screen!TypeOK, Screen!copies
<1>8. CASE Screen!TakeBroker
  <2>1. source.Broker.value \in Screen!BrokerStatus
    BY DEF Screen!TypeOK, Screen!Input
  <2>2. Screen!Take("Broker")
    BY <1>8 DEF Screen!TakeBroker
  <2>3. \/ pc' = pc /\ view' = view /\ shown' = shown
        \/ pc' = "drawing" /\ shown' = FALSE /\ view' \in Screen!View
    BY <1>8, <2>1, DrawPageTypes DEF Screen!TakeBroker, Screen!Record, Screen!TypeOK
  <2> QED
    BY <1>8, <2>1, <2>2, <2>3, TakeSource DEF Screen!TakeBroker, Screen!TypeOK
<1>9. CASE Screen!TakeCharger
  <2>1. source.Charger.value \in Readings \cup {None}
    BY DEF Screen!TypeOK, Screen!Input
  <2>2. Screen!Take("Charger")
    BY <1>9 DEF Screen!TakeCharger
  <2>3. \/ pc' = pc /\ view' = view /\ shown' = shown
        \/ pc' = "drawing" /\ shown' = FALSE /\ view' \in Screen!View
    BY <1>9, <2>1, DrawPageTypes DEF Screen!TakeCharger, Screen!Record, Screen!TypeOK
  <2> QED
    BY <1>9, <2>1, <2>2, <2>3, TakeSource DEF Screen!TakeCharger, Screen!TypeOK
<1> QED
  BY <1>1, <1>2, <1>3, <1>4, <1>5, <1>6, <1>7, <1>8, <1>9 DEF Screen!Task

LEMMA PublishTypes ==
    ASSUME Screen!TypeOK, NEW s, NEW values, Screen!Publish(s, values),
           \/ s = "Network" /\ values \subseteq Addresses \cup {None}
           \/ s = "Ota" /\ values \subseteq Screen!Progress!OtaStatus
           \/ s = "Broker" /\ values \subseteq Screen!BrokerStatus
           \/ s = "Charger" /\ values \subseteq Readings
    PROVE  Screen!TypeOK'
<1>1. PICK v \in values : source' = [source EXCEPT ![s] = [value |-> v, unseen |-> TRUE]]
  BY DEF Screen!Publish
<1>2. source' \in [Network : Screen!Input(Addresses \cup {None}),
                   Ota     : Screen!Input(Screen!Progress!OtaStatus \cup {"Unset"}),
                   Broker  : Screen!Input(Screen!BrokerStatus),
                   Charger : Screen!Input(Readings \cup {None})]
  BY <1>1 DEF Screen!TypeOK, Screen!Input
<1> QED
  BY <1>2 DEF Screen!TypeOK, Screen!Publish, Screen!taskVars, Screen!copies

LEMMA SourcesTypes == Screen!TypeOK /\ Screen!Sources => Screen!TypeOK'
<1> SUFFICES ASSUME Screen!TypeOK, Screen!Sources PROVE Screen!TypeOK'
  OBVIOUS
<1>1. CASE Screen!OtaChanges
  <2>1. Screen!Progress!Successors(source.Ota.value) \subseteq Screen!Progress!OtaStatus
    BY DEF Screen!TypeOK, Screen!Input, Screen!Progress!Successors, Screen!Progress!OtaStatus
  <2> QED
    BY <1>1, <2>1, PublishTypes DEF Screen!OtaChanges
<1>2. CASE Screen!BrokerChanges
  BY <1>2, PublishTypes DEF Screen!BrokerChanges
<1>3. CASE Screen!ChargerReports
  BY <1>3, PublishTypes DEF Screen!ChargerReports
<1> QED
  BY <1>1, <1>2, <1>3 DEF Screen!Sources

LEMMA AppendedEvent ==
    ASSUME Button!TypeOK, NEW e \in Button!PowerEvent, Len(events) < EventCap
    PROVE  Append(events, e) \in Seq(Button!PowerEvent) /\ Len(Append(events, e)) <= EventCap
  BY PowerAssumption DEF Button!TypeOK

LEMMA ButtonTaskTypes ==
    ASSUME Button!TypeOK, IInv, Button!Task
    PROVE  Button!TypeOK'
<1> USE DEF Button!TypeOK, Button!WaitAt, Button!buttonVars, Button!taskVars
<1>1. CASE Button!PowerOnReleased
  BY <1>1 DEF Button!PowerOnReleased
<1>2. CASE Button!PowerOnDebounced
  BY <1>2 DEF Button!PowerOnDebounced
<1>3. CASE Button!Pressed
  BY <1>3 DEF Button!Pressed
<1>4. CASE Button!Spike
  BY <1>4 DEF Button!Spike
<1>5. CASE Button!Hold
  BY <1>5 DEF Button!Hold
<1>6. CASE Button!ShortPress
  <2>1. events' \in Seq(Button!PowerEvent) /\ Len(events') <= EventCap
    <3>1. "ShortPress" \in Button!PowerEvent
      BY DEF Button!PowerEvent
    <3> QED
      BY <1>6, <3>1, AppendedEvent DEF Button!ShortPress
  <2> QED
    BY <1>6, <2>1 DEF Button!ShortPress
<1>7. CASE Button!HoldExpires
  BY <1>7 DEF Button!HoldExpires, Button!ShutdownReason
<1>8. CASE Button!ReleaseDebounced
  BY <1>8 DEF Button!ReleaseDebounced
<1>9. CASE Button!TakeRequest
  <2>1. /\ requests' \in Seq(Button!ShutdownReason) /\ Len(requests') <= RequestCap
        /\ reason' \in Button!ShutdownReason
    BY <1>9, TailIsEvents, PowerAssumption DEF Button!TakeRequest
  <2> QED
    BY <1>9, <2>1 DEF Button!TakeRequest
<1>10. CASE Button!Announce
  <2>1. events' \in Seq(Button!PowerEvent) /\ Len(events') <= EventCap
    <3>1. reason \in Button!PowerEvent
      BY <1>10 DEF Button!Announce, Button!PowerEvent, IInv
    <3> QED
      BY <1>10, <3>1, AppendedEvent DEF Button!Announce
  <2> QED
    BY <1>10, <2>1 DEF Button!Announce
<1>11. CASE Button!CutPower
  BY <1>11 DEF Button!CutPower
<1> QED
  BY <1>1, <1>2, <1>3, <1>4, <1>5, <1>6, <1>7, <1>8, <1>9, <1>10, <1>11 DEF Button!Task

LEMMA OutsideTypes ==
    ASSUME Button!TypeOK, Button!Lift \/ Button!Press \/ Button!RequestShutdown
    PROVE  Button!TypeOK'
<1> USE DEF Button!TypeOK, Button!buttonVars, Button!taskVars
<1>1. CASE Button!Lift
  BY <1>1 DEF Button!Lift, Button!Awaited
<1>2. CASE Button!Press
  BY <1>2 DEF Button!Press, Button!Awaited
<1>3. CASE Button!RequestShutdown
  <2>1. requests' \in Seq(Button!ShutdownReason) /\ Len(requests') <= RequestCap
    BY <1>3, PowerAssumption DEF Button!RequestShutdown, Button!ShutdownReason
  <2> QED
    BY <1>3, <2>1 DEF Button!RequestShutdown
<1> QED
  BY <1>1, <1>2, <1>3

LEMMA OtaStaysSet ==
    ASSUME Screen!TypeOK, OtaIsSet, Screen!Task \/ Screen!Sources
    PROVE  OtaIsSet'
<1>1. CASE Screen!Task
  <2>1. source' = source \/ \E s \in {"Network", "Ota", "Broker", "Charger"} : Screen!Take(s)
    BY <1>1 DEF Screen!Task, Screen!InitDone, Screen!InitFails, Screen!DrawEnds, Screen!TakeNetwork,
       Screen!TakeOta, Screen!ShortPressed, Screen!ShuttingDown, Screen!TakeBroker, Screen!TakeCharger
  <2>2. ASSUME NEW s \in {"Network", "Ota", "Broker", "Charger"}, Screen!Take(s)
        PROVE  OtaIsSet'
    BY <2>2, TakeSource DEF OtaIsSet
  <2> QED
    BY <2>1, <2>2 DEF OtaIsSet
<1>2. CASE Screen!OtaChanges
  <2>1. source'["Ota"].value \in Screen!Progress!Successors(source.Ota.value)
    BY <1>2, PublishSource DEF Screen!OtaChanges
  <2>2. "Unset" \notin Screen!Progress!Successors(source.Ota.value)
    BY DEF Screen!TypeOK, Screen!Input, Screen!Progress!Successors, Screen!Progress!OtaStatus
  <2> QED
    BY <2>1, <2>2 DEF OtaIsSet
<1>3. CASE Screen!BrokerChanges \/ Screen!ChargerReports
  <2>1. source'["Ota"] = source["Ota"]
    BY <1>3, PublishSource DEF Screen!BrokerChanges, Screen!ChargerReports
  <2> QED
    BY <2>1 DEF OtaIsSet
<1> QED
  BY <1>1, <1>2, <1>3 DEF Screen!Sources

\* Both tasks' types, of which the queue between them is one.
PowerDownTypeOK == Button!TypeOK /\ Screen!TypeOK

\* That what is announced is a reason is part of the invariant of the announcement.
TypesInv == PowerDownTypeOK /\ OtaIsSet /\ IInv

LEMMA InitTypes == Init => TypesInv
<1> SUFFICES ASSUME Init PROVE Button!TypeOK /\ OtaIsSet
  BY InitInv, DisplayInitTypes DEF Init, TypesInv, PowerDownTypeOK
<1>1. /\ events \in Seq(Button!PowerEvent) /\ Len(events) <= EventCap
      /\ requests \in Seq(Button!ShutdownReason) /\ Len(requests) <= RequestCap
  BY PowerAssumption DEF Init, Button!Init
<1> QED
  BY <1>1 DEF Init, Button!Init, Screen!Init, Screen!Unpublished, Button!TypeOK, OtaIsSet

LEMMA NextTypes == TypesInv /\ [Next]_vars => TypesInv'
<1> SUFFICES ASSUME TypesInv, [Next]_vars PROVE PowerDownTypeOK' /\ OtaIsSet'
  BY NextInv DEF TypesInv
<1>1. Button!TypeOK /\ Screen!TypeOK /\ OtaIsSet /\ IInv
  BY DEF TypesInv, PowerDownTypeOK
<1>2. CASE UNCHANGED vars
  BY <1>1, <1>2 DEF vars, buttonOnly, screenOnly, Button!TypeOK, Screen!TypeOK, OtaIsSet, PowerDownTypeOK
<1>3. CASE (Button!Task \/ Button!Lift \/ Button!Press \/ Button!RequestShutdown) /\ UNCHANGED screenOnly
  <2>1. Button!TypeOK'
    BY <1>1, <1>3, ButtonTaskTypes, OutsideTypes
  <2>2. events' \in Seq({"ShortPress"} \cup Screen!ShutdownReason) /\ Len(events') <= EventCap
    BY <2>1 DEF Button!TypeOK, Button!PowerEvent, Button!ShutdownReason, Screen!ShutdownReason
  <2> QED
    BY <1>1, <1>3, <2>1, <2>2 DEF screenOnly, Screen!TypeOK, OtaIsSet, PowerDownTypeOK
<1>4. CASE (Screen!Task \/ Screen!Sources) /\ UNCHANGED buttonOnly
  <2>1. Screen!TypeOK' /\ OtaIsSet'
    BY <1>1, <1>4, DisplayTaskTypes, SourcesTypes, OtaStaysSet
  <2>2. events' \in Seq(Button!PowerEvent) /\ Len(events') <= EventCap
    BY <2>1 DEF Screen!TypeOK, Button!PowerEvent, Button!ShutdownReason, Screen!ShutdownReason
  <2> QED
    BY <1>1, <1>4, <2>1, <2>2 DEF buttonOnly, Button!TypeOK, PowerDownTypeOK
<1> QED
  BY <1>2, <1>3, <1>4 DEF Next, ButtonTask, DisplayTask, User, Battery, Sources

\* Type correctness of the button and of the display that empties its queue.
THEOREM TypeCorrect == Spec => []PowerDownTypeOK
<1>1. TypesInv => PowerDownTypeOK
  BY DEF TypesInv
<1> QED
  BY <1>1, InitTypes, NextTypes, PTL DEF Spec
=============================================================================
