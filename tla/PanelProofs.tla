----------------------------- MODULE PanelProofs -----------------------------
(* What the panel shows, for every address, reading and depth of POWER_EVENTS, *)
(* and that it can be read, whatever a message says.                           *)
EXTENDS Panel, SequenceTheorems, WellFoundedInduction, TLAPS

-----------------------------------------------------------------------------
(* The inductive invariant *)

\* What the task has taken of an input is what the input says, unless that changed since.
CopiesInv ==
    /\ ~source.Network.unseen => address = source.Network.value
    /\ ~source.Broker.unseen  => broker = source.Broker.value
    /\ ~source.Charger.unseen => charger = source.Charger.value
    /\ ~source.Ota.unseen     => ota_active = Progress!IsActive(source.Ota.value)
    /\ source.Ota.unseen      => source.Ota.value # "Unset"

\* What is on the panel, or on its way there.
ViewInv ==
    pc \in {"wait", "drawing"} =>
        IF ota_active
        THEN /\ view \in {"Update"} \X Progress!OtaStatus
             /\ ~source.Ota.unseen => view = UpdateView(source.Ota.value)
        ELSE view = PageView(page, address, broker, charger)

\* Before the first page nothing has been taken.
StartInv == pc = "init" => ~ota_active

\* network_monitor and the signal it sends.
NetworkInv ==
    /\ network = "wait_config_up" => source.Network.value = None
    /\ network = "wait_config_down" =>
           /\ source.Network.value # None
           /\ renumbered \/ stack \in {None, source.Network.value}

IInv == PanelTypeOK /\ CopiesInv /\ ViewInv /\ StartInv /\ NetworkInv

-----------------------------------------------------------------------------
(* Facts about the definitions *)

LEMMA PagesAreViews ==
    ASSUME NEW p \in MenuPage, NEW a \in Addresses \cup {None}, NEW b \in BrokerStatus,
           NEW c \in Readings \cup {None}
    PROVE  /\ PageView(p, a, b, c) \in View
           /\ PageView(p, a, b, c) \notin {"Update"} \X Progress!OtaStatus
  BY DEF PageView, View, PageViews, MenuPage

LEMMA UpdatesAreViews ==
    ASSUME NEW s \in Progress!OtaStatus
    PROVE  UpdateView(s) \in View /\ UpdateView(s) \in {"Update"} \X Progress!OtaStatus
  BY DEF UpdateView, View

LEMMA NoticesAreViews ==
    ASSUME NEW r \in ShutdownReason PROVE NoticeView(r) \in View
  BY DEF NoticeView, View

\* An input that is taken keeps its value.
LEMMA TakeSource ==
    ASSUME TypeOK, NEW s \in {"Network", "Ota", "Broker", "Charger"}, Take(s)
    PROVE  /\ source[s].unseen /\ ~source'[s].unseen /\ source'[s].value = source[s].value
           /\ \A t \in {"Network", "Ota", "Broker", "Charger"} \ {s} : source'[t] = source[t]
           /\ source' \in [Network : Input(Addresses \cup {None}),
                           Ota     : Input(Progress!OtaStatus \cup {"Unset"}),
                           Broker  : Input(BrokerStatus),
                           Charger : Input(Readings \cup {None})]
           /\ events' = events
  BY DEF TypeOK, Take, Unseen, Input

\* An input that is published is there to be taken.
LEMMA PublishSource ==
    ASSUME TypeOK, NEW s \in {"Network", "Ota", "Broker", "Charger"}, NEW values,
           Publish(s, values)
    PROVE  /\ source'[s].unseen /\ source'[s].value \in values
           /\ \A t \in {"Network", "Ota", "Broker", "Charger"} \ {s} : source'[t] = source[t]
           /\ DOMAIN source' = DOMAIN source
           /\ UNCHANGED <<taskVars, events>>
  BY DEF TypeOK, Publish, Input

LEMMA TailIsEvents ==
    ASSUME NEW S, NEW q \in Seq(S), q # <<>>
    PROVE  Head(q) \in S /\ Tail(q) \in Seq(S) /\ Len(Tail(q)) = Len(q) - 1
  OBVIOUS

-----------------------------------------------------------------------------
(* Type correctness *)

\* A redraw of the page is a transfer to begin, of a page.
LEMMA DrawPageTypes ==
    ASSUME DrawPage, page' \in MenuPage, address' \in Addresses \cup {None},
           broker' \in BrokerStatus, charger' \in Readings \cup {None}
    PROVE  /\ pc' = "drawing" /\ shown' = FALSE /\ view' \in View
           /\ view' = PageView(page', address', broker', charger')
  BY PagesAreViews DEF DrawPage, Draw

LEMMA InitTypes == Init => TypeOK
<1> SUFFICES ASSUME Init PROVE TypeOK
  OBVIOUS
<1>1. view \in View
  BY PagesAreViews DEF Init, MenuPage, BrokerStatus
<1>2. events \in Seq({"ShortPress"} \cup ShutdownReason) /\ Len(events) <= EventCap
  BY DisplayAssumption DEF Init
<1> QED
  BY <1>1, <1>2 DEF Init, TypeOK, MenuPage, BrokerStatus, Input, Unpublished

\* An update screen has a status to show, because a watch that is empty wakes nobody.
LEMMA TaskTypes == TypeOK /\ CopiesInv /\ Task => TypeOK'
<1> SUFFICES ASSUME TypeOK, CopiesInv, Task PROVE TypeOK'
  OBVIOUS
<1>1. CASE InitDone
  BY <1>1, DrawPageTypes DEF InitDone, TypeOK, copies
<1>2. CASE InitFails
  BY <1>2 DEF InitFails, TypeOK, copies
<1>3. CASE DrawEnds
  BY <1>3 DEF DrawEnds, TypeOK, copies
<1>4. CASE TakeNetwork
  <2>1. source.Network.value \in Addresses \cup {None}
    BY DEF TypeOK, Input
  <2>2. Take("Network")
    BY <1>4 DEF TakeNetwork
  <2>3. \/ pc' = pc /\ view' = view /\ shown' = shown
        \/ pc' = "drawing" /\ shown' = FALSE /\ view' \in View
    BY <1>4, <2>1, DrawPageTypes DEF TakeNetwork, Record, TypeOK
  <2> QED
    BY <1>4, <2>1, <2>2, <2>3, TakeSource DEF TakeNetwork, TypeOK
<1>5. CASE TakeOta
  <2>1. source.Ota.value \in Progress!OtaStatus \cup {"Unset"}
    BY DEF TypeOK, Input
  <2>2. Take("Ota")
    BY <1>5 DEF TakeOta
  <2>3. source.Ota.value # "Unset"
    BY <1>5 DEF CopiesInv, TakeOta, Take, Unseen
  <2>4. pc' = "drawing" /\ shown' = FALSE /\ view' \in View
    BY <1>5, <2>1, <2>3, DrawPageTypes, UpdatesAreViews DEF TakeOta, Draw, TypeOK
  <2>5. ota_active' \in BOOLEAN
    BY <1>5 DEF TakeOta, Progress!IsActive
  <2> QED
    BY <1>5, <2>2, <2>4, <2>5, TakeSource DEF TakeOta, TypeOK
<1>6. CASE ShortPressed
  <2>1. page' \in MenuPage
    BY <1>6 DEF ShortPressed, NextPage, MenuPage
  <2>2. \/ pc' = pc /\ view' = view /\ shown' = shown
        \/ pc' = "drawing" /\ shown' = FALSE /\ view' \in View
    BY <1>6, <2>1, DrawPageTypes DEF ShortPressed, Record, TypeOK
  <2>3. events' \in Seq({"ShortPress"} \cup ShutdownReason) /\ Len(events') <= EventCap
    BY <1>6, TailIsEvents, DisplayAssumption DEF ShortPressed, PowerArm, TypeOK
  <2> QED
    BY <1>6, <2>1, <2>2, <2>3 DEF ShortPressed, TypeOK
<1>7. CASE ShuttingDown
  <2>1. view' \in View
    BY <1>7, NoticesAreViews DEF ShuttingDown
  <2>2. events' \in Seq({"ShortPress"} \cup ShutdownReason) /\ Len(events') <= EventCap
    BY <1>7, TailIsEvents, DisplayAssumption DEF ShuttingDown, PowerArm, TypeOK
  <2> QED
    BY <1>7, <2>1, <2>2 DEF ShuttingDown, TypeOK, copies
<1>8. CASE TakeBroker
  <2>1. source.Broker.value \in BrokerStatus
    BY DEF TypeOK, Input
  <2>2. Take("Broker")
    BY <1>8 DEF TakeBroker
  <2>3. \/ pc' = pc /\ view' = view /\ shown' = shown
        \/ pc' = "drawing" /\ shown' = FALSE /\ view' \in View
    BY <1>8, <2>1, DrawPageTypes DEF TakeBroker, Record, TypeOK
  <2> QED
    BY <1>8, <2>1, <2>2, <2>3, TakeSource DEF TakeBroker, TypeOK
<1>9. CASE TakeCharger
  <2>1. source.Charger.value \in Readings \cup {None}
    BY DEF TypeOK, Input
  <2>2. Take("Charger")
    BY <1>9 DEF TakeCharger
  <2>3. \/ pc' = pc /\ view' = view /\ shown' = shown
        \/ pc' = "drawing" /\ shown' = FALSE /\ view' \in View
    BY <1>9, <2>1, DrawPageTypes DEF TakeCharger, Record, TypeOK
  <2> QED
    BY <1>9, <2>1, <2>2, <2>3, TakeSource DEF TakeCharger, TypeOK
<1> QED
  BY <1>1, <1>2, <1>3, <1>4, <1>5, <1>6, <1>7, <1>8, <1>9 DEF Task

LEMMA PublishTypes ==
    ASSUME TypeOK, NEW s, NEW values, Publish(s, values),
           \/ s = "Network" /\ values \subseteq Addresses \cup {None}
           \/ s = "Ota" /\ values \subseteq Progress!OtaStatus
           \/ s = "Broker" /\ values \subseteq BrokerStatus
           \/ s = "Charger" /\ values \subseteq Readings
    PROVE  TypeOK'
<1>1. PICK v \in values : source' = [source EXCEPT ![s] = [value |-> v, unseen |-> TRUE]]
  BY DEF Publish
<1>2. source' \in [Network : Input(Addresses \cup {None}),
                   Ota     : Input(Progress!OtaStatus \cup {"Unset"}),
                   Broker  : Input(BrokerStatus),
                   Charger : Input(Readings \cup {None})]
  BY <1>1 DEF TypeOK, Input
<1> QED
  BY <1>2 DEF TypeOK, Publish, taskVars, copies

LEMMA SourcesTypes == TypeOK /\ (Sources \/ PowerEvent) => TypeOK'
<1> SUFFICES ASSUME TypeOK, Sources \/ PowerEvent PROVE TypeOK'
  OBVIOUS
<1>1. CASE OtaChanges
  <2>1. Progress!Successors(source.Ota.value) \subseteq Progress!OtaStatus
    BY DEF TypeOK, Input, Progress!Successors, Progress!OtaStatus
  <2> QED
    BY <1>1, <2>1, PublishTypes DEF OtaChanges
<1>2. CASE BrokerChanges
  BY <1>2, PublishTypes DEF BrokerChanges
<1>3. CASE ChargerReports
  BY <1>3, PublishTypes DEF ChargerReports
<1>4. CASE PowerEvent
  <2>1. /\ events' \in Seq({"ShortPress"} \cup ShutdownReason)
        /\ Len(events') <= EventCap
    BY <1>4, DisplayAssumption DEF PowerEvent, TypeOK
  <2> QED
    BY <1>4, <2>1 DEF PowerEvent, TypeOK, taskVars, copies
<1> QED
  BY <1>1, <1>2, <1>3, <1>4 DEF Sources

LEMMA NetworkTypes ==
    PanelTypeOK /\ (ConfigUp \/ ConfigDown \/ Configured \/ Deconfigured) => PanelTypeOK'
<1> SUFFICES ASSUME PanelTypeOK, ConfigUp \/ ConfigDown \/ Configured \/ Deconfigured
             PROVE  PanelTypeOK'
  OBVIOUS
<1>1. CASE ConfigUp
  <2>1. TypeOK'
    BY <1>1, PublishTypes DEF ConfigUp, PanelTypeOK
  <2> QED
    BY <1>1, <2>1 DEF ConfigUp, PanelTypeOK
<1>2. CASE ConfigDown
  <2>1. TypeOK'
    BY <1>2, PublishTypes DEF ConfigDown, PanelTypeOK
  <2> QED
    BY <1>2, <2>1 DEF ConfigDown, PanelTypeOK
<1>3. CASE Configured
  BY <1>3 DEF Configured, PanelTypeOK, TypeOK, vars, taskVars, copies
<1>4. CASE Deconfigured
  BY <1>4 DEF Deconfigured, PanelTypeOK, TypeOK, vars, taskVars, copies
<1> QED
  BY <1>1, <1>2, <1>3, <1>4

-----------------------------------------------------------------------------
(* The copies and the panel *)

LEMMA TaskInv == TypeOK /\ CopiesInv /\ ViewInv /\ StartInv /\ Task
                 => (CopiesInv /\ ViewInv /\ StartInv)'
<1> SUFFICES ASSUME TypeOK, CopiesInv, ViewInv, StartInv, Task
             PROVE  (CopiesInv /\ ViewInv /\ StartInv)'
  OBVIOUS
<1>1. CASE InitDone
  BY <1>1, DrawPageTypes DEF InitDone, TypeOK, copies, CopiesInv, ViewInv, StartInv, DrawPage, Draw
<1>2. CASE InitFails
  BY <1>2 DEF InitFails, copies, CopiesInv, ViewInv, StartInv
<1>3. CASE DrawEnds
  BY <1>3 DEF DrawEnds, copies, CopiesInv, ViewInv, StartInv
<1>4. CASE TakeNetwork
  <2>1. Take("Network") /\ source.Network.value \in Addresses \cup {None}
    BY <1>4 DEF TakeNetwork, TypeOK, Input
  <2>2. CASE ota_active
    BY <1>4, <2>1, <2>2, TakeSource
       DEF TakeNetwork, Record, CopiesInv, ViewInv, StartInv
  <2>3. CASE ~ota_active
    BY <1>4, <2>1, <2>3, TakeSource
       DEF TakeNetwork, DrawPage, Draw, CopiesInv, ViewInv, StartInv
  <2> QED
    BY <2>2, <2>3
<1>5. CASE TakeOta
  <2>1. Take("Ota") /\ source.Ota.value \in Progress!OtaStatus
    BY <1>5 DEF TakeOta, TypeOK, Input, CopiesInv, Take, Unseen
  <2>2. CASE source.Ota.value = "Idle"
    BY <1>5, <2>1, <2>2, TakeSource
       DEF TakeOta, DrawPage, Draw, CopiesInv, ViewInv, StartInv, Progress!IsActive
  <2>3. CASE source.Ota.value # "Idle"
    BY <1>5, <2>1, <2>3, TakeSource, UpdatesAreViews
       DEF TakeOta, Draw, CopiesInv, ViewInv, StartInv, Progress!IsActive
  <2> QED
    BY <2>2, <2>3
<1>6. CASE ShortPressed
  <2>1. CASE ota_active
    BY <1>6, <2>1 DEF ShortPressed, Record, CopiesInv, ViewInv, StartInv, PowerArm
  <2>2. CASE ~ota_active
    BY <1>6, <2>2 DEF ShortPressed, DrawPage, Draw, CopiesInv, ViewInv, StartInv
  <2> QED
    BY <2>1, <2>2
<1>7. CASE ShuttingDown
  BY <1>7 DEF ShuttingDown, copies, CopiesInv, ViewInv, StartInv
<1>8. CASE TakeBroker
  <2>1. Take("Broker")
    BY <1>8 DEF TakeBroker
  <2>2. CASE ota_active \/ page # "Network"
    BY <1>8, <2>1, <2>2, TakeSource
       DEF TakeBroker, Record, CopiesInv, ViewInv, StartInv, PageView
  <2>3. CASE ~(ota_active \/ page # "Network")
    BY <1>8, <2>1, <2>3, TakeSource
       DEF TakeBroker, DrawPage, Draw, CopiesInv, ViewInv, StartInv
  <2> QED
    BY <2>2, <2>3
<1>9. CASE TakeCharger
  <2>1. Take("Charger")
    BY <1>9 DEF TakeCharger
  <2>2. CASE ota_active \/ page # "Battery"
    BY <1>9, <2>1, <2>2, TakeSource
       DEF TakeCharger, Record, CopiesInv, ViewInv, StartInv, PageView, TypeOK, MenuPage
  <2>3. CASE ~(ota_active \/ page # "Battery")
    BY <1>9, <2>1, <2>3, TakeSource
       DEF TakeCharger, DrawPage, Draw, CopiesInv, ViewInv, StartInv
  <2> QED
    BY <2>2, <2>3
<1> QED
  BY <1>1, <1>2, <1>3, <1>4, <1>5, <1>6, <1>7, <1>8, <1>9 DEF Task

LEMMA SourcesInv == TypeOK /\ CopiesInv /\ ViewInv /\ StartInv /\ (Sources \/ PowerEvent)
                    => (CopiesInv /\ ViewInv /\ StartInv)'
<1> SUFFICES ASSUME TypeOK, CopiesInv, ViewInv, StartInv, Sources \/ PowerEvent
             PROVE  (CopiesInv /\ ViewInv /\ StartInv)'
  OBVIOUS
<1>1. CASE OtaChanges
  <2>1. /\ UNCHANGED taskVars /\ source'.Ota.unseen
        /\ source'.Ota.value \in Progress!Successors(source.Ota.value)
        /\ \A t \in {"Network", "Broker", "Charger"} : source'[t] = source[t]
    BY <1>1, PublishSource DEF OtaChanges
  <2>2. source'.Ota.value # "Unset"
    BY <2>1 DEF TypeOK, Input, Progress!Successors, Progress!OtaStatus
  <2> QED
    BY <2>1, <2>2 DEF CopiesInv, ViewInv, StartInv, taskVars, copies
<1>2. CASE BrokerChanges
  <2>1. /\ UNCHANGED taskVars /\ source'.Broker.unseen
        /\ \A t \in {"Network", "Ota", "Charger"} : source'[t] = source[t]
    BY <1>2, PublishSource DEF BrokerChanges
  <2> QED
    BY <2>1 DEF CopiesInv, ViewInv, StartInv, taskVars, copies
<1>3. CASE ChargerReports
  <2>1. /\ UNCHANGED taskVars /\ source'.Charger.unseen
        /\ \A t \in {"Network", "Ota", "Broker"} : source'[t] = source[t]
    BY <1>3, PublishSource DEF ChargerReports
  <2> QED
    BY <2>1 DEF CopiesInv, ViewInv, StartInv, taskVars, copies
<1>4. CASE PowerEvent
  BY <1>4 DEF PowerEvent, CopiesInv, ViewInv, StartInv, taskVars, copies
<1> QED
  BY <1>1, <1>2, <1>3, <1>4 DEF Sources

-----------------------------------------------------------------------------
(* The network *)

\* What network_monitor sends is all that changes for the display.
LEMMA AddressInv ==
    ASSUME TypeOK, CopiesInv, ViewInv, StartInv, NEW values, Publish("Network", values)
    PROVE  (CopiesInv /\ ViewInv /\ StartInv)'
<1>1. /\ UNCHANGED taskVars /\ source'.Network.unseen
      /\ \A t \in {"Ota", "Broker", "Charger"} : source'[t] = source[t]
  BY PublishSource
<1> QED
  BY <1>1 DEF CopiesInv, ViewInv, StartInv, taskVars, copies

LEMMA NetworkKeepsInv ==
    IInv /\ (ConfigUp \/ ConfigDown \/ Configured \/ Deconfigured) => IInv'
<1> SUFFICES ASSUME IInv, ConfigUp \/ ConfigDown \/ Configured \/ Deconfigured PROVE IInv'
  OBVIOUS
<1>1. PanelTypeOK'
  BY NetworkTypes DEF IInv
<1>2. CASE ConfigUp
  <2>1. (CopiesInv /\ ViewInv /\ StartInv)'
    BY <1>2, AddressInv DEF ConfigUp, IInv, PanelTypeOK
  <2>2. source'.Network.value = stack /\ stack # None
    BY <1>2, PublishSource DEF ConfigUp, IInv, PanelTypeOK
  <2>3. NetworkInv'
    BY <1>2, <2>2 DEF ConfigUp, NetworkInv
  <2> QED
    BY <1>1, <2>1, <2>3 DEF IInv
<1>3. CASE ConfigDown
  <2>1. (CopiesInv /\ ViewInv /\ StartInv)'
    BY <1>3, AddressInv DEF ConfigDown, IInv, PanelTypeOK
  <2>2. source'.Network.value = None
    BY <1>3, PublishSource DEF ConfigDown, IInv, PanelTypeOK
  <2>3. NetworkInv'
    BY <1>3, <2>2 DEF ConfigDown, NetworkInv
  <2> QED
    BY <1>1, <2>1, <2>3 DEF IInv
<1>4. CASE Configured
  <2>1. (CopiesInv /\ ViewInv /\ StartInv)'
    BY <1>4 DEF Configured, IInv, CopiesInv, ViewInv, StartInv, vars, taskVars, copies
  <2>2. NetworkInv'
    BY <1>4 DEF Configured, IInv, NetworkInv, vars
  <2> QED
    BY <1>1, <2>1, <2>2 DEF IInv
<1>5. CASE Deconfigured
  <2>1. (CopiesInv /\ ViewInv /\ StartInv)'
    BY <1>5 DEF Deconfigured, IInv, CopiesInv, ViewInv, StartInv, vars, taskVars, copies
  <2>2. NetworkInv'
    BY <1>5 DEF Deconfigured, IInv, NetworkInv, vars
  <2> QED
    BY <1>1, <2>1, <2>2 DEF IInv
<1> QED
  BY <1>2, <1>3, <1>4, <1>5

\* The display's steps leave network_monitor and the value of the signal alone.
LEMMA DisplayKeepsNetwork ==
    TypeOK /\ (Task \/ Sources \/ PowerEvent) => source'.Network.value = source.Network.value
<1> SUFFICES ASSUME TypeOK, Task \/ Sources \/ PowerEvent
             PROVE  source'.Network.value = source.Network.value
  OBVIOUS
<1>1. CASE Task
  <2>1. \/ UNCHANGED source
        \/ \E s \in {"Network", "Ota", "Broker", "Charger"} : Take(s)
    BY <1>1 DEF Task, InitDone, InitFails, DrawEnds, TakeNetwork, TakeOta, ShortPressed,
                ShuttingDown, TakeBroker, TakeCharger
  <2> QED
    BY <2>1, TakeSource
<1>2. CASE Sources
  <2>1. \E s \in {"Ota", "Broker", "Charger"} : \E values : Publish(s, values)
    BY <1>2 DEF Sources, OtaChanges, BrokerChanges, ChargerReports
  <2> QED
    BY <2>1, PublishSource
<1>3. CASE PowerEvent
  BY <1>3 DEF PowerEvent
<1> QED
  BY <1>1, <1>2, <1>3

-----------------------------------------------------------------------------
(* The theorems *)

LEMMA InitInv == PanelInit => IInv
<1> SUFFICES ASSUME PanelInit PROVE IInv
  OBVIOUS
<1>1. TypeOK /\ PanelTypeOK
  BY InitTypes DEF PanelInit, PanelTypeOK
<1>2. CopiesInv
  <2>1. Progress!IsActive("Unset") = FALSE
    BY DEF Progress!IsActive, Progress!OtaStatus
  <2>2. /\ source.Ota.value = "Unset" /\ ~source.Ota.unseen /\ ota_active = FALSE
        /\ address = source.Network.value /\ broker = source.Broker.value
        /\ charger = source.Charger.value
    BY DEF PanelInit, Init, Unpublished
  <2> QED
    BY <2>1, <2>2 DEF CopiesInv
<1>3. ViewInv /\ StartInv /\ NetworkInv
  BY DEF PanelInit, Init, Unpublished, ViewInv, StartInv, NetworkInv
<1> QED
  BY <1>1, <1>2, <1>3 DEF IInv

LEMMA NextInv == IInv /\ [PanelNext]_panelVars => IInv'
<1> SUFFICES ASSUME IInv, [PanelNext]_panelVars PROVE IInv'
  OBVIOUS
<1>1. CASE (Task \/ Sources \/ PowerEvent) /\ UNCHANGED networkVars
  <2>1. TypeOK'
    BY <1>1, TaskTypes, SourcesTypes DEF IInv, PanelTypeOK
  <2>2. (CopiesInv /\ ViewInv /\ StartInv)'
    BY <1>1, TaskInv, SourcesInv DEF IInv, PanelTypeOK
  <2>3. NetworkInv'
    BY <1>1, DisplayKeepsNetwork DEF IInv, PanelTypeOK, NetworkInv, networkVars
  <2> QED
    BY <1>1, <2>1, <2>2, <2>3 DEF IInv, PanelTypeOK, networkVars
<1>2. CASE ConfigUp \/ ConfigDown \/ Configured \/ Deconfigured
  BY <1>2, NetworkKeepsInv
<1>3. CASE UNCHANGED panelVars
  BY <1>3 DEF panelVars, networkVars, vars, taskVars, copies, IInv, PanelTypeOK, TypeOK,
              CopiesInv, ViewInv, StartInv, NetworkInv
<1> QED
  BY <1>1, <1>2, <1>3 DEF PanelNext

THEOREM Invariance == PanelSpec => []IInv
<1> QED
  BY InitInv, NextInv, PTL DEF PanelSpec

\* display_controller.rs, lines 86-162: the task draws statuses, reasons and pages it has
\* values for, whatever the addresses, readings and the depth of its queue.
THEOREM TypeCorrect == PanelSpec => []PanelTypeOK
<1>1. IInv => PanelTypeOK
  BY DEF IInv
<1> QED
  BY <1>1, Invariance, PTL

\* display_controller.rs, lines 89-90: no page replaces an update screen, and no update
\* screen outlives the update.
THEOREM UpdateScreenStays == PanelSpec => []UpdateOwnsPanel
<1>1. IInv => UpdateOwnsPanel
  <2> SUFFICES ASSUME IInv, pc \in {"wait", "drawing"}
               PROVE  ota_active <=> view \in {"Update"} \X Progress!OtaStatus
    BY DEF UpdateOwnsPanel
  <2>1. PageView(page, address, broker, charger) \notin {"Update"} \X Progress!OtaStatus
    BY PagesAreViews DEF IInv, PanelTypeOK, TypeOK
  <2> QED
    BY <2>1 DEF IInv, ViewInv, PanelTypeOK, TypeOK
<1> QED
  BY <1>1, Invariance, PTL

\* display_controller.rs, lines 86-162: at rest the panel shows what holds now.
THEOREM ScreenShowsNow == PanelSpec => []ScreenIsCurrent
<1>1. IInv => ScreenIsCurrent
  <2> SUFFICES ASSUME IInv, pc = "wait", AllSeen
               PROVE  view = IF Progress!IsActive(source.Ota.value)
                             THEN UpdateView(source.Ota.value)
                             ELSE PageView(page, source.Network.value, source.Broker.value,
                                           source.Charger.value)
    BY DEF ScreenIsCurrent
  <2>1. \A s \in {"Network", "Ota", "Broker", "Charger"} : ~source[s].unseen
    BY DEF AllSeen, Unseen, IInv, PanelTypeOK, TypeOK
  <2>2. /\ address = source.Network.value /\ broker = source.Broker.value
        /\ charger = source.Charger.value
        /\ ota_active = Progress!IsActive(source.Ota.value)
    BY <2>1 DEF IInv, CopiesInv
  <2> QED
    BY <2>1, <2>2 DEF IInv, ViewInv
<1> QED
  BY <1>1, Invariance, PTL

\* network_monitor.rs, lines 19-27: at rest the display has an address exactly while the
\* stack has one, and it is that one unless it was replaced unnoticed.
THEOREM AddressShown == PanelSpec => []AddressIsTrue
<1>1. IInv => AddressIsTrue
  <2> SUFFICES ASSUME IInv, pc = "wait", AllSeen,
                      (stack = None) <=> (network = "wait_config_up")
               PROVE  /\ (address = None) <=> (stack = None)
                      /\ address # stack => renumbered
    BY DEF AddressIsTrue
  <2>1. address = source.Network.value
    BY DEF AllSeen, Unseen, IInv, PanelTypeOK, TypeOK, CopiesInv
  <2> QED
    BY <2>1 DEF IInv, NetworkInv, PanelTypeOK
<1> QED
  BY <1>1, Invariance, PTL

-----------------------------------------------------------------------------
(* Characters *)

LEMMA DigitsFit ==
    ASSUME NEW n
    PROVE  /\ Digits(n) \in 1..4
           /\ n < 1000 => Digits(n) \in 1..3
           /\ n < 100 => Digits(n) \in 1..2
  BY DEF Digits

\* A bound by name: a range up to a large number is slow to reason about.
U16Max == 65535

LEMMA U16Is == U16 = 0..U16Max
  BY DEF U16, U16Max

\* A register of sixteen bits, in thousandths.
LEMMA FormatFits ==
    ASSUME NEW milli \in U16
    PROVE  Format(milli) \in 5..6
  <1>1. milli \in Nat /\ milli <= U16Max
    <2>1. U16Max \in Nat
      BY DEF U16Max
    <2> QED
      BY <2>1, U16Is
  <1>2. milli \div 1000 \in Nat /\ milli \div 1000 < 100
    BY <1>1 DEF U16Max
  <1> QED
    BY <1>2, DigitsFit DEF Format

\* Temperatures that three characters tell, a sign included, in tenths of a degree.
Decidegrees == -999..9999

LEMMA DegreesFit ==
    ASSUME NEW dc \in Decidegrees
    PROVE  Degrees(dc) \in 1..3
  <1> USE DEF Decidegrees
  <1>1. CASE dc <= -10
    <2>1. (-dc) \div 10 < 100
      BY <1>1
    <2> QED
      BY <1>1, <2>1, DigitsFit DEF Degrees
  <1>2. CASE dc > -10 /\ dc < 0
    BY <1>2 DEF Degrees
  <1>3. CASE dc >= 0
    <2>1. dc \div 10 < 1000
      BY <1>3
    <2> QED
      BY <1>3, <2>1, DigitsFit DEF Degrees
  <1> QED
    BY <1>1, <1>2, <1>3

LEMMA LabelsFit ==
    ASSUME NEW s \in ChargerStatus
    PROVE  StateChars[s.state] \in 1..8 /\ HealthChars(s) \in 2..9
  <1>1. StateChars[s.state] \in 1..8
    BY DEF ChargerStatus, ChargeState, StateChars
  <1>2. s.fault # None => FaultChars[s.fault] \in 2..9
    BY DEF ChargerStatus, ChargerFault, FaultChars
  <1>3. s.thermistor # "Normal" => ThermistorChars[s.thermistor] \in 2..9
    BY DEF ChargerStatus, ThermistorState, ThermistorChars
  <1> QED
    BY <1>1, <1>2, <1>3 DEF HealthChars

-----------------------------------------------------------------------------
(* Rows of texts *)

\* Texts beside each other, between the borders of the frame.
Row(texts, y) ==
    /\ \A t \in texts : /\ t.y = y /\ t.x \in Nat /\ t.chars \in Nat /\ Right(t) \in Nat
                        /\ t.chars > 0 => 1 <= t.x /\ Right(t) <= 127
    /\ \A a, b \in texts : a.chars > 0 /\ b.chars > 0 /\ a # b
                           => Right(a) <= b.x \/ Right(b) <= a.x

\* Two texts of rows that are a character's height apart, or of one row.
LEMMA RowsKeepApart ==
    ASSUME NEW A, NEW B, NEW y \in Nat, NEW z \in Nat, Row(A, y), Row(B, z),
           y + CharHeight <= z \/ z + CharHeight <= y,
           NEW a \in A, NEW b \in B
    PROVE  Apart(a, b)
  <1>1. a.y = y /\ b.y = z
    BY DEF Row
  <1> QED
    BY <1>1 DEF Apart, Bottom

LEMMA RowKeepsApart ==
    ASSUME NEW A, NEW y, Row(A, y), NEW a \in A, NEW b \in A, a # b, a.chars > 0, b.chars > 0
    PROVE  Apart(a, b)
  BY DEF Row, Apart

LEMMA RowInFrame ==
    ASSUME NEW A, NEW y \in 1..53, Row(A, y), NEW a \in A, a.chars > 0
    PROVE  InFrame(a) /\ a.y = y /\ Bottom(a) = y + 10
  BY DEF Row, InFrame, Bottom, CharHeight, DisplayWidth

\* The five rows of a page.
LEMMA PageOfRows ==
    ASSUME NEW T, NEW A, NEW B, NEW C, NEW D,
           Row(T, 3), Row(A, 19), Row(B, 30), Row(C, 41), Row(D, 52)
    PROVE  Legible(T \cup A \cup B \cup C \cup D, 15)
  <1> DEFINE All == T \cup A \cup B \cup C \cup D
  <1>1. ASSUME NEW a \in All, a.chars > 0
        PROVE  InFrame(a) /\ (Bottom(a) <= 15 \/ 15 < a.y)
    <2>1. a \in T \/ a \in A \/ a \in B \/ a \in C \/ a \in D
      OBVIOUS
    <2> QED
      BY <1>1, <2>1, RowInFrame
  <1>2. ASSUME NEW a \in All, NEW b \in All, a.chars > 0, b.chars > 0, a # b
        PROVE  Apart(a, b)
    <2>1. (a \in T \/ a \in A \/ a \in B \/ a \in C \/ a \in D)
          /\ (b \in T \/ b \in A \/ b \in B \/ b \in C \/ b \in D)
      OBVIOUS
    <2>2. CASE a \in T
      BY <1>2, <2>1, <2>2, RowsKeepApart, RowKeepsApart DEF CharHeight
    <2>3. CASE a \in A
      BY <1>2, <2>1, <2>3, RowsKeepApart, RowKeepsApart DEF CharHeight
    <2>4. CASE a \in B
      BY <1>2, <2>1, <2>4, RowsKeepApart, RowKeepsApart DEF CharHeight
    <2>5. CASE a \in C
      BY <1>2, <2>1, <2>5, RowsKeepApart, RowKeepsApart DEF CharHeight
    <2>6. CASE a \in D
      BY <1>2, <2>1, <2>6, RowsKeepApart, RowKeepsApart DEF CharHeight
    <2> QED
      BY <2>1, <2>2, <2>3, <2>4, <2>5, <2>6
  <1> QED
    BY <1>1, <1>2 DEF Legible

\* The title of a full screen and two rows under it.
LEMMA ScreenOfRows ==
    ASSUME NEW T, NEW A, NEW B, NEW y \in 17..53, NEW z \in 17..53, y + 10 <= z,
           Row(T, 3), Row(A, y), Row(B, z)
    PROVE  Legible(T \cup A \cup B, 16)
  <1> DEFINE All == T \cup A \cup B
  <1>1. ASSUME NEW a \in All, a.chars > 0
        PROVE  InFrame(a) /\ (Bottom(a) <= 16 \/ 16 < a.y)
    <2>1. a \in T \/ a \in A \/ a \in B
      OBVIOUS
    <2> QED
      BY <1>1, <2>1, RowInFrame
  <1>2. ASSUME NEW a \in All, NEW b \in All, a.chars > 0, b.chars > 0, a # b
        PROVE  Apart(a, b)
    <2>1. (a \in T \/ a \in A \/ a \in B) /\ (b \in T \/ b \in A \/ b \in B)
      OBVIOUS
    <2>2. CASE a \in T
      BY <1>2, <2>1, <2>2, RowsKeepApart, RowKeepsApart DEF CharHeight
    <2>3. CASE a \in A
      BY <1>2, <2>1, <2>3, RowsKeepApart, RowKeepsApart DEF CharHeight
    <2>4. CASE a \in B
      BY <1>2, <2>1, <2>4, RowsKeepApart, RowKeepsApart DEF CharHeight
    <2> QED
      BY <2>1, <2>2, <2>3, <2>4
  <1> QED
    BY <1>1, <1>2 DEF Legible

LEMMA EmptyRow == ASSUME NEW y PROVE Row({}, y)
  BY DEF Row

LEMMA CenteredRow ==
    ASSUME NEW name, NEW chars \in 0..20, NEW y
    PROVE  Row({Centered(name, chars, y)}, y)
  BY DEF Row, Centered, Text, Right, CenteredX, NonNegative, DisplayWidth, CharWidth

\* Twenty characters fit between the margins.
LEMMA SplitRowFits ==
    ASSUME NEW left \in Nat, NEW right \in Nat, left + right <= 20, NEW y
    PROVE  Row(SplitRow(y, left, right), y)
  <1> DEFINE L == Text("left", left, Margin, y)
             R == Text("right", right, RightAlignedX(right), y)
  <1>1. RightAlignedX(right) = 124 - right * 6
    BY DEF RightAlignedX, NonNegative, DisplayWidth, Margin, CharWidth
  <1>2. L.y = y /\ L.x = 4 /\ L.chars = left /\ Right(L) = 4 + left * 6
    BY DEF Text, Right, Margin, CharWidth
  <1>3. R.y = y /\ R.x = 124 - right * 6 /\ R.chars = right /\ Right(R) = 124
    BY <1>1 DEF Text, Right, CharWidth
  <1>4. SplitRow(y, left, right) = {L, R}
    BY DEF SplitRow
  <1> HIDE DEF L, R
  <1> QED
    BY <1>2, <1>3, <1>4 DEF Row

\* A value is cut off at the margin; what stands behind it is its caller's.
LEMMA LabelRowFits ==
    ASSUME NEW label \in 0..6, NEW value \in Nat, NEW y
    PROVE  /\ Row(LabelRow(y, label, value), y)
           /\ \A t \in LabelRow(y, label, value) : Right(t) <= 40 \/ Right(t) = 40 + Least(value, 14) * 6
  <1> DEFINE L == Text("label", label, Margin, y)
             V == Text("value", ClipToRow(value, PageValueX), PageValueX, y)
  <1>1. ClipToRow(value, PageValueX) = Least(value, 14) /\ Least(value, 14) \in 0..14
    BY DEF ClipToRow, Least, NonNegative, DisplayWidth, Margin, CharWidth, PageValueX
  <1>2. L.y = y /\ L.x = 4 /\ L.chars = label /\ Right(L) = 4 + label * 6
    BY DEF Text, Right, Margin, CharWidth
  <1>3. /\ V.y = y /\ V.x = 40 /\ V.chars = Least(value, 14)
        /\ Right(V) = 40 + Least(value, 14) * 6
    BY <1>1 DEF Text, Right, CharWidth, PageValueX
  <1>4. LabelRow(y, label, value) = {L, V}
    BY DEF LabelRow
  <1> HIDE DEF L, V
  <1> QED
    BY <1>1, <1>2, <1>3, <1>4 DEF Row

-----------------------------------------------------------------------------
(* The pages *)

LEMMA RowsOfPage ==
    PageTitleTop = 3 /\ PageRows[1] = 19 /\ PageRows[2] = 30 /\ PageRows[3] = 41 /\ PageRows[4] = 52
  BY DEF PageTitleTop, PageRows

\* The version stands behind the name of the device.
LEMMA VersionRow ==
    ASSUME VersionChars \in 0..8
    PROVE  Row(LabelRow(52, 2, 6) \cup {Text("version", VersionChars, RightAlignedX(VersionChars), 52)}, 52)
  <1> DEFINE V == Text("version", VersionChars, RightAlignedX(VersionChars), 52)
             L == LabelRow(52, 2, 6)
  <1>1. RightAlignedX(VersionChars) = 124 - VersionChars * 6
    BY DEF RightAlignedX, NonNegative, DisplayWidth, Margin, CharWidth
  <1>2. V.y = 52 /\ V.x = 124 - VersionChars * 6 /\ V.chars = VersionChars /\ Right(V) = 124
    BY <1>1 DEF Text, Right, CharWidth
  <1>3. Row(L, 52) /\ \A t \in L : Right(t) <= 76
    <2>1. Least(6, 14) * 6 = 36
      BY DEF Least
    <2>2. Row(L, 52) /\ \A t \in L : Right(t) <= 40 \/ Right(t) = 40 + Least(6, 14) * 6
      BY LabelRowFits
    <2> HIDE DEF L
    <2>3. \A t \in L : Right(t) \in Nat
      BY <2>2 DEF Row
    <2>4. \A t \in L : Right(t) <= 76
      BY <2>1, <2>2, <2>3
    <2> QED
      BY <2>2, <2>4
  <1>4. V.x \in Nat /\ 76 <= V.x /\ V.x <= 124
    BY <1>2
  <1> HIDE DEF V, L
  <1>5. \A t \in L : Right(t) <= V.x
    BY <1>3, <1>4 DEF Row
  <1>6. ASSUME NEW a \in L \cup {V}, NEW b \in L \cup {V}, a.chars > 0, b.chars > 0, a # b
        PROVE  Right(a) <= b.x \/ Right(b) <= a.x
    <2>1. CASE a \in L /\ b \in L
      BY <1>3, <1>6, <2>1 DEF Row
    <2>2. CASE a = V \/ b = V
      BY <1>5, <1>6, <2>2
    <2> QED
      BY <2>1, <2>2
  <1>7. ASSUME NEW t \in L \cup {V}
        PROVE  /\ t.y = 52 /\ t.x \in Nat /\ t.chars \in Nat /\ Right(t) \in Nat
               /\ t.chars > 0 => 1 <= t.x /\ Right(t) <= 127
    <2>1. CASE t \in L
      BY <1>3, <2>1 DEF Row
    <2>2. CASE t = V
      BY <1>2, <1>4, <2>2
    <2> QED
      BY <2>1, <2>2
  <1>8. Row(L \cup {V}, 52)
    BY <1>6, <1>7 DEF Row
  <1> QED
    BY <1>8 DEF L, V

LEMMA NetworkPageIsLegible ==
    ASSUME NEW ip, NEW b, VersionChars \in 0..8
    PROVE  Legible(NetworkPage(ip, b), 15)
  <1> DEFINE T == PageFrame(7, IF ip = None THEN 7 ELSE 6)
             A == LabelRow(19, 4, SsidChars)
             B == LabelRow(30, 2, IF ip = None THEN 15 ELSE AddressChars(ip))
             C == LabelRow(41, 4, IF b = "Connected" THEN 6 ELSE 7)
             L == LabelRow(52, 2, 6)
             V == {Text("version", VersionChars, RightAlignedX(VersionChars), 52)}
  <1>1. Row(T, 3)
    BY SplitRowFits, RowsOfPage DEF PageFrame
  <1>2. Row(A, 19)
    BY LabelRowFits, LabelAssumption
  <1>3. Row(B, 30)
    <2>1. AddressChars(ip) \in Nat
      <3>1. /\ Digits(ip[1]) \in 1..4 /\ Digits(ip[2]) \in 1..4
            /\ Digits(ip[3]) \in 1..4 /\ Digits(ip[4]) \in 1..4
        BY DigitsFit
      <3> QED
        BY <3>1 DEF AddressChars
    <2> QED
      BY <2>1, LabelRowFits
  <1>4. Row(C, 41)
    BY LabelRowFits
  <1>5. Row(L \cup V, 52)
    BY VersionRow
  <1>6. NetworkPage(ip, b) = T \cup A \cup B \cup C \cup (L \cup V)
    BY RowsOfPage DEF NetworkPage, DeviceIdLen
  <1> HIDE DEF T, A, B, C, L, V
  <1> QED
    BY <1>1, <1>2, <1>3, <1>4, <1>5, <1>6, PageOfRows

LEMMA NoReadingIsLegible ==
    ASSUME VersionChars \in 0..20
    PROVE  Legible(BatteryPage(None), 15)
  <1> DEFINE T == PageFrame(7, NoReading)
             B == {Centered("line", 15, 30)}
             D == SplitRow(52, 0, VersionChars)
  <1>1. Row(T, 3)
    BY SplitRowFits, RowsOfPage DEF PageFrame, NoReading
  <1>2. Row(B, 30)
    BY CenteredRow
  <1>3. Row(D, 52)
    BY SplitRowFits
  <1>4. Row({}, 19) /\ Row({}, 41)
    BY EmptyRow
  <1>5. BatteryPage(None) = T \cup {} \cup B \cup {} \cup D
    BY RowsOfPage DEF BatteryPage
  <1> HIDE DEF T, B, D
  <1> QED
    BY <1>1, <1>2, <1>3, <1>4, <1>5, PageOfRows

Measurable == {s \in ChargerStatus : s.die_temp_dc \in Decidegrees}

LEMMA BatteryPageIsLegible ==
    ASSUME NEW s \in Measurable, s # None, VersionChars \in 0..6
    PROVE  Legible(BatteryPage(s), 15)
  <1> DEFINE T == PageFrame(5 + Digits(StateOfCharge(s.vbat_mv, s.cell_top_mv, s.cell_bot_mv)),
                            StateChars[s.state])
             A == SplitRow(19, 5 + Format(s.vbat_mv), Format(s.charge_current_ma))
             B == LabelRow(30, 4, Format(s.cell_top_mv) + Format(s.cell_bot_mv))
             C == IF InputPresent(s)
                  THEN SplitRow(41, 5 + Format(s.vbus_mv), Format(s.input_current_ma))
                  ELSE SplitRow(41, 5 + NoReading, 0)
             D == SplitRow(52, Degrees(s.die_temp_dc) + 2 + HealthChars(s), VersionChars)
  <1>1. /\ s \in ChargerStatus /\ s.die_temp_dc \in Decidegrees
        /\ s.vbat_mv \in U16 /\ s.cell_top_mv \in U16 /\ s.cell_bot_mv \in U16
        /\ s.vbus_mv \in U16 /\ s.charge_current_ma \in U16 /\ s.input_current_ma \in U16
    BY DEF Measurable, ChargerStatus
  <1>2. /\ Format(s.vbat_mv) \in 5..6 /\ Format(s.cell_top_mv) \in 5..6
        /\ Format(s.cell_bot_mv) \in 5..6 /\ Format(s.vbus_mv) \in 5..6
        /\ Format(s.charge_current_ma) \in 5..6 /\ Format(s.input_current_ma) \in 5..6
    BY <1>1, FormatFits
  <1>3. StateChars[s.state] \in 1..8 /\ HealthChars(s) \in 2..9 /\ Degrees(s.die_temp_dc) \in 1..3
    <2>1. StateChars[s.state] \in 1..8 /\ HealthChars(s) \in 2..9
      BY <1>1, LabelsFit
    <2>2. Degrees(s.die_temp_dc) \in 1..3
      BY <1>1, DegreesFit
    <2> QED
      BY <2>1, <2>2
  <1>4. Row(T, 3)
    <2>1. Digits(StateOfCharge(s.vbat_mv, s.cell_top_mv, s.cell_bot_mv)) \in 1..4
      BY DigitsFit
    <2> QED
      BY <1>3, <2>1, SplitRowFits, RowsOfPage DEF PageFrame
  <1>5. Row(A, 19)
    BY <1>2, SplitRowFits
  <1>6. Row(B, 30)
    BY <1>2, LabelRowFits
  <1>7. Row(C, 41)
    BY <1>2, SplitRowFits DEF NoReading
  <1>8. Row(D, 52)
    <2>1. /\ Degrees(s.die_temp_dc) + 2 + HealthChars(s) \in Nat
          /\ Degrees(s.die_temp_dc) + 2 + HealthChars(s) + VersionChars <= 20
      BY <1>3
    <2> QED
      BY <2>1, SplitRowFits
  <1>9. BatteryPage(s) = T \cup A \cup B \cup C \cup D
    BY RowsOfPage DEF BatteryPage
  <1> HIDE DEF T, A, B, C, D
  <1> QED
    BY <1>4, <1>5, <1>6, <1>7, <1>8, <1>9, PageOfRows

-----------------------------------------------------------------------------
(* Induction, as the least element of what is left out *)

LEMMA LessIsWellFounded == IsWellFoundedOn({ss \in Nat \X Nat : ss[1] < ss[2]}, Nat)
  BY NatLessThanWellFounded, Zenon DEF OpToRel

LEMMA LeastOf ==
    ASSUME NEW S, S \subseteq Nat, S # {}
    PROVE  \E m \in S : \A n \in S : m <= n
  <1> DEFINE Less == {ss \in Nat \X Nat : ss[1] < ss[2]}
  <1>1. PICK m \in S : \A n \in S : <<n, m>> \notin Less
    <2>1. IsWellFoundedOn(Less, Nat)
      BY LessIsWellFounded
    <2> HIDE DEF Less
    <2> QED
      BY <2>1, WFMin
  <1>2. \A n \in S : ~(n < m)
    BY <1>1
  <1> QED
    BY <1>2

LEMMA NatSetInduction ==
    ASSUME NEW S, 0 \in S, \A n \in Nat : n \in S => n + 1 \in S
    PROVE  Nat \subseteq S
  <1>1. SUFFICES ASSUME Nat \ S # {} PROVE FALSE
    OBVIOUS
  <1>2. PICK m \in Nat \ S : \A n \in Nat \ S : m <= n
    <2>1. Nat \ S \subseteq Nat
      OBVIOUS
    <2> QED
      BY <1>1, <2>1, LeastOf
  <1>3. m # 0 /\ m - 1 \in Nat
    OBVIOUS
  <1> QED
    BY <1>2, <1>3

LEMMA MaxIs ==
    ASSUME NEW k \in Nat, NEW S, S \subseteq 1..k, S # {}
    PROVE  Max(S) \in S /\ \A n \in S : n <= Max(S)
  <1> DEFINE Above == {m \in Nat : \A n \in S : n <= m}
  <1>1. k \in Above
    OBVIOUS
  <1>2. PICK m \in Above : \A n \in Above : m <= n
    <2>1. Above \subseteq Nat /\ Above # {}
      BY <1>1
    <2> HIDE DEF Above
    <2> QED
      BY <2>1, LeastOf
  <1>3. m \in S
    <2>1. SUFFICES ASSUME m \notin S PROVE FALSE
      OBVIOUS
    <2>2. \A n \in S : n \in Nat /\ 1 <= n /\ n <= m - 1
      BY <2>1
    <2>3. m - 1 \in Nat
      <3>1. PICK n : n \in S
        OBVIOUS
      <3> QED
        BY <2>2, <3>1
    <2>4. m - 1 \in Above
      BY <2>2, <2>3
    <2> QED
      BY <1>2, <2>4
  <1>4. \A n \in S : m >= n
    OBVIOUS
  <1>5. Max(S) \in S /\ \A n \in S : Max(S) >= n
    BY <1>3, <1>4 DEF Max
  <1> QED
    BY <1>5

LEMMA LargestIs ==
    ASSUME NEW S, S \subseteq Nat, NEW n \in S, \A m \in S : m <= n
    PROVE  Max(S) = n
  <1>1. Max(S) \in S /\ \A m \in S : Max(S) >= m
    <2>1. \A m \in S : n >= m
      OBVIOUS
    <2> QED
      BY <2>1 DEF Max
  <1>2. Max(S) \in Nat /\ n \in Nat /\ Max(S) >= n /\ Max(S) <= n
    BY <1>1, Zenon
  <1> QED
    BY <1>2

-----------------------------------------------------------------------------
(* Messages of any number of words *)

\* The characters of some words are defined, step by step.
LEMMA CharsToExists ==
    ASSUME NEW words
    PROVE  \A k \in Nat : \E f : f = [n \in 0..k |-> IF n = 0 THEN 0 ELSE IF n = 1 THEN words[1]
                                                     ELSE f[n - 1] + 1 + words[n]]
  <1> DEFINE Solves(f, k) == f = [n \in 0..k |-> IF n = 0 THEN 0 ELSE IF n = 1 THEN words[1]
                                                 ELSE f[n - 1] + 1 + words[n]]
             S == {k \in Nat : \E f : Solves(f, k)}
  <1>1. 0 \in S
    <2> DEFINE f == [n \in 0..0 |-> 0]
    <2>1. Solves(f, 0)
      OBVIOUS
    <2> HIDE DEF Solves, f
    <2> QED
      BY <2>1
  <1>2. ASSUME NEW k \in Nat, k \in S
        PROVE  k + 1 \in S
    <2>1. PICK f : Solves(f, k)
      BY <1>2
    <2> DEFINE g == [n \in 0..k + 1 |-> IF n = 0 THEN 0 ELSE IF n = 1 THEN words[1]
                                        ELSE f[n - 1] + 1 + words[n]]
    <2>2. \A n \in 0..k : g[n] = f[n]
      BY <2>1
    <2>3. g = [n \in 0..k + 1 |-> IF n = 0 THEN 0 ELSE IF n = 1 THEN words[1]
                                  ELSE g[n - 1] + 1 + words[n]]
      <3>1. \A n \in 0..k + 1 : n # 0 => g[n - 1] = f[n - 1]
        <4> HIDE DEF g, Solves
        <4> QED
          BY <2>2
      <3> QED
        BY <3>1
    <2>4. Solves(g, k + 1)
      <3> HIDE DEF g
      <3> QED
        BY <2>3
    <2> HIDE DEF Solves, g
    <2> QED
      BY <2>4
  <1>3. Nat \subseteq S
    <2> HIDE DEF S
    <2> QED
      BY <1>1, <1>2, NatSetInduction
  <1> QED
    BY <1>3

\* The recursion has a value where some function satisfies it.
LEMMA CharsToUnfolds ==
    ASSUME NEW words, NEW f,
           f = [n \in 0..Len(words) |-> IF n = 0 THEN 0 ELSE IF n = 1 THEN words[1]
                                        ELSE f[n - 1] + 1 + words[n]]
    PROVE  CharsTo(words) = [n \in 0..Len(words) |->
                                IF n = 0 THEN 0 ELSE IF n = 1 THEN words[1]
                                ELSE CharsTo(words)[n - 1] + 1 + words[n]]
  <1> DEFINE Solves(g) == g = [n \in 0..Len(words) |-> IF n = 0 THEN 0 ELSE IF n = 1 THEN words[1]
                                                       ELSE g[n - 1] + 1 + words[n]]
  <1>1. CharsTo(words) = CHOOSE g : Solves(g)
    BY DEF CharsTo
  <1>2. Solves(f)
    OBVIOUS
  <1>3. Solves(CharsTo(words))
    <2> HIDE DEF Solves
    <2> QED
      BY <1>1, <1>2
  <1> QED
    BY <1>3

\* CharsTo, for every message.
LEMMA CharsToIs ==
    ASSUME NEW words \in Seq(Nat)
    PROVE  /\ CharsTo(words) \in [0..Len(words) -> Nat]
           /\ CharsTo(words)[0] = 0
           /\ Len(words) >= 1 => CharsTo(words)[1] = words[1]
           /\ \A n \in 2..Len(words) : CharsTo(words)[n] = CharsTo(words)[n - 1] + 1 + words[n]
  <1>1. Len(words) \in Nat
    OBVIOUS
  <1>2. CharsTo(words) = [n \in 0..Len(words) |-> IF n = 0 THEN 0 ELSE IF n = 1 THEN words[1]
                                                  ELSE CharsTo(words)[n - 1] + 1 + words[n]]
    <2>1. PICK f : f = [n \in 0..Len(words) |-> IF n = 0 THEN 0 ELSE IF n = 1 THEN words[1]
                                                ELSE f[n - 1] + 1 + words[n]]
      BY <1>1, CharsToExists
    <2> QED
      BY <2>1, CharsToUnfolds
  <1> DEFINE c == CharsTo(words)
  <1>3. /\ c[0] = 0 /\ DOMAIN c = 0..Len(words)
        /\ Len(words) >= 1 => c[1] = words[1]
        /\ \A n \in 2..Len(words) : c[n] = c[n - 1] + 1 + words[n]
    <2> HIDE DEF c
    <2>1. c = [n \in 0..Len(words) |-> IF n = 0 THEN 0 ELSE IF n = 1 THEN words[1]
                                       ELSE c[n - 1] + 1 + words[n]]
      BY <1>2 DEF c
    <2>2. c[0] = 0 /\ DOMAIN c = 0..Len(words)
      BY <1>1, <2>1
    <2>3. Len(words) >= 1 => c[1] = words[1]
      BY <1>1, <2>1
    <2>4. ASSUME NEW n \in 2..Len(words)
          PROVE  c[n] = c[n - 1] + 1 + words[n]
      <3>1. n \in 0..Len(words) /\ n # 0 /\ n # 1
        BY <1>1
      <3> QED
        BY <2>1, <3>1, Zenon
    <2> QED
      BY <2>2, <2>3, <2>4
  <1> DEFINE S == {k \in Nat : k <= Len(words) => c[k] \in Nat}
  <1> HIDE DEF c
  <1>4. 0 \in S
    BY <1>3
  <1>5. ASSUME NEW k \in Nat, k \in S
        PROVE  k + 1 \in S
    <2>1. SUFFICES ASSUME k + 1 <= Len(words) PROVE c[k + 1] \in Nat
      OBVIOUS
    <2>2. c[k] \in Nat /\ words[k + 1] \in Nat
      BY <1>1, <1>5, <2>1
    <2>3. CASE k = 0
      BY <1>3, <2>1, <2>2, <2>3
    <2>4. CASE k # 0
      <3>1. k + 1 \in 2..Len(words) /\ (k + 1) - 1 = k
        BY <1>1, <2>1, <2>4
      <3>2. c[k + 1] = c[k] + 1 + words[k + 1]
        BY <1>3, <3>1
      <3> QED
        BY <2>2, <3>2
    <2> QED
      BY <2>3, <2>4
  <1>6. \A k \in 0..Len(words) : c[k] \in Nat
    <2>1. Nat \subseteq S
      <3> HIDE DEF S
      <3> QED
        BY <1>4, <1>5, NatSetInduction
    <2> QED
      BY <1>1, <2>1
  <1>7. c \in [0..Len(words) -> Nat]
    <2>1. c = [n \in 0..Len(words) |-> c[n]]
      BY <1>2, <1>3 DEF c
    <2> QED
      BY <1>6, <2>1
  <1> QED
    BY <1>3, <1>7 DEF c

\* A message: the lengths of its words.
Messages == Seq(Nat \ {0})

LEMMA TwoOrMore == ASSUME NEW n \in Nat, n >= 1, n # 1 PROVE n >= 2
  OBVIOUS

LEMMA ElementOf == ASSUME NEW S, NEW s \in Seq(S), NEW i \in 1..Len(s) PROVE s[i] \in S
  OBVIOUS

\* When words end like rest does, they are longer by what stands before.
LEMMA SuffixChars ==
    ASSUME NEW words \in Seq(Nat), NEW rest \in Seq(Nat), NEW k \in Nat, NEW d \in Nat,
           rest # <<>>, Len(words) = k + Len(rest),
           CharsTo(words)[k + 1] = rest[1] + d,
           \A i \in 2..Len(rest) : words[k + i] = rest[i]
    PROVE  Chars(words) = Chars(rest) + d
  <1> DEFINE c == CharsTo(words)
             r == CharsTo(rest)
             S == {i \in Nat : i + 1 <= Len(rest) => c[k + (i + 1)] = r[i + 1] + d}
  <1>1. Len(rest) \in Nat /\ Len(rest) >= 1 /\ Len(words) \in Nat
    OBVIOUS
  <1>2. /\ r[1] = rest[1] /\ \A i \in 1..Len(rest) : r[i] \in Nat
        /\ \A i \in 2..Len(rest) : r[i] = r[i - 1] + 1 + rest[i]
    <2>1. /\ r \in [0..Len(rest) -> Nat] /\ r[1] = rest[1]
          /\ \A i \in 2..Len(rest) : r[i] = r[i - 1] + 1 + rest[i]
      BY <1>1, CharsToIs
    <2> HIDE DEF r
    <2>2. \A i \in 1..Len(rest) : i \in 0..Len(rest)
      BY <1>1
    <2> QED
      BY <2>1, <2>2
  <1>3. \A i \in 2..Len(words) : c[i] = c[i - 1] + 1 + words[i]
    BY CharsToIs
  <1>4. c[k + 1] = rest[1] + d
    OBVIOUS
  <1> HIDE DEF c, r
  <1>5. 0 \in S
    BY <1>2, <1>4
  <1>6. ASSUME NEW i \in Nat, i \in S
        PROVE  i + 1 \in S
    <2>1. SUFFICES ASSUME i + 2 <= Len(rest)
                   PROVE  c[k + (i + 2)] = r[i + 2] + d
      OBVIOUS
    <2>2. i + 2 \in 2..Len(rest) /\ k + (i + 2) \in 2..Len(words) /\ i + 1 \in 1..Len(rest)
      BY <1>1, <2>1
    <2>3. (i + 2) - 1 = i + 1 /\ (k + (i + 2)) - 1 = k + (i + 1)
      OBVIOUS
    <2>4. r[i + 2] = r[i + 1] + 1 + rest[i + 2]
      BY <1>2, <2>2, <2>3
    <2>5. c[k + (i + 2)] = c[k + (i + 1)] + 1 + words[k + (i + 2)]
      BY <1>3, <2>2, <2>3
    <2>6. words[k + (i + 2)] = rest[i + 2] /\ rest[i + 2] \in Nat
      <3>1. words[k + (i + 2)] = rest[i + 2]
        BY <2>2, Zenon
      <3>2. i + 2 \in 1..Len(rest)
        BY <2>2
      <3>3. rest[i + 2] \in Nat
        BY <3>2, ElementOf, Zenon
      <3> QED
        BY <3>1, <3>3
    <2>7. c[k + (i + 1)] = r[i + 1] + d /\ r[i + 1] \in Nat
      <3>1. i + 1 <= Len(rest)
        BY <1>1, <2>1
      <3> QED
        BY <1>2, <1>6, <2>2, <3>1
    <2> DEFINE x == r[i + 1]
               y == rest[i + 2]
    <2>8. /\ x \in Nat /\ y \in Nat /\ r[i + 2] = x + 1 + y
          /\ c[k + (i + 2)] = (x + d) + 1 + y
      BY <2>4, <2>5, <2>6, <2>7
    <2> HIDE DEF x, y
    <2> QED
      BY <2>8
  <1>7. Nat \subseteq S
    <2> HIDE DEF S
    <2> QED
      BY <1>5, <1>6, NatSetInduction
  <1>8. c[k + Len(rest)] = r[Len(rest)] + d
    <2>1. Len(rest) - 1 \in Nat /\ (Len(rest) - 1) + 1 = Len(rest) /\ Len(rest) <= Len(rest)
      BY <1>1
    <2>2. Len(rest) - 1 \in S
      BY <1>7, <2>1
    <2>3. c[k + ((Len(rest) - 1) + 1)] = r[(Len(rest) - 1) + 1] + d
      BY <2>1, <2>2
    <2> QED
      BY <2>1, <2>3
  <1> QED
    BY <1>8 DEF Chars, c, r

\* A message that has more characters than a line is split at its last space that is
\* among the first twenty, or, when it has none there, after the twentieth character.
LEMMA SplitAtSpace ==
    ASSUME NEW words \in Messages, words # <<>>, Chars(words) > 20, Fitting(words) # {}
    PROVE  \E n \in 1..Len(words) - 1 :
               /\ SplitOff(words).line = CharsTo(words)[n]
               /\ CharsTo(words)[n] \in 1..19
               /\ CharsTo(words)[n + 1] >= 20
               /\ SplitOff(words).rest \in Messages
               /\ SplitOff(words).rest # <<>>
               /\ Len(SplitOff(words).rest) = Len(words) - n
               /\ \A i \in 1..Len(words) - n : SplitOff(words).rest[i] = words[n + i]
               /\ Chars(words) = SplitOff(words).line + 1 + Chars(SplitOff(words).rest)
  <1> DEFINE p == Max(Fitting(words))
             c == CharsTo(words)
             rest == SubSeq(words, p + 1, Len(words))
  <1>1. words \in Seq(Nat) /\ Len(words) \in Nat /\ Len(words) >= 1
        /\ \A i \in 1..Len(words) : words[i] \in Nat \ {0}
    BY DEF Messages
  <1>2. /\ \A i \in 0..Len(words) : c[i] \in Nat
        /\ c[1] = words[1]
        /\ \A i \in 2..Len(words) : c[i] = c[i - 1] + 1 + words[i]
    BY <1>1, CharsToIs
  <1>3. p \in Fitting(words) /\ \A m \in Fitting(words) : m <= p
    <2>1. Fitting(words) \subseteq 1..Len(words) - 1 /\ Len(words) - 1 \in Nat
      BY <1>1 DEF Fitting
    <2> QED
      BY <2>1, MaxIs
  <1>4. SplitOff(words) = [line |-> c[p], rest |-> rest]
    <2>1. Chars(words) \in Nat
      BY <1>1, <1>2 DEF Chars
    <2>2. ~(Chars(words) <= 20)
      BY <2>1
    <2> QED
      BY <2>2 DEF SplitOff, MessageMaxChars
  <1> HIDE DEF p
  <1>5. p \in 1..Len(words) - 1 /\ c[p] < 20
    BY <1>3 DEF Fitting, MessageMaxChars
  <1>6. /\ p \in 1..Len(words) /\ p + 1 \in 2..Len(words) /\ (p + 1) - 1 = p /\ p \in Nat
        /\ p \in 0..Len(words) /\ p + 1 \in 0..Len(words)
    BY <1>1, <1>5
  <1>7. c[p] \in Nat \ {0}
    <2>1. CASE p = 1
      BY <1>1, <1>2, <1>6, <2>1
    <2>2. CASE p # 1
      <3>1. p \in 2..Len(words) /\ p - 1 \in 0..Len(words)
        BY <1>6, <2>2
      <3>2. c[p] = c[p - 1] + 1 + words[p] /\ c[p - 1] \in Nat /\ words[p] \in Nat
        BY <1>1, <1>2, <1>6, <3>1
      <3> QED
        BY <3>2
    <2> QED
      BY <2>1, <2>2
  <1>8. c[p + 1] = c[p] + 1 + words[p + 1]
    BY <1>2, <1>6
  <1>9. c[p + 1] >= 20
    <2>1. CASE p + 1 = Len(words)
      BY <1>2, <1>6, <2>1 DEF Chars
    <2>2. CASE p + 1 # Len(words)
      <3>1. p + 1 \in 1..Len(words) - 1 /\ p + 1 \notin Fitting(words)
        BY <1>3, <1>6, <2>2
      <3> QED
        BY <1>2, <1>6, <3>1 DEF Fitting, MessageMaxChars
    <2> QED
      BY <2>1, <2>2
  <1>10. /\ rest \in Messages /\ Len(rest) = Len(words) - p
         /\ \A i \in 1..Len(words) - p : rest[i] = words[p + i]
    <2>1. \A i \in p + 1..Len(words) : words[i] \in Nat \ {0}
      BY <1>1, <1>6
    <2>2. /\ rest \in Seq(Nat \ {0})
          /\ Len(rest) = IF p + 1 <= Len(words) THEN Len(words) - (p + 1) + 1 ELSE 0
          /\ \A i \in 1..Len(words) - (p + 1) + 1 : rest[i] = words[(p + 1) + i - 1]
      <3> p + 1 \in Int /\ Len(words) \in Int
        BY <1>1, <1>6
      <3> HIDE DEF rest
      <3> QED
        BY <2>1, SubSeqProperties DEF rest
    <2> HIDE DEF rest
    <2>3. Len(words) - (p + 1) + 1 = Len(words) - p
          /\ \A i \in 1..Len(words) - p : (p + 1) + i - 1 = p + i
      BY <1>1, <1>6
    <2>4. Len(rest) = Len(words) - p
      BY <1>1, <1>6, <2>2, <2>3
    <2>5. ASSUME NEW i \in 1..Len(words) - p
          PROVE  rest[i] = words[p + i]
      BY <2>2, <2>3, <2>5
    <2> QED
      BY <2>2, <2>4, <2>5 DEF Messages
  <1> HIDE DEF rest
  <1>11. rest \in Seq(Nat) /\ rest # <<>> /\ Len(words) = p + Len(rest)
         /\ rest[1] = words[p + 1] /\ \A i \in 2..Len(rest) : words[p + i] = rest[i]
    <2>1. rest \in Seq(Nat) /\ Len(words) = p + Len(rest) /\ Len(rest) >= 1
      BY <1>1, <1>6, <1>10 DEF Messages
    <2>2. 1 \in 1..Len(words) - p /\ \A i \in 2..Len(rest) : i \in 1..Len(words) - p
      BY <1>1, <1>6, <1>10
    <2> QED
      BY <1>10, <2>1, <2>2
  <1>12. Chars(words) = Chars(rest) + (c[p] + 1)
    <2>1. c[p] + 1 \in Nat /\ CharsTo(words)[p + 1] = rest[1] + (c[p] + 1)
      <3>1. words[p + 1] \in Nat
        BY <1>1, <1>6
      <3>2. c[p + 1] = c[p] + 1 + words[p + 1] /\ c[p] \in Nat /\ words[p + 1] = rest[1]
        BY <1>7, <1>8, <1>11
      <3> HIDE DEF c
      <3>3. c[p] + 1 \in Nat /\ c[p + 1] = rest[1] + (c[p] + 1)
        BY <3>1, <3>2
      <3> QED
        BY <3>3 DEF c
    <2> HIDE DEF c
    <2> QED
      <3>1. words \in Seq(Nat) /\ rest \in Seq(Nat) /\ p \in Nat
        BY <1>1, <1>6, <1>11, Zenon
      <3> QED
        BY <1>11, <2>1, <3>1, SuffixChars, Zenon
  <1>13. Chars(rest) \in Nat
    <2>1. CharsTo(rest) \in [0..Len(rest) -> Nat] /\ Len(rest) \in 0..Len(rest)
      BY <1>11, CharsToIs
    <2> QED
      BY <2>1 DEF Chars
  <1> HIDE DEF c
  <1>14. SplitOff(words).line = c[p] /\ SplitOff(words).rest = rest
    BY <1>4
  <1>15. c[p] \in 1..19 /\ Chars(words) = c[p] + 1 + Chars(rest)
    <2> DEFINE x == c[p]
               y == Chars(rest)
    <2>1. x \in Nat \ {0} /\ y \in Nat /\ x < 20 /\ Chars(words) = y + (x + 1)
      BY <1>5, <1>7, <1>12, <1>13
    <2> HIDE DEF x, y
    <2>2. x \in 1..19 /\ Chars(words) = x + 1 + y
      BY <2>1
    <2> QED
      BY <2>2 DEF x, y
  <1> QED
    BY <1>5, <1>9, <1>10, <1>11, <1>14, <1>15 DEF c

LEMMA SplitLongWord ==
    ASSUME NEW words \in Messages, words # <<>>, Chars(words) > 20, Fitting(words) = {}
    PROVE  /\ words[1] >= 20
           /\ SplitOff(words).line = 20
           /\ SplitOff(words).rest \in Messages /\ SplitOff(words).rest # <<>>
           /\ words[1] = 20 =>
                 /\ Chars(words) = 21 + Chars(SplitOff(words).rest)
                 /\ Len(SplitOff(words).rest) = Len(words) - 1
                 /\ \A i \in 1..Len(words) - 1 : SplitOff(words).rest[i] = words[i + 1]
           /\ words[1] # 20 => Chars(words) = 20 + Chars(SplitOff(words).rest)
  <1> DEFINE c == CharsTo(words)
             rest == SplitOff(words).rest
  <1>1. words \in Seq(Nat) /\ Len(words) \in Nat /\ Len(words) >= 1
        /\ \A i \in 1..Len(words) : words[i] \in Nat \ {0}
    BY DEF Messages
  <1>2. /\ \A i \in 0..Len(words) : c[i] \in Nat
        /\ c[1] = words[1]
        /\ \A i \in 2..Len(words) : c[i] = c[i - 1] + 1 + words[i]
    BY <1>1, CharsToIs
  <1>3. words[1] \in Nat /\ words[1] >= 20
    <2>1. words[1] \in Nat
      BY <1>1
    <2>2. CASE Len(words) = 1
      BY <1>2, <2>1, <2>2 DEF Chars
    <2>3. CASE Len(words) >= 2
      <3>1. 1 \in 1..Len(words) - 1
        <4> Len(words) \in Nat
          BY <1>1
        <4> QED
          BY <2>3
      <3>2. ~(c[1] < 20)
        BY <3>1 DEF Fitting, MessageMaxChars
      <3> QED
        BY <1>2, <2>1, <3>2
    <2>4. Len(words) = 1 \/ Len(words) >= 2
      BY <1>1, TwoOrMore, Zenon
    <2> QED
      BY <2>2, <2>3, <2>4
  <1>4. SplitOff(words) = [line |-> 20, rest |-> IF words[1] = 20 THEN Tail(words)
                                                ELSE <<words[1] - 20>> \o Tail(words)]
    <2>1. Chars(words) \in Nat
      <3>1. CharsTo(words) \in [0..Len(words) -> Nat] /\ Len(words) \in 0..Len(words)
        BY <1>1, CharsToIs
      <3> QED
        BY <3>1 DEF Chars
    <2>2. ~(Chars(words) <= 20)
      BY <2>1
    <2> QED
      BY <2>2 DEF SplitOff, MessageMaxChars
  <1>5. /\ Tail(words) \in Messages /\ Len(Tail(words)) = Len(words) - 1
        /\ \A i \in 1..Len(words) - 1 : Tail(words)[i] = words[i + 1]
    <2>1. words \in Seq(Nat \ {0}) /\ words # <<>>
      BY DEF Messages
    <2> QED
      BY <2>1, HeadTailProperties DEF Messages
  <1>6. CASE words[1] = 20
    <2>1. rest = Tail(words)
      BY <1>4, <1>6
    <2>2. Len(words) >= 2
      <3>1. Len(words) # 1
        BY <1>2, <1>6 DEF Chars
      <3> QED
        BY <1>1, <3>1, TwoOrMore, Zenon
    <2> HIDE DEF rest
    <2>3. rest \in Seq(Nat) /\ Len(rest) = Len(words) - 1 /\ rest # <<>>
      <3>1. rest \in Seq(Nat) /\ Len(rest) = Len(words) - 1
        BY <1>5, <2>1 DEF Messages
      <3>2. Len(rest) >= 1
        BY <1>1, <2>2, <3>1
      <3> QED
        BY <3>1, <3>2
    <2>4. c[1 + 1] = rest[1] + 21
      <3>1. 2 \in 2..Len(words) /\ 2 - 1 = 1 /\ 1 \in 1..Len(words) - 1 /\ 2 \in 1..Len(words)
        BY <1>1, <2>2
      <3>2. c[2] = c[1] + 1 + words[2] /\ rest[1] = words[1 + 1] /\ words[2] \in Nat
        BY <1>1, <1>2, <1>5, <2>1, <3>1
      <3> HIDE DEF c
      <3>3. rest[1] = words[2] /\ c[1] = 20
        BY <1>2, <1>6, <3>2
      <3> QED
        BY <3>2, <3>3
    <2>5. \A i \in 2..Len(rest) : words[1 + i] = rest[i]
      <3>1. ASSUME NEW i \in 2..Len(rest)
            PROVE  words[1 + i] = rest[i]
        <4>1. i \in 1..Len(words) - 1 /\ i + 1 = 1 + i
          BY <1>1, <2>3
        <4> QED
          BY <1>5, <2>1, <4>1
      <3> QED
        BY <3>1
    <2>6. Chars(words) = Chars(rest) + 21
      <3>1. 1 \in Nat /\ 21 \in Nat /\ Len(words) = 1 + Len(rest)
        BY <1>1, <2>3
      <3> DEFINE k == 1
                 d == 21
      <3>2. /\ k \in Nat /\ d \in Nat /\ Len(words) = k + Len(rest)
            /\ CharsTo(words)[k + 1] = rest[1] + d
            /\ \A i \in 2..Len(rest) : words[k + i] = rest[i]
        BY <2>4, <2>5, <3>1
      <3>3. Chars(words) = Chars(rest) + d
        <4> HIDE DEF k, d, c
        <4> QED
          <5>1. words \in Seq(Nat) /\ rest \in Seq(Nat) /\ rest # <<>>
            BY <1>1, <2>3, Zenon
          <5> QED
            BY <3>2, <5>1, SuffixChars, Zenon
      <3> QED
        BY <3>3
    <2>7. Chars(rest) \in Nat
      <3>1. CharsTo(rest) \in [0..Len(rest) -> Nat] /\ Len(rest) \in 0..Len(rest)
        BY <2>3, CharsToIs
      <3> QED
        BY <3>1 DEF Chars
    <2>8. Chars(words) = 21 + Chars(rest)
      BY <2>6, <2>7
    <2> QED
      BY <1>3, <1>4, <1>5, <1>6, <2>1, <2>3, <2>8 DEF rest
  <1>7. CASE words[1] # 20
    <2> DEFINE first == <<words[1] - 20>>
    <2>1. rest = first \o Tail(words)
      BY <1>4, <1>7
    <2>2. words[1] - 20 \in Nat \ {0}
      BY <1>3, <1>7
    <2>3. /\ first \in Seq(Nat \ {0}) /\ Len(first) = 1 /\ first[1] = words[1] - 20
          /\ Tail(words) \in Seq(Nat \ {0})
      BY <1>5, <2>2 DEF Messages
    <2> HIDE DEF rest, first
    <2>4. /\ rest \in Seq(Nat \ {0}) /\ Len(rest) = Len(first) + Len(Tail(words))
          /\ \A i \in 1..Len(first) + Len(Tail(words)) :
                rest[i] = IF i <= Len(first) THEN first[i] ELSE Tail(words)[i - Len(first)]
      BY <2>1, <2>3, ConcatProperties
    <2>5. Len(rest) = Len(words) /\ rest # <<>> /\ rest \in Seq(Nat)
      BY <1>1, <1>5, <2>3, <2>4
    <2>6. rest[1] = words[1] - 20
      <3>1. 1 \in 1..Len(first) + Len(Tail(words)) /\ 1 <= Len(first)
        BY <1>1, <1>5, <2>3
      <3> QED
        BY <2>3, <2>4, <3>1
    <2>7. ASSUME NEW i \in 2..Len(rest)
          PROVE  words[0 + i] = rest[i]
      <3>1. i \in 1..Len(first) + Len(Tail(words)) /\ ~(i <= Len(first)) /\ i - Len(first) = i - 1
        BY <1>1, <1>5, <2>3, <2>5
      <3>2. rest[i] = Tail(words)[i - 1]
        BY <2>4, <3>1
      <3>3. i - 1 \in 1..Len(words) - 1 /\ (i - 1) + 1 = i /\ 0 + i = i
        BY <1>1, <2>5
      <3>4. Tail(words)[i - 1] = words[(i - 1) + 1]
        BY <1>5, <3>3
      <3> QED
        BY <3>2, <3>3, <3>4
    <2>8. Chars(words) = Chars(rest) + 20
      <3>1. 0 \in Nat /\ 20 \in Nat /\ Len(words) = 0 + Len(rest)
        BY <1>1, <2>5
      <3>2. CharsTo(words)[0 + 1] = rest[1] + 20
        BY <1>2, <1>3, <2>6
      <3> DEFINE k == 0
                 d == 20
      <3>3. /\ k \in Nat /\ d \in Nat /\ Len(words) = k + Len(rest)
            /\ CharsTo(words)[k + 1] = rest[1] + d
            /\ \A i \in 2..Len(rest) : words[k + i] = rest[i]
        BY <2>7, <3>1, <3>2
      <3>4. Chars(words) = Chars(rest) + d
        <4> HIDE DEF k, d, c
        <4> QED
          <5>1. words \in Seq(Nat) /\ rest \in Seq(Nat) /\ rest # <<>>
            BY <1>1, <2>5, Zenon
          <5> QED
            BY <3>3, <5>1, SuffixChars, Zenon
      <3> QED
        BY <3>4
    <2>9. Chars(rest) \in Nat
      <3>1. CharsTo(rest) \in [0..Len(rest) -> Nat] /\ Len(rest) \in 0..Len(rest)
        BY <2>5, CharsToIs
      <3> QED
        BY <3>1 DEF Chars
    <2>10. Chars(words) = 20 + Chars(rest)
      BY <2>8, <2>9
    <2>11. rest \in Messages /\ rest # <<>>
      BY <2>4, <2>5 DEF Messages
    <2> QED
      BY <1>3, <1>4, <1>7, <2>10, <2>11 DEF rest
  <1> QED
    BY <1>6, <1>7

LEMMA CharsPositive ==
    ASSUME NEW words \in Messages, words # <<>>
    PROVE  Chars(words) \in Nat \ {0}
  <1> DEFINE c == CharsTo(words)
  <1>1. /\ words \in Seq(Nat) /\ Len(words) \in Nat /\ Len(words) >= 1
        /\ words[Len(words)] \in Nat \ {0}
    BY DEF Messages
  <1>2. /\ \A i \in 0..Len(words) : c[i] \in Nat
        /\ c[1] = words[1]
        /\ \A i \in 2..Len(words) : c[i] = c[i - 1] + 1 + words[i]
    BY <1>1, CharsToIs
  <1> HIDE DEF c
  <1>3. CASE Len(words) = 1
    BY <1>1, <1>2, <1>3 DEF Chars, c
  <1>4. CASE Len(words) # 1
    <2>1. Len(words) \in 2..Len(words) /\ Len(words) - 1 \in 0..Len(words)
      <3>1. \A n \in Nat : n >= 2 => n \in 2..n /\ n - 1 \in 0..n
        OBVIOUS
      <3> QED
        BY <1>1, <1>4, <3>1, TwoOrMore, Zenon
    <2> DEFINE x == c[Len(words) - 1]
               y == words[Len(words)]
    <2>2. x \in Nat /\ y \in Nat /\ c[Len(words)] = x + 1 + y
      BY <1>1, <1>2, <2>1
    <2> HIDE DEF x, y
    <2>3. c[Len(words)] \in Nat \ {0}
      BY <2>2
    <2> QED
      BY <2>3 DEF Chars, c
  <1> QED
    BY <1>3, <1>4

\* wrap_message: a line has one to twenty characters, what is left is a message again,
\* and every character is on the line or left, but for the space the line is split at.
THEOREM LinesKeepMessage ==
    ASSUME NEW words \in Messages, words # <<>>
    PROVE  LET s == SplitOff(words)
           IN  /\ s.line \in 1..MessageMaxChars
               /\ s.rest \in Messages
               /\ IF s.rest = <<>> THEN Chars(words) = s.line
                  ELSE Chars(words) \in {s.line + Chars(s.rest), s.line + 1 + Chars(s.rest)}
  <1>1. Chars(words) \in Nat \ {0}
    BY CharsPositive
  <1>2. CASE Chars(words) <= 20
    <2>1. SplitOff(words) = [line |-> Chars(words), rest |-> <<>>]
      BY <1>2 DEF SplitOff, MessageMaxChars
    <2>2. <<>> \in Messages
      BY DEF Messages
    <2>3. Chars(words) \in 1..20
      BY <1>1, <1>2
    <2> QED
      BY <2>1, <2>2, <2>3 DEF MessageMaxChars
  <1>3. CASE Chars(words) > 20 /\ Fitting(words) # {}
    <2>1. /\ SplitOff(words).line \in 1..19
          /\ SplitOff(words).rest \in Messages /\ SplitOff(words).rest # <<>>
          /\ Chars(words) = SplitOff(words).line + 1 + Chars(SplitOff(words).rest)
      BY <1>3, SplitAtSpace
    <2>2. \A n \in 1..19 : n \in 1..20
      OBVIOUS
    <2> QED
      BY <2>1, <2>2, Zenon DEF MessageMaxChars
  <1>4. CASE Chars(words) > 20 /\ Fitting(words) = {}
    <2>1. SplitOff(words).line = 20 /\ SplitOff(words).rest \in Messages
          /\ SplitOff(words).rest # <<>>
      BY <1>4, SplitLongWord
    <2>2. Chars(words) = 21 + Chars(SplitOff(words).rest)
          \/ Chars(words) = 20 + Chars(SplitOff(words).rest)
      BY <1>4, SplitLongWord
    <2>3. Chars(SplitOff(words).rest) \in Nat
      BY <2>1, CharsPositive
    <2> QED
      BY <2>1, <2>2, <2>3 DEF MessageMaxChars
  <1> QED
    BY <1>1, <1>2, <1>3, <1>4

\* wrap_message, lines 79-103: a line takes as many words as fit on it; but when these come
\* to exactly twenty characters and more follow, the last of them is left for the next
\* line, because the search for a space ends one character too early.
THEOREM LinesAreGreedy ==
    ASSUME NEW words \in Messages, words # <<>>
    PROVE  LET fits == {n \in 1..Len(words) : CharsTo(words)[n] <= MessageMaxChars}
               line == SplitOff(words).line
           IN  /\ fits = {} => line = MessageMaxChars
               /\ \A n \in fits : (\A m \in fits : m <= n) =>
                     line = IF n \in {1, Len(words)} \/ CharsTo(words)[n] < MessageMaxChars
                            THEN CharsTo(words)[n] ELSE CharsTo(words)[n - 1]
  <1> DEFINE c == CharsTo(words)
             fits == {n \in 1..Len(words) : c[n] <= 20}
             line == SplitOff(words).line
  <1>1. words \in Seq(Nat) /\ Len(words) \in Nat /\ Len(words) >= 1
        /\ \A i \in 1..Len(words) : words[i] \in Nat \ {0}
    BY DEF Messages
  <1>2. /\ \A i \in 1..Len(words) : c[i] \in Nat
        /\ c[1] = words[1]
        /\ \A i \in 2..Len(words) : c[i] = c[i - 1] + 1 + words[i]
        /\ c[Len(words)] = Chars(words)
    <2>1. c \in [0..Len(words) -> Nat] /\ \A i \in 1..Len(words) : i \in 0..Len(words)
      BY <1>1, CharsToIs
    <2> QED
      BY <1>1, <2>1, CharsToIs DEF Chars
  <1> HIDE DEF c
  <1>3. Fitting(words) = {n \in 1..Len(words) - 1 : c[n] < 20}
    BY DEF Fitting, MessageMaxChars, c
  <1>4. Fitting(words) \subseteq fits /\ Fitting(words) \subseteq 1..Len(words) - 1
    BY <1>1, <1>2, <1>3
  <1>5. Chars(words) \in Nat /\ (Chars(words) <= 20 <=> Len(words) \in fits)
    <2>1. Len(words) \in 1..Len(words)
      BY <1>1
    <2> QED
      BY <1>2, <2>1
  <1>6. Chars(words) <= 20 => line = c[Len(words)]
    BY <1>2 DEF SplitOff, MessageMaxChars
  <1>7. Chars(words) > 20 /\ Fitting(words) # {} => line = c[Max(Fitting(words))]
    <2> SUFFICES ASSUME Chars(words) > 20, Fitting(words) # {}
                 PROVE  line = c[Max(Fitting(words))]
      OBVIOUS
    <2>1. ~(Chars(words) <= 20)
      BY <1>5
    <2> QED
      BY <2>1 DEF SplitOff, MessageMaxChars, c
  <1>8. Chars(words) > 20 /\ Fitting(words) = {} => line = 20
    BY SplitLongWord
  <1> HIDE DEF line
  <1>9. fits = {} => line = 20
    BY <1>4, <1>5, <1>8
  <1>10. ASSUME NEW n \in fits, \A m \in fits : m <= n
         PROVE  line = IF n \in {1, Len(words)} \/ c[n] < 20 THEN c[n] ELSE c[n - 1]
    <2>1. n \in 1..Len(words) /\ c[n] <= 20 /\ c[n] \in Nat
      BY <1>2
    <2>2. CASE n = Len(words)
      BY <1>5, <1>6, <2>2
    <2>3. CASE n # Len(words)
      <3>1. n \in 1..Len(words) - 1 /\ Len(words) \notin fits
        BY <1>1, <1>10, <2>1, <2>3
      <3>2. Chars(words) > 20
        BY <1>5, <3>1
      <3> HIDE DEF fits
      <3>3. \A m \in Fitting(words) : m <= n
        BY <1>4, <1>10
      <3>4. CASE c[n] < 20
        <4>1. n \in Fitting(words)
          BY <1>3, <3>1, <3>4
        <4>2. Max(Fitting(words)) = n
          BY <1>4, <3>3, <4>1, LargestIs
        <4> QED
          BY <1>7, <3>2, <3>4, <4>1, <4>2
      <3>5. CASE c[n] = 20 /\ n = 1
        <4>1. Fitting(words) = {}
          <5>1. \A m \in Fitting(words) : m = 1
            BY <1>1, <1>4, <3>3, <3>5
          <5> QED
            BY <1>3, <3>5, <5>1
        <4> QED
          BY <1>8, <3>2, <3>5, <4>1
      <3>6. CASE c[n] = 20 /\ n # 1
        <4>1. n - 1 \in 1..Len(words) - 1 /\ n \in 2..Len(words) /\ n - 1 \in 1..Len(words)
          BY <1>1, <2>1, <3>1, <3>6
        <4>2. c[n - 1] < 20
          <5>1. c[n] = c[n - 1] + 1 + words[n] /\ c[n - 1] \in Nat /\ words[n] \in Nat
            BY <1>1, <1>2, <2>1, <4>1
          <5> QED
            BY <3>6, <5>1
        <4>3. n - 1 \in Fitting(words) /\ n \notin Fitting(words)
          BY <1>3, <3>6, <4>1, <4>2
        <4>4. \A m \in Fitting(words) : m <= n - 1
          BY <1>1, <1>4, <2>1, <3>3, <4>3
        <4>5. Max(Fitting(words)) = n - 1
          BY <1>4, <4>1, <4>3, <4>4, LargestIs
        <4> QED
          BY <1>7, <2>3, <3>2, <3>6, <4>3, <4>5
      <3> QED
        BY <2>1, <3>4, <3>5, <3>6
    <2> QED
      BY <2>2, <2>3
  <1> QED
    BY <1>9, <1>10 DEF c, line, MessageMaxChars

\* A line is filled until the next word would not fit: a message of words of up to w
\* characters loses 20 - w of them at least, the space included.
LEMMA LinesAreFilled ==
    ASSUME NEW w \in 1..20, NEW words \in Messages, words # <<>>,
           \A i \in 1..Len(words) : words[i] <= w, Chars(words) > 20
    PROVE  LET rest == SplitOff(words).rest
           IN  /\ rest \in Messages /\ rest # <<>>
               /\ \A i \in 1..Len(rest) : rest[i] <= w
               /\ Chars(rest) <= Chars(words) - (20 - w)
  <1> DEFINE rest == SplitOff(words).rest
  <1>1. /\ words \in Seq(Nat) /\ Len(words) \in Nat /\ Len(words) >= 1
        /\ \A i \in 1..Len(words) : words[i] \in Nat
        /\ w \in Nat /\ w <= 20
    BY DEF Messages
  <1>2. CASE Fitting(words) # {}
    <2>1. PICK n \in 1..Len(words) - 1 :
               /\ SplitOff(words).line = CharsTo(words)[n]
               /\ CharsTo(words)[n] \in 1..19
               /\ CharsTo(words)[n + 1] >= 20
               /\ rest \in Messages
               /\ rest # <<>>
               /\ Len(rest) = Len(words) - n
               /\ \A i \in 1..Len(words) - n : rest[i] = words[n + i]
               /\ Chars(words) = SplitOff(words).line + 1 + Chars(rest)
      BY <1>2, SplitAtSpace
    <2> HIDE DEF rest
    <2>2. n \in Nat /\ n + 1 \in 2..Len(words) /\ n + 1 \in 1..Len(words) /\ (n + 1) - 1 = n
      BY <1>1
    <2>3. ASSUME NEW i \in 1..Len(rest)
          PROVE  rest[i] <= w
      <3>1. i \in 1..Len(words) - n /\ n + i \in 1..Len(words)
        BY <1>1, <2>1, <2>2
      <3> QED
        BY <2>1, <3>1
    <2>4. CharsTo(words)[n + 1] = CharsTo(words)[n] + 1 + words[n + 1]
      BY <1>1, <2>2, CharsToIs
    <2> DEFINE x == CharsTo(words)[n]
               y == words[n + 1]
               z == Chars(rest)
    <2>5. /\ x \in 1..19 /\ y \in Nat /\ y <= w /\ x + 1 + y >= 20
          /\ z \in Nat /\ Chars(words) = x + 1 + z
      BY <1>1, <2>1, <2>2, <2>4, CharsPositive
    <2> HIDE DEF x, y, z
    <2>6. z <= Chars(words) - (20 - w)
      BY <1>1, <2>5
    <2> QED
      BY <2>1, <2>3, <2>6 DEF rest, z
  <1>3. CASE Fitting(words) = {}
    <2>1. /\ words[1] >= 20
          /\ rest \in Messages /\ rest # <<>>
          /\ words[1] = 20 =>
                 /\ Chars(words) = 21 + Chars(rest)
                 /\ Len(rest) = Len(words) - 1
                 /\ \A i \in 1..Len(words) - 1 : rest[i] = words[i + 1]
      BY <1>3, SplitLongWord
    <2> HIDE DEF rest
    <2>2. 1 \in 1..Len(words)
      BY <1>1
    <2>3. words[1] = 20 /\ w = 20
      BY <1>1, <2>1, <2>2
    <2>4. ASSUME NEW i \in 1..Len(rest)
          PROVE  rest[i] <= w
      <3>1. i \in 1..Len(words) - 1 /\ i + 1 \in 1..Len(words)
        BY <1>1, <2>1, <2>3
      <3> QED
        BY <2>1, <2>3, <3>1
    <2>5. Chars(rest) \in Nat /\ Chars(words) = 21 + Chars(rest)
      BY <2>1, <2>3, CharsPositive
    <2>6. Chars(rest) <= Chars(words) - (20 - w)
      BY <2>3, <2>5
    <2> QED
      BY <2>1, <2>4, <2>6 DEF rest
  <1> QED
    BY <1>2, <1>3

\* Three lines are all that is asked for.
LEMMA RemainingUnfolds ==
    ASSUME NEW words
    PROVE  /\ Remaining(words)[0] = words
           /\ Remaining(words)[1] = AfterLine(words)
           /\ Remaining(words)[2] = AfterLine(AfterLine(words))
           /\ Remaining(words)[3] = AfterLine(AfterLine(AfterLine(words)))
  <1> DEFINE Solves(g) == g = [n \in 0..3 |-> IF n = 0 THEN words ELSE AfterLine(g[n - 1])]
             f == [n \in 0..3 |-> IF n = 0 THEN words
                                  ELSE IF n = 1 THEN AfterLine(words)
                                  ELSE IF n = 2 THEN AfterLine(AfterLine(words))
                                  ELSE AfterLine(AfterLine(AfterLine(words)))]
  <1>1. Remaining(words) = CHOOSE g : Solves(g)
    BY DEF Remaining, MessageMaxLines
  <1>2. Solves(f)
    <2>1. ASSUME NEW n \in 0..3
          PROVE  f[n] = IF n = 0 THEN words ELSE AfterLine(f[n - 1])
      OBVIOUS
    <2> QED
      BY <2>1
  <1>3. Solves(Remaining(words))
    <2> HIDE DEF Solves, f
    <2> QED
      BY <1>1, <1>2
  <1>4. Remaining(words) = [n \in 0..3 |-> IF n = 0 THEN words ELSE AfterLine(Remaining(words)[n - 1])]
    BY <1>3
  <1> QED
    BY <1>4

LEMMA ShortIsWhole ==
    ASSUME NEW words \in Messages, words # <<>> => Chars(words) <= 20
    PROVE  AfterLine(words) = <<>>
  BY DEF AfterLine, SplitOff, MessageMaxChars

\* wrap_message: however many words a message has, when none is longer than w characters
\* and all of it not longer than 20 + 2 (20 - w), three lines hold it: 38 characters
\* of words of up to eleven.
THEOREM MessagesAreWhole ==
    ASSUME NEW w \in 1..MessageMaxChars, NEW words \in Messages,
           \A i \in 1..Len(words) : words[i] <= w,
           words # <<>> => Chars(words) <= MessageMaxChars + 2 * (MessageMaxChars - w)
    PROVE  IsWhole(words, None)
  <1> DEFINE Upto(rest, k) == /\ rest \in Messages
                              /\ \A i \in 1..Len(rest) : rest[i] <= w
                              /\ rest # <<>> => Chars(rest) <= 20 + k * (20 - w)
  <1>1. w \in 1..20 /\ w \in Int /\ AfterLine(<<>>) = <<>>
    BY DEF MessageMaxChars, AfterLine
  <1>2. ASSUME NEW rest, NEW k \in {1, 2}, Upto(rest, k)
        PROVE  Upto(AfterLine(rest), k - 1)
    <2>1. CASE rest = <<>>
      BY <1>1, <1>2, <2>1
    <2>2. CASE rest # <<>> /\ Chars(rest) <= 20
      <3>1. AfterLine(rest) = <<>>
        BY <1>2, <2>2, ShortIsWhole
      <3>2. <<>> \in Messages /\ Len(<<>>) = 0
        BY DEF Messages
      <3> QED
        BY <3>1, <3>2
    <2>3. CASE rest # <<>> /\ Chars(rest) > 20
      <3>1. /\ AfterLine(rest) \in Messages
            /\ \A i \in 1..Len(AfterLine(rest)) : AfterLine(rest)[i] <= w
            /\ Chars(AfterLine(rest)) <= Chars(rest) - (20 - w)
            /\ AfterLine(rest) # <<>>
        BY <1>1, <1>2, <2>3, LinesAreFilled DEF AfterLine
      <3> DEFINE x == Chars(rest)
                 y == Chars(AfterLine(rest))
      <3>2. x \in Nat /\ y \in Nat /\ x <= 20 + k * (20 - w) /\ y <= x - (20 - w)
        BY <1>2, <2>3, <3>1, CharsPositive
      <3> HIDE DEF x, y
      <3>3. y <= 20 + (k - 1) * (20 - w)
        <4>1. CASE k = 1
          BY <1>1, <3>2, <4>1
        <4>2. CASE k = 2
          BY <1>1, <3>2, <4>2
        <4> QED
          BY <4>1, <4>2
      <3> QED
        BY <3>1, <3>3 DEF y
    <2>4. rest = <<>> \/ Chars(rest) \in Nat
      BY <1>2, CharsPositive
    <2> QED
      <3> HIDE DEF Upto
      <3> QED
        BY <2>1, <2>2, <2>3, <2>4
  <1>3. Upto(words, 2)
    BY DEF MessageMaxChars
  <1> HIDE DEF Upto
  <1>4. Upto(AfterLine(AfterLine(words)), 0)
    <2>1. Upto(AfterLine(words), 1)
      BY <1>2, <1>3
    <2> QED
      BY <1>2, <2>1
  <1>5. AfterLine(AfterLine(AfterLine(words))) = <<>>
    <2>1. w \in Int
      BY <1>1
    <2> USE DEF Upto
    <2> QED
      BY <1>4, <2>1, ShortIsWhole
  <1> QED
    BY <1>5, RemainingUnfolds DEF IsWhole, MessageMaxLines

-----------------------------------------------------------------------------
(* Screens of any message *)

\* The lines of a message, as far as there is room for them.
LEMMA WrapIs ==
    ASSUME NEW words \in Messages
    PROVE  \E k \in 0..3 : /\ WrapMessage(words) \in [1..k -> 1..20]
                           /\ words # <<>> => k # 0
  <1> DEFINE r == Remaining(words)
             lines == {n \in 1..3 : r[n - 1] # <<>>}
  <1>1. ASSUME NEW rest \in Messages
        PROVE  AfterLine(rest) \in Messages
    BY <1>1, LinesKeepMessage DEF AfterLine
  <1>2. /\ r[0] = words /\ r[1] = AfterLine(words) /\ r[2] = AfterLine(AfterLine(words))
        /\ r[0] \in Messages /\ r[1] \in Messages /\ r[2] \in Messages
    BY <1>1, RemainingUnfolds
  <1>3. (r[0] = <<>> => r[1] = <<>>) /\ (r[1] = <<>> => r[2] = <<>>)
    BY <1>2 DEF AfterLine
  <1> HIDE DEF r
  <1>4. PICK k \in 0..3 : lines = 1..k /\ (words # <<>> => k # 0)
    <2>1. \A n \in 1..3 : n = 1 \/ n = 2 \/ n = 3
      OBVIOUS
    <2>2. CASE r[0] = <<>>
      <3>1. lines = 1..0
        BY <1>3, <2>1, <2>2
      <3> QED
        BY <1>2, <2>2, <3>1
    <2>3. CASE r[0] # <<>> /\ r[1] = <<>>
      <3>1. lines = 1..1
        BY <1>3, <2>1, <2>3
      <3> QED
        BY <3>1
    <2>4. CASE r[0] # <<>> /\ r[1] # <<>> /\ r[2] = <<>>
      <3>1. lines = 1..2
        BY <2>1, <2>4
      <3> QED
        BY <3>1
    <2>5. CASE r[0] # <<>> /\ r[1] # <<>> /\ r[2] # <<>>
      <3>1. lines = 1..3
        BY <2>1, <2>5
      <3> QED
        BY <3>1
    <2> QED
      BY <2>2, <2>3, <2>4, <2>5
  <1>5. WrapMessage(words) = [n \in lines |-> SplitOff(r[n - 1]).line]
    BY DEF WrapMessage, MessageMaxLines, r
  <1>6. ASSUME NEW n \in lines
        PROVE  SplitOff(r[n - 1]).line \in 1..20
    <2>1. r[n - 1] \in Messages
      <3>1. n = 1 \/ n = 2 \/ n = 3
        OBVIOUS
      <3> QED
        BY <1>2, <3>1
    <2>2. r[n - 1] # <<>>
      OBVIOUS
    <2> QED
      BY <2>1, <2>2, LinesKeepMessage DEF MessageMaxChars
  <1> HIDE DEF lines
  <1>7. WrapMessage(words) \in [1..k -> 1..20]
    BY <1>4, <1>5, <1>6
  <1> QED
    BY <1>4, <1>7

LEMMA LenOfLines ==
    ASSUME NEW k \in Nat, NEW S, NEW lines \in [1..k -> S]
    PROVE  Len(lines) = k /\ DOMAIN lines = 1..k
  <1>1. lines \in Seq(S)
    BY SeqDef
  <1>2. Len(lines) \in Nat /\ DOMAIN lines = 1..Len(lines) /\ DOMAIN lines = 1..k
    BY <1>1, LenProperties
  <1> QED
    BY <1>2

\* Lines of twenty characters at most, a line height apart, under the title.
LEMMA LinesAreLegible ==
    ASSUME NEW title \in 0..20, NEW k \in 0..3, NEW lines \in [1..k -> 1..20],
           NEW top \in Nat, 17 <= top, top + k * 11 <= 64
    PROVE  Legible({Centered("title", title, 3)}
                   \cup {Centered("line", lines[n], top + (n - 1) * 11) : n \in 1..k}, 16)
  <1> DEFINE T == Centered("title", title, 3)
             L(n) == Centered("line", lines[n], top + (n - 1) * 11)
             texts == {T} \cup {L(n) : n \in 1..k}
  <1>1. /\ T.y = 3 /\ Bottom(T) = 13
        /\ T.chars > 0 => InFrame(T)
    BY DEF Centered, Text, Bottom, CharHeight, InFrame, Right, CenteredX, NonNegative,
           DisplayWidth, CharWidth
  <1>2. ASSUME NEW n \in 1..k
        PROVE  /\ L(n).y = top + (n - 1) * 11 /\ Bottom(L(n)) = L(n).y + 10
               /\ L(n).y \in Nat /\ 16 < L(n).y
               /\ InFrame(L(n))
    <2> DEFINE c == lines[n]
               y == top + (n - 1) * 11
    <2>1. c \in 1..20
      OBVIOUS
    <2>2. y \in Nat /\ 17 <= y /\ y + 10 <= 63
      OBVIOUS
    <2> HIDE DEF c, y
    <2>3. /\ Centered("line", c, y).y = y /\ Bottom(Centered("line", c, y)) = y + 10
          /\ InFrame(Centered("line", c, y))
      BY <2>1, <2>2 DEF Centered, Text, Bottom, CharHeight, InFrame, Right, CenteredX,
                        NonNegative, DisplayWidth, CharWidth
    <2> QED
      BY <2>2, <2>3 DEF c, y
  <1> HIDE DEF T, L
  <1>3. ASSUME NEW a \in texts, a.chars > 0
        PROVE  InFrame(a) /\ (Bottom(a) <= 16 \/ 16 < a.y)
    BY <1>1, <1>2, <1>3
  <1>4. ASSUME NEW n \in 1..k
        PROVE  Apart(T, L(n)) /\ Apart(L(n), T)
    BY <1>1, <1>2 DEF Apart
  <1>5. ASSUME NEW m \in 1..k, NEW n \in 1..k, m # n
        PROVE  Apart(L(m), L(n))
    <2>1. L(m).y + 10 <= L(n).y \/ L(n).y + 10 <= L(m).y
      BY <1>2, <1>5
    <2> QED
      BY <1>2, <2>1 DEF Apart
  <1>6. ASSUME NEW a \in texts, NEW b \in texts, a # b
        PROVE  Apart(a, b)
    BY <1>4, <1>5, <1>6, Zenon
  <1> HIDE DEF texts
  <1>7. Legible(texts, 16)
    BY <1>3, <1>6 DEF Legible
  <1> QED
    BY <1>7 DEF texts, T, L

\* With a figure, the first line stands above the bar and the figure below it.
LEMMA FigureIsLegible ==
    ASSUME NEW title \in 0..20, NEW words, NEW percent \in 0..100, percent # None,
           WrapMessage(words)[1] \in 0..20
    PROVE  /\ Legible(Screen(title, words, percent), 16)
           /\ BarFits(Screen(title, words, percent), percent)
  <1> DEFINE d == Digits(Least(percent, 100)) + 1
             T == {Centered("title", title, 3)}
             A == {Centered("line", WrapMessage(words)[1], 19)}
             B == {Centered("figure", d, 50)}
  <1>1. d \in 0..20
    BY DigitsFit
  <1>2. Screen(title, words, percent) = T \cup A \cup B
    BY DEF Screen, ScreenBodyTop, ScreenBodyBottom, LineHeight, PageTitleTop
  <1>3. Row(T, 3) /\ Row(A, 19) /\ Row(B, 50)
    BY <1>1, CenteredRow
  <1>4. \A t \in T \cup A \cup B : Bottom(t) <= 34 \/ 48 <= t.y
    BY DEF Centered, Text, Bottom, CharHeight
  <1>5. FillWidth(percent) = percent
    BY DEF FillWidth
  <1> HIDE DEF T, A, B, d
  <1>6. Legible(T \cup A \cup B, 16)
    <2>1. 19 \in 17..53 /\ 50 \in 17..53 /\ 19 + 10 <= 50
      OBVIOUS
    <2> QED
      BY <1>3, <2>1, ScreenOfRows, Zenon
  <1>7. BarFits(T \cup A \cup B, percent)
    BY <1>4, <1>5 DEF BarFits, ProgressBar
  <1> QED
    BY <1>2, <1>6, <1>7

\* draw_screen: whatever the message says, the lines there is room for are on the panel,
\* off each other, off the title and off the frame, and with a figure below them the first
\* line, the bar and the figure keep off each other too.
THEOREM MessagesAreLegible ==
    ASSUME NEW title \in 0..20, NEW words \in Messages
    PROVE  /\ Legible(Screen(title, words, None), 16)
           /\ \A percent \in 0..100 \ {None} : words # <<>> =>
                 /\ Legible(Screen(title, words, percent), 16)
                 /\ BarFits(Screen(title, words, percent), percent)
  <1> DEFINE lines == WrapMessage(words)
  <1>1. PICK k \in 0..3 : lines \in [1..k -> 1..20] /\ (words # <<>> => k # 0)
    BY WrapIs
  <1>2. Len(lines) = k /\ DOMAIN lines = 1..k
    <2> HIDE DEF lines
    <2>1. k \in Nat
      OBVIOUS
    <2> QED
      BY <1>1, <2>1, LenOfLines
  <1>3. Legible(Screen(title, words, None), 16)
    <2> DEFINE top == 19 + NonNegative((42 - k * 11) \div 2)
    <2>1. top \in Nat /\ 17 <= top /\ top + k * 11 <= 64
      <3>1. k = 0 \/ k = 1 \/ k = 2 \/ k = 3
        OBVIOUS
      <3> QED
        BY <3>1 DEF NonNegative
    <2>2. Screen(title, words, None)
              = {Centered("title", title, 3)}
                \cup {Centered("line", lines[n], top + (n - 1) * 11) : n \in 1..k}
      BY <1>2 DEF Screen, ScreenBodyTop, ScreenBodyBottom, LineHeight, PageTitleTop
    <2> HIDE DEF top, lines
    <2>3. Legible({Centered("title", title, 3)}
                  \cup {Centered("line", lines[n], top + (n - 1) * 11) : n \in 1..k}, 16)
      BY <1>1, <2>1, LinesAreLegible, Zenon
    <2> QED
      BY <2>2, <2>3
  <1>4. ASSUME NEW percent \in 0..100 \ {None}, words # <<>>
        PROVE  /\ Legible(Screen(title, words, percent), 16)
               /\ BarFits(Screen(title, words, percent), percent)
    <2>1. lines[1] \in 0..20
      <3>1. 1 \in 1..k
        BY <1>1, <1>4
      <3>2. \A n \in 1..20 : n \in 0..20
        OBVIOUS
      <3> HIDE DEF lines
      <3> QED
        BY <1>1, <3>1, <3>2, Zenon
    <2> QED
      BY <2>1, FigureIsLegible
  <1> QED
    BY <1>3, <1>4

-----------------------------------------------------------------------------
(* The messages there are *)

LEMMA CharsOfWords ==
    ASSUME NEW words \in Messages
    PROVE  /\ Len(words) = 1 => Chars(words) = words[1]
           /\ Len(words) = 2 => Chars(words) = words[1] + 1 + words[2]
           /\ Len(words) = 3 => Chars(words) = words[1] + 1 + words[2] + 1 + words[3]
  <1>1. words \in Seq(Nat)
    BY DEF Messages
  <1>2. /\ Len(words) >= 1 => CharsTo(words)[1] = words[1]
        /\ \A n \in 2..Len(words) : CharsTo(words)[n] = CharsTo(words)[n - 1] + 1 + words[n]
    BY <1>1, CharsToIs
  <1> QED
    BY <1>2 DEF Chars

\* Words of up to twelve characters, and up to 36 of them with the spaces.
LEMMA MessageIsLegible ==
    ASSUME NEW title \in 0..20, NEW words \in Messages,
           \A i \in 1..Len(words) : words[i] <= 12, Chars(words) <= 36
    PROVE  Legible(Screen(title, words, None), 16) /\ IsWhole(words, None)
  <1>1. 12 \in 1..20 /\ 36 = 20 + 2 * (20 - 12)
    OBVIOUS
  <1> QED
    BY <1>1, MessagesAreLegible, MessagesAreWhole DEF MessageMaxChars

\* A message of one line is legible with a figure too.
LEMMA LineIsLegible ==
    ASSUME NEW title \in 0..20, NEW words \in Messages, words # <<>>, Chars(words) <= 20,
           NEW percent \in 0..100 \ {None}
    PROVE  /\ Legible(Screen(title, words, percent), 16)
           /\ BarFits(Screen(title, words, percent), percent)
           /\ IsWhole(words, percent)
  <1>1. IsWhole(words, percent)
    BY ShortIsWhole, RemainingUnfolds DEF IsWhole
  <1> QED
    BY <1>1, MessagesAreLegible, Zenon

LEMMA NoticeIsLegible ==
    ASSUME NEW r \in ShutdownReason
    PROVE  /\ Legible(Screen(Notice[r].title, Notice[r].message, None), 16)
           /\ IsWhole(Notice[r].message, None)
  <1> DEFINE words == Notice[r].message
  <1>1. /\ words \in Messages /\ Chars(words) <= 36
        /\ \A i \in 1..Len(words) : words[i] <= 12
    <2>1. CASE r = "ButtonHeld"
      <3> DEFINE m == <<4>>
      <3>1. m \in Seq(Nat \ {0}) /\ Len(m) = 1 /\ m[1] = 4
            /\ \A i \in 1..Len(m) : m[i] <= 12
        OBVIOUS
      <3>2. words = m
        BY <2>1 DEF Notice
      <3> HIDE DEF m
      <3>3. words \in Messages
        BY <3>1, <3>2 DEF Messages
      <3> HIDE DEF words
      <3>4. Chars(words) = 4
        BY <3>1, <3>2, <3>3, CharsOfWords
      <3>5. Chars(words) <= 36
        BY <3>4
      <3>6. \A i \in 1..Len(words) : words[i] <= 12
        BY <3>1, <3>2, Zenon
      <3> QED
        BY <3>3, <3>5, <3>6, Zenon
    <2>2. CASE r = "LowBattery"
      <3> DEFINE m == <<5, 8, 3>>
      <3>1. m \in Seq(Nat \ {0}) /\ Len(m) = 3 /\ m[1] = 5 /\ m[2] = 8 /\ m[3] = 3
            /\ \A i \in 1..Len(m) : m[i] <= 12
        OBVIOUS
      <3>2. words = m
        BY <2>2 DEF Notice
      <3> HIDE DEF m
      <3>3. words \in Messages
        BY <3>1, <3>2 DEF Messages
      <3> HIDE DEF words
      <3>4. Chars(words) = 18
        BY <3>1, <3>2, <3>3, CharsOfWords
      <3>5. Chars(words) <= 36
        BY <3>4
      <3>6. \A i \in 1..Len(words) : words[i] <= 12
        BY <3>1, <3>2, Zenon
      <3> QED
        BY <3>3, <3>5, <3>6, Zenon
    <2> QED
      BY <2>1, <2>2 DEF ShutdownReason
  <1>2. Notice[r].title \in 0..20
    BY DEF Notice, ShutdownReason
  <1> HIDE DEF words
  <1>3. Legible(Screen(Notice[r].title, words, None), 16) /\ IsWhole(words, None)
    BY <1>1, <1>2, MessageIsLegible, Zenon
  <1> QED
    BY <1>3 DEF words

LEMMA MessagesOfUpdate ==
    /\ Message.Preparing \in Messages /\ Chars(Message.Preparing) = 23
    /\ Message.Downloading \in Messages /\ Chars(Message.Downloading) = 20
    /\ Message.Applying \in Messages /\ Chars(Message.Applying) = 12
    /\ Message.Downloading # <<>> /\ Message.Applying # <<>>
    /\ \A status \in {"Preparing", "Downloading", "Applying"} :
          \A i \in 1..Len(Message[status]) : Message[status][i] <= 12
  <1> DEFINE P == Message.Preparing
             D == Message.Downloading
             A == Message.Applying
  <1>1. P \in Messages /\ Len(P) = 3 /\ P[1] = 7 /\ P[2] = 3 /\ P[3] = 11
    BY DEF Message, Messages
  <1>2. D \in Messages /\ Len(D) = 2 /\ D[1] = 11 /\ D[2] = 8 /\ D # <<>>
    BY DEF Message, Messages
  <1>3. A \in Messages /\ Len(A) = 1 /\ A[1] = 12 /\ A # <<>>
    BY DEF Message, Messages
  <1> HIDE DEF P, D, A
  <1>4. Chars(P) = 23
    BY <1>1, CharsOfWords
  <1>5. Chars(D) = 20
    BY <1>2, CharsOfWords
  <1>6. Chars(A) = 12
    BY <1>3, CharsOfWords
  <1>7. ASSUME NEW status \in {"Preparing", "Downloading", "Applying"},
               NEW i \in 1..Len(Message[status])
        PROVE  Message[status][i] <= 12
    <2>1. Message[status] = P \/ Message[status] = D \/ Message[status] = A
      BY DEF P, D, A
    <2> QED
      BY <1>1, <1>2, <1>3, <2>1
  <1> QED
    BY <1>1, <1>2, <1>3, <1>4, <1>5, <1>6, <1>7 DEF P, D, A

LEMMA UpdatesAreLegible ==
    ASSUME NEW status \in {"Preparing", "Downloading", "Applying"}, NEW p \in Percents(status)
    PROVE  UpdateIsLegible(status, p)
  <1> DEFINE words == Message[status]
  <1>1. /\ words \in Messages /\ Chars(words) <= 36
        /\ \A i \in 1..Len(words) : words[i] <= 12
        /\ status # "Preparing" => words # <<>> /\ Chars(words) <= 20
    BY MessagesOfUpdate
  <1>2. p = None \/ (status # "Preparing" /\ p \in 0..100 \ {None})
    <2>1. \A n \in {0, 20, 200} : Percent(n, 200) \in 0..100
      BY DEF Percent, Least
    <2> QED
      BY <2>1 DEF Percents
  <1>3. 15 \in 0..20
    OBVIOUS
  <1> HIDE DEF words
  <1>4. CASE p = None
    <2>1. Legible(Screen(15, words, None), 16) /\ IsWhole(words, None)
      BY <1>1, <1>3, MessageIsLegible, Zenon
    <2> QED
      BY <1>4, <2>1 DEF UpdateIsLegible, words
  <1>5. CASE status # "Preparing" /\ p \in 0..100 \ {None}
    <2>1. /\ Legible(Screen(15, words, p), 16) /\ BarFits(Screen(15, words, p), p)
          /\ IsWhole(words, p)
      BY <1>1, <1>3, <1>5, LineIsLegible, Zenon
    <2> QED
      BY <2>1 DEF UpdateIsLegible, words
  <1> QED
    BY <1>2, <1>4, <1>5

-----------------------------------------------------------------------------
(* What is drawn *)

\* The end of an update is drawn as a page.
DrawnInv == view # UpdateView("Idle")

LEMMA DrawsKeepDrawnInv ==
    ASSUME TypeOK, TypeOK', CopiesInv, DrawnInv, Task
    PROVE  DrawnInv'
  <1>1. PageView(page', address', broker', charger') # UpdateView("Idle")
    BY DEF PageView, UpdateView, TypeOK, MenuPage
  <1>2. CASE InitDone
    BY <1>1, <1>2 DEF InitDone, DrawPage, Draw, DrawnInv
  <1>3. CASE InitFails \/ DrawEnds
    BY <1>3 DEF InitFails, DrawEnds, DrawnInv
  <1>4. CASE TakeNetwork \/ ShortPressed \/ TakeBroker \/ TakeCharger
    <2>1. Record \/ DrawPage
      BY <1>4 DEF TakeNetwork, ShortPressed, TakeBroker, TakeCharger
    <2> QED
      BY <1>1, <2>1 DEF Record, DrawPage, Draw, DrawnInv
  <1>5. CASE TakeOta
    <2>1. DrawPage \/ (source.Ota.value # "Idle" /\ Draw(UpdateView(source.Ota.value)))
      BY <1>5 DEF TakeOta
    <2> QED
      BY <1>1, <2>1 DEF DrawPage, Draw, DrawnInv, UpdateView
  <1>6. CASE ShuttingDown
    BY <1>6 DEF ShuttingDown, NoticeView, UpdateView, DrawnInv
  <1> QED
    BY <1>2, <1>3, <1>4, <1>5, <1>6 DEF Task

LEMMA DrawnInvariance == PanelSpec => []DrawnInv
  <1>1. PanelInit => DrawnInv
    BY DEF PanelInit, Init, DrawnInv, PageView, UpdateView
  <1>2. IInv /\ IInv' /\ DrawnInv /\ [PanelNext]_panelVars => DrawnInv'
    <2> SUFFICES ASSUME IInv, IInv', DrawnInv, [PanelNext]_panelVars
                 PROVE  DrawnInv'
      OBVIOUS
    <2>1. CASE Task
      BY <2>1, DrawsKeepDrawnInv DEF IInv, PanelTypeOK
    <2>2. CASE ~Task
      <3>1. view' = view
        BY <2>2 DEF PanelNext, Sources, OtaChanges, BrokerChanges, ChargerReports, Publish,
               PowerEvent, ConfigUp, ConfigDown, Configured, Deconfigured, panelVars, vars, taskVars
      <3> QED
        BY <3>1 DEF DrawnInv
    <2> QED
      BY <2>1, <2>2
  <1> QED
    BY <1>1, <1>2, Invariance, PTL DEF PanelSpec

\* Every view that can be drawn is legible.
LEMMA ViewsAreLegible ==
    ASSUME Readings \subseteq Measurable, VersionChars <= 6, NEW v \in View, v # UpdateView("Idle")
    PROVE  ViewIsLegible(v)
  <1>1. VersionChars \in 0..6 /\ VersionChars \in 0..8 /\ VersionChars \in 0..20
    BY LabelAssumption
  <1>2. CASE v \in {"Network"} \X (Addresses \cup {None}) \X BrokerStatus
    <2>1. v[1] = "Network"
      BY <1>2
    <2>2. Legible(NetworkPage(v[2], v[3]), 15)
      BY <1>1, NetworkPageIsLegible
    <2> QED
      BY <2>1, <2>2 DEF ViewIsLegible, PageLayout, MenuPage
  <1>3. CASE v \in {"Battery"} \X (Readings \cup {None})
    <2>1. v[1] = "Battery" /\ (v[2] \in Readings \/ v[2] = None)
      BY <1>3
    <2>2. Legible(BatteryPage(v[2]), 15)
      <3>1. CASE v[2] = None
        BY <1>1, <3>1, NoReadingIsLegible
      <3>2. CASE v[2] # None
        BY <1>1, <2>1, <3>2, BatteryPageIsLegible
      <3> QED
        BY <3>1, <3>2
    <2> QED
      BY <2>1, <2>2 DEF ViewIsLegible, PageLayout, MenuPage
  <1>4. CASE v \in {"Update"} \X Progress!OtaStatus
    <2>1. v[1] = "Update" /\ v[2] \in {"Preparing", "Downloading", "Applying"}
      BY <1>4 DEF Progress!OtaStatus, UpdateView
    <2>2. \A p \in Percents(v[2]) : UpdateIsLegible(v[2], p)
      BY <2>1, UpdatesAreLegible
    <2> QED
      BY <2>1, <2>2 DEF ViewIsLegible, MenuPage
  <1>5. CASE v \in {"Notice"} \X ShutdownReason
    <2>1. v[1] = "Notice" /\ v[2] \in ShutdownReason
      BY <1>5
    <2>2. /\ Legible(Screen(Notice[v[2]].title, Notice[v[2]].message, None), 16)
          /\ IsWhole(Notice[v[2]].message, None)
      BY <2>1, NoticeIsLegible
    <2> QED
      BY <2>1, <2>2 DEF ViewIsLegible, MenuPage
  <1> QED
    BY <1>2, <1>3, <1>4, <1>5 DEF View, PageViews

\* drivers/display_driver/mod.rs, lines 138-139: whatever the addresses and the SSID, a
\* version label of six characters and a die between -99 and 999 degrees leave no two
\* texts of a screen touching and no word of a message off the panel.
THEOREM ScreensAreLegible ==
    ASSUME Readings \subseteq Measurable, VersionChars <= 6
    PROVE  PanelSpec => []ScreenIsLegible
  <1>1. IInv /\ DrawnInv => ScreenIsLegible
    <2> SUFFICES ASSUME IInv, DrawnInv
                 PROVE  view \in View /\ ViewIsLegible(view)
      BY DEF ScreenIsLegible, LegibleViews
    <2>1. view \in View
      BY DEF IInv, PanelTypeOK, TypeOK
    <2> QED
      BY <2>1, ViewsAreLegible DEF DrawnInv
  <1> QED
    BY <1>1, Invariance, DrawnInvariance, PTL

=============================================================================
