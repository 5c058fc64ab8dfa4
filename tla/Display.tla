------------------------------ MODULE Display ------------------------------
(***************************************************************************)
(* manage_display (src/src/tasks/display_controller.rs): one panel drawn   *)
(* from five inputs.  A draw is a transfer over the shared bus: the inputs *)
(* go on changing while it lasts, and it may fail.                         *)
(*                                                                         *)
(* A Signal and a Watch are their latest value and whether the task has    *)
(* yet to take it.                                                         *)
(***************************************************************************)
EXTENDS DisplayDriver

CONSTANTS
    Addresses,     \* IP addresses the network may assign
    Readings,      \* what the charger may report
    InitMayFail,   \* whether the panel may be missing
    EventCap       \* depth of POWER_EVENTS

ASSUME DisplayAssumption ==
    /\ None \notin Addresses \cup Readings
    /\ InitMayFail \in BOOLEAN
    /\ EventCap \in Nat \ {0}

VARIABLES
    pc,         \* where the task is
    view,       \* what is being drawn, or was drawn last
    shown,      \* whether the panel shows it
    address, broker, charger, ota_active, page,   \* the task's own copies
    source,     \* NETWORK_STATUS, OTA_STATUS, BROKER_STATUS and CHARGER_STATUS
    events      \* POWER_EVENTS

copies == <<address, broker, charger, ota_active, page>>
taskVars == <<pc, view, shown, copies>>
vars == <<taskVars, source, events>>

Progress == INSTANCE OtaProgress WITH status <- source.Ota.value

BrokerStatus == {"Disconnected", "Connected"}
MenuPage == {"Network", "Battery"}
ShutdownReason == {"ButtonHeld", "LowBattery"}

\* MenuPage::next.
NextPage(p) == IF p = "Network" THEN "Battery" ELSE "Network"

\* draw_page, draw_firmware_update and draw_notice, by what they let one read.
PageView(p, a, b, c) == IF p = "Network" THEN <<"Network", a, b>> ELSE <<"Battery", c>>
UpdateView(status) == <<"Update", status>>
NoticeView(reason) == <<"Notice", reason>>

PageViews == ({"Network"} \X (Addresses \cup {None}) \X BrokerStatus)
             \cup ({"Battery"} \X (Readings \cup {None}))
View == PageViews \cup ({"Update"} \X Progress!OtaStatus)
                  \cup ({"Notice"} \X ShutdownReason)

Input(values) == [value : values, unseen : BOOLEAN]

TypeOK ==
    /\ pc \in {"init", "wait", "drawing", "farewell", "parked", "dead"}
    /\ view \in View
    /\ shown \in BOOLEAN
    /\ address \in Addresses \cup {None}
    /\ broker \in BrokerStatus
    /\ charger \in Readings \cup {None}
    /\ ota_active \in BOOLEAN
    /\ page \in MenuPage
    /\ source \in [Network : Input(Addresses \cup {None}),
                   Ota     : Input(Progress!OtaStatus \cup {"Unset"}),
                   Broker  : Input(BrokerStatus),
                   Charger : Input(Readings \cup {None})]
    /\ events \in Seq({"ShortPress"} \cup ShutdownReason)
    /\ Len(events) <= EventCap

Unpublished(value) == [value |-> value, unseen |-> FALSE]

Init ==
    /\ pc = "init"
    /\ address = None
    /\ broker = "Disconnected"
    /\ charger = None
    /\ ota_active = FALSE
    /\ page = "Network"
    /\ view = PageView(page, address, broker, charger)
    /\ shown = FALSE
    /\ source = [Network |-> Unpublished(None), Ota |-> Unpublished("Unset"),
                 Broker |-> Unpublished("Disconnected"), Charger |-> Unpublished(None)]
    /\ events = <<>>

-----------------------------------------------------------------------------
(* Drawing *)

Draw(v) == pc' = "drawing" /\ view' = v /\ shown' = FALSE

\* The page, from the copies as the handler leaves them.
DrawPage == Draw(PageView(page', address', broker', charger'))

\* continue: the change is only recorded.
Record == UNCHANGED <<pc, view, shown>>

\* The panel answers, and the first page is drawn.
InitDone ==
    /\ pc = "init"
    /\ UNCHANGED <<copies, source, events>>
    /\ DrawPage

InitFails ==
    /\ pc = "init"
    /\ InitMayFail
    /\ pc' = "dead"
    /\ UNCHANGED <<view, shown, copies, source, events>>

\* A transfer that fails half-way leaves anything on the panel; it is logged, and
\* the farewell is parked on whether it could be drawn or not.
DrawEnds ==
    /\ pc \in {"drawing", "farewell"}
    /\ shown' \in BOOLEAN
    /\ pc' = IF pc = "farewell" THEN "parked" ELSE "wait"
    /\ UNCHANGED <<view, copies, source, events>>

-----------------------------------------------------------------------------
(* next_event: the selects poll their arms in this order *)

Unseen(s) == source[s].unseen

Take(s) ==
    /\ Unseen(s)
    /\ source' = [source EXCEPT ![s].unseen = FALSE]
    /\ UNCHANGED events

\* Bug: a network change during an update is skipped before it is recorded.
BugTakeNetwork ==
    /\ pc = "wait"
    /\ Take("Network")
    /\ address' = IF ota_active THEN address ELSE source.Network.value
    /\ UNCHANGED <<broker, charger, ota_active, page>>
    /\ IF ota_active THEN Record ELSE DrawPage

TakeNetwork ==
    /\ pc = "wait"
    /\ Take("Network")
    /\ address' = source.Network.value
    /\ UNCHANGED <<broker, charger, ota_active, page>>
    /\ IF ota_active THEN Record ELSE DrawPage

TakeOta ==
    /\ pc = "wait"
    /\ ~Unseen("Network")
    /\ Take("Ota")
    /\ ota_active' = Progress!IsActive(source.Ota.value)
    /\ UNCHANGED <<address, broker, charger, page>>
    /\ IF source.Ota.value = "Idle" THEN DrawPage ELSE Draw(UpdateView(source.Ota.value))

PowerArm == pc = "wait" /\ ~Unseen("Network") /\ ~Unseen("Ota") /\ events # <<>>

\* Bug: the page is drawn whoever owns the panel.
BugShortPressed ==
    /\ PowerArm
    /\ Head(events) = "ShortPress"
    /\ events' = Tail(events)
    /\ page' = NextPage(page)
    /\ UNCHANGED <<source, address, broker, charger, ota_active>>
    /\ DrawPage

ShortPressed ==
    /\ PowerArm
    /\ Head(events) = "ShortPress"
    /\ events' = Tail(events)
    /\ page' = NextPage(page)
    /\ UNCHANGED <<source, address, broker, charger, ota_active>>
    /\ IF ota_active THEN Record ELSE DrawPage

ShuttingDown ==
    /\ PowerArm
    /\ Head(events) \in ShutdownReason
    /\ events' = Tail(events)
    /\ pc' = "farewell"
    /\ view' = NoticeView(Head(events))
    /\ shown' = FALSE
    /\ UNCHANGED <<copies, source>>

TakeBroker ==
    /\ pc = "wait"
    /\ ~Unseen("Network") /\ ~Unseen("Ota") /\ events = <<>>
    /\ Take("Broker")
    /\ broker' = source.Broker.value
    /\ UNCHANGED <<address, charger, ota_active, page>>
    /\ IF ota_active \/ page # "Network" THEN Record ELSE DrawPage

TakeCharger ==
    /\ pc = "wait"
    /\ ~Unseen("Network") /\ ~Unseen("Ota") /\ events = <<>> /\ ~Unseen("Broker")
    /\ Take("Charger")
    /\ charger' = source.Charger.value
    /\ UNCHANGED <<address, broker, ota_active, page>>
    /\ IF ota_active \/ page # "Battery" THEN Record ELSE DrawPage

Task == \/ InitDone \/ InitFails \/ DrawEnds
        \/ TakeNetwork \/ TakeOta \/ ShortPressed \/ ShuttingDown
        \/ TakeBroker \/ TakeCharger

-----------------------------------------------------------------------------
(* The tasks that feed the display *)

Publish(s, values) ==
    /\ \E v \in values : source' = [source EXCEPT ![s] = [value |-> v, unseen |-> TRUE]]
    /\ UNCHANGED <<taskVars, events>>

OtaChanges     == Publish("Ota", Progress!Successors(source.Ota.value))
BrokerChanges  == Publish("Broker", BrokerStatus)
ChargerReports == Publish("Charger", Readings)

Sources == OtaChanges \/ BrokerChanges \/ ChargerReports

PowerEvent ==
    /\ Len(events) < EventCap
    /\ \E e \in {"ShortPress"} \cup ShutdownReason : events' = Append(events, e)
    /\ UNCHANGED <<taskVars, source>>

-----------------------------------------------------------------------------
(* Properties *)

AllSeen == events = <<>> /\ \A s \in DOMAIN source : ~Unseen(s)

\* Lines 89-119 and 134-160: whenever the task is at rest, with nothing left to
\* take and its last draw not having failed, the panel shows what holds now,
\* however often it changed behind an update screen or on the page not shown.
ScreenIsCurrent ==
    (pc = "wait" /\ AllSeen /\ shown) =>
        view = IF Progress!IsActive(source.Ota.value)
               THEN UpdateView(source.Ota.value)
               ELSE PageView(page, source.Network.value, source.Broker.value,
                             source.Charger.value)

\* Lines 89-90: an update screen owns the panel until the update ends; only the
\* farewell takes it away.
UpdateOwnsPanel ==
    pc \in {"wait", "drawing"} => (ota_active <=> view \in {"Update"} \X Progress!OtaStatus)

=============================================================================
