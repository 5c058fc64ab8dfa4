-------------------------------- MODULE Panel --------------------------------
(***************************************************************************)
(* The panel from end to end: the network stack, network_monitor           *)
(* (src/src/tasks/network_monitor.rs) that follows it, the display task    *)
(* that follows NETWORK_STATUS and its other inputs, and the driver that   *)
(* lays out what it draws.                                                 *)
(*                                                                         *)
(* Between wait_config_up and config_v4 the task does not yield.           *)
(***************************************************************************)
EXTENDS Display

VARIABLES
    network,      \* which of its two awaits network_monitor is in
    stack,        \* the address the network stack is configured with
    ready,        \* NETWORK_READY
    renumbered    \* history: the address changed behind wait_config_down

networkVars == <<network, stack, ready, renumbered>>
panelVars == <<vars, networkVars>>

PanelTypeOK ==
    /\ TypeOK
    /\ network \in {"wait_config_up", "wait_config_down"}
    /\ stack \in Addresses \cup {None}
    /\ ready \in BOOLEAN
    /\ renumbered \in BOOLEAN

PanelInit ==
    /\ Init
    /\ network = "wait_config_up"
    /\ stack = None
    /\ ready = FALSE
    /\ renumbered = FALSE

-----------------------------------------------------------------------------
(* network_monitor *)

ConfigUp ==
    /\ network = "wait_config_up"
    /\ stack # None
    /\ Publish("Network", {stack})
    /\ ready' = TRUE
    /\ network' = "wait_config_down"
    /\ renumbered' = FALSE
    /\ UNCHANGED stack

\* Bug: the loss of the address is waited for and not announced.
BugConfigDown ==
    /\ network = "wait_config_down"
    /\ stack = None
    /\ network' = "wait_config_up"
    /\ renumbered' = FALSE
    /\ UNCHANGED <<vars, stack, ready>>

ConfigDown ==
    /\ network = "wait_config_down"
    /\ stack = None
    /\ Publish("Network", {None})
    /\ network' = "wait_config_up"
    /\ renumbered' = FALSE
    /\ UNCHANGED <<stack, ready>>

-----------------------------------------------------------------------------
(* The stack: a lease is obtained, replaced or lost *)

Configured ==
    /\ \E a \in Addresses \ {stack} :
          /\ stack' = a
          /\ renumbered' = (network = "wait_config_down" /\ a # source.Network.value)
    /\ UNCHANGED <<vars, network, ready>>

Deconfigured ==
    /\ stack # None
    /\ stack' = None
    /\ UNCHANGED <<vars, network, ready, renumbered>>

PanelNext ==
    \/ (Task \/ Sources \/ PowerEvent) /\ UNCHANGED networkVars
    \/ ConfigUp \/ ConfigDown
    \/ Configured \/ Deconfigured

PanelSpec == PanelInit /\ [][PanelNext]_panelVars

-----------------------------------------------------------------------------
(* What is drawn *)

Notice == [ButtonHeld |-> [title |-> 12, message |-> <<4>>],
           LowBattery |-> [title |-> 11, message |-> <<5, 8, 3>>]]

Message == [Preparing |-> <<7, 3, 11>>, Downloading |-> <<11, 8>>, Applying |-> <<12>>]

\* One percentage of every length.
Percents(status) == CASE status = "Preparing"   -> {None}
                      [] status = "Downloading" -> {None} \cup {Percent(w, 200) : w \in {0, 20, 200}}
                      [] status = "Applying"    -> {100}

PageLayout(v) == IF v[1] = "Network" THEN NetworkPage(v[2], v[3]) ELSE BatteryPage(v[2])

UpdateIsLegible(status, percent) ==
    LET texts == Screen(15, Message[status], percent)
    IN  /\ Legible(texts, 16)
        /\ percent # None => BarFits(texts, percent)
        /\ IsWhole(Message[status], percent)

ViewIsLegible(v) ==
    CASE v[1] \in MenuPage -> Legible(PageLayout(v), 15)
      [] v[1] = "Update"   -> \A p \in Percents(v[2]) : UpdateIsLegible(v[2], p)
      [] v[1] = "Notice"   -> LET n == Notice[v[2]]
                              IN  /\ Legible(Screen(n.title, n.message, None), 16)
                                  /\ IsWhole(n.message, None)

LegibleViews == {v \in View : ViewIsLegible(v)}

-----------------------------------------------------------------------------
(* Properties *)

\* network_monitor.rs, lines 19-27, with display_controller.rs, lines 92-98: once both
\* tasks have run, the display has an address exactly while the stack has one, and it is
\* the stack's, unless that was replaced while the task waited for its loss.
AddressIsTrue ==
    LET settled == /\ pc = "wait" /\ AllSeen
                   /\ (stack = None) <=> (network = "wait_config_up")
    IN  settled => /\ (address = None) <=> (stack = None)
                   /\ address # stack => renumbered

\* drivers/display_driver/mod.rs, lines 138-139: "The caller is responsible for the two
\* not overlapping": on no screen that is drawn do two texts touch, or one the frame, the
\* line under the title or the progress bar; and no message loses a word to wrapping.
ScreenIsLegible == view \in LegibleViews

\* data/menu.rs, line 9: the network page shows the IP address; the value column of the
\* driver has room for all of it.
AddressIsWhole ==
    view[1] = "Network" /\ view[2] # None =>
        \E text \in PageLayout(view) :
            text.name = "value" /\ text.y = PageRows[2] /\ text.chars = AddressChars(view[2])

=============================================================================
