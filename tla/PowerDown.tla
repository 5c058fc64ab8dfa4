----------------------------- MODULE PowerDown -----------------------------
(***************************************************************************)
(* Powering off takes two tasks: the button task announces the shutdown    *)
(* through POWER_EVENTS and waits for a place in it, and the display is    *)
(* the only task that makes places.  The button task's pc is buttonPc.     *)
(***************************************************************************)
EXTENDS Naturals, Sequences

CONSTANTS None, Addresses, Readings, InitMayFail, EventCap, RequestCap

ASSUME PowerAssumption == EventCap \in Nat \ {0} /\ RequestCap \in Nat \ {0}

VARIABLES
    line, buttonPc, edge, reason, latch, requests, lifted,
    pc, view, shown, address, broker, charger, ota_active, page, source,
    events      \* POWER_EVENTS, which the two share

Button == INSTANCE PowerButton WITH pc <- buttonPc
Screen == INSTANCE Display WITH SsidChars <- 0, VersionChars <- 0

buttonOnly == <<line, buttonPc, edge, reason, latch, requests, lifted>>
screenOnly == <<pc, view, shown, address, broker, charger, ota_active, page, source>>
vars == <<buttonOnly, screenOnly, events>>

Init == Button!Init /\ Screen!Init

ButtonTask  == Button!Task /\ UNCHANGED screenOnly
DisplayTask == Screen!Task /\ UNCHANGED buttonOnly
User        == (Button!Lift \/ Button!Press) /\ UNCHANGED screenOnly
Battery     == Button!RequestShutdown /\ UNCHANGED screenOnly
Sources     == Screen!Sources /\ UNCHANGED buttonOnly

Next == ButtonTask \/ DisplayTask \/ User \/ Battery \/ Sources

\* Both tasks are scheduled, and the display keeps up: a draw takes a few tens of
\* milliseconds, so now and then it finds neither a network change nor a new
\* percentage, which its selects would prefer to a power event.
KeepsUp == \/ pc \in {"init", "dead", "farewell", "parked"}
           \/ pc = "wait" /\ ~Screen!Unseen("Network") /\ ~Screen!Unseen("Ota")

Fairness ==
    /\ WF_vars(ButtonTask)
    /\ WF_vars(DisplayTask)
    /\ SF_vars(DisplayTask /\ (Screen!ShortPressed \/ Screen!ShuttingDown))
    /\ []<>KeepsUp

Spec == Init /\ [][Next]_vars /\ Fairness

-----------------------------------------------------------------------------
(* Properties *)

\* Where a shutdown's reason waits for the display.
Notices == {i \in DOMAIN events : events[i] # "ShortPress"}

Announced == buttonPc \in {"notice", "off"}
Farewell == pc \in {"farewell", "parked"}

\* power_button.rs, lines 82-97 and 106-125, with the queue the display empties: a
\* shutdown is announced exactly once.  Its reason is the last thing in the queue until
\* the display takes it and on the display's last screen from then on, and the supply is
\* cut only after it was queued.
AnnouncedOnce ==
    /\ Notices = IF Announced /\ ~Farewell THEN {Len(events)} ELSE {}
    /\ \A i \in Notices : events[i] = reason
    /\ Farewell => Announced /\ view = Screen!NoticeView(reason)
    /\ latch = "released" => buttonPc = "off" /\ reason # "None"

\* display_controller.rs, lines 61-70: a display that did not answer at boot takes nothing,
\* and short presses fill the queue for good.
Blocked == pc = "dead" /\ Len(events) = EventCap /\ Notices = {}

\* power_button.rs, lines 31-32: "holding it for POWER_OFF_HOLD powers the board off", once
\* the press that powered it up is over, whether or not a working display falls behind, and
\* with one that is dead as long as the queue has room.  In the excepted case the hold waits
\* at line 82 for ever.
HoldPowersOff == []~Blocked /\ <>[](line = "down" /\ lifted) => <>(latch = "released")

\* power_button.rs, lines 99-115: a low battery powers the board off if the user
\* leaves the button alone at some time (it is polled first), with the same exception.
LowBatteryPowersOff ==
    []~Blocked /\ <>[](line = "up") => (requests # <<>> ~> latch = "released")

\* power_button.rs, lines 82-87 and display_controller.rs, lines 118-132: a
\* shutdown that was announced is never forgotten behind page changes: a display that
\* answered at boot shows its reason as its last screen.
GoodbyeIsShown ==
    [](pc # "dead") => (buttonPc = "notice" ~> pc = "parked" /\ view = <<"Notice", reason>>)

=============================================================================
