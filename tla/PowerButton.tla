---------------------------- MODULE PowerButton ----------------------------
(***************************************************************************)
(* manage_power_button (src/src/tasks/power_button.rs): the task that owns *)
(* the power button and the power latch.                                   *)
(*                                                                         *)
(* Time is not modelled: a timer may expire at any moment after it is      *)
(* armed.  An edge the task waits for is latched by the GPIO interrupt, so *)
(* it is not lost when the line bounces back before the task runs.         *)
(***************************************************************************)
EXTENDS Naturals, Sequences

CONSTANTS EventCap,      \* depth of POWER_EVENTS
          RequestCap     \* depth of SHUTDOWN_REQUESTS

VARIABLES
    line,       \* "down" while the button is pressed
    pc,         \* where the task waits
    edge,       \* the edge it waits for has happened
    reason,     \* why the board is being shut down
    latch,      \* "held" keeps the supply closed
    events,     \* POWER_EVENTS
    requests,   \* SHUTDOWN_REQUESTS
    lifted      \* history: the button has been up since power-on

buttonVars == <<line, edge, lifted>>
taskVars == <<pc, reason, latch>>
vars == <<buttonVars, taskVars, events, requests>>

ShutdownReason == {"ButtonHeld", "LowBattery"}
PowerEvent == {"ShortPress"} \cup ShutdownReason

TypeOK ==
    /\ line \in {"up", "down"}
    /\ pc \in {"boot", "bootDebounce", "select", "debounce", "held", "release",
               "announce", "notice", "off"}
    /\ edge \in BOOLEAN
    /\ reason \in ShutdownReason \cup {"None"}
    /\ latch \in {"held", "released"}
    /\ events \in Seq(PowerEvent) /\ Len(events) <= EventCap
    /\ requests \in Seq(ShutdownReason) /\ Len(requests) <= RequestCap
    /\ lifted \in BOOLEAN

\* The latch is set before anything else.  With the button already up the task
\* goes straight to its loop.
Init ==
    /\ line \in {"up", "down"}
    /\ pc = IF line = "down" THEN "boot" ELSE "select"
    /\ edge = FALSE
    /\ reason = "None"
    /\ latch = "held"
    /\ events = <<>>
    /\ requests = <<>>
    /\ lifted = (line = "up")

-----------------------------------------------------------------------------
(* The task *)

\* The level an await waits for.
Awaited == CASE pc \in {"boot", "held"} -> "up"
             [] pc = "select" -> "down"
             [] OTHER -> "none"

\* An await of the button that begins now finds the level of this moment.
WaitAt(where, level) == pc' = where /\ edge' = (line = level)

PowerOnReleased ==
    /\ pc = "boot"
    /\ edge
    /\ pc' = "bootDebounce"
    /\ edge' = FALSE
    /\ UNCHANGED <<line, lifted, reason, latch, events, requests>>

PowerOnDebounced ==
    /\ pc = "bootDebounce"
    /\ WaitAt("select", "down")
    /\ UNCHANGED <<line, lifted, reason, latch, events, requests>>

Pressed ==
    /\ pc = "select"
    /\ edge
    /\ pc' = "debounce"
    /\ edge' = FALSE
    /\ UNCHANGED <<line, lifted, reason, latch, events, requests>>

Spike ==
    /\ pc = "debounce"
    /\ line = "up"
    /\ WaitAt("select", "down")
    /\ UNCHANGED <<line, lifted, reason, latch, events, requests>>

\* Bug: the level the button is held at is waited for instead of its release.
BugHold ==
    /\ pc = "debounce"
    /\ line = "down"
    /\ WaitAt("held", "down")
    /\ UNCHANGED <<line, lifted, reason, latch, events, requests>>

Hold ==
    /\ pc = "debounce"
    /\ line = "down"
    /\ WaitAt("held", "up")
    /\ UNCHANGED <<line, lifted, reason, latch, events, requests>>

\* try_send: a display that lags behind costs a page change and nothing else.
ShortPress ==
    /\ pc = "held"
    /\ edge
    /\ events' = IF Len(events) < EventCap THEN Append(events, "ShortPress") ELSE events
    /\ pc' = "release"
    /\ edge' = FALSE
    /\ UNCHANGED <<line, lifted, reason, latch, requests>>

HoldExpires ==
    /\ pc = "held"
    /\ ~edge
    /\ pc' = "announce"
    /\ reason' = "ButtonHeld"
    /\ edge' = FALSE
    /\ UNCHANGED <<line, lifted, latch, events, requests>>

ReleaseDebounced ==
    /\ pc = "release"
    /\ WaitAt("select", "down")
    /\ UNCHANGED <<line, lifted, reason, latch, events, requests>>

\* Bug: the request is taken off the queue and only logged.
BugTakeRequest ==
    /\ pc = "select"
    /\ ~edge
    /\ requests # <<>>
    /\ requests' = Tail(requests)
    /\ UNCHANGED <<buttonVars, taskVars, events>>

\* select polls the button first.
TakeRequest ==
    /\ pc = "select"
    /\ ~edge
    /\ requests # <<>>
    /\ requests' = Tail(requests)
    /\ reason' = Head(requests)
    /\ pc' = "announce"
    /\ UNCHANGED <<buttonVars, latch, events>>

\* Bug: the notice is queued like a page change, and dropped like one.
BugAnnounce ==
    /\ pc = "announce"
    /\ events' = IF Len(events) < EventCap THEN Append(events, reason) ELSE events
    /\ pc' = "notice"
    /\ UNCHANGED <<buttonVars, reason, latch, requests>>

\* send().await: waits for a place in the queue.
Announce ==
    /\ pc = "announce"
    /\ Len(events) < EventCap
    /\ events' = Append(events, reason)
    /\ pc' = "notice"
    /\ UNCHANGED <<buttonVars, reason, latch, requests>>

\* Bug: the task goes back to its loop instead of parking.
BugCutPower ==
    /\ pc = "notice"
    /\ latch' = "released"
    /\ WaitAt("select", "down")
    /\ UNCHANGED <<line, lifted, reason, events, requests>>

CutPower ==
    /\ pc = "notice"
    /\ latch' = "released"
    /\ pc' = "off"
    /\ UNCHANGED <<buttonVars, reason, events, requests>>

Task == \/ PowerOnReleased \/ PowerOnDebounced \/ Pressed \/ Spike \/ Hold \/ ShortPress
        \/ HoldExpires \/ ReleaseDebounced \/ TakeRequest \/ Announce \/ CutPower

-----------------------------------------------------------------------------
(* The user, the battery monitor and the display *)

Lift ==
    /\ line = "down"
    /\ line' = "up"
    /\ lifted' = TRUE
    /\ edge' = (edge \/ Awaited = "up")
    /\ UNCHANGED <<taskVars, events, requests>>

Press ==
    /\ line = "up"
    /\ line' = "down"
    /\ edge' = (edge \/ Awaited = "down")
    /\ UNCHANGED <<taskVars, events, requests, lifted>>

\* monitor_battery's try_send; one pending request is enough.
RequestShutdown ==
    /\ Len(requests) < RequestCap
    /\ requests' = Append(requests, "LowBattery")
    /\ UNCHANGED <<buttonVars, taskVars, events>>

=============================================================================
