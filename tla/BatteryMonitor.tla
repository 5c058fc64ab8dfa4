--------------------------- MODULE BatteryMonitor ---------------------------
(***************************************************************************)
(* monitor_battery (src/src/tasks/battery_monitor.rs) and the charger it   *)
(* polls: one transaction after the other on a shared bus, while the pack  *)
(* drains, is plugged in and unplugged, and the charger stops answering or *)
(* resets itself.                                                          *)
(*                                                                         *)
(* Timers elapse at any time after they were set.  The status itself goes  *)
(* to Display and Telemetry; what a request does is PowerButton's.         *)
(***************************************************************************)
EXTENDS BatteryGauge

CONSTANT Millivolts    \* what a cell of the pack may have

ASSUME BatteryAssumption == \A mv \in Millivolts : mv \in Nat /\ 0 < mv /\ 2 * mv < 2^16

Cell     == {"top", "bot"}
Register == {"vbat"} \cup Cell    \* measured by the converter

VARIABLES
    pc,          \* what the task awaits
    reading,     \* the part of ChargerStatus that has been read
    requests,    \* SHUTDOWN_REQUESTS, of capacity one
    pack,        \* the voltage of each cell
    charging,    \* whether current flows into the pack
    answers,     \* whether the charger acknowledges its address
    adc,         \* whether its converter runs
    converted,   \* registers the converter has filled since it runs
    low,         \* history: cells that have been low at every moment of this poll
    everLow,     \* history: cells that have been low at a moment of this poll
    everIdle,    \* history: whether the pack was not charging at a moment of it
    everCharging \* history: whether the pack was charging at a moment of it

task  == <<pc, reading, requests>>
chip  == <<answers, adc, converted>>
world == <<pack, charging>>
seen  == <<low, everLow, everIdle, everCharging>>
vars  == <<task, chip, world, seen>>

Unread == [charging |-> FALSE, vbat |-> 0, top |-> 0, bot |-> 0]

Charge(r) == StateOfCharge(r.vbat, r.top, r.bot)

TypeOK ==
    /\ pc \in {"init", "backoff", "poll", "vbat", "top", "bot", "rest"}
    /\ reading.charging \in BOOLEAN /\ \A r \in Register : reading[r] \in Nat
    /\ \A r \in Cell : reading[r] \in Millivolts \cup {0}
    /\ Charge(reading) \in 0..100
    /\ requests \in 0..1
    /\ pack \in [Cell -> Millivolts] /\ charging \in BOOLEAN
    /\ answers \in BOOLEAN /\ adc \in BOOLEAN
    /\ converted \subseteq Register /\ (converted # {} => adc)
    /\ low \subseteq everLow /\ everLow \subseteq Cell
    /\ everIdle \in BOOLEAN /\ everCharging \in BOOLEAN

\* Below LOW_BATTERY_THRESHOLD on its own: see GaugeThreshold.
LowCells(cells) == {c \in Cell : cells[c] < 3500}

Polling == pc \in Register \cup {"rest"}

\* The history variables: a poll begins, is over, or goes on over a change of the pack.
Begin ==
    /\ low' = LowCells(pack) /\ everLow' = LowCells(pack)
    /\ everIdle' = ~charging /\ everCharging' = charging

Over ==
    low' = {} /\ everLow' = {} /\ everIdle' = FALSE /\ everCharging' = FALSE

GoesOn ==
    IF Polling
    THEN /\ low' = low \cap LowCells(pack')
         /\ everLow' = everLow \cup LowCells(pack')
         /\ everIdle' = (everIdle \/ ~charging')
         /\ everCharging' = (everCharging \/ charging')
    ELSE UNCHANGED seen

Init ==
    /\ pc = "init"
    /\ reading = Unread
    /\ requests = 0
    /\ pack \in [Cell -> Millivolts] /\ charging \in BOOLEAN
    /\ answers \in BOOLEAN /\ adc = FALSE /\ converted = {}
    /\ low = {} /\ everLow = {} /\ everIdle = FALSE /\ everCharging = FALSE

-----------------------------------------------------------------------------
(* The task *)

\* The watchdog is disabled and the converter switched on by one init.
InitCharger ==
    /\ pc = "init"
    /\ IF answers THEN pc' = "poll" /\ adc' = TRUE ELSE pc' = "backoff" /\ UNCHANGED adc
    /\ UNCHANGED <<reading, requests, answers, converted, world, seen>>

\* Bug: a charger that failed once is given up.
BugBackoff ==
    /\ pc = "backoff"
    /\ pc' = "backoff"
    /\ UNCHANGED <<reading, requests, chip, world, seen>>

\* After a failed init as after a failed read, RETRY_INTERVAL passes.
BackoffElapses ==
    /\ pc = "backoff"
    /\ pc' = "init"
    /\ UNCHANGED <<reading, requests, chip, world, seen>>

\* POLL_INTERVAL, two seconds, is over: by then a running converter has filled a
\* register.
PollElapses ==
    /\ pc = "poll"
    /\ adc => converted # {}
    /\ IF answers
       THEN pc' = "vbat" /\ reading' = [Unread EXCEPT !.charging = charging] /\ Begin
       ELSE pc' = "backoff" /\ UNCHANGED <<reading, seen>>
    /\ UNCHANGED <<requests, chip, world>>

Measured(r) == IF r \notin converted THEN 0
               ELSE IF r = "vbat" THEN pack["top"] + pack["bot"] ELSE pack[r]

After(r) == CASE r = "vbat" -> "top" [] r = "top" -> "bot" [] r = "bot" -> "rest"

Read(r) ==
    /\ pc = r
    /\ IF answers
       THEN pc' = After(r) /\ reading' = [reading EXCEPT ![r] = Measured(r)] /\ UNCHANGED seen
       ELSE pc' = "backoff" /\ reading' = Unread /\ Over
    /\ UNCHANGED <<requests, chip, world>>

\* Bug: a pack that charges is switched off all the same.
BugIsLow(r) == Charge(r) < LowBattery

IsLow(r) == Charge(r) < LowBattery /\ ~r.charging

\* The last registers are read, the status is sent and the request is tried, without
\* another await between them.
Finish ==
    /\ pc = "rest"
    /\ reading' = Unread /\ Over
    /\ IF answers
       THEN /\ pc' = "poll"
            /\ requests' = IF IsLow(reading) THEN 1 ELSE requests
       ELSE pc' = "backoff" /\ UNCHANGED requests
    /\ UNCHANGED <<chip, world>>

Monitor ==
    \/ InitCharger \/ BackoffElapses \/ PollElapses
    \/ (\E r \in Register : Read(r))
    \/ Finish

-----------------------------------------------------------------------------
(* Its surroundings *)

TakeRequest ==
    /\ requests = 1
    /\ requests' = 0
    /\ UNCHANGED <<pc, reading, chip, world, seen>>

\* Driving, resting, a cable.
PackChanges ==
    /\ pack' \in [Cell -> Millivolts]
    /\ charging' \in BOOLEAN
    /\ GoesOn
    /\ UNCHANGED <<task, chip>>

Convert ==
    /\ adc
    /\ \E r \in Register \ converted : converted' = converted \cup {r}
    /\ UNCHANGED <<task, answers, adc, world, seen>>

\* Noise, a loose connector, or another device that holds the bus.
FallSilent ==
    /\ answers
    /\ answers' = FALSE
    /\ UNCHANGED <<task, adc, converted, world, seen>>

\* A brown-out puts every register back to its default; the converter is off.
ResetCharger ==
    /\ answers' = FALSE
    /\ adc' = FALSE
    /\ converted' = {}
    /\ UNCHANGED <<task, world, seen>>

\* At once, before the task has met the silence, or any time later.
Answer ==
    /\ ~answers
    /\ answers' = TRUE
    /\ UNCHANGED <<task, adc, converted, world, seen>>

Surroundings ==
    TakeRequest \/ PackChanges \/ Convert \/ FallSilent \/ ResetCharger \/ Answer

Next == Monitor \/ Surroundings

Spec == Init /\ [][Next]_vars

\* The executor runs the task, timers elapse and the converter converts.
FairSpec == Spec /\ WF_vars(Monitor) /\ WF_vars(Convert)

-----------------------------------------------------------------------------
(* Properties *)

Asked == requests' > requests

\* Lines 73-79: the board is asked to shut down only if, while the poll ran, there was a
\* moment without charging and a cell was below the threshold, although the registers of
\* one status are read at different times and some are unfilled; or if all three were.
ShutdownIsDue ==
    [][Asked => /\ everIdle
                /\ everLow # {} \/ \A r \in Register : reading[r] = 0]_vars

\* Lines 73-79: a poll that has read both cells, and through which one of them was low
\* and the pack did not charge, leaves a request behind.
LowIsNoticed ==
    [][/\ pc = "rest" /\ pc' = "poll"
       /\ reading.top # 0 /\ reading.bot # 0
       /\ low # {} /\ ~everCharging
       => requests' = 1]_vars

\* Lines 44-48 and 93: a charger that answers for good is polled again and again.
KeepsPolling == <>[]answers => []<>(pc = "rest")

=============================================================================
