---------------------------- MODULE MotorControl ----------------------------
(***************************************************************************)
(* manage_motor_controller (src/src/tasks/motor_controller.rs) with the    *)
(* queues it reads, its timers, and the OTA_STATUS watch it follows.       *)
(*                                                                         *)
(* The executor is cooperative: the task runs from one await to the next   *)
(* without any other task in between.  An action is one such stretch; a    *)
(* task that reaches an await which is ready at once does not yield, which *)
(* is what pc = "poll" stands for: select3 being polled for the first time *)
(* in the same stretch as the top of the loop.                             *)
(*                                                                         *)
(* A tick is LoopDelay's granularity.  A task that is ready may still wait *)
(* for the executor, for at most MaxLag ticks.                             *)
(***************************************************************************)
EXTENDS MotorDriver, Sequences, FiniteSets

CONSTANTS
    Watchdog,        \* ticks of the select3 timer: 3 s
    LoopDelay,       \* ticks of the timer that ends an iteration: 10 ms
    MaxLag,          \* ticks the executor may keep a ready task waiting
    CommandCap,      \* depth of MOTOR_COMMAND
    ConfigCap,       \* depth of MOTOR_CONFIGURATION
    TelemetryCap,    \* depth of MOTOR_TELEMETRY
    DefaultConfig,   \* MotorConfig::default()
    Moves,           \* the speeds the broker asks for
    Configs          \* the configurations the broker sends

ASSUME TimingAssumption ==
    /\ Watchdog \in Nat \ {0}
    /\ LoopDelay \in Nat \ {0}
    /\ MaxLag \in Nat
ASSUME CapAssumption ==
    /\ CommandCap \in Nat \ {0}
    /\ ConfigCap \in Nat \ {0}
    /\ TelemetryCap \in Nat \ {0}
ASSUME InputAssumption ==
    /\ DefaultConfig \in Config
    /\ Moves \subseteq Speed
    /\ Configs \subseteq Config

VARIABLES
    pc,            \* where the task waits, or "poll" while it runs
    timer,         \* ticks left of the timer the task waits for
    lag,           \* ticks the task has been ready and not run
    driver,        \* the DRV8833 driver and its outputs
    commands,      \* MOTOR_COMMAND
    configs,       \* MOTOR_CONFIGURATION
    telemetry,     \* MOTOR_TELEMETRY
    status,        \* OTA_STATUS: the latest value ...
    unseen,        \* ... and whether this receiver has yet to see it
    sinceMessage,  \* history: ticks since the task last took a message
    activeFor      \* history: ticks an update has been in flight

taskVars == <<pc, timer, lag, driver>>
queueVars == <<commands, configs, telemetry>>
otaVars == <<status, unseen, activeFor>>
vars == <<taskVars, queueVars, otaVars, sinceMessage>>

Ota == INSTANCE OtaProgress

DriveCommand == [kind : {"Move"}, speed : Moves] \cup {[kind |-> "Stop"]}

MotorTelemetry == [kind : {"Motoring"}, speed : Speed] \cup {[kind |-> "Stopped"]}

\* The longest a message, or the end of an update, may go unanswered: a whole
\* select3 and a whole loop delay, with the executor late for both.
Bound == Watchdog + LoopDelay + 2 * MaxLag

\* The history counters stop one past the bound.
Saturate(n) == IF n <= Bound THEN n + 1 ELSE n

TypeOK ==
    /\ pc \in {"poll", "select", "delay", "paused"}
    /\ timer \in Nat
    /\ lag \in 0..MaxLag
    /\ driver \in Driver
    /\ commands \in Seq(DriveCommand) /\ Len(commands) <= CommandCap
    /\ configs \in Seq(Configs) /\ Len(configs) <= ConfigCap
    /\ telemetry \in Seq(MotorTelemetry) /\ Len(telemetry) <= TelemetryCap
    /\ Ota!TypeOK
    /\ unseen \in BOOLEAN
    /\ sinceMessage \in 0..(Bound + 1)
    /\ activeFor \in 0..(Bound + 1)

\* The 1 ms that nSLEEP needs before the loop is less than a tick.
Init ==
    /\ pc = "delay"
    /\ timer = 0
    /\ lag = 0
    /\ driver = New(DefaultConfig)
    /\ commands = <<>>
    /\ configs = <<>>
    /\ telemetry = <<>>
    /\ Ota!Init
    /\ unseen = FALSE
    /\ sinceMessage = 0
    /\ activeFor = 0

-----------------------------------------------------------------------------
(* The task *)

WaitFor(where, ticks) == pc' = where /\ timer' = ticks /\ lag' = 0

Quiet == commands = <<>> /\ configs = <<>>

MotorStatus(d) == IF Stopped(d) THEN [kind |-> "Stopped"]
                                ELSE [kind |-> "Motoring", speed |-> d.speed]

\* Every branch of select3 ends with get_status, try_send and the loop delay.
Finish(d) ==
    /\ driver' = d
    /\ telemetry' = IF Len(telemetry) < TelemetryCap
                    THEN Append(telemetry, MotorStatus(d)) ELSE telemetry
    /\ WaitFor("delay", LoopDelay)
    /\ UNCHANGED otaVars

HandleCommand ==
    /\ pc \in {"poll", "select"}
    /\ commands # <<>>
    /\ commands' = Tail(commands)
    /\ sinceMessage' = 0
    /\ Finish(IF Head(commands).kind = "Move"
              THEN SetSpeed(driver, Head(commands).speed) ELSE Stop(driver))
    /\ UNCHANGED configs

\* select3 polls the commands first.
HandleConfig ==
    /\ pc \in {"poll", "select"}
    /\ commands = <<>>
    /\ configs # <<>>
    /\ configs' = Tail(configs)
    /\ sinceMessage' = 0
    /\ Finish(SetConfig(driver, Head(configs)))
    /\ UNCHANGED commands

\* Bug: the watchdog only warns.
BugWatchdogExpires ==
    /\ pc = "select"
    /\ Quiet
    /\ timer = 0
    /\ Finish(driver)
    /\ UNCHANGED <<commands, configs, sinceMessage>>

\* Bug: the watchdog stops the motors through the filter.
BugWatchdogFilters ==
    /\ pc = "select"
    /\ Quiet
    /\ timer = 0
    /\ Finish(SetSpeed(driver, Still))
    /\ UNCHANGED <<commands, configs, sinceMessage>>

WatchdogExpires ==
    /\ pc = "select"
    /\ Quiet
    /\ timer = 0
    /\ Finish(Stop(driver))
    /\ UNCHANGED <<commands, configs, sinceMessage>>

\* Nothing was ready when select3 was first polled.
Yield ==
    /\ pc = "poll"
    /\ Quiet
    /\ pc' = "select"
    /\ UNCHANGED <<timer, lag, driver, queueVars, otaVars, sinceMessage>>

\* Bug: the new value is marked seen and not looked at.
BugEnterSelect ==
    /\ pc = "delay"
    /\ timer = 0
    /\ WaitFor("poll", Watchdog)
    /\ unseen' = FALSE
    /\ UNCHANGED <<driver, queueVars, status, activeFor, sinceMessage>>

\* The top of the loop.  try_changed marks the value seen, active or not.
EnterSelect ==
    /\ pc = "delay"
    /\ timer = 0
    /\ ~(unseen /\ Ota!IsActive(status))
    /\ WaitFor("poll", Watchdog)
    /\ unseen' = FALSE
    /\ UNCHANGED <<driver, queueVars, status, activeFor, sinceMessage>>

\* Bug: the bridge is put to sleep before the motors are stopped.
BugPauseForOta ==
    /\ pc = "delay"
    /\ timer = 0
    /\ unseen
    /\ Ota!IsActive(status)
    /\ driver' = Stop(Sleep(driver))
    /\ WaitFor("paused", 0)
    /\ unseen' = FALSE
    /\ UNCHANGED <<queueVars, status, activeFor, sinceMessage>>

PauseForOta ==
    /\ pc = "delay"
    /\ timer = 0
    /\ unseen
    /\ Ota!IsActive(status)
    /\ driver' = Sleep(Stop(driver))
    /\ WaitFor("paused", 0)
    /\ unseen' = FALSE
    /\ UNCHANGED <<queueVars, status, activeFor, sinceMessage>>

\* changed().await returns for every new value; only an inactive one ends the
\* pause, and select3 follows without another look at the watch.
OtaChanged ==
    /\ pc = "paused"
    /\ unseen
    /\ unseen' = FALSE
    /\ IF Ota!IsActive(status) THEN WaitFor("paused", 0) ELSE WaitFor("poll", Watchdog)
    /\ UNCHANGED <<driver, queueVars, status, activeFor, sinceMessage>>

Task == \/ HandleCommand \/ HandleConfig \/ WatchdogExpires \/ Yield
        \/ EnterSelect \/ PauseForOta \/ OtaChanged

-----------------------------------------------------------------------------
(* Time, and the tasks at the other end of the queues and the watch *)

Ready == \/ pc = "select" /\ (~Quiet \/ timer = 0)
         \/ pc = "delay" /\ timer = 0
         \/ pc = "paused" /\ unseen

Yielded == pc # "poll"

Tick ==
    /\ Yielded
    /\ Ready => lag < MaxLag
    /\ lag' = IF Ready THEN lag + 1 ELSE lag
    /\ timer' = IF timer > 0 THEN timer - 1 ELSE 0
    /\ sinceMessage' = Saturate(sinceMessage)
    /\ activeFor' = IF Ota!IsActive(status) THEN Saturate(activeFor) ELSE 0
    /\ UNCHANGED <<pc, driver, queueVars, status, unseen>>

\* send().await of manage_mqtt_client waits while the queue is full.
SendCommand ==
    /\ Yielded
    /\ Len(commands) < CommandCap
    /\ \E c \in DriveCommand : commands' = Append(commands, c)
    /\ UNCHANGED <<taskVars, configs, telemetry, otaVars, sinceMessage>>

SendConfig ==
    /\ Yielded
    /\ Len(configs) < ConfigCap
    /\ \E c \in Configs : configs' = Append(configs, c)
    /\ UNCHANGED <<taskVars, commands, telemetry, otaVars, sinceMessage>>

\* aggregate_telemetry's try_receive.
TakeTelemetry ==
    /\ Yielded
    /\ telemetry # <<>>
    /\ telemetry' = Tail(telemetry)
    /\ UNCHANGED <<taskVars, commands, configs, otaVars, sinceMessage>>

\* Bug: an update that ends is not announced to the receivers.
BugPublishStatus ==
    /\ Yielded
    /\ \E s \in Ota!OtaStatus : Ota!Publish(s)
    /\ unseen' = (unseen \/ Ota!IsActive(status'))
    /\ activeFor' = IF Ota!IsActive(status) /\ Ota!IsActive(status') THEN activeFor ELSE 0
    /\ UNCHANGED <<taskVars, queueVars, sinceMessage>>

PublishStatus ==
    /\ Yielded
    /\ \E s \in Ota!OtaStatus : Ota!Publish(s)
    /\ unseen' = TRUE
    /\ activeFor' = IF Ota!IsActive(status) /\ Ota!IsActive(status') THEN activeFor ELSE 0
    /\ UNCHANGED <<taskVars, queueVars, sinceMessage>>

\* A software reset or a power cut: everything starts again.
Reboot ==
    /\ Yielded
    /\ WaitFor("delay", 0)
    /\ driver' = New(DefaultConfig)
    /\ commands' = <<>>
    /\ configs' = <<>>
    /\ telemetry' = <<>>
    /\ Ota!Reset
    /\ unseen' = FALSE
    /\ sinceMessage' = 0
    /\ activeFor' = 0

Environment == SendCommand \/ SendConfig \/ TakeTelemetry \/ PublishStatus \/ Reboot

Next == Task \/ Tick \/ Environment

Spec == Init /\ [][Next]_vars

\* The executor runs a ready task, and time passes.
FairSpec == Spec /\ WF_vars(Task) /\ WF_vars(Tick)

-----------------------------------------------------------------------------
(* Properties *)

\* Dead-man's switch, lines 72-121: as long as a wheel is commanded to turn, a
\* message was taken at most Bound ticks ago.  Any message will do: the timer of
\* select3 starts again for a configuration as it does for a command.
DeadmanHolds == ~Stopped(driver) => sinceMessage <= Bound

\* Lines 56-70 and 72-76: the task looks at OTA_STATUS only between two
\* iterations, so an update is noticed late, but never later than one select3 and
\* one loop delay; from then on until it ends the task is paused.
UpdatePauses == activeFor > Bound => pc = "paused"

\* Lines 63-68: throughout the pause no pin is driven, the bridge sleeps and
\* get_status would say so; and a pin is never left driven behind a sleeping
\* bridge, which the next set_high would let through.
PauseIsSafe ==
    /\ pc = "paused" => ~driver.awake
    /\ driver.awake \/ driver.duty = Still
    /\ Stopped(driver) => driver.duty = Still

\* The switch as the rest of the system sees it.
Switch == INSTANCE Deadman WITH moving <- ~Stopped(driver), quiet <- sinceMessage

\* Every behaviour of the task is one of the dead-man switch.
ImplementsDeadman == Switch!Spec

\* When the updates are over the task always comes back to its queues.
UpdateReleases == <>[]~Ota!IsActive(status) => []<>(pc # "paused")

\* motor_driver/types.rs, lines 9-10: "a command of exactly `0.0` still fully stops the
\* motor".  Not at once, perhaps, with the filter in between, but when the broker keeps
\* asking for nothing else.
ZeroStops ==
    LET zero == [kind |-> "Move", speed |-> Still]
    IN  /\ <>[](commands \in {<<>>, <<zero>>})
        /\ []<>(commands = <<zero>>)
        => []<>Stopped(driver)

\* When nothing arrives any more the motors end up off, paused or not.
SilenceStops == <>[]Quiet => <>[]Stopped(driver)

=============================================================================
