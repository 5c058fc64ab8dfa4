------------------------- MODULE MotorControlProofs -------------------------
(***************************************************************************)
(* What the driver's operations preserve, for every configuration the      *)
(* broker may send and every resolution of the fixed point; and theorems   *)
(* about MotorControl, for every watchdog period, loop delay, executor     *)
(* lag, queue depth, configuration and set of commands.                    *)
(***************************************************************************)
EXTENDS MotorControl, TLAPS

-----------------------------------------------------------------------------
(* The driver *)

\* Truncating division of an integer by a positive one is an integer.
LEMMA QuotType == ASSUME NEW n \in Int, NEW d \in Nat \ {0} PROVE Quot(n, d) \in Int
  BY DEF Quot

\* A duty fits the u8 the driver casts it to.
LEMMA DutyType ==
    ASSUME NEW m \in Int, NEW min \in Int PROVE DutyCyclePercent(m, min) \in 0..255
<1> DEFINE c == Clamp(m, 0, Unit)
           n == (min * Unit + c * (Unit - min)) * 100
<1>1. c \in Int
  BY UnitAssumption DEF Clamp
<1>2. Unit * Unit \in Nat \ {0}
  BY UnitAssumption
<1>3. n \in Int
  BY <1>1, UnitAssumption
<1>4. Quot(n, Unit * Unit) \in Int
  BY <1>2, <1>3, QuotType
<1>5. Clamp(Quot(n, Unit * Unit), 0, 255) \in 0..255
  BY <1>4 DEF Clamp
<1> QED
  BY <1>5 DEF DutyCyclePercent

\* A side at speed zero is not driven, whatever the configuration.
LEMMA ZeroDuty == \A min \in Int : MotorOutput(0, min) = 0
  BY UnitAssumption DEF MotorOutput, DutyCyclePercent, Clamp

\* An output has the type of a signed percent.
LEMMA OutputType ==
    ASSUME NEW s \in Int, NEW min \in Int PROVE MotorOutput(s, min) \in -255..255
<1>1. DutyCyclePercent(s, min) \in 0..255
  BY DutyType
<1>2. -s \in Int
  OBVIOUS
<1>3. DutyCyclePercent(-s, min) \in 0..255
  BY <1>2, DutyType
<1> QED
  BY <1>1, <1>3 DEF MotorOutput

\* Driving both sides keeps the type, wakes the bridge, and drives no pin of a
\* robot that stands still.
LEMMA OutputProperties ==
    ASSUME NEW d \in Driver, NEW v \in Speed
    PROVE  /\ Output(d, v) \in Driver
           /\ Output(d, v).awake
           /\ Output(d, v).speed = v
           /\ v = Still => Output(d, v).duty = Still
<1>1. d.config \in Config /\ d.config.min_duty_cycle \in Int
  BY DEF Driver, Config
<1>2. \A side \in Side : v[side] \in Int
  BY DEF Speed
<1> DEFINE duty == [side \in Side |-> MotorOutput(v[side], d.config.min_duty_cycle)]
<1>3. duty \in [Side -> -255..255]
  BY <1>1, <1>2, OutputType
<1>4. Output(d, v) = [d EXCEPT !.awake = TRUE, !.speed = v, !.duty = duty]
  BY DEF Output
<1>5. v = Still => duty = Still
  BY <1>1, ZeroDuty DEF Still
<1> HIDE DEF duty
<1>6. Output(d, v) \in Driver
  <2>1. d \in Driver /\ v \in Speed /\ TRUE \in BOOLEAN
    OBVIOUS
  <2> QED
    BY <1>3, <1>4, <2>1, ZenonT(60) DEF Driver
<1>7. Output(d, v).awake /\ Output(d, v).speed = v /\ Output(d, v).duty = duty
  <2>1. {"awake", "speed", "duty"} \subseteq DOMAIN d
    BY DEF Driver
  <2> QED
    BY <1>4, <2>1
<1> QED
  BY <1>5, <1>6, <1>7

\* The filter yields a speed.
LEMMA EmaType ==
    ASSUME NEW alpha \in Int \cup {NoFilter}, NEW old \in Int, NEW cmd \in Int
    PROVE  Ema(alpha, old, cmd) \in Int
<1>1. CASE alpha = NoFilter
  BY <1>1 DEF Ema
<1>2. CASE alpha # NoFilter
  <2>1. alpha * (cmd - old) \in Int
    BY <1>2
  <2> QED
    BY <2>1, <1>2, QuotType, UnitAssumption DEF Ema
<1> QED
  BY <1>1, <1>2

\* set_speed keeps the type and never leaves a driven pin behind a sleeping bridge.
LEMMA SetSpeedProperties ==
    ASSUME NEW d \in Driver, NEW cmd \in Speed
    PROVE  /\ SetSpeed(d, cmd) \in Driver
           /\ SetSpeed(d, cmd).awake
           /\ Stopped(SetSpeed(d, cmd)) => SetSpeed(d, cmd).duty = Still
<1> DEFINE v == [side \in Side |-> Ema(d.config.ema_filter_alpha, d.speed[side], cmd[side])]
<1>1. d.config.ema_filter_alpha \in Int \cup {NoFilter}
  BY DEF Driver, Config
<1>2. \A side \in Side : d.speed[side] \in Int /\ cmd[side] \in Int
  BY DEF Driver, Speed
<1>3. v \in Speed
  BY <1>1, <1>2, EmaType DEF Speed
<1>4. SetSpeed(d, cmd) = Output(d, v)
  BY DEF SetSpeed
<1> HIDE DEF v
<1> QED
  BY <1>3, <1>4, OutputProperties DEF Stopped

\* stop, and stop followed by sleep.
LEMMA StopProperties ==
    ASSUME NEW d \in Driver
    PROVE  /\ Stop(d) \in Driver
           /\ Stopped(Stop(d)) /\ Stop(d).duty = Still /\ Stop(d).awake
           /\ Sleep(Stop(d)) \in Driver
           /\ Stopped(Sleep(Stop(d))) /\ Sleep(Stop(d)).duty = Still
           /\ ~Sleep(Stop(d)).awake
<1>1. Still \in Speed
  BY DEF Still, Speed
<1>2. /\ Stop(d) \in Driver /\ Stop(d).awake
      /\ Stop(d).speed = Still /\ Stop(d).duty = Still
  BY <1>1, OutputProperties DEF Stop
<1> DEFINE s == Stop(d)
<1> HIDE DEF s
<1>3. /\ Sleep(s) \in Driver /\ Sleep(s).speed = s.speed
      /\ Sleep(s).duty = s.duty /\ ~Sleep(s).awake
  BY <1>2 DEF Sleep, Driver, s
<1> QED
  BY <1>2, <1>3 DEF Stopped, s

\* A new configuration changes nothing but the configuration.
LEMMA SetConfigProperties ==
    ASSUME NEW d \in Driver, NEW c \in Config
    PROVE  /\ SetConfig(d, c) \in Driver
           /\ SetConfig(d, c).speed = d.speed
           /\ SetConfig(d, c).duty = d.duty
           /\ SetConfig(d, c).awake = d.awake
  BY DEF SetConfig, Driver

\* A new driver stands still.
LEMMA NewProperties ==
    ASSUME NEW c \in Config
    PROVE  New(c) \in Driver /\ Stopped(New(c)) /\ New(c).duty = Still /\ New(c).awake
  BY DEF New, Driver, Speed, Still, Stopped

-----------------------------------------------------------------------------
(* The task's inductive invariant *)

\* The timer the task waits for never exceeds what it was armed with, and the
\* first poll of select3 finds it just armed.
TimerInv ==
    /\ pc = "poll" => timer = Watchdog /\ lag = 0
    /\ pc = "select" => timer <= Watchdog
    /\ pc = "delay" => timer <= LoopDelay

\* How long ago a moving robot's last message was, at each await.
MovingInv ==
    ~Stopped(driver) =>
      /\ pc # "paused"
      /\ pc = "delay" => sinceMessage <= (LoopDelay - timer) + lag
      /\ pc = "poll" => sinceMessage <= LoopDelay + MaxLag
      /\ pc = "select" => sinceMessage <= LoopDelay + MaxLag + (Watchdog - timer) + lag

\* How long an update can have been in flight at each await of a task that is not
\* paused: it was announced after the task last looked at the watch.
UpdateInv ==
    /\ ~Ota!IsActive(status) => activeFor = 0
    /\ pc = "poll" => ~unseen
    /\ Ota!IsActive(status) /\ pc # "paused" =>
         /\ unseen
         /\ pc = "select" => activeFor <= (Watchdog - timer) + lag
         /\ pc = "delay" => activeFor <= Watchdog + MaxLag + (LoopDelay - timer) + lag

\* During the pause, and whenever the bridge sleeps, nothing is driven.
DriverInv ==
    /\ pc = "paused" => ~driver.awake
    /\ driver.awake \/ driver.duty = Still
    /\ Stopped(driver) => driver.duty = Still

IInv == TypeOK /\ TimerInv /\ MovingInv /\ UpdateInv /\ DriverInv

-----------------------------------------------------------------------------
(* Types of the inputs *)

LEMMA BoundType == Bound \in Nat /\ Bound >= Watchdog + LoopDelay + MaxLag + MaxLag
  BY TimingAssumption DEF Bound

\* A command that moves carries a speed; any other one is Stop.
LEMMA CommandType ==
    ASSUME NEW c \in DriveCommand PROVE c.kind = "Move" => c.speed \in Speed
<1>1. CASE c \in [kind : {"Move"}, speed : Moves]
  BY <1>1, InputAssumption
<1>2. CASE c = [kind |-> "Stop"]
  BY <1>2
<1> QED
  BY <1>1, <1>2 DEF DriveCommand

\* What get_status reports is a telemetry sample.
LEMMA StatusType == ASSUME NEW d \in Driver PROVE MotorStatus(d) \in MotorTelemetry
<1>1. d.speed \in Speed
  BY DEF Driver
<1> QED
  BY <1>1 DEF MotorStatus, MotorTelemetry

-----------------------------------------------------------------------------
(* Every branch of select3 *)

\* What the invariant needs of a branch: the driver it leaves behind, and that the
\* history of a robot that may still move was just restarted.
LEMMA FinishPreserves ==
    ASSUME IInv, NEW d \in Driver, Finish(d), pc \in {"poll", "select"},
           d.awake \/ d.duty = Still,
           Stopped(d) => d.duty = Still,
           (sinceMessage' = sinceMessage /\ Stopped(d)) \/ sinceMessage' = 0,
           commands' \in Seq(DriveCommand), Len(commands') <= CommandCap,
           configs' \in Seq(Configs), Len(configs') <= ConfigCap
    PROVE  IInv'
<1> USE TimingAssumption, CapAssumption, BoundType
<1>1. TypeOK'
  <2>1. /\ driver' = d /\ pc' = "delay" /\ timer' = LoopDelay /\ lag' = 0
        /\ UNCHANGED otaVars
    BY DEF Finish, WaitFor
  <2>2. telemetry' \in Seq(MotorTelemetry) /\ Len(telemetry') <= TelemetryCap
    <3>1. MotorStatus(d) \in MotorTelemetry
      BY StatusType
    <3>2. telemetry \in Seq(MotorTelemetry) /\ Len(telemetry) <= TelemetryCap
      BY DEF IInv, TypeOK
    <3>3. CASE Len(telemetry) < TelemetryCap
      BY <3>1, <3>2, <3>3 DEF Finish
    <3>4. CASE ~(Len(telemetry) < TelemetryCap)
      BY <3>2, <3>4 DEF Finish
    <3> QED
      BY <3>3, <3>4
  <2>3. Ota!TypeOK' /\ unseen' \in BOOLEAN /\ activeFor' \in 0..(Bound + 1)
    BY <2>1 DEF IInv, TypeOK, otaVars, Ota!TypeOK
  <2>4. sinceMessage' \in 0..(Bound + 1)
    BY DEF IInv, TypeOK
  <2> QED
    BY <2>1, <2>2, <2>3, <2>4 DEF TypeOK
<1>2. TimerInv'
  BY DEF TimerInv, Finish, WaitFor
<1>3. MovingInv'
  BY DEF MovingInv, Finish, WaitFor, Stopped
<1>4. UpdateInv'
  BY DEF IInv, TypeOK, TimerInv, UpdateInv, Finish, WaitFor, otaVars, Ota!IsActive
<1>5. DriverInv'
  BY DEF DriverInv, Finish, WaitFor, Stopped
<1> QED
  BY <1>1, <1>2, <1>3, <1>4, <1>5 DEF IInv

LEMMA HandleCommandPreserves == IInv /\ HandleCommand => IInv'
<1> SUFFICES ASSUME IInv, HandleCommand PROVE IInv'
  OBVIOUS
<1> DEFINE c == Head(commands)
           d == IF c.kind = "Move" THEN SetSpeed(driver, c.speed) ELSE Stop(driver)
<1>1. driver \in Driver /\ commands \in Seq(DriveCommand) /\ Len(commands) <= CommandCap
  BY DEF IInv, TypeOK
<1>2. c \in DriveCommand /\ Tail(commands) \in Seq(DriveCommand)
      /\ Len(Tail(commands)) <= CommandCap
  BY <1>1, CapAssumption DEF HandleCommand
<1>3. c.kind = "Move" => c.speed \in Speed
  BY <1>2, CommandType
<1>4. d \in Driver /\ (d.awake \/ d.duty = Still) /\ (Stopped(d) => d.duty = Still)
  BY <1>1, <1>3, SetSpeedProperties, StopProperties
<1>5. /\ Finish(d) /\ pc \in {"poll", "select"} /\ sinceMessage' = 0
      /\ commands' = Tail(commands) /\ configs' = configs
  BY DEF HandleCommand
<1>6. configs \in Seq(Configs) /\ Len(configs) <= ConfigCap
  BY DEF IInv, TypeOK
<1> HIDE DEF d
<1> QED
  BY <1>2, <1>4, <1>5, <1>6, FinishPreserves

LEMMA HandleConfigPreserves == IInv /\ HandleConfig => IInv'
<1> SUFFICES ASSUME IInv, HandleConfig PROVE IInv'
  OBVIOUS
<1> DEFINE d == SetConfig(driver, Head(configs))
<1>1. driver \in Driver /\ configs \in Seq(Configs) /\ Len(configs) <= ConfigCap
  BY DEF IInv, TypeOK
<1>2. /\ Head(configs) \in Config /\ Tail(configs) \in Seq(Configs)
      /\ Len(Tail(configs)) <= ConfigCap
  BY <1>1, CapAssumption, InputAssumption DEF HandleConfig
<1>3. d \in Driver /\ d.awake = driver.awake /\ d.duty = driver.duty /\ d.speed = driver.speed
  BY <1>1, <1>2, SetConfigProperties
<1> HIDE DEF d
<1>4. (d.awake \/ d.duty = Still) /\ (Stopped(d) => d.duty = Still)
  BY <1>3 DEF IInv, DriverInv, Stopped
<1>5. /\ Finish(d) /\ pc \in {"poll", "select"} /\ sinceMessage' = 0
      /\ configs' = Tail(configs) /\ commands' = commands
  BY DEF HandleConfig, d
<1>6. commands \in Seq(DriveCommand) /\ Len(commands) <= CommandCap
  BY DEF IInv, TypeOK
<1> QED
  BY <1>2, <1>3, <1>4, <1>5, <1>6, FinishPreserves

LEMMA WatchdogExpiresPreserves == IInv /\ WatchdogExpires => IInv'
<1> SUFFICES ASSUME IInv, WatchdogExpires PROVE IInv'
  OBVIOUS
<1> DEFINE d == Stop(driver)
<1>1. d \in Driver /\ d.awake /\ Stopped(d) /\ d.duty = Still
  BY StopProperties DEF IInv, TypeOK
<1>2. /\ Finish(d) /\ pc = "select" /\ sinceMessage' = sinceMessage
      /\ configs' = configs /\ commands' = commands
  BY DEF WatchdogExpires
<1>3. /\ commands \in Seq(DriveCommand) /\ Len(commands) <= CommandCap
      /\ configs \in Seq(Configs) /\ Len(configs) <= ConfigCap
  BY DEF IInv, TypeOK
<1> HIDE DEF d
<1> QED
  BY <1>1, <1>2, <1>3, FinishPreserves

-----------------------------------------------------------------------------
(* The other actions *)

LEMMA YieldPreserves == IInv /\ Yield => IInv'
<1> SUFFICES ASSUME IInv, Yield PROVE IInv'
  OBVIOUS
<1> USE TimingAssumption
<1>1. TypeOK'
  BY DEF IInv, TypeOK, Yield, queueVars, otaVars, Ota!TypeOK
<1>2. TimerInv'
  BY DEF IInv, TypeOK, TimerInv, Yield
<1>3. MovingInv'
  BY DEF IInv, TypeOK, TimerInv, MovingInv, Yield
<1>4. UpdateInv'
  BY DEF IInv, TypeOK, TimerInv, UpdateInv, Yield, otaVars, Ota!IsActive
<1>5. DriverInv'
  BY DEF IInv, DriverInv, Yield
<1> QED
  BY <1>1, <1>2, <1>3, <1>4, <1>5 DEF IInv

LEMMA EnterSelectPreserves == IInv /\ EnterSelect => IInv'
<1> SUFFICES ASSUME IInv, EnterSelect PROVE IInv'
  OBVIOUS
<1> USE TimingAssumption DEF WaitFor
<1>1. TypeOK'
  <2>1. UNCHANGED <<driver, commands, configs, telemetry, status, activeFor, sinceMessage>>
    BY DEF EnterSelect, queueVars
  <2>2. pc' \in {"poll", "paused"} /\ timer' \in Nat /\ lag' = 0
    BY DEF EnterSelect
  <2>3. unseen' \in BOOLEAN
    BY DEF EnterSelect
  <2> QED
    BY <2>1, <2>2, <2>3 DEF IInv, TypeOK, Ota!TypeOK
<1>2. TimerInv'
  BY DEF TimerInv, EnterSelect
<1>3. MovingInv'
  BY DEF IInv, TypeOK, TimerInv, MovingInv, EnterSelect
<1>4. UpdateInv'
  BY DEF IInv, UpdateInv, EnterSelect, Ota!IsActive
<1>5. DriverInv'
  BY DEF IInv, DriverInv, EnterSelect
<1> QED
  BY <1>1, <1>2, <1>3, <1>4, <1>5 DEF IInv

LEMMA PauseForOtaPreserves == IInv /\ PauseForOta => IInv'
<1> SUFFICES ASSUME IInv, PauseForOta PROVE IInv'
  OBVIOUS
<1> USE TimingAssumption DEF WaitFor
<1> DEFINE d == Sleep(Stop(driver))
<1>1. d \in Driver /\ Stopped(d) /\ d.duty = Still /\ ~d.awake
  BY StopProperties DEF IInv, TypeOK
<1>2. driver' = d
  BY DEF PauseForOta
<1> HIDE DEF d
<1>3. TypeOK'
  <2>1. UNCHANGED <<commands, configs, telemetry, status, activeFor, sinceMessage>>
    BY DEF PauseForOta, queueVars
  <2>2. pc' = "paused" /\ timer' = 0 /\ lag' = 0
    BY DEF PauseForOta
  <2>3. unseen' \in BOOLEAN
    BY DEF PauseForOta
  <2> QED
    BY <1>1, <1>2, <2>1, <2>2, <2>3 DEF IInv, TypeOK, Ota!TypeOK
<1>4. TimerInv'
  BY DEF TimerInv, PauseForOta
<1>5. MovingInv'
  BY <1>1, <1>2 DEF MovingInv, Stopped
<1>6. UpdateInv'
  BY DEF IInv, UpdateInv, PauseForOta, Ota!IsActive
<1>7. DriverInv'
  BY <1>1, <1>2 DEF DriverInv
<1> QED
  BY <1>3, <1>4, <1>5, <1>6, <1>7 DEF IInv

LEMMA OtaChangedPreserves == IInv /\ OtaChanged => IInv'
<1> SUFFICES ASSUME IInv, OtaChanged PROVE IInv'
  OBVIOUS
<1> USE TimingAssumption DEF WaitFor
<1>1. TypeOK'
  <2>1. UNCHANGED <<driver, commands, configs, telemetry, status, activeFor, sinceMessage>>
    BY DEF OtaChanged, queueVars
  <2>2. pc' \in {"poll", "paused"} /\ timer' \in Nat /\ lag' = 0
    BY DEF OtaChanged
  <2>3. unseen' \in BOOLEAN
    BY DEF OtaChanged
  <2> QED
    BY <2>1, <2>2, <2>3 DEF IInv, TypeOK, Ota!TypeOK
<1>2. TimerInv'
  BY DEF TimerInv, OtaChanged
<1>3. MovingInv'
  BY DEF IInv, MovingInv, OtaChanged
<1>4. UpdateInv'
  BY DEF IInv, UpdateInv, OtaChanged, Ota!IsActive
<1>5. DriverInv'
  BY DEF IInv, DriverInv, OtaChanged
<1> QED
  BY <1>1, <1>2, <1>3, <1>4, <1>5 DEF IInv

LEMMA TickPreserves == IInv /\ Tick => IInv'
<1> SUFFICES ASSUME IInv, Tick PROVE IInv'
  OBVIOUS
<1> USE TimingAssumption, BoundType
<1>0. pc # "poll" /\ UNCHANGED <<pc, driver, status, unseen>>
  BY DEF Tick, Yielded
<1>1. TypeOK'
  BY DEF IInv, TypeOK, Tick, Saturate, queueVars, Ota!TypeOK
<1>2. TimerInv'
  BY <1>0 DEF IInv, TypeOK, TimerInv, Tick
<1>3. /\ {timer, timer', lag, lag'} \subseteq Nat
      /\ {sinceMessage, sinceMessage', activeFor, activeFor'} \subseteq Nat
  BY <1>1 DEF IInv, TypeOK
<1>4. sinceMessage' <= sinceMessage + 1 /\ activeFor' <= activeFor + 1
  BY <1>3 DEF Tick, Saturate
<1> DEFINE Waited(period) == (period - timer) + lag
\* Either the timer runs down or, once it has, the lag grows.
<1>5. /\ pc = "delay" => Waited(LoopDelay)' = Waited(LoopDelay) + 1
      /\ pc = "select" => Waited(Watchdog)' >= Waited(Watchdog) + 1
  BY <1>3 DEF Tick, Ready
<1>6. MovingInv'
  <2> SUFFICES ASSUME ~Stopped(driver) PROVE MovingInv'
    BY <1>0 DEF MovingInv, Stopped
  <2> QED
    BY <1>0, <1>3, <1>4, <1>5 DEF IInv, MovingInv
<1>7. UpdateInv'
  <2>1. ~Ota!IsActive(status') => activeFor' = 0
    BY <1>0 DEF Tick, Ota!IsActive
  <2> SUFFICES ASSUME Ota!IsActive(status), pc # "paused"
               PROVE  /\ unseen
                      /\ pc = "select" => activeFor' <= Waited(Watchdog)'
                      /\ pc = "delay" => activeFor' <= Watchdog + MaxLag + Waited(LoopDelay)'
    BY <1>0, <1>3, <2>1 DEF UpdateInv
  <2>2. /\ unseen
        /\ pc = "select" => activeFor <= Waited(Watchdog)
        /\ pc = "delay" => activeFor <= Watchdog + MaxLag + Waited(LoopDelay)
    BY <1>3 DEF IInv, UpdateInv
  <2> HIDE DEF Waited
  <2>3. {Waited(Watchdog), Waited(Watchdog)', Waited(LoopDelay), Waited(LoopDelay)'} \subseteq Int
    BY <1>3 DEF Waited
  <2> QED
    BY <1>3, <1>4, <1>5, <2>2, <2>3
<1>8. DriverInv'
  BY <1>0 DEF IInv, DriverInv
<1> QED
  BY <1>1, <1>2, <1>6, <1>7, <1>8 DEF IInv

\* The other ends of the queues touch nothing the invariant bounds.
LEMMA QueuesPreserve == IInv /\ (SendCommand \/ SendConfig \/ TakeTelemetry) => IInv'
<1> SUFFICES ASSUME IInv, SendCommand \/ SendConfig \/ TakeTelemetry PROVE IInv'
  OBVIOUS
<1> USE CapAssumption
<1>0. UNCHANGED <<pc, timer, lag, driver, status, unseen, activeFor, sinceMessage>>
  BY DEF SendCommand, SendConfig, TakeTelemetry, taskVars, otaVars
<1>1. /\ commands \in Seq(DriveCommand) /\ Len(commands) <= CommandCap
      /\ configs \in Seq(Configs) /\ Len(configs) <= ConfigCap
      /\ telemetry \in Seq(MotorTelemetry) /\ Len(telemetry) <= TelemetryCap
  BY DEF IInv, TypeOK
<1>2. /\ commands' \in Seq(DriveCommand) /\ Len(commands') <= CommandCap
      /\ configs' \in Seq(Configs) /\ Len(configs') <= ConfigCap
      /\ telemetry' \in Seq(MotorTelemetry) /\ Len(telemetry') <= TelemetryCap
  <2>1. CASE SendCommand
    <3>1. PICK c \in DriveCommand : commands' = Append(commands, c)
      BY <2>1 DEF SendCommand
    <3>2. Len(commands) < CommandCap /\ UNCHANGED <<configs, telemetry>>
      BY <2>1 DEF SendCommand
    <3> QED
      BY <1>1, <3>1, <3>2
  <2>2. CASE SendConfig
    <3>1. PICK c \in Configs : configs' = Append(configs, c)
      BY <2>2 DEF SendConfig
    <3>2. Len(configs) < ConfigCap /\ UNCHANGED <<commands, telemetry>>
      BY <2>2 DEF SendConfig
    <3> QED
      BY <1>1, <3>1, <3>2
  <2>3. CASE TakeTelemetry
    <3>1. telemetry # <<>> /\ telemetry' = Tail(telemetry) /\ UNCHANGED <<commands, configs>>
      BY <2>3 DEF TakeTelemetry
    <3> QED
      BY <1>1, <3>1
  <2> QED
    BY <2>1, <2>2, <2>3
<1>4. TypeOK'
  BY <1>0, <1>2 DEF IInv, TypeOK, Ota!TypeOK
<1>5. TimerInv' /\ MovingInv'
  BY <1>0 DEF IInv, TimerInv, MovingInv
<1>6. UpdateInv' /\ DriverInv'
  BY <1>0 DEF IInv, UpdateInv, DriverInv
<1> QED
  BY <1>4, <1>5, <1>6 DEF IInv

LEMMA PublishStatusPreserves == IInv /\ PublishStatus => IInv'
<1> SUFFICES ASSUME IInv, PublishStatus PROVE IInv'
  OBVIOUS
<1> USE TimingAssumption, BoundType
<1>0. /\ pc # "poll" /\ unseen' = TRUE /\ status' \in Ota!OtaStatus
      /\ UNCHANGED <<pc, timer, lag, driver, commands, configs, telemetry, sinceMessage>>
  BY DEF PublishStatus, Yielded, taskVars, queueVars, Ota!Publish
<1>1. activeFor' = IF Ota!IsActive(status) /\ Ota!IsActive(status') THEN activeFor ELSE 0
  BY DEF PublishStatus
<1>2. TypeOK'
  BY <1>0, <1>1 DEF IInv, TypeOK, Ota!TypeOK
<1>3. TimerInv' /\ MovingInv'
  BY <1>0 DEF IInv, TimerInv, MovingInv
<1>4. UpdateInv'
  BY <1>0, <1>1 DEF IInv, TypeOK, TimerInv, UpdateInv
<1>5. DriverInv'
  BY <1>0 DEF IInv, DriverInv
<1> QED
  BY <1>2, <1>3, <1>4, <1>5 DEF IInv

LEMMA RebootPreserves == IInv /\ Reboot => IInv'
<1> SUFFICES ASSUME Reboot PROVE IInv'
  OBVIOUS
<1> USE TimingAssumption, BoundType DEF WaitFor
<1> DEFINE d == New(DefaultConfig)
<1>0. driver' = d /\ d \in Driver /\ Stopped(d) /\ d.duty = Still /\ d.awake
  BY NewProperties, InputAssumption DEF Reboot
<1> HIDE DEF d
<1>1. TypeOK'
  <2>1. commands' = <<>> /\ configs' = <<>> /\ telemetry' = <<>>
    BY DEF Reboot
  <2>2. /\ commands' \in Seq(DriveCommand) /\ Len(commands') <= CommandCap
        /\ configs' \in Seq(Configs) /\ Len(configs') <= ConfigCap
        /\ telemetry' \in Seq(MotorTelemetry) /\ Len(telemetry') <= TelemetryCap
    BY <2>1, CapAssumption
  <2>3. /\ pc' = "delay" /\ timer' = 0 /\ lag' = 0
        /\ sinceMessage' = 0 /\ activeFor' = 0
    BY DEF Reboot
  <2>4. Ota!TypeOK'
    BY DEF Reboot, Ota!Reset, Ota!TypeOK
  <2>5. unseen' \in BOOLEAN
    BY DEF Reboot
  <2> QED
    BY <1>0, <2>2, <2>3, <2>4, <2>5 DEF TypeOK
<1>2. TimerInv'
  BY DEF TimerInv, Reboot
<1>3. MovingInv'
  BY <1>0 DEF MovingInv, Stopped
<1>4. UpdateInv'
  BY DEF UpdateInv, Reboot, Ota!Reset, Ota!IsActive, Ota!OtaStatus
<1>5. DriverInv'
  BY <1>0 DEF DriverInv, Reboot
<1> QED
  BY <1>1, <1>2, <1>3, <1>4, <1>5 DEF IInv

-----------------------------------------------------------------------------
(* The theorems *)

LEMMA InitEstablishes == Init => IInv
<1> SUFFICES ASSUME Init PROVE IInv
  OBVIOUS
<1> USE TimingAssumption, BoundType
<1> DEFINE d == New(DefaultConfig)
<1>0. driver = d /\ d \in Driver /\ Stopped(d) /\ d.duty = Still /\ d.awake
  BY NewProperties, InputAssumption DEF Init
<1> HIDE DEF d
<1>1. TypeOK
  <2>1. commands = <<>> /\ configs = <<>> /\ telemetry = <<>>
    BY DEF Init
  <2>2. /\ commands \in Seq(DriveCommand) /\ Len(commands) <= CommandCap
        /\ configs \in Seq(Configs) /\ Len(configs) <= ConfigCap
        /\ telemetry \in Seq(MotorTelemetry) /\ Len(telemetry) <= TelemetryCap
    BY <2>1, CapAssumption
  <2>3. /\ pc = "delay" /\ timer = 0 /\ lag = 0
        /\ sinceMessage = 0 /\ activeFor = 0
    BY DEF Init
  <2>4. Ota!TypeOK
    BY DEF Init, Ota!Init, Ota!TypeOK
  <2>5. unseen \in BOOLEAN
    BY DEF Init
  <2> QED
    BY <1>0, <2>2, <2>3, <2>4, <2>5 DEF TypeOK
<1>2. TimerInv
  BY DEF TimerInv, Init
<1>3. MovingInv
  BY <1>0 DEF MovingInv
<1>4. UpdateInv
  BY DEF UpdateInv, Init, Ota!Init, Ota!IsActive, Ota!OtaStatus
<1>5. DriverInv
  BY <1>0 DEF DriverInv, Init
<1> QED
  BY <1>1, <1>2, <1>3, <1>4, <1>5 DEF IInv

LEMMA NextPreserves == IInv /\ [Next]_vars => IInv'
<1> SUFFICES ASSUME IInv, [Next]_vars PROVE IInv'
  OBVIOUS
<1>1. CASE Task
  BY <1>1, HandleCommandPreserves, HandleConfigPreserves, WatchdogExpiresPreserves,
     YieldPreserves, EnterSelectPreserves, PauseForOtaPreserves, OtaChangedPreserves DEF Task
<1>2. CASE Tick
  BY <1>2, TickPreserves
<1>3. CASE Environment
  BY <1>3, QueuesPreserve, PublishStatusPreserves, RebootPreserves DEF Environment
<1>4. CASE UNCHANGED vars
  <2>1. UNCHANGED <<pc, timer, lag, driver, commands, configs, telemetry,
                    status, unseen, activeFor, sinceMessage>>
    BY <1>4 DEF vars, taskVars, queueVars, otaVars
  <2> QED
    BY <2>1 DEF IInv, TypeOK, TimerInv, MovingInv, UpdateInv, DriverInv, Ota!TypeOK
<1> QED
  BY <1>1, <1>2, <1>3, <1>4 DEF Next

\* The strengthened invariant holds throughout.
THEOREM Invariance == Spec => []IInv
<1>1. Init => IInv
  BY InitEstablishes
<1>2. IInv /\ [Next]_vars => IInv'
  BY NextPreserves
<1> QED
  BY <1>1, <1>2, PTL DEF Spec

\* Type correctness, for every value of the constants.
THEOREM TypeCorrect == Spec => []TypeOK
<1>1. IInv => TypeOK
  BY DEF IInv
<1> QED
  BY <1>1, Invariance, PTL

\* The dead-man's switch: a wheel is commanded to turn only within Watchdog +
\* LoopDelay ticks, and twice the executor's lag, of the last message.
THEOREM DeadmanSafe == Spec => []DeadmanHolds
<1>1. IInv => DeadmanHolds
  BY TimingAssumption DEF IInv, TypeOK, TimerInv, MovingInv, Bound, DeadmanHolds
<1> QED
  BY <1>1, Invariance, PTL

\* An update that has been in flight for longer than that finds the task paused.
THEOREM UpdateNoticed == Spec => []UpdatePauses
<1>1. IInv => UpdatePauses
  <2> SUFFICES ASSUME IInv, activeFor > Bound PROVE pc = "paused"
    BY DEF UpdatePauses
  <2>1. Ota!IsActive(status)
    BY BoundType DEF IInv, UpdateInv
  <2> QED
    BY <2>1, TimingAssumption DEF IInv, TypeOK, TimerInv, UpdateInv, Bound
<1> QED
  BY <1>1, Invariance, PTL

\* The pause de-energizes the motors whatever the broker configured.
THEOREM PauseSafe == Spec => []PauseIsSafe
<1>1. IInv => PauseIsSafe
  BY DEF IInv, DriverInv, PauseIsSafe
<1> QED
  BY <1>1, Invariance, PTL

-----------------------------------------------------------------------------
(* The dead-man switch *)

\* Every step of the task and of its environment is a step of the switch.
LEMMA SwitchStep == IInv /\ DeadmanHolds' /\ [Next]_vars => [Switch!Next]_(Switch!vars)
<1> SUFFICES ASSUME IInv, DeadmanHolds', [Next]_vars PROVE Switch!Next \/ UNCHANGED Switch!vars
  OBVIOUS
<1> USE DEF Switch!Next, Switch!vars
<1> DEFINE Same == UNCHANGED <<driver, sinceMessage>>
<1>0. Same => UNCHANGED Switch!vars
  BY DEF Stopped
<1>1. CASE HandleCommand \/ HandleConfig
  <2>1. sinceMessage' = 0
    BY <1>1 DEF HandleCommand, HandleConfig
  <2> QED
    BY <2>1 DEF Switch!Feed
<1>2. CASE WatchdogExpires
  <2>1. Stopped(driver') /\ sinceMessage' = sinceMessage
    BY <1>2, StopProperties DEF WatchdogExpires, Finish, IInv, TypeOK
  <2> QED
    BY <2>1 DEF Switch!Release, Stopped
<1>3. CASE PauseForOta
  <2>1. Stopped(driver') /\ sinceMessage' = sinceMessage
    BY <1>3, StopProperties DEF PauseForOta, IInv, TypeOK
  <2> QED
    BY <2>1 DEF Switch!Release, Stopped
<1>4. CASE Yield \/ EnterSelect \/ OtaChanged
  BY <1>0, <1>4 DEF Yield, EnterSelect, OtaChanged
<1>5. CASE Tick
  <2>1. driver' = driver /\ sinceMessage' = Saturate(sinceMessage)
    BY <1>5 DEF Tick
  <2>2. ~Stopped(driver) => sinceMessage' <= Bound
    BY <2>1 DEF DeadmanHolds, Stopped
  <2>3. sinceMessage \in Nat /\ Bound \in Nat
    BY BoundType DEF IInv, TypeOK
  <2>4. ~Stopped(driver) => sinceMessage < Bound
    BY <2>1, <2>2, <2>3 DEF Saturate
  <2> QED
    BY <2>1, <2>4 DEF Switch!Elapse, Saturate, Stopped
<1>6. CASE SendCommand \/ SendConfig \/ TakeTelemetry \/ PublishStatus
  BY <1>0, <1>6 DEF SendCommand, SendConfig, TakeTelemetry, PublishStatus, taskVars
<1>7. CASE Reboot
  <2>1. Stopped(driver') /\ sinceMessage' = 0
    BY <1>7, NewProperties, InputAssumption DEF Reboot
  <2> QED
    BY <2>1 DEF Switch!Restart, Stopped
<1>8. CASE UNCHANGED vars
  BY <1>0, <1>8 DEF vars, taskVars
<1> QED
  BY <1>1, <1>2, <1>3, <1>4, <1>5, <1>6, <1>7, <1>8 DEF Next, Task, Environment

\* The task implements the abstract switch.
THEOREM RefinesDeadman == Spec => ImplementsDeadman
<1>1. Init => Switch!Init
  BY NewProperties, InputAssumption DEF Init, Switch!Init
<1>2. IInv /\ DeadmanHolds' /\ [Next]_vars => [Switch!Next]_(Switch!vars)
  BY SwitchStep
<1> QED
  BY <1>1, <1>2, Invariance, DeadmanSafe, PTL DEF Spec, Switch!Spec, ImplementsDeadman

=============================================================================
