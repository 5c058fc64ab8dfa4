# A TLA+ model of the Dropbot firmware

This directory models the firmware under `src/` (ESP32-C6, Rust, Embassy tasks on ariel-os) in TLA+.
TLC checks small instances of the modules; TLAPS proves for every value of their constants all the safety
properties that hold in the runs, but for one of the hard-iron estimate (`OneWayIsClose`), and facts
about the operators of the motor driver, the fuel gauge, the display driver, the IMU filter and the IMU
drivers. Paths below are relative to the
repository; `tasks/x.rs` is `src/src/tasks/x.rs` in `PROJECT.json`, whose `map` names the lines of every definition.

- [The system](#the-system)
- [How the code becomes a model](#how-the-code-becomes-a-model)
- [The modules](#the-modules)
- [The runs](#the-runs)
- [Fairness](#fairness)
- [The theorems](#the-theorems)
- [Where the code and its documentation part](#where-the-code-and-its-documentation-part)
- [Not modelled](#not-modelled)
- [Plan](#plan)

## The system

Eleven tasks are spawned by `main.rs:118-237` on one cooperative executor. They share no state but
the primitives of `task_sync.rs`: channels (bounded FIFO; `try_send` drops the newest item when full,
`send().await` waits), watches (the latest value, and for each receiver whether it has seen it) and
signals (one slot, the latest value).

| Component | State it keeps | Operations | What makes it correct |
|---|---|---|---|
| Motor controller (`tasks/motor_controller.rs`) | where it waits, a timer, the driver | take a command or a configuration, watchdog, pause for an update, resume | motors off in time after the last message; off and asleep through an update; always resumes |
| Motor driver (`drivers/motor_driver`) | configuration, filtered speeds, duties, nSLEEP | `set_speed`, `stop`, `sleep`, `set_config`, `get_status` | a sleeping bridge or a zero speed has no pin driven |
| OTA manager (`tasks/ota_manager.rs`) | update in flight, the two slots, the otadata | confirm, check, download, activate, mark, reboot | a slot always boots; the update is announced exactly while in flight and ends |
| Display controller (`tasks/display_controller.rs`) | copies of five inputs, the page, what is drawn | record or draw each event | shows what holds now; an update owns the panel |
| Power button (`tasks/power_button.rs`) | where it waits, the latch | debounce, short press, hold, shutdown | powers off when asked, once, after the goodbye |
| MQTT manager (`tasks/mqtt_manager.rs`) and publishers (`imu_publisher.rs`, `telemetry_publisher.rs`) | session, `BROKER_STATUS`, `MQTT_PUBLISH` | connect, subscribe, drain, receive, publish, back off | the watch tells the truth; nothing old is sent; it comes back |
| MQTT dispatch (`tasks/mqtt_client.rs`, `topics.rs`) | the message in hand | resolve, parse, hand on | accepted commands are executed in order, once, and only one's own |
| Telemetry aggregator (`tasks/telemetry_aggregator.rs`) | the latest sample of each part | one bundle a second | a bundle is not older than a bound |
| Battery monitor (`tasks/battery_monitor.rs`), charger (`drivers/battery_charger.rs`), gauge (`data/battery.rs`) | the status being read | init, decode, poll, gauge, ask for a shutdown | asks when due and only then |
| IMU monitor (`tasks/imu_monitor.rs`) | the session and its filter | init, sample, filter | samples are measured; a filter belongs to one session |
| IMU drivers (`drivers/imu`) | which address answers | identify, reset, upload the image, write the settings, read | every chunk lands at its place; a reading is what its bytes say |
| IMU filter (`data/imu.rs`) | low-passes, bias, attitude, hard-iron box | `update` | the attitude goes to the truth; the estimate is founded |
| Network monitor (`tasks/network_monitor.rs`) | which of its two awaits it is in | publish the address or its loss, open the gate | the display's address is the stack's |
| Display driver (`drivers/display_driver`) | the frame buffer | two pages, a screen with a message or a bar | nothing overlaps, nothing that matters is cut |
| Shared bus (`drivers/shared_i2c.rs`) | a mutex | one transaction | transactions do not interleave |

How they interact:

```
broker -> mqtt_manager -MQTT_RECEIVE(2)-> mqtt_client -MOTOR_COMMAND(2), MOTOR_CONFIGURATION(2)-> motors
                                               |-------OTA_CHECK_REQUEST (signal), OTA_CONFIGURATION (watch)-> ota
ota -OTA_STATUS (watch)-> motors, display          network -NETWORK_STATUS (signal)-> display
mqtt_manager -BROKER_STATUS (watch)-> display, publishers
button -POWER_EVENTS(2)-> display                  network -NETWORK_READY (watch)-> mqtt_manager, ota
battery -SHUTDOWN_REQUESTS(1)-> button             battery -CHARGER_STATUS (watch)-> display
motors, battery, imu -(2 each)-> aggregator -(1)-> telemetry publisher -MQTT_PUBLISH(5)-> mqtt_manager
imu -IMU_STREAM(2)-> imu publisher -MQTT_PUBLISH(5)-> mqtt_manager
```

The hard behaviours: timers that are armed anew in every iteration, an update that begins between two
looks at a watch, queues that are full when the message that matters arrives, a task blocked in
`send().await` behind another task that is paused or parked, power cuts during a flash update,
sensors that reset themselves between two transactions. `PROJECT.json` lists them as `hazards`, each
at its line, with the properties that cover it or the reason why none does.

## How the code becomes a model

**Steps.** A task runs from one await to the next without any other task in between, so an action is
one such stretch, with every call it makes. An await that is ready at once does not yield; where that
matters (`pc = "poll"` in `MotorControl`) the model keeps the two stretches together. The arms of a
`select` are tried in the order the code polls them.

**Primitives.** A channel is a sequence with its depth in the guard (`send().await`) or in an `IF`
(`try_send`). A watch or a signal is its latest value and a flag `unseen`.

**Time.** `MotorControl` and `Telemetry` count ticks, because their properties are about time.
Elsewhere a timer may elapse at any moment after it was armed, which includes every timing of the
code and more. Where a bound on time is needed it is a guard: `Tick` does not pass over a task that
is due, but the executor may be late by `MaxLag`.

**Data.** A message, a payload, an image or a reading is what the properties tell apart. Speeds are
fixed-point integers (`Unit` is 1.0), with products that do not fit rounded toward zero as an `f32`
below its smallest denormal is. The gauge is exact. The hard-iron estimate is computed in doubled
integers, on readings with integer coordinates, so nothing is rounded. `ImuFilter` works in
hundredths of a degree and milliseconds, in two planes (a tilt, and the heading of a level board), where
a cross product is a sine and a rotation a sum; it says where the filter goes, not how an `f32` rounds.
A text on the panel is its number of characters and the pixel it begins at.

**External code**, modelled from how `src/` uses it: the esp-hal pins and flash (a write happens or
fails), the bootloader (with and without rollback), embassy's executor and primitives, the network
stack (a lease is obtained, replaced or lost at any moment), minimq and the TCP socket (a connection
breaks at any moment), the charger's registers and converter and the two IMU parts (silent or reset
at any moment).

**History variables** (`sinceMessage`, `activeFor`, `faulty`, `lifted`, `accepted`, `executed`,
`announced`, `steady`, `low`, `everLow`, `everIdle`, `everCharging`, `visited`, `turns`, `renumbered`,
`lost`, `stale`, the field `queued` of a sample that waits in `MQTT_PUBLISH`, and the fields of
`ImuMonitor`'s `sample` that say what it was made of) record what the properties speak about; no guard
of a modelled handler reads one.

**Mutations.** Operators named `Bug...` are plausible mistakes in the definition that follows them.
Nothing uses them; for each property `PROJECT.json` names the one that, put in place of the
definition, breaks it.

## The modules

**MotorDriver, MotorControl, Deadman, MotorControlProofs.** `MotorDriver` is
`DRV8833Driver` as operators on a record (`SetSpeed`, `Stop`, `Sleep`, `SetConfig`, `Stopped`).
`MotorControl` is `manage_motor_controller`: `EnterSelect` and `PauseForOta` are the top of the loop,
`HandleCommand`, `HandleConfig`, `WatchdogExpires` the arms of `select3` (each ending with
`get_status`, `try_send` and the 10 ms delay, `Finish`), `OtaChanged` the pause. Its environment sends
messages, takes telemetry, publishes `OtaProgress` and reboots. `Deadman` says what is promised: motors
start only when a message is taken and stop within `Bound` of the last one.

**OtaProgress, OtaManager, OtaManagerProofs.** `OtaProgress` is the life of `OTA_STATUS` as other
tasks may rely on it; it is the environment of `MotorControl` and of `Display`, and `OtaManager`
implements it. `OtaManager` follows `manage_ota` line by line from `ConfirmSlot` over `PeriodicCheck`
and `RequestedCheck`, `NewVersion`, `RequestDownload`, `ReadChunk`, `EndOfBody`, `Activate` and
`MarkNew` to `SoftwareReset`, with each `?` an action that ends the check (`EndCheck` publishes Idle).
A slot remembers the image it last received and how many bytes of it have arrived; `Bootloader`
chooses what runs after a reset or a `PowerCut`, which may happen in any state.

**Display, PowerButton, PowerDown, PowerDownProofs.** `Display` has one action per arm of `next_event`, with the
redraw as part of it; a draw is a transfer that lasts (`pc = "drawing"`) while inputs go on changing,
and ends well or not. A charger reading is a whole `ChargerStatus`, and a view names all that the
driver is given to draw. `Display` has no specification of its own: `Panel` and `PowerDown` are its
two compositions. `PowerButton` has the button's line with its latched edges. `PowerDown` composes
the two over the queue they share; a property about powering off needs both.

**BatteryCharger, DisplayDriver, Panel, MCPanel, PanelProofs.** From a register to a pixel.
`BatteryCharger` decodes the registers into a `ChargerStatus` (`StatusOf`, `FaultOf`, `ThermistorOf`).
`DisplayDriver` computes where each text of a page or a screen goes (`NetworkPage`, `BatteryPage`,
`Screen`, with `ClipToRow`, `WrapMessage` and the progress bar) and `Legible` says what a reader needs
of it. `Panel` adds the stack and `network_monitor` (`ConfigUp`, `ConfigDown`) to `Display`, and the
layout of every view. `MCPanel` gives the widest readings and compares `WrapMessage` with what its
comment says (`WrapIsGreedy`, an `ASSUME` that TLC evaluates).

**MqttClient, MqttSession, MqttProofs.** Two halves of the MQTT tasks. `MqttClient` follows a message in:
`Deliver` (resolve, `try_send` into `MQTT_RECEIVE`), `Handle` and `Unblock` (`manage_mqtt_client`,
waiting with a command in hand when a queue is full), the motor controller that takes messages and
pauses. `MqttSession` follows one out, over sessions that fail anywhere; a sample in `MQTT_PUBLISH`
remembers whether it was queued while the present session was open (`Earlier` takes that from all of
them when a session ends). The names of `MqttSession` begin with `Session` where both halves would have
the same, so that `MqttProofs` can extend the two.

**Telemetry, MCTelemetry, TelemetryProofs.** The aggregator and its producers, by the age of what the
queues and the bundle hold, in ticks of half a second. The bounds the properties name are formulas of
the depth, the period and the gaps (`Bound`, `Settling`).

**BatteryGauge, BatteryMonitor, BatteryMonitorProofs.** The gauge's table and interpolation; the
monitor reads a status one register after the other while the pack changes.

**ImuDrivers, ImuMonitor, ImuFilter, MCImuMonitor, ImuMonitorProofs.** `ImuDrivers` is the order of the
transactions in which the two parts are initialised (`Script`), the address every chunk of the image is
written to, and the bytes of a reading. `ImuMonitor` runs the script, one action per kind of step
(`Identify`, `SoftReset`, `WriteRegister`, `UploadChunk`, `FinishUpload`, ...), and then the passes of a
session; a sensor holds what it was told since its last reset. `ImuFilter` has the low-passes, the
zero-rate offset, and the attitude that is seeded, snapped, set right and pulled.
`MCImuMonitor` gives three boards and compares the operators with reference definitions over part of
their range (`WordsComeBack`, `AxesComeBack`, `RestFindsTheAttitude`, `BiasIsFound`).

**HardIron, MCHardIron.** The hard-iron box and its twelve sectors (`Observe`, `IsUsable`), on a board that
turns to and fro within a stretch and one way elsewhere (`TurnsBack`). The names of its specification
begin with `Iron`, so that `ImuMonitorProofs` can extend it beside `ImuMonitor`. `MCHardIron` gives a
circle with many points of whole coordinates.

Each module's `TypeOK` gives the types of its variables. It is proved, as a theorem or as part of the
invariant, for every module with a specification.

## The runs

Deadlock is checked in all of them.

| Run | Shows | Bounds |
|---|---|---|
| `motor_control` | `DeadmanHolds`: a wheel turns for at most a select3, a loop delay and the executor's delays after the last message. `UpdatePauses`: an update is noticed within the same time. `PauseIsSafe`, `ImplementsDeadman`, `UpdateReleases`, `SilenceStops` | Watchdog 2, delay 1, lag 1 ticks; depths 1; one way to move, one to brake through the filter, Stop, two configurations |
| `motor_zero` | `ZeroStops` fails: zeros without end do not stop a filtered wheel | as above, without configurations |
| `ota` | `RunningIntact` and `SelectedBoots` over power cuts and failing otadata writes; `ActiveIffInFlight` on every way out of a check; `ConfirmedStays`; `ImplementsProgress`; `UpdateEnds`; `RequestIsServed` | partition of 3 units, sizes 2 to 4 (one does not fit), chunks of 1 or 2 (bodies end early, exactly and late), two versions |
| `display` (`Panel.cfg`) | `ScreenIsCurrent`, `UpdateOwnsPanel`; `AddressIsTrue`: the panel's address is the stack's; `ScreenIsLegible`: no text touches another, the frame or the bar, no message loses a word | two addresses (the longest that fits among them), a reading with every figure and label at its widest, SSID of 32 characters, version label of 6, an initialisation that may fail, queue of 1 |
| `panel_address` | `AddressIsWhole` fails for an address of fifteen characters | as above, that address only |
| `power_down` | `AnnouncedOnce`; `HoldPowersOff`, `LowBatteryPowersOff`, unless the panel is dead and short presses have filled the queue; `GoodbyeIsShown`, on a panel that answered at boot | the queues' real depths; network and charger reduced to one value each, which they may still publish or not; a panel that may not answer at boot |
| `mqtt_client` | `NothingAcceptedIsLost`, `OnlyMine`, `ConfigurationApplies`, `QueueDrains` | four messages of every topic and kind, `MQTT_RECEIVE` 2, motor queues 1: enough to fill all three with one message in hand |
| `mqtt_session` | `ConnectedIffServing`, `QueuedInSession`, `Reconnects`, `StatusFollows` | the queues' real depths |
| `telemetry` | `StaleBound`: a sensor's part of a bundle is at most 3 s old; `MotorTruth`: within 5.5 s a bundle is right about whether the motors move | the code's periods, in half-seconds; depth 2 |
| `battery_monitor` | `ShutdownIsDue`, `LowIsNoticed` over a pack that changes between the reads of one status; `KeepsPolling` | two voltages on either side of the threshold |
| `hard_iron` | `StillHasNoVote`: readings near each other never vote; `HalfTurnIsNotUsable`: part of half a turn one way is not announced; `OneWayIsClose`: after a turn one way the estimate is within 2 uT when it is announced | 180 readings of a circle of 25 uT, two degrees apart on average; from any of them, either way round; to and fro over a quarter of the circle |
| `imu_monitor` | `SamplesAreMeasured`, `FilterIsFresh`, `KeepsSampling` | an image of three chunks; boards with both parts, without the magnetometer, without the inertial one; otherwise the state is finite |

Why the bounds are enough. The safety properties of the passing runs, `OneWayIsClose` of `hard_iron`
excepted, are theorems for every value of the constants; the runs add liveness and, for each property, a
mutation of the code that breaks it. For the liveness: in `battery_monitor` only the side of the threshold counts (`GaugeThreshold`
proves that 15 % is 3500 mV of either cell, whatever the values); the four messages of `mqtt_client`
exceed the places of any one queue, so each is met full with something behind it.
What a reading of `display` does to a row grows with its figures, so the widest one is the hardest to
lay out; the shortest texts are those of an absent reading, which the run has as well. In `telemetry` a
sample older than `MaxAge` behaves as one of that age, and the bounds shown lie below it. A session
reads the magnetometer a hundred times a second, so a robot's turn is sampled every degree or so, and in
`hard_iron` every two: a vote is cast from a centre that lags behind, and a coarse turn would hide how far.
The board turns back where it likes within a quarter of the circle (`TurnsBack`) and then stays there; the two
properties that are not about a finished turn one way are theorems for any circle and any such stretch.

`OneWayIsClose` names what the code achieves, not what its comment says: 1.83 uT is the largest error over
the 180 starts and both ways, 2 uT the next whole number, and a sector earlier it is exceeded. `Bound` and
`Settling` of `telemetry` are of that kind too: with the code's periods they give 6 and 11 half-seconds, and
TLC finds the properties violated one below.

Operators are compared with a reference definition by `ASSUME`s that TLC evaluates: in `display`,
`WrapIsGreedy` over messages of up to four words; in `imu_monitor`, `WordsComeBack` and `AxesComeBack`
over readings at the boundaries of their bytes, `RestFindsTheAttitude` and `BiasIsFound` over
attitudes, references and offsets that include every edge of the definitions.

## Fairness

- `WF(Task)`, `WF(Monitor)`, `WF(Manager)`, `WF(Step)`, `WF(ButtonTask)`, `WF(DisplayTask)`,
  `WF(Handle \/ Unblock)`: the executor polls a task whose waker fired. Embassy's run queue serves
  every woken task. In `ota` this includes that the server answers or the connection fails: the code
  sets no timeout, so `UpdateEnds` is stated under that assumption. In `mqtt_session` it includes
  that the transport reports a broken connection.
- `WF(Tick)` (`motor_control`, `motor_zero`): time passes.
- `SF(RequestedCheck)` (`ota`): the 30-minute timer is made anew for each select, so it does not
  expire first for ever while a request is pending.
- `SF(TakeCommand)`, `SF(TakeConfig)`, `WF(Resume)` (`mqtt_client`): updates end, and between two of
  them the motor task runs its select, which prefers commands; two queues cannot be kept full for
  ever by a broker that delivers finitely many messages.
- `SF(TcpConnects)`, `SF(SessionOpens)`, `SF(Subscribed)` (`mqtt_session`): a broker tried again and
  again is reached at some time.
- `[]<>KeepsUp` and `SF` on the display's power arm (`power_down`): its select prefers network
  changes and percentages to power events. A draw takes tens of milliseconds and a percentage hundreds,
  so there are moments with neither.
- `SF(FinishUpload)` in its successful outcome (`imu_monitor`): a sensor that is not broken takes its
  image in the end. `KeepsSampling` asks nothing of a board that lacks one of the parts.
- `WF(Convert)` (`battery_monitor`): the converter converts.

A property of the form `<>[]A => ...` asks only about the runs in which the outside world settles.

## The theorems

TLAPS (SMT, Zenon, LS4) proves these for every value of the constants that satisfies the `ASSUME`s of
the module, which TLC evaluates in the runs.

**MotorControlProofs.** `SetSpeedProperties`: whatever speed the driver is asked for, it is awake
afterwards, and no pin is driven when no wheel is to turn. `TypeCorrect`, `DeadmanSafe`, `UpdateNoticed`, `PauseSafe`, `RefinesDeadman`. None of the
properties is inductive: `DeadmanHolds` says nothing of the timers. The invariant `IInv` adds
`TimerInv` (a timer never exceeds what it was armed with), `MovingInv` (how old the last message can
be at each await while a wheel turns), `UpdateInv` (how long an update can be in flight at each await
of a task that is not paused: it began after the last look, so `unseen` holds) and `DriverInv`. One
lemma (`FinishPreserves`) does the three arms of `select3`, one step each the other actions. The
refinement maps `moving` to `~Stopped(driver)` and `quiet` to `sinceMessage`. Assumptions:
`TimingAssumption`, `CapAssumption`, `InputAssumption`, `UnitAssumption`, `NoFilterAssumption`.

**OtaManagerProofs.** `TypeCorrect`, `RunningBoots`, `UpdateAnnounced`, `RefinesProgress`,
`Confirmed`, and under the additional assumption that no manifest announces an empty image
(`0 \notin Sizes`) `SelectedIsComplete` and `AppliedIsComplete`. The invariant adds `StatusInv` (the
status at each `pc`), `DownloadInv` (the other slot holds what has been downloaded; at activation all
of it), `SelectInv` (the other slot is selected only between activation and reboot, unless an otadata
write failed) and `ConfirmInv` (past boot nothing is pending verification, unless a write failed).
`RunningIntact` needs only `TypeOK`: the flash is written in two actions, both to the other slot, and
the bootloader passes over a slot that is not intact. The empty image is a real exception: it passes
the size comparison of `ota_manager.rs:271` and is activated without a byte written.

**BatteryMonitorProofs.** `GaugeIsPercentage`, `GaugeThreshold`, `GaugeDrains`: the table is
interpolated without wrapping, its threshold is 3500 mV of either cell, and it never rises for a pack
whose cells have lost voltage. `RequestsAreDue`, `LowCellsAreNoticed`: what the monitor decides is true
of the pack over the whole poll, although it saw one register at a time. `MonitorInv` says what each
register read so far tells of the history (`ReadInv`: a low value that is not zero is of a cell that
was low at some time, and a cell that was low all along reads low) and that the history includes
the present (`SeenInv`).

**PanelProofs.** `TypeCorrect`, `UpdateScreenStays`, `ScreenShowsNow`, `AddressShown`,
`ScreensAreLegible`, for any set of addresses and readings and any depth of `POWER_EVENTS`.
`ScreenIsCurrent` speaks of a task at rest; a step that breaks it is taken long before, by a handler
that forgets to record what it does not draw.
The invariant therefore speaks of every state: `CopiesInv` (a copy equals its input unless that is
`unseen`), `ViewInv` (what is drawn follows from the copies: the update screen while `ota_active`, of the
stage last taken, and otherwise the page), `StartInv` (nothing is taken before the first page) and
`NetworkInv` (what `network_monitor` last sent, at each of its awaits). One lemma does what is common
to the inputs (`PublishSource`), another what every page does (`DrawPageTypes`). Legibility is proved
from the bottom: how many characters a figure or a label can have, texts that share no pixel in one row
(`Row`), rows that share none on a page (`PageOfRows`) or a screen (`ScreenOfRows`), and what
`WrapMessage` does. Its two hypotheses are as weak as the layout
allows: `VersionChars <= 6` and readings of a die between -99.9 and 999.9 degrees, more than a die
survives; a seventh character, or a fourth figure, would reach the label beside it.
Assumption: `DisplayAssumption`.

What `wrap_message` does is proved of messages of any words, which may be longer than a line:
`LinesKeepMessage` (a line has one to twenty characters, and nothing is lost between two lines but the
space), `LinesAreGreedy` (what `WrapIsGreedy` compares on samples), `MessagesAreWhole` (a message of
words of up to `w` characters and of up to `20 + 2 (20 - w)` in all is shown to the end: 36 for the
words the firmware uses, of which its longest message has 23) and `MessagesAreLegible` (whatever does
not fit is missing, but nothing overlaps). A line of a message is a prefix of its words, and its
length a recursion over them, so these rest on an induction over the number of words
(`CharsToIs`, `SuffixChars`).

**ImuMonitorProofs.** `TypeCorrect`, `SamplesMeasured`, `FilterFresh`, for an image
of 1 to 64 chunks and any boards. The properties are about samples, and what makes them true happens
tens of transactions earlier: `HeldInv` says that at every step of the script a sensor that has not
reset itself holds what the steps before have written, `TakenInv` that past the verdict its image was
taken, `SessionInv` that in a session it measures, and `HalfInv` carries this through the await between
the two halves of a sample. Three lemmas about the script (`ScriptItems`, `StepOf`,
`SettingsAreWritten`) say where each write is, whatever the number of chunks. `WordComesBack`,
`AxesComeBack`'s general form `AxisComesBack` and `ChunksLand` are about the bytes: every reading
comes back, negative ones included, and no two chunks are written to one address. Assumptions:
`ChunksAssumption` (the split address has 12 bits), `BoardsAssumption`.

There too, about the filter: `LowPassStaysBetween`, `StillStaysStill`, `TiltFindsGravity`,
`HeadingFindsNorth`, what one update does, for every state, sample and time step. The correction by
gravity is a constant `Pull` of which `PullAssumption` says only what a sine over three seconds has:
it is zero at zero, points back, and is not larger than the error. An attitude more than a right angle
out is set right at once, so the other zero of the sine, upside down, is no resting place.

What that comes to over any number of updates is proved of every sequence of samples and time steps:
`LowPassKeepsRange`, `OffsetLearned`, and the two that say why the gyroscope is not integrated alone
(`imu.rs:302-312`). `HeadingDriftIsBounded`: with a drift of at most `b` per sample the heading of a board
that does not turn is never out by more than `HeadingTau * b`, or by what it was out before; the bound
must be less than half a turn, beyond which the shorter way to north is the other one.
`TiltDriftIsBounded`: the same for the tilt, with the error `x` from which `Pull` outweighs the drift.

About the hard-iron box, on any circle of readings, in any order and with repetitions. `IronInv` says
that the box is the hull of the readings taken (`HullInv`): from this `IronTypeCorrect`,
`EstimateFromHull` (the centre is out by at most the field, and exact in an axis once both its ends
were met) and the action property of `UsableIsKept`. Two theorems say what is not announced as an
estimate. `StillBoardHasNoVote` (`StillHasNoVote`): readings of which no two are further apart in an axis
than `d` with `d^2 < 2 MinRadius^2`, which is noise. `HalfTurnNotUsable` (`HalfTurnIsNotUsable`): with more
than six sectors required, any part of half a turn one way, however finely sampled; votes then stay on one
side (`SweepInv`). `SectorTurnsAlong` is about `Sector`, for all integers.

**MqttProofs.** The way out, for any depths of the queues: `StatusIsTrue`, `NothingOldIsSent`. The
invariant `SessionInv` adds to `ConnectedIffServing` that a manager that is not publishing has nothing
in hand and that in a session all that waits is of this session (`SentInv`), and that the watch is
written before anything else happens (`BootInv`). The drain and the word Connected come in one stretch
without an await; this is what the second theorem rests on.

The way in, for any messages, any number of deliveries and any depths: `CommandsAreKept`,
`OthersAreIgnored`, `LatestServerApplies`. A command passes through four places, and none of the
properties says enough about one of them to survive a step. `ClientInv` orders them by the numbers of
the deliveries (`LineInv`: what was executed is older than what waits for the motors, that than what the
dispatcher has in hand, that than `MQTT_RECEIVE`, and all of it than the next delivery), says what can be
in each (`KindInv`, `OwnInv`) and that the latest valid server is in force or waits with no other one
behind it (`ServerInv`). The steps move one message from the front of one place to the end of the next;
lemmas about queues of numbered messages say so once. Assumption: `MqttAssumption`.

**PowerDownProofs.** `ShutdownIsAnnouncedOnce`, for any depths of the two queues. From the decision to
power off until the display takes it, the reason is the last entry of `POWER_EVENTS` and the only one
there; from then on it is what the display shows and no event is read again. The invariant adds that
from the decision on there is a reason. `TypeCorrect`: the types of both tasks. Each needs the other's
for the queue they share, the button its reason, and the display that a watch is not seen before it is
written (`OtaIsSet`).

**TelemetryProofs.** `BundlesAreFresh`, `BundlesAreRightAboutMotors`, for every depth, period and gap
at which the assumptions `TelemetryAssumption` and `BoundAssumption` (the ages of the properties are
told apart) hold. The age of a bundle is decided when a sample finds room in a queue, up to `Depth`
periods earlier. `AgeInv` says how long a sample in each place of a queue has waited at most
(`QueueInv`), that a part whose reports are a period apart always finds room in a queue of two
(`RoomInv`; it has the shorter `Bound`), how old the latest sample can be by the time its part last
reported, a period more if that report may have found no room (`NewestInv`), how old the bundle is
(`BundleInv`), and that a sample that is wrong about the motors is no older than a recent change of
theirs explains (`MotorInv`).

Induction over data. The induction theorems of the library take an operator as a parameter, which none of
the provers can instantiate. `NatSetInduction` says the same of a set of numbers, `Nat \subseteq S`, and
is proved from the least element of what is left out (`WFMin`); a proof by induction defines `S`, hides
it and cites the lemma. A recursive function is first shown to exist on `0..k` for every `k`
(`CharsToExists`), since the definition only chooses one if there is one. No module declares a
`RECURSIVE` operator.

Only model-checked: liveness under fairness and `ENABLED`, which are out of the prover's reach, and of
the safety properties `OneWayIsClose`. That is not true of every circle: how far out the centre is when
eight sectors have voted depends on how finely the turn is sampled and on the ratio of `Field` to
`MinRadius`.

## Where the code and its documentation part

Two are runs that TLC finds violated:

- `panel_address`: `data/menu.rs:9` promises the IP address on the network page; the value column has
  room for fourteen characters (`display_driver/mod.rs:115`), and an address of fifteen, such as
  192.168.100.100, loses its last digit and becomes another address.
- `motor_zero`: `types.rs:8-10` says a command of exactly 0.0 fully stops the motor; with the filter
  the speed only approaches zero (`motor_driver/mod.rs:152`) and the wheels keep `min_duty_cycle`
  for as long as the zeros keep coming.

Others were met on the way and are not run:

- `power_button.rs:31-32` promises that a hold powers the board off; with a display whose initialisation
  failed (`display_controller.rs:61-70` parks for ever) two short presses fill `POWER_EVENTS`, and the
  hold waits in `send().await` (line 82) before it reaches the latch, as a low battery does (line 106).
  This is `Blocked`, which `HoldPowersOff` and `LowBatteryPowersOff` except; without the exception TLC
  finds both violated. The initialisation cannot be repeated: it has consumed the bus handle.
- `README.md:46` promises that a retained `/config/ota` reaches robots after connecting; a full
  `MQTT_RECEIVE` drops it (`mqtt_manager.rs:117`). `ConfigurationApplies` is therefore about what got
  into the queue.
- `network_monitor.rs:25` waits for the loss of the address only. One that is replaced, or lost and
  found again before the task runs, is not announced, and the page keeps the old one;
  `AddressIsTrue` shows that this is the only way to a wrong address.
- `display_driver/mod.rs:72` wraps greedily into lines that fit; words that come to exactly twenty
  characters with more behind them break one word early (line 86 looks at the first twenty characters
  for a space). `WrapIsGreedy` states exactly this. No text of the firmware is affected.
- A version label of seven characters (v0.10.0) would overlap `-10C PACK COLD` in the last row of the
  battery page; six fit (`VersionChars` of the run).
- `README.md:44` says the watchdog stops the motors when commands cease; configurations restart it
  too (`motor_controller.rs:75`). `DeadmanHolds` is therefore about messages. Drive commands that
  queued up during an update are executed when the pause ends, however old.
- `README.md:44` documents a drive payload that `DriveCommand` does not parse, and `README.md:45`
  says the payload of `/ota/check` is ignored, but one that is not UTF-8 is dropped
  (`mqtt_client.rs:31`).
- `imu_monitor.rs:37-39` says a sample in the bundle is never more than half a period stale; the
  queue hands out its oldest, and the bound shown is three seconds.
- `battery_monitor.rs:39-41` and `imu_monitor.rs:71-73` say a part that reset itself is recovered;
  one that answers again before the next transaction is not noticed. A filter then holds readings of
  before and after (`FilterIsFresh` excepts exactly this), and the gauge may read zeros. The last
  reading stays on the battery page after the charger has fallen silent.
- A gyroscope that is off by `STILL_RATE_DPS` or more (`data/imu.rs:82` and `655`) is never taken to
  be still, and its offset never learned (`BiasIsFound`). A board without a working magnetometer
  publishes no inertial sample either.
- `data/imu.rs:626-634` says that counting sectors tells an estimate from a guess where a span threshold
  would pass after a quarter turn; going to and fro over 88 degrees collects eight sectors with the
  centre 18 uT off in a field of 25, because votes are cast from a centre that still moves (line 618).
  The stretch of `hard_iron` includes such courses; `HalfTurnIsNotUsable` is therefore about turns one way.
- `data/imu.rs:124-125` gives the error past seven sectors as 0.03 uT; on a turn one way, without any noise,
  it is up to 1.83 uT, depending on where the turn began. `OneWayIsClose` states 2 uT.
- `data/imu.rs:198-200` says a heading is given once the hard-iron estimate holds up, and is 0 at magnetic
  north; while the attitude has not been seeded, because the accelerometer is off g by more than its
  tolerance, and on the update that seeds it (lines 322-332), the heading given (line 281) is the zero the
  attitude starts with.

## Not modelled

- Numerics in `f32`: how a quaternion couples tilt and heading on a tilted board that turns, how a
  sum of products rounds, the scaling of raw readings to physical units.
- The bytes of texts: formatting of identities and figures beyond the number of characters, JSON,
  which texts are HTTP authorities; the SSD1306 commands (a draw succeeds or fails as a whole).
- The I2C mutex (`drivers/shared_i2c.rs`). It is embassy's and is held for one transaction; the
  modules take one transaction, or one draw, at a time because of it. That it serves its waiters is part
  of the fairness.
- `main.rs`, which spawns the tasks and declares the queues: their depths are the constants of the
  modules.
- The traits of the drivers, and `ota_driver`, which is not compiled in.

## Plan

Done: the motor task with its abstract switch; the updater; the display with the network monitor, the
charger's registers and the layout; the button with the display; the two halves of MQTT; telemetry;
battery with its gauge; the IMU from its registers to the heading and the hard-iron estimate. All with
proofs.

What is left is to extend the model: compose `OtaManager` with `MotorControl` over the watch in one
module (the refinement of `OtaProgress` joins them now); a bus that three tasks lock, with a flush of
the panel that holds it while the IMU waits.
