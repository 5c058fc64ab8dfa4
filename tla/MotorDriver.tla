---------------------------- MODULE MotorDriver ----------------------------
(***************************************************************************)
(* DRV8833Driver (src/src/drivers/motor_driver/mod.rs) as operators on a   *)
(* record.  An f32 is an integer in fixed point: Unit stands for 1.0.  A   *)
(* product that does not fit the resolution is rounded toward zero, as an  *)
(* f32 below its smallest denormal is.                                     *)
(*                                                                         *)
(* The pins of esp-hal cannot fail (their Error is Infallible), so the Err *)
(* paths of the driver are not modelled.                                   *)
(***************************************************************************)
EXTENDS Integers

CONSTANTS
    Unit,        \* a speed, a filter coefficient or a duty cycle of 1.0
    NoFilter     \* ema_filter_alpha = None

ASSUME UnitAssumption == Unit \in Nat \ {0}
ASSUME NoFilterAssumption == NoFilter \notin Int

Side == {"Left", "Right"}

\* Config is MotorConfig; min_duty_cycle and alpha are whatever the broker sent.
Config == [ema_filter_alpha : Int \cup {NoFilter}, min_duty_cycle : Int]
Speed  == [Side -> Int]

\* A duty is the percent on the pin that turns the side forward, or, negated,
\* on the pin that turns it backward; the other pin of the side is off.
Driver == [config : Config, speed : Speed, duty : [Side -> -255..255],
           awake : BOOLEAN]

Still == [side \in Side |-> 0]

New(config) == [config |-> config, speed |-> Still, duty |-> Still, awake |-> TRUE]

-----------------------------------------------------------------------------
Clamp(n, low, high) == IF n < low THEN low ELSE IF n > high THEN high ELSE n

\* Division that truncates toward zero, for a positive divisor.
Quot(n, d) == IF n >= 0 THEN n \div d ELSE -((-n) \div d)

\* `as u8` saturates.
DutyCyclePercent(magnitude, min) ==
    LET m == Clamp(magnitude, 0, Unit)
    IN  IF m <= 0 THEN 0
        ELSE Clamp(Quot((min * Unit + m * (Unit - min)) * 100, Unit * Unit), 0, 255)

MotorOutput(speed, min) ==
    IF speed >= 0 THEN DutyCyclePercent(speed, min)
                  ELSE -DutyCyclePercent(-speed, min)

\* set_speed_side on both sides; the configuration in force fixes the duty.
Output(driver, speed) ==
    [driver EXCEPT !.awake = TRUE,
                   !.speed = speed,
                   !.duty = [side \in Side |->
                               MotorOutput(speed[side], driver.config.min_duty_cycle)]]

Ema(alpha, old, cmd) ==
    IF alpha = NoFilter THEN cmd ELSE old + Quot(alpha * (cmd - old), Unit)

SetSpeed(driver, cmd) ==
    Output(driver, [side \in Side |->
        Ema(driver.config.ema_filter_alpha, driver.speed[side], cmd[side])])

\* Bypasses the filter, and wakes the bridge even when it slept.
Stop(driver) == Output(driver, Still)

Sleep(driver) == [driver EXCEPT !.awake = FALSE]

\* The outputs keep the duty of the configuration they were computed with.
SetConfig(driver, config) == [driver EXCEPT !.config = config]

Stopped(driver) == driver.speed = Still
=============================================================================
