---------------------------- MODULE BatteryGauge ----------------------------
(***************************************************************************)
(* The fuel gauge (src/src/data/battery.rs): a percentage interpolated off *)
(* a table from the weaker cell.                                           *)
(***************************************************************************)
EXTENDS Integers, Sequences

\* LOW_BATTERY_THRESHOLD, in percent.
LowBattery == 15

\* Ascending: a voltage and the charge of a resting cell at that voltage.
OcvCurve == << <<3000, 0>>, <<3300, 3>>, <<3400, 8>>, <<3500, 15>>, <<3600, 25>>,
               <<3700, 37>>, <<3800, 50>>, <<3900, 62>>, <<4000, 75>>, <<4100, 87>>,
               <<4200, 100>> >>

Window == 1..Len(OcvCurve) - 1

InWindow(i, mv) == OcvCurve[i][1] < mv /\ mv <= OcvCurve[i + 1][1]

\* u16, u32 and u8 hold every intermediate value: see SocBounds.
Interpolate(low, high, mv) ==
    low[2] + ((mv - low[1]) * (high[2] - low[2])) \div (high[1] - low[1])

Soc(mv) ==
    IF mv <= OcvCurve[1][1] THEN 0
    ELSE IF \E i \in Window : InWindow(i, mv)
    THEN LET i == CHOOSE i \in Window : InWindow(i, mv)
         IN  Interpolate(OcvCurve[i], OcvCurve[i + 1], mv)
    ELSE 100

Weaker(top, bot) == IF top <= bot THEN top ELSE bot

\* Bug: the average of the cells hides the weaker one.
BugCell(vbat, top, bot) == vbat \div 2

\* Zero stands for a reading the converter has not made.
CellOf(vbat, top, bot) ==
    IF top = 0 /\ bot = 0 THEN vbat \div 2
    ELSE IF top = 0 THEN bot
    ELSE IF bot = 0 THEN top
    ELSE Weaker(top, bot)

StateOfCharge(vbat, top, bot) == Soc(CellOf(vbat, top, bot))

=============================================================================
