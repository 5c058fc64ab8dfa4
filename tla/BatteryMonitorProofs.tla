------------------------ MODULE BatteryMonitorProofs ------------------------
(* For every voltage of the cells: the gauge stays between 0 and 100, it      *)
(* never rises as a cell drains, and its threshold is a voltage of the weaker *)
(* cell; a request to switch off is due, and a low cell leads to one.         *)
EXTENDS BatteryMonitor, TLAPS

Volts(i) == OcvCurve[i][1]
Percent(i) == OcvCurve[i][2]

\* The points of the table ...
LEMMA Points ==
    /\ Volts(1) = 3000 /\ Volts(4) = 3500 /\ Percent(4) = 15 /\ Volts(11) = 4200
    /\ \A i \in 1..11 : Volts(i) \in Nat /\ Percent(i) \in 0..100
  BY DEF OcvCurve, Volts, Percent

LEMMA PercentsAreNatural == \A i \in 1..11 : Percent(i) \in Nat
  BY Points

\* ... ascend.
LEMMA Ascending ==
    ASSUME NEW i \in 1..11, NEW j \in 1..11, i <= j
    PROVE  Volts(i) <= Volts(j) /\ Percent(i) <= Percent(j)
  BY SMTT(30) DEF OcvCurve, Volts, Percent

LEMMA Windows ==
    ASSUME NEW i \in Window
    PROVE  i \in 1..10 /\ i \in 1..11 /\ i + 1 \in 1..11
  BY DEF Window, OcvCurve

LEMMA InWindowVolts ==
    ASSUME NEW mv \in Nat, NEW i \in Window
    PROVE  InWindow(i, mv) <=> Volts(i) < mv /\ mv <= Volts(i + 1)
  BY DEF InWindow, Volts

\* No voltage has two windows.
LEMMA OneWindow ==
    ASSUME NEW mv \in Nat, NEW i \in Window, InWindow(i, mv), NEW j \in Window, InWindow(j, mv)
    PROVE  i = j
  <1>1. /\ Volts(i) < mv /\ mv <= Volts(i + 1) /\ Volts(j) < mv /\ mv <= Volts(j + 1)
        /\ i \in 1..11 /\ i + 1 \in 1..11 /\ j \in 1..11 /\ j + 1 \in 1..11
    BY InWindowVolts, Windows
  <1>2. Volts(i) \in Nat /\ Volts(i + 1) \in Nat /\ Volts(j) \in Nat /\ Volts(j + 1) \in Nat
    BY <1>1, Points
  <1>3. ~(j + 1 <= i)
    <2>1. j + 1 <= i => Volts(j + 1) <= Volts(i)
      BY <1>1, Ascending
    <2> QED
      BY <1>1, <1>2, <2>1
  <1>4. ~(i + 1 <= j)
    <2>1. i + 1 <= j => Volts(i + 1) <= Volts(j)
      BY <1>1, Ascending
    <2> QED
      BY <1>1, <1>2, <2>1
  <1> QED
    BY <1>1, <1>3, <1>4

\* Every voltage within the table has a window ...
LEMMA HasWindow ==
    ASSUME NEW mv \in Nat, 3000 < mv, mv <= 4200
    PROVE  \E i \in Window : InWindow(i, mv)
  <1>1. \/ InWindow(1, mv) \/ InWindow(2, mv) \/ InWindow(3, mv) \/ InWindow(4, mv)
        \/ InWindow(5, mv) \/ InWindow(6, mv) \/ InWindow(7, mv) \/ InWindow(8, mv)
        \/ InWindow(9, mv) \/ InWindow(10, mv)
    BY DEF InWindow, OcvCurve
  <1>2. Window = 1..10
    BY DEF Window, OcvCurve
  <1> QED
    BY <1>1, <1>2

\* ... and the gauge follows the line of that window.
LEMMA SocInWindow ==
    ASSUME NEW mv \in Nat, NEW i \in Window, InWindow(i, mv)
    PROVE  Soc(mv) = Interpolate(OcvCurve[i], OcvCurve[i + 1], mv)
  <1>1. \A j \in Window : InWindow(j, mv) => j = i
    BY OneWindow
  <1>2. (CHOOSE j \in Window : InWindow(j, mv)) = i
    BY <1>1
  <1>3. ~(mv <= OcvCurve[1][1])
    <2>1. Volts(i) < mv /\ Volts(1) <= Volts(i) /\ Volts(i) \in Nat /\ Volts(1) \in Nat
      BY Windows, InWindowVolts, Points, Ascending
    <2> QED
      BY <2>1 DEF Volts
  <1> QED
    BY <1>2, <1>3 DEF Soc

\* Below and above the table it is flat.
LEMMA SocOutside ==
    ASSUME NEW mv \in Nat
    PROVE  (mv <= 3000 => Soc(mv) = 0) /\ (mv > 4200 => Soc(mv) = 100)
  <1>1. OcvCurve[1][1] = 3000
    BY DEF OcvCurve
  <1>2. ASSUME NEW i \in Window, InWindow(i, mv)
        PROVE  mv <= 4200
    <2>1. mv <= Volts(i + 1) /\ Volts(i + 1) <= Volts(11) /\ Volts(i + 1) \in Nat /\ Volts(11) = 4200
      BY <1>2, Windows, InWindowVolts, Points, Ascending
    <2> QED
      BY <2>1
  <1> QED
    BY <1>1, <1>2 DEF Soc

\* In a window the line from its lower to its upper point is not left, and rises.
LEMMA Interpolated ==
    ASSUME NEW mv \in Nat, NEW i \in 1..10, InWindow(i, mv)
    PROVE  /\ Interpolate(OcvCurve[i], OcvCurve[i + 1], mv) \in Percent(i)..Percent(i + 1)
           /\ i <= 3 /\ mv < 3500 => Interpolate(OcvCurve[i], OcvCurve[i + 1], mv) < 15
           /\ \A lower \in Nat : InWindow(i, lower) /\ lower <= mv =>
                  Interpolate(OcvCurve[i], OcvCurve[i + 1], lower)
                      <= Interpolate(OcvCurve[i], OcvCurve[i + 1], mv)
  BY SMTT(60) DEF InWindow, OcvCurve, Interpolate, Percent

\* A percentage, whatever was read.
LEMMA SocBounds ==
    ASSUME NEW mv \in Nat
    PROVE  Soc(mv) \in 0..100
  <1>1. CASE 3000 < mv /\ mv <= 4200
    <2>1. PICK i \in Window : InWindow(i, mv)
      BY <1>1, HasWindow
    <2>2. Soc(mv) \in Percent(i)..Percent(i + 1)
      BY <2>1, SocInWindow, Interpolated, Windows
    <2>3. Percent(i) \in 0..100 /\ Percent(i + 1) \in 0..100
      BY Windows, Points
    <2> QED
      BY <2>2, <2>3
  <1> QED
    BY <1>1, SocOutside

\* A higher voltage is never less charge.
LEMMA SocMonotone ==
    ASSUME NEW mv \in Nat, NEW lower \in Nat, lower <= mv
    PROVE  Soc(lower) <= Soc(mv)
  <1>1. CASE 3000 < lower /\ mv <= 4200
    <2>1. PICK i \in Window : InWindow(i, mv)
      BY <1>1, HasWindow
    <2>2. PICK j \in Window : InWindow(j, lower)
      BY <1>1, HasWindow
    <2>3. /\ i \in 1..10 /\ i + 1 \in 1..11 /\ i \in 1..11
          /\ j \in 1..10 /\ j + 1 \in 1..11 /\ j \in 1..11
      BY Windows
    <2>4. /\ Soc(mv) = Interpolate(OcvCurve[i], OcvCurve[i + 1], mv)
          /\ Soc(lower) = Interpolate(OcvCurve[j], OcvCurve[j + 1], lower)
      BY <2>1, <2>2, SocInWindow
    <2>5. CASE i = j
      BY <2>1, <2>2, <2>3, <2>4, <2>5, Interpolated
    <2>6. CASE j + 1 <= i
      <3>1. Soc(lower) \in Percent(j)..Percent(j + 1) /\ Soc(mv) \in Percent(i)..Percent(i + 1)
        BY <2>1, <2>2, <2>3, <2>4, Interpolated
      <3>2. Percent(j + 1) <= Percent(i) /\ Percent(i) \in Nat /\ Percent(j) \in Nat
            /\ Percent(i + 1) \in Nat /\ Percent(j + 1) \in Nat
        <4>1. /\ Percent(i) \in Nat /\ Percent(j) \in Nat
              /\ Percent(i + 1) \in Nat /\ Percent(j + 1) \in Nat
          BY <2>3, PercentsAreNatural
        <4> QED
          BY <2>3, <2>6, <4>1, Ascending
      <3> QED
        BY <3>1, <3>2
    <2>7. CASE i + 1 <= j
      <3>1. /\ Volts(i + 1) <= Volts(j) /\ Volts(i + 1) \in Nat /\ Volts(j) \in Nat
            /\ mv <= Volts(i + 1) /\ Volts(j) < lower
        BY <2>1, <2>2, <2>3, <2>7, Ascending, Points, InWindowVolts
      <3> QED
        BY <3>1
    <2> QED
      BY <2>3, <2>5, <2>6, <2>7
  <1>2. CASE lower <= 3000
    BY <1>2, SocOutside, SocBounds
  <1>3. CASE mv > 4200
    BY <1>3, SocOutside, SocBounds
  <1> QED
    BY <1>1, <1>2, <1>3

\* LOW_BATTERY_THRESHOLD is the fourth point of the table.
LEMMA SocLow ==
    ASSUME NEW mv \in Nat
    PROVE  Soc(mv) < LowBattery <=> mv < 3500
  <1>1. CASE 3000 < mv /\ mv < 3500
    <2>1. PICK i \in Window : InWindow(i, mv)
      BY <1>1, HasWindow
    <2>2. i \in 1..10 /\ i \in 1..11
      BY Windows
    <2>3. i <= 3
      <3>1. Volts(i) < mv /\ Volts(i) \in Nat /\ Volts(4) = 3500
        BY <1>1, <2>1, <2>2, InWindowVolts, Points
      <3>2. 4 <= i => Volts(4) <= Volts(i)
        BY <2>2, Ascending
      <3> QED
        BY <1>1, <2>2, <3>1, <3>2
    <2>4. Soc(mv) = Interpolate(OcvCurve[i], OcvCurve[i + 1], mv)
      BY <1>1, <2>1, SocInWindow
    <2> QED
      BY <1>1, <2>1, <2>2, <2>3, <2>4, Interpolated DEF LowBattery
  <1>2. CASE mv <= 3000
    BY <1>2, SocOutside DEF LowBattery
  <1>3. CASE mv >= 3500
    <2>1. Soc(3500) = Interpolate(OcvCurve[3], OcvCurve[4], 3500)
      <3>1. 3 \in Window /\ InWindow(3, 3500)
        BY DEF Window, InWindow, OcvCurve
      <3> QED
        BY <3>1, SocInWindow
    <2>2. Soc(3500) = 15
      BY <2>1, SMTT(60) DEF Interpolate, OcvCurve
    <2> QED
      BY <1>3, <2>2, SocMonotone, SocBounds DEF LowBattery
  <1> QED
    BY <1>1, <1>2, <1>3

\* The gauge of a pack whose cells have both been read is the weaker cell's.
LEMMA ChargeOfWeaker ==
    ASSUME NEW vbat \in Nat, NEW top \in Nat \ {0}, NEW bot \in Nat \ {0}
    PROVE  /\ StateOfCharge(vbat, top, bot) = Soc(Weaker(top, bot))
           /\ Weaker(top, bot) \in Nat
  BY DEF StateOfCharge, CellOf, Weaker

-----------------------------------------------------------------------------
\* battery.rs, lines 180-212: whatever the converter has filled of its registers, the
\* gauge is a percentage, so the u8 it is cast to does not wrap.
THEOREM GaugeIsPercentage ==
    ASSUME NEW vbat \in Nat, NEW top \in Nat, NEW bot \in Nat
    PROVE  StateOfCharge(vbat, top, bot) \in 0..100
  <1>1. CellOf(vbat, top, bot) \in Nat
    <2>1. vbat \div 2 \in Nat
      OBVIOUS
    <2> QED
      BY <2>1 DEF CellOf, Weaker
  <1> QED
    BY <1>1, SocBounds DEF StateOfCharge

\* battery_monitor.rs, lines 19 and 73: with both cells read the threshold in percent is
\* 3500 mV of either cell, whatever the other one and the whole pack have.
THEOREM GaugeThreshold ==
    ASSUME NEW vbat \in Nat, NEW top \in Nat \ {0}, NEW bot \in Nat \ {0}
    PROVE  StateOfCharge(vbat, top, bot) < LowBattery <=> top < 3500 \/ bot < 3500
  <1>1. Soc(Weaker(top, bot)) < LowBattery <=> Weaker(top, bot) < 3500
    BY ChargeOfWeaker, SocLow
  <1>2. Weaker(top, bot) < 3500 <=> top < 3500 \/ bot < 3500
    BY DEF Weaker
  <1> QED
    BY <1>1, <1>2, ChargeOfWeaker

\* battery.rs, lines 180-212: a pack whose cells have lost voltage is never shown fuller.
THEOREM GaugeDrains ==
    ASSUME NEW vbat \in Nat, NEW top \in Nat \ {0}, NEW bot \in Nat \ {0},
           NEW vbat2 \in Nat, NEW top2 \in Nat \ {0}, NEW bot2 \in Nat \ {0},
           top2 <= top, bot2 <= bot
    PROVE  StateOfCharge(vbat2, top2, bot2) <= StateOfCharge(vbat, top, bot)
  <1>1. Weaker(top2, bot2) <= Weaker(top, bot)
    BY DEF Weaker
  <1> QED
    BY <1>1, ChargeOfWeaker, SocMonotone

-----------------------------------------------------------------------------
(* The poll: what has been read was once so *)

Readings == [charging : BOOLEAN, vbat : Nat, top : Millivolts \cup {0}, bot : Millivolts \cup {0}]

\* The history of a poll encloses the present.
SeenInv ==
    Polling => /\ low \subseteq LowCells(pack) /\ LowCells(pack) \subseteq everLow
               /\ charging => everCharging
               /\ ~charging => everIdle

\* What a poll has read, its history has seen.
ReadInv ==
    Polling => /\ reading.charging => everCharging
               /\ ~reading.charging => everIdle
               /\ \A c \in Cell : reading[c] # 0 /\ reading[c] < 3500 => c \in everLow
               /\ \A c \in Cell : reading[c] # 0 /\ c \in low => reading[c] < 3500
               /\ reading.vbat # 0 /\ reading.vbat \div 2 < 3500 => everLow # {}

MonitorInv == TypeOK /\ reading \in Readings /\ SeenInv /\ ReadInv

LEMMA MillivoltsAreNatural ==
    ASSUME NEW mv \in Millivolts \cup {0}
    PROVE  mv \in Nat /\ (mv \in Millivolts => mv > 0)
  BY BatteryAssumption

\* The fields of a reading, whatever part of it has been read.
LEMMA ReadingFields ==
    ASSUME NEW r \in Readings
    PROVE  /\ r.charging \in BOOLEAN /\ r.vbat \in Nat
           /\ r.top \in Millivolts \cup {0} /\ r.bot \in Millivolts \cup {0}
           /\ \A c \in Cell : r[c] \in Millivolts \cup {0}
           /\ \A x \in Register : r[x] \in Nat
           /\ Charge(r) \in 0..100
  <1>1. /\ r.charging \in BOOLEAN /\ r.vbat \in Nat
        /\ r.top \in Millivolts \cup {0} /\ r.bot \in Millivolts \cup {0}
    BY DEF Readings
  <1>2. r.top \in Nat /\ r.bot \in Nat
    BY <1>1, MillivoltsAreNatural
  <1>3. Charge(r) \in 0..100
    BY <1>1, <1>2, GaugeIsPercentage DEF Charge
  <1> QED
    BY <1>1, <1>2, <1>3 DEF Cell, Register

\* What a converter puts into a register.
LEMMA MeasuredFits ==
    ASSUME pack \in [Cell -> Millivolts], converted \subseteq Register
    PROVE  /\ \A c \in Cell : /\ Measured(c) \in Millivolts \cup {0}
                              /\ Measured(c) # 0 => Measured(c) = pack[c]
           /\ Measured("vbat") \in Nat
           /\ Measured("vbat") # 0 => Measured("vbat") = pack["top"] + pack["bot"]
  <1>1. /\ pack["top"] \in Millivolts /\ pack["bot"] \in Millivolts
        /\ \A c \in Cell : pack[c] \in Millivolts /\ c # "vbat"
    BY DEF Cell
  <1>2. pack["top"] \in Nat /\ pack["bot"] \in Nat
    BY <1>1, MillivoltsAreNatural
  <1> QED
    BY <1>1, <1>2 DEF Measured

\* Half of the pack is below the threshold only if a cell is.
LEMMA HalfIsLow ==
    ASSUME pack \in [Cell -> Millivolts], (pack["top"] + pack["bot"]) \div 2 < 3500
    PROVE  LowCells(pack) # {}
  <1>1. "top" \in Cell /\ "bot" \in Cell
    BY DEF Cell
  <1>2. pack["top"] \in Nat /\ pack["bot"] \in Nat
    BY <1>1, MillivoltsAreNatural
  <1>3. pack["top"] < 3500 \/ pack["bot"] < 3500
    BY <1>2
  <1> QED
    BY <1>1, <1>3 DEF LowCells

LEMMA MonitorStarts ==
    ASSUME Init
    PROVE  MonitorInv
  <1>1. reading \in Readings
    BY DEF Init, Unread, Readings
  <1>2. TypeOK
    <2>1. /\ reading.charging \in BOOLEAN /\ \A r \in Register : reading[r] \in Nat
          /\ \A r \in Cell : reading[r] \in Millivolts \cup {0}
          /\ Charge(reading) \in 0..100
      BY <1>1, ReadingFields
    <2>2. /\ pc = "init" /\ requests \in 0..1
          /\ pack \in [Cell -> Millivolts] /\ charging \in BOOLEAN
          /\ answers \in BOOLEAN
      BY DEF Init
    <2>3. adc \in BOOLEAN /\ everIdle \in BOOLEAN /\ everCharging \in BOOLEAN
      <3>1. adc = FALSE /\ everIdle = FALSE /\ everCharging = FALSE
        BY DEF Init
      <3> QED
        BY <3>1
    <2>4. /\ converted \subseteq Register /\ (converted # {} => adc)
          /\ low \subseteq everLow /\ everLow \subseteq Cell
      BY DEF Init
    <2> QED
      BY <2>1, <2>2, <2>3, <2>4 DEF TypeOK
  <1> QED
    BY <1>1, <1>2 DEF Init, MonitorInv, SeenInv, ReadInv, Polling, Register, Cell

\* A poll begins with the flag of the charger and with no voltage.
LEMMA PollElapsesKeepsInv ==
    ASSUME MonitorInv, PollElapses
    PROVE  MonitorInv'
  <1>1. CASE answers
    <2>1. /\ pc' = "vbat" /\ reading' = [Unread EXCEPT !.charging = charging]
          /\ low' = LowCells(pack) /\ everLow' = LowCells(pack)
          /\ everIdle' = ~charging /\ everCharging' = charging
          /\ UNCHANGED <<requests, answers, adc, converted, pack, charging>>
      BY <1>1 DEF PollElapses, Begin, chip, world
    <2>2. charging \in BOOLEAN
      BY DEF MonitorInv, TypeOK
    <2>3. reading' \in Readings
      BY <2>1, <2>2 DEF Unread, Readings
    <2>4. /\ reading'.charging = charging /\ reading'.vbat = 0
          /\ reading'.top = 0 /\ reading'.bot = 0
      BY <2>1 DEF Unread
    <2>5. SeenInv'
      <3>1. LowCells(pack)' = LowCells(pack)
        BY <2>1 DEF LowCells
      <3> QED
        BY <2>1, <2>2, <3>1 DEF SeenInv
    <2>6. ReadInv'
      BY <2>1, <2>2, <2>4 DEF ReadInv, Cell
    <2>7. TypeOK'
      <3>1. /\ reading.charging' \in BOOLEAN /\ \A r \in Register : reading[r]' \in Nat
            /\ \A r \in Cell : reading[r]' \in Millivolts \cup {0}
            /\ Charge(reading)' \in 0..100
        BY <2>3, ReadingFields DEF Charge
      <3>2. LowCells(pack) \subseteq Cell
        BY DEF LowCells
      <3> QED
        BY <2>1, <2>2, <3>1, <3>2 DEF TypeOK, MonitorInv
    <2> QED
      BY <2>3, <2>5, <2>6, <2>7 DEF MonitorInv
  <1>2. CASE ~answers
    <2>1. /\ pc' = "backoff"
          /\ UNCHANGED <<reading, requests, answers, adc, converted, pack, charging>>
          /\ UNCHANGED <<low, everLow, everIdle, everCharging>>
      BY <1>2 DEF PollElapses, chip, world, seen
    <2> QED
      BY <2>1 DEF MonitorInv, TypeOK, SeenInv, ReadInv, Polling, Register, Cell, Charge, LowCells
  <1> QED
    BY <1>1, <1>2 DEF MonitorInv, TypeOK

\* A register is read: what it says is so now, and now belongs to the poll.
LEMMA ReadKeepsInv ==
    ASSUME MonitorInv, NEW x \in Register, Read(x)
    PROVE  MonitorInv'
  <1>1. /\ pc = x /\ Polling
        /\ UNCHANGED <<requests, answers, adc, converted, pack, charging>>
    BY DEF Read, Polling, chip, world
  <1>2. /\ reading \in Readings /\ pack \in [Cell -> Millivolts] /\ converted \subseteq Register
        /\ LowCells(pack) \subseteq everLow /\ low \subseteq LowCells(pack)
    BY <1>1 DEF MonitorInv, SeenInv, TypeOK
  <1>3. CASE answers
    <2>1. /\ pc' = After(x) /\ reading' = [reading EXCEPT ![x] = Measured(x)]
          /\ UNCHANGED <<low, everLow, everIdle, everCharging>>
      BY <1>3 DEF Read, seen
    <2>2. After(x) \in {"top", "bot", "rest"} /\ Polling'
      BY <2>1 DEF After, Register, Cell, Polling
    <2>3. reading' \in Readings
      BY <1>2, <2>1, MeasuredFits DEF Readings, Register, Cell
    <2>4. /\ reading'.charging = reading.charging
          /\ reading'.vbat = IF x = "vbat" THEN Measured(x) ELSE reading.vbat
          /\ \A c \in Cell : reading'[c] = IF x = c THEN Measured(x) ELSE reading[c]
      BY <1>2, <2>1 DEF Readings, Register, Cell
    <2>5. SeenInv'
      BY <1>1, <2>1 DEF SeenInv, LowCells, MonitorInv
    <2>6. ReadInv'
      <3>1. ASSUME NEW c \in Cell
            PROVE  /\ reading'[c] # 0 /\ reading'[c] < 3500 => c \in everLow
                   /\ reading'[c] # 0 /\ c \in low => reading'[c] < 3500
        <4>1. CASE x = c
          BY <1>2, <2>4, <4>1, MeasuredFits DEF LowCells
        <4>2. CASE x # c
          BY <1>1, <2>4, <4>2 DEF MonitorInv, ReadInv
        <4> QED
          BY <4>1, <4>2
      <3>2. reading'.vbat # 0 /\ reading'.vbat \div 2 < 3500 => everLow # {}
        <4>1. CASE x = "vbat"
          BY <1>2, <2>4, <4>1, MeasuredFits, HalfIsLow
        <4>2. CASE x # "vbat"
          BY <1>1, <2>4, <4>2 DEF MonitorInv, ReadInv
        <4> QED
          BY <4>1, <4>2
      <3> QED
        BY <1>1, <2>1, <2>4, <3>1, <3>2 DEF ReadInv, MonitorInv
    <2>7. TypeOK'
      <3>1. /\ reading.charging' \in BOOLEAN /\ \A r \in Register : reading[r]' \in Nat
            /\ \A r \in Cell : reading[r]' \in Millivolts \cup {0}
            /\ Charge(reading)' \in 0..100
        BY <2>3, ReadingFields DEF Charge
      <3> QED
        BY <1>1, <2>1, <2>2, <3>1 DEF TypeOK, MonitorInv
    <2> QED
      BY <2>3, <2>5, <2>6, <2>7 DEF MonitorInv
  <1>4. CASE ~answers
    <2>1. /\ pc' = "backoff" /\ reading' = Unread
          /\ low' = {} /\ everLow' = {} /\ everIdle' = FALSE /\ everCharging' = FALSE
      BY <1>4 DEF Read, Over
    <2>2. reading' \in Readings
      BY <2>1 DEF Unread, Readings
    <2>3. TypeOK'
      <3>1. /\ reading.charging' \in BOOLEAN /\ \A r \in Register : reading[r]' \in Nat
            /\ \A r \in Cell : reading[r]' \in Millivolts \cup {0}
            /\ Charge(reading)' \in 0..100
        BY <2>2, ReadingFields DEF Charge
      <3> QED
        BY <1>1, <2>1, <3>1 DEF TypeOK, MonitorInv
    <2> QED
      BY <2>1, <2>2, <2>3 DEF MonitorInv, SeenInv, ReadInv, Polling, Register, Cell
  <1> QED
    BY <1>3, <1>4 DEF MonitorInv, TypeOK

LEMMA FinishKeepsInv ==
    ASSUME MonitorInv, Finish
    PROVE  MonitorInv'
  <1>1. /\ pc' \in {"poll", "backoff"} /\ reading' = Unread /\ requests' \in 0..1
        /\ low' = {} /\ everLow' = {} /\ everIdle' = FALSE /\ everCharging' = FALSE
        /\ UNCHANGED <<answers, adc, converted, pack, charging>>
    BY DEF Finish, Over, chip, world, MonitorInv, TypeOK
  <1>2. reading' \in Readings
    BY <1>1 DEF Unread, Readings
  <1>3. TypeOK'
    <2>1. /\ reading.charging' \in BOOLEAN /\ \A r \in Register : reading[r]' \in Nat
          /\ \A r \in Cell : reading[r]' \in Millivolts \cup {0}
          /\ Charge(reading)' \in 0..100
      BY <1>2, ReadingFields DEF Charge
    <2> QED
      BY <1>1, <2>1 DEF TypeOK, MonitorInv
  <1> QED
    BY <1>1, <1>2, <1>3 DEF MonitorInv, SeenInv, ReadInv, Polling, Register, Cell

\* The pack changes under a poll: only the history moves.
LEMMA PackKeepsInv ==
    ASSUME MonitorInv, PackChanges
    PROVE  MonitorInv'
  <1>1. /\ pack' \in [Cell -> Millivolts] /\ charging' \in BOOLEAN /\ GoesOn
        /\ UNCHANGED <<pc, reading, requests, answers, adc, converted>>
    BY DEF PackChanges, task, chip
  <1>2. LowCells(pack') \subseteq Cell
    BY DEF LowCells
  <1>3. CASE Polling
    <2>1. /\ low' = low \cap LowCells(pack') /\ everLow' = everLow \cup LowCells(pack')
          /\ everIdle' = (everIdle \/ ~charging')
          /\ everCharging' = (everCharging \/ charging')
      BY <1>1, <1>3 DEF GoesOn
    <2>2. low \subseteq everLow /\ everLow \subseteq Cell
          /\ everIdle \in BOOLEAN /\ everCharging \in BOOLEAN
      BY DEF MonitorInv, TypeOK
    <2>3. TypeOK'
      <3>1. low' \subseteq everLow' /\ everLow' \subseteq Cell
        BY <1>2, <2>1, <2>2
      <3>2. everIdle' \in BOOLEAN /\ everCharging' \in BOOLEAN
        BY <2>1
      <3> QED
        BY <1>1, <3>1, <3>2 DEF MonitorInv, TypeOK, Charge
    <2>4. SeenInv'
      <3>1. low' \subseteq LowCells(pack)' /\ LowCells(pack)' \subseteq everLow'
        BY <2>1 DEF LowCells
      <3> QED
        BY <1>1, <2>1, <3>1 DEF SeenInv
    <2>5. ReadInv'
      <3>1. low' \subseteq low /\ everLow \subseteq everLow'
        BY <2>1
      <3>2. (everIdle => everIdle') /\ (everCharging => everCharging')
        BY <2>1
      <3> QED
        BY <1>1, <1>3, <3>1, <3>2 DEF ReadInv, MonitorInv
    <2> QED
      BY <1>1, <2>3, <2>4, <2>5 DEF MonitorInv
  <1>4. CASE ~Polling
    <2>1. ~Polling' /\ UNCHANGED <<low, everLow, everIdle, everCharging>>
      BY <1>1, <1>4 DEF GoesOn, Polling, seen
    <2> QED
      BY <1>1, <2>1 DEF MonitorInv, TypeOK, SeenInv, ReadInv, Charge
  <1> QED
    BY <1>3, <1>4

\* The other steps touch neither what was read nor what was seen.
LEMMA OthersKeepInv ==
    ASSUME MonitorInv,
           \/ InitCharger \/ BackoffElapses \/ TakeRequest \/ Convert \/ FallSilent
           \/ ResetCharger \/ Answer \/ UNCHANGED vars
    PROVE  MonitorInv'
  <1>1. /\ reading' = reading /\ pack' = pack /\ charging' = charging
        /\ UNCHANGED <<low, everLow, everIdle, everCharging>>
    BY DEF InitCharger, BackoffElapses, TakeRequest, Convert, FallSilent, ResetCharger, Answer,
           vars, task, chip, world, seen
  <1>2. Polling' => Polling
    BY DEF InitCharger, BackoffElapses, TakeRequest, Convert, FallSilent, ResetCharger, Answer,
           vars, task, chip, world, seen, Polling, Register, Cell
  <1>3. /\ pc' \in {"init", "backoff", "poll", "vbat", "top", "bot", "rest"}
        /\ requests' \in 0..1
        /\ answers' \in BOOLEAN /\ adc' \in BOOLEAN
        /\ converted' \subseteq Register /\ (converted' # {} => adc')
    <2>1. /\ pc \in {"init", "backoff", "poll", "vbat", "top", "bot", "rest"}
          /\ requests \in 0..1 /\ answers \in BOOLEAN /\ adc \in BOOLEAN
          /\ converted \subseteq Register /\ (converted # {} => adc)
      BY DEF MonitorInv, TypeOK
    <2>2. CASE InitCharger
      BY <2>1, <2>2 DEF InitCharger
    <2>3. CASE Convert
      BY <2>1, <2>3 DEF Convert, task
    <2>4. CASE TakeRequest \/ BackoffElapses \/ UNCHANGED vars
      BY <2>1, <2>4 DEF TakeRequest, BackoffElapses, vars, task, chip
    <2>5. CASE FallSilent \/ ResetCharger \/ Answer
      BY <2>1, <2>5 DEF FallSilent, ResetCharger, Answer, task
    <2> QED
      BY <2>2, <2>3, <2>4, <2>5
  <1>4. TypeOK'
    BY <1>1, <1>3 DEF MonitorInv, TypeOK, Charge
  <1>5. SeenInv'
    BY <1>1, <1>2 DEF MonitorInv, SeenInv, LowCells
  <1>6. ReadInv'
    BY <1>1, <1>2 DEF MonitorInv, ReadInv
  <1> QED
    BY <1>1, <1>4, <1>5, <1>6 DEF MonitorInv

\* Every step of the task and of its surroundings keeps the types, what the history has
\* seen of the pack, and what the reading says of the history.
THEOREM MonitorInvariance == Spec => []MonitorInv
  <1>1. Init => MonitorInv
    BY MonitorStarts
  <1>2. MonitorInv /\ [Next]_vars => MonitorInv'
    <2> SUFFICES ASSUME MonitorInv, [Next]_vars
                 PROVE  MonitorInv'
      OBVIOUS
    <2>1. CASE PollElapses
      BY <2>1, PollElapsesKeepsInv
    <2>2. ASSUME NEW x \in Register, Read(x)
          PROVE  MonitorInv'
      BY <2>2, ReadKeepsInv
    <2>3. CASE Finish
      BY <2>3, FinishKeepsInv
    <2>4. CASE PackChanges
      BY <2>4, PackKeepsInv
    <2>5. CASE \/ InitCharger \/ BackoffElapses \/ TakeRequest \/ Convert \/ FallSilent
               \/ ResetCharger \/ Answer \/ UNCHANGED vars
      BY <2>5, OthersKeepInv
    <2> QED
      BY <2>1, <2>2, <2>3, <2>4, <2>5 DEF Next, Monitor, Surroundings
  <1> QED
    BY <1>1, <1>2, PTL DEF Spec

-----------------------------------------------------------------------------
(* The request *)

\* Only the end of a poll asks.
LEMMA OnlyFinishAsks ==
    ASSUME MonitorInv, [Next]_vars, Asked
    PROVE  Finish /\ IsLow(reading) /\ Polling
  <1>1. requests \in 0..1 /\ requests' # requests /\ ~(requests' = 0)
    BY DEF Asked, MonitorInv, TypeOK
  <1>2. Finish
    BY <1>1 DEF Next, Monitor, Surroundings, InitCharger, BackoffElapses, PollElapses, Read,
           TakeRequest, PackChanges, Convert, FallSilent, ResetCharger, Answer, vars, task
  <1>3. IsLow(reading)
    BY <1>1, <1>2 DEF Finish
  <1> QED
    BY <1>2, <1>3 DEF Finish, Polling

\* A gauge below its threshold stands for a voltage below it, or for none.
LEMMA LowGauge ==
    ASSUME NEW r \in Readings, Charge(r) < LowBattery
    PROVE  \/ r.top # 0 /\ r.top < 3500
           \/ r.bot # 0 /\ r.bot < 3500
           \/ r.top = 0 /\ r.bot = 0 /\ r.vbat \div 2 < 3500
  <1>1. r.vbat \in Nat /\ r.top \in Nat /\ r.bot \in Nat
    BY ReadingFields, MillivoltsAreNatural
  <1>2. CellOf(r.vbat, r.top, r.bot) \in Nat
    <2>1. r.vbat \div 2 \in Nat
      BY <1>1
    <2> QED
      BY <1>1, <2>1 DEF CellOf, Weaker
  <1>3. CellOf(r.vbat, r.top, r.bot) < 3500
    BY <1>2, SocLow DEF Charge, StateOfCharge
  <1> QED
    BY <1>1, <1>3 DEF CellOf, Weaker

\* battery_monitor.rs, lines 73-79: the board is asked to shut down only by a poll that saw
\* a moment without charging and a low cell, or registers that are all unfilled, however
\* the pack changed between its reads.
THEOREM RequestsAreDue == Spec => ShutdownIsDue
  <1>1. ASSUME MonitorInv, [Next]_vars, Asked
        PROVE  everIdle /\ (everLow # {} \/ \A r \in Register : reading[r] = 0)
    <2>1. Polling /\ reading \in Readings /\ Charge(reading) < LowBattery /\ ~reading.charging
      BY <1>1, OnlyFinishAsks DEF IsLow, MonitorInv
    <2>2. everIdle
      BY <1>1, <2>1 DEF MonitorInv, ReadInv
    <2>3. /\ \A c \in Cell : reading[c] # 0 /\ reading[c] < 3500 => c \in everLow
          /\ reading.vbat # 0 /\ reading.vbat \div 2 < 3500 => everLow # {}
      BY <1>1, <2>1 DEF MonitorInv, ReadInv
    <2>4. \/ reading.top # 0 /\ reading.top < 3500
          \/ reading.bot # 0 /\ reading.bot < 3500
          \/ reading.top = 0 /\ reading.bot = 0 /\ reading.vbat \div 2 < 3500
      BY <2>1, LowGauge
    <2> QED
      BY <2>2, <2>3, <2>4 DEF Cell, Register
  <1>2. MonitorInv /\ [Next]_vars =>
            [Asked => everIdle /\ (everLow # {} \/ \A r \in Register : reading[r] = 0)]_vars
    BY <1>1
  <1> QED
    BY <1>2, MonitorInvariance, PTL DEF Spec, ShutdownIsDue

\* battery_monitor.rs, lines 73-79: a poll through which a cell was low and the pack did not
\* charge, and which has read both cells, leaves a request behind.
THEOREM LowCellsAreNoticed == Spec => LowIsNoticed
  <1>1. ASSUME MonitorInv, [Next]_vars, pc = "rest", pc' = "poll",
               reading.top # 0, reading.bot # 0, low # {}, ~everCharging
        PROVE  requests' = 1
    <2>1. Polling /\ reading \in Readings
      BY <1>1 DEF Polling, MonitorInv
    <2>2. Finish /\ answers
      BY <1>1 DEF Next, Monitor, Surroundings, InitCharger, BackoffElapses, PollElapses, Read,
             TakeRequest, PackChanges, Convert, FallSilent, ResetCharger, Answer, vars, task,
             Register, Cell, Finish
    <2>3. ~reading.charging
      BY <1>1, <2>1 DEF MonitorInv, ReadInv
    <2>4. reading.top < 3500 \/ reading.bot < 3500
      <3>1. PICK c \in Cell : c \in low
        BY <1>1 DEF MonitorInv, TypeOK
      <3>2. reading[c] # 0 => reading[c] < 3500
        BY <1>1, <2>1, <3>1 DEF MonitorInv, ReadInv
      <3> QED
        BY <1>1, <3>2 DEF Cell
    <2>5. Charge(reading) < LowBattery
      <3>1. reading.vbat \in Nat /\ reading.top \in Nat \ {0} /\ reading.bot \in Nat \ {0}
        BY <1>1, <2>1, ReadingFields, MillivoltsAreNatural
      <3> QED
        BY <2>4, <3>1, GaugeThreshold DEF Charge
    <2> QED
      BY <2>2, <2>3, <2>5 DEF Finish, IsLow
  <1>2. MonitorInv /\ [Next]_vars =>
            [/\ pc = "rest" /\ pc' = "poll"
             /\ reading.top # 0 /\ reading.bot # 0
             /\ low # {} /\ ~everCharging
             => requests' = 1]_vars
    BY <1>1
  <1> QED
    BY <1>2, MonitorInvariance, PTL DEF Spec, LowIsNoticed

=============================================================================
