---------------------------- MODULE MCImuMonitor ----------------------------
(* Small instances of ImuMonitor, the bytes of ImuDrivers over part of their *)
(* range, and what the filter of ImuFilter comes to after many samples.      *)
EXTENDS ImuMonitor, ImuFilter

MCBoards ==
    {[primary |-> "other", secondary |-> "BMI270", magnetic |-> "MMC5983MA"],
     [primary |-> "BMI270", secondary |-> "other", magnetic |-> "other"],
     [primary |-> "other", secondary |-> "none", magnetic |-> "MMC5983MA"]}

\* A reading of 16 bits comes back from its two bytes.
ASSUME WordsComeBack ==
    \A r \in {n * 257 - 32768 : n \in 0..254} \cup {-1, 0, 1, 32767} :
        Word(LowByte(r), HighByte(r)) = r

\* So does one of 18 bits on each axis, whatever the two others are.
ASSUME AxesComeBack ==
    \A x, y, z \in {0, 1, 2, 1023, 1024, 131071, 131072, 262143} :
        LET shared == SharedByte(x, y, z)
            Comes(v, axis) == Axis(v \div 1024, (v \div 4) % 256, shared, AxisShift[axis]) = v
        IN  Comes(x, "x") /\ Comes(y, "y") /\ Comes(z, "z")

-----------------------------------------------------------------------------
(* The filter *)

\* Bhaskara's sine, of hundredths of a degree, over GRAVITY_CORRECTION_TAU_S; what it
\* exceeds the angle by near zero is cut off.
MCPull ==
    LET Sine(e) == (4 * e * (HalfTurn - e)) \div ((405000000 - e * (HalfTurn - e)) \div 5730)
        Third(e) == IF Sine(e) < 3 THEN 1 ELSE Sine(e) \div 3
    IN  [e \in -RightAngle..RightAngle |->
            IF e > 0 THEN Third(e) ELSE IF e < 0 THEN -Third(-e) ELSE 0]

\* A board at rest for a second, from the attitude a.
SecondOfRest(a, r) ==
    LET after[k \in 0..10] == IF k = 0 THEN a ELSE UpdateAttitude(after[k - 1], r, 100)
    IN  after[10]

Angles == {0, 100, 5000, 8999, 9000, 9001, 13000, 17999, 18000, 18001, 27000, 27001, 35900}

\* Lines 344-398: whatever the attitude of a board at rest, upside down included, a second
\* takes off a fifth of the error of its tilt, and a twentieth of that of its heading,
\* across north too, down to what the integers can show.
ASSUME RestFindsTheAttitude ==
    \A tilt, heading \in Angles, up, north \in {0, 18000} :
        LET r == [up |-> up, north |-> north, rate |-> 0, turn |-> 0]
            a == [seeded |-> TRUE, heading_seeded |-> TRUE, tilt |-> tilt, heading |-> heading]
            after == SecondOfRest(a, r)
        IN  /\ Magnitude(TiltError(after, r)) <= (4 * Magnitude(TiltError(a, r))) \div 5 + 30
            /\ Magnitude(HeadingError(after, r)) <= (19 * Magnitude(HeadingError(a, r))) \div 20 + 50

\* Lines 254-259 with 82-86: the zero-rate offset of a board at rest is approached if what
\* is left of it is below STILL_RATE_DPS; an offset of more is not noticed to be one.
ASSUME BiasIsFound ==
    \A offset, start \in {-200, -150, -149, -60, 0, 80, 149, 150, 200} :
        LET bias[k \in 0..10] ==
                IF k = 0 THEN start ELSE UpdateBias(bias[k - 1], offset, TRUE, 200)
            gap == Magnitude(offset - start)
        IN  IF gap < StillRate THEN Magnitude(offset - bias[10]) <= (17 * gap) \div 20 + 51
            ELSE bias[10] = start
=============================================================================
