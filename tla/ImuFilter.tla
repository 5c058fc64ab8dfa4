------------------------------ MODULE ImuFilter ------------------------------
(***************************************************************************)
(* ImuFilter (src/src/data/imu.rs) in two planes: a tilt about one         *)
(* horizontal axis and the heading of a level board.  There a cross        *)
(* product is a sine and a rotation a sum; how the planes couple on a      *)
(* tilted board that turns is left to the quaternions.                     *)
(*                                                                         *)
(* Angles in hundredths of a degree, rates in hundredths of a degree per   *)
(* second, time in milliseconds, where the code has f32.                   *)
(***************************************************************************)
EXTENDS Integers

CONSTANT Pull,   \* gravity's correction of an error of at most a right angle: a sine over 3 s
         None    \* no reading

RightAngle == 9000
HalfTurn   == 18000
FullTurn   == 36000

\* What of a sine matters: it points back, and not further than to the truth in a second.
ASSUME PullAssumption ==
    /\ Pull \in [-RightAngle..RightAngle -> Int]
    /\ Pull[0] = 0
    /\ \A e \in 1..RightAngle : Pull[e] \in 1..e /\ Pull[-e] \in -e..-1

\* None is no angle.
ASSUME NoneAssumption == None \notin Int

MinTimestep == 1
MaxTimestep == 200
HeadingTau  == 10
BiasTau     == 10000
StillRate   == 150

\* What clamping leaves of the time since the last sample.
Timestep == MinTimestep..MaxTimestep

Swept(rate, ms) == (rate * ms) \div 1000

Magnitude(n) == IF n < 0 THEN -n ELSE n

-----------------------------------------------------------------------------
(* Angles *)

Wrap360(a) == a % FullTurn
Wrap180(a) == LET w == Wrap360(a) IN IF w >= HalfTurn THEN w - FullTurn ELSE w

-----------------------------------------------------------------------------
(* First-order blends.  A blend goes the way to its target that the weight  *)
(* timestep / (tau + timestep) says, rounded toward where it was.           *)

Toward(gap, tau, ms) ==
    IF gap >= 0 THEN (gap * ms) \div (tau + ms) ELSE -(((-gap) * ms) \div (tau + ms))

\* A low-pass starts on its first sample.
LowPass(state, sample, tau, ms) ==
    IF state = None THEN sample ELSE state + Toward(sample - state, tau, ms)

IsStationary(rate, quiet) == quiet /\ Magnitude(rate) < StillRate

\* The rate the gyroscope reads, and whether the accelerometer feels gravity alone.
UpdateBias(bias, rate, quiet, ms) ==
    IF IsStationary(rate - bias, quiet) THEN bias + Toward(rate - bias, BiasTau, ms) ELSE bias

-----------------------------------------------------------------------------
(* The attitude *)

Angle == 0..FullTurn - 1

Attitude == [seeded : BOOLEAN, heading_seeded : BOOLEAN, tilt : Angle, heading : Angle]

Level == [seeded |-> FALSE, heading_seeded |-> FALSE, tilt |-> 0, heading |-> 0]

\* up: where the accelerometer says up is, None if it is not to be trusted.
\* north: the magnetic heading, None while the hard iron is not known.
Readings == [up : Angle \cup {None}, north : Angle \cup {None}, rate : Int, turn : Int]

\* From what the attitude predicts to what is measured, the shorter way.
TiltError(a, r)    == Wrap180(r.up - a.tilt)
HeadingError(a, r) == Wrap180(r.north - a.heading)

Seed(a, r) == IF r.up = None THEN a ELSE [a EXCEPT !.seeded = TRUE, !.tilt = r.up, !.heading = 0]

SnapHeading(a, r) ==
    IF a.heading_seeded \/ r.north = None THEN a
    ELSE [a EXCEPT !.heading_seeded = TRUE, !.heading = r.north]

\* The cosine of the error is negative.
IsOverturned(a, r) == r.up # None /\ Magnitude(TiltError(a, r)) > RightAngle

GravityCorrection(a, r) == IF r.up = None THEN 0 ELSE Pull[TiltError(a, r)]
HeadingCorrection(a, r) == IF r.north = None THEN 0 ELSE HeadingError(a, r) \div HeadingTau

Integrated(a, r, ms) ==
    [a EXCEPT !.tilt    = Wrap360(@ + Swept(r.rate + GravityCorrection(a, r), ms)),
              !.heading = Wrap360(@ + Swept(r.turn + HeadingCorrection(a, r), ms))]

\* An attitude past a right angle is set right, and that is all of this update.
UpdateAttitude(a, r, ms) ==
    IF ~a.seeded THEN Seed(a, r)
    ELSE LET snapped == SnapHeading(a, r)
         IN  IF IsOverturned(snapped, r) THEN [snapped EXCEPT !.tilt = r.up]
             ELSE Integrated(snapped, r, ms)

=============================================================================
