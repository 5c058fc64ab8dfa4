------------------------------ MODULE HardIron ------------------------------
(***************************************************************************)
(* HardIron (src/src/data/imu.rs): the estimate of the constant field the  *)
(* board carries with it, from the box of the readings so far, and the     *)
(* sectors that decide when it is usable.                                  *)
(*                                                                         *)
(* The board turns on a floor: its readings lie on a horizontal circle     *)
(* whose centre is what the estimate is after, here the origin, and        *)
(* neighbouring readings are neighbours on the circle.  The z axis does    *)
(* not take part.  In whole units, exactly where the code has f32.         *)
(***************************************************************************)
EXTENDS Integers, Sequences, FiniteSets

CONSTANTS
    Circle,            \* the readings, in the order of the turn
    Field,             \* the radius of that circle
    SectorsRequired,   \* HARD_IRON_SECTORS_REQUIRED
    MinRadius,         \* HARD_IRON_MIN_RADIUS_UT
    Microtesla,        \* units to a microtesla
    TurnsBack          \* the readings between which it goes to and fro; elsewhere only one way

Sectors == 0..11

ASSUME HardIronAssumption ==
    /\ Field \in Nat /\ MinRadius \in Nat \ {0} /\ SectorsRequired \in 1..12
    /\ Microtesla \in Nat \ {0} /\ TurnsBack \subseteq DOMAIN Circle
    /\ Circle \in Seq(Int \X Int) /\ Circle # <<>>
    /\ \A i \in DOMAIN Circle : Circle[i][1] * Circle[i][1] + Circle[i][2] * Circle[i][2] = Field * Field

VARIABLES
    at,         \* index of the board's direction
    visited,    \* history: indices of the readings so far
    turns,      \* history: the directions the board has turned in
    seen,       \* whether there has been a reading
    low, high,  \* the corners of the box, min and max
    sectors     \* bits set, i.e. directions voted for

ironVars == <<at, visited, turns, seen, low, high, sectors>>

IronTypeOK ==
    /\ at \in DOMAIN Circle /\ visited \subseteq DOMAIN Circle /\ turns \subseteq {-1, 1}
    /\ seen \in BOOLEAN
    /\ low \in Int \X Int /\ high \in Int \X Int
    /\ \A k \in 1..2 : low[k] <= high[k]
    /\ sectors \subseteq Sectors /\ (sectors # {} => Cardinality(visited) >= 2)

IronInit ==
    /\ at \in DOMAIN Circle
    /\ visited = {} /\ turns = {}
    /\ seen = FALSE
    /\ low = <<0, 0>> /\ high = <<0, 0>>
    /\ sectors = {}

-----------------------------------------------------------------------------
(* The estimate.  Vectors from its centre are doubled, to stay in integers. *)

Lesser(a, b)  == IF a <= b THEN a ELSE b
Greater(a, b) == IF a >= b THEN a ELSE b

Centred(v, lo, hi) == <<2 * v[1] - lo[1] - hi[1], 2 * v[2] - lo[2] - hi[2]>>

Length2(v) == v[1] * v[1] + v[2] * v[2]

\* Bug: only a reading at the very centre has no direction.
BugFarEnough(v) == Length2(v) > 0

FarEnough(v) == Length2(v) >= 4 * MinRadius * MinRadius

QuarterTurnBack(v) == <<v[2], 0 - v[1]>>

\* Turned back by quarters v comes to lie in the first quadrant, which 30 degrees and
\* 60 degrees divide.
Sector(v) ==
    LET turned[k \in 0..3] == IF k = 0 THEN v ELSE QuarterTurnBack(turned[k - 1])
        quarter == CHOOSE k \in 0..3 : turned[k][1] > 0 /\ turned[k][2] >= 0
        x2 == turned[quarter][1] * turned[quarter][1]
        y2 == turned[quarter][2] * turned[quarter][2]
    IN  3 * quarter + (IF 3 * y2 < x2 THEN 0 ELSE IF y2 < 3 * x2 THEN 1 ELSE 2)

Box(v) ==
    /\ low' = <<Lesser(low[1], v[1]), Lesser(low[2], v[2])>>
    /\ high' = <<Greater(high[1], v[1]), Greater(high[2], v[2])>>

Vote(v) ==
    sectors' = LET from == Centred(v, low', high')
               IN  IF FarEnough(from) THEN sectors \cup {Sector(from)} ELSE sectors

\* The first reading makes the box and has no vote.
First(v) == seen' = TRUE /\ low' = v /\ high' = v /\ UNCHANGED sectors

Observe(v) ==
    IF seen THEN Box(v) /\ Vote(v) /\ UNCHANGED seen ELSE First(v)

\* Bug: the span of the box is what counts.
BugSpan == seen /\ \A k \in 1..2 : high[k] - low[k] >= Field

\* Bug: one sector too early.
BugIsUsable == Cardinality(sectors) >= SectorsRequired - 1

IsUsable == Cardinality(sectors) >= SectorsRequired

-----------------------------------------------------------------------------
Around(i, step) == 1 + ((i - 1 + step) % Len(Circle))

\* The board turns by one and is read; read again where it is, it votes as before.
Turn ==
    \E step \in {-1, 1} :
        /\ at' = IF seen THEN Around(at, step) ELSE at
        /\ turns \subseteq {step} \/ {at, at'} \subseteq TurnsBack
        /\ turns' = IF seen THEN turns \cup {step} ELSE turns
        /\ visited' = visited \cup {at'}
        /\ Observe(Circle[at'])

IronNext == Turn

IronSpec == IronInit /\ [][IronNext]_ironVars

-----------------------------------------------------------------------------
(* Properties *)

\* The centre of the box is at most this many microtesla from the truth.
ErrorWithin(n) == Length2(Centred(<<0, 0>>, low, high)) <= 4 * n * n * Microtesla * Microtesla

\* No two readings so far are as far apart in an axis as the side of a square that is twice
\* the least radius wide across.
Still ==
    \A i, j \in visited, k \in 1..2 :
        LET apart == Circle[i][k] - Circle[j][k] IN apart * apart < 2 * MinRadius * MinRadius

\* Lines 610-619: "a board standing still would otherwise let its own noise wander across
\* every sector and announce itself calibrated": readings that stay as near each other never
\* vote, however many they are and in whatever order they come.
StillHasNoVote == Still => sectors = {}

\* Going way round the circle each reading of the set is further along axis k than the one
\* before it: upward if sign is 1, downward if it is -1.
Sweeps(set, k, sign, way) ==
    \A i \in set : Around(i, way) \in set => sign * Circle[Around(i, way)][k] > sign * Circle[i][k]

\* Lines 629-637: a turn one way on which one coordinate of the field only rises or only
\* falls, as over any part of half a turn, is not announced, however many readings it
\* takes, although its span would pass for an estimate after a quarter.  Of a board that
\* goes to and fro this is not true.
HalfTurnIsNotUsable ==
    \A k \in 1..2, sign \in {-1, 1}, way \in {-1, 1} :
        turns \subseteq {way} /\ Sweeps(visited, k, sign, way) => ~IsUsable

\* Lines 123-129 and 614-619: the votes are cast from a centre that still moves, and yet the
\* estimate announced on a turn one way is within 2 uT; one sector earlier it is not.  This is
\* what the code achieves; the 0.03 uT of lines 124-125 it does not.
OneWayIsClose == IsUsable /\ Cardinality(turns) <= 1 => ErrorWithin(2)

=============================================================================
