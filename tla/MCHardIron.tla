----------------------------- MODULE MCHardIron -----------------------------
(***************************************************************************)
(* A field of 25 microtesla: the circle of radius 5525, which has many     *)
(* points of whole coordinates, with 221 units to the microtesla.          *)
(***************************************************************************)
EXTENDS HardIron, SequencesExt

Round(eighth) ==
    LET quarter  == eighth \o [i \in 1..Len(eighth) - 1 |->
                                  LET v == Reverse(eighth)[i] IN <<v[2], v[1]>>]
        turned   == [i \in DOMAIN quarter |-> <<0 - quarter[i][2], quarter[i][1]>>]
        opposite == [i \in DOMAIN quarter |-> <<0 - quarter[i][1], 0 - quarter[i][2]>>]
        last     == [i \in DOMAIN quarter |-> <<quarter[i][2], 0 - quarter[i][1]>>]
    IN  quarter \o turned \o opposite \o last

Fine ==
    Round(<< <<5525, 0>>, <<5520, 235>>, <<5500, 525>>, <<5491, 612>>, <<5460, 845>>,
             <<5427, 1036>>, <<5408, 1131>>, <<5365, 1320>>, <<5355, 1360>>, <<5304, 1547>>,
             <<5133, 2044>>, <<5100, 2125>>, <<5084, 2163>>, <<5005, 2340>>, <<4875, 2600>>,
             <<4760, 2805>>, <<4715, 2880>>, <<4557, 3124>>, <<4420, 3315>>, <<4301, 3468>>,
             <<4275, 3500>>, <<4085, 3720>>, <<3952, 3861>> >>)

\* 180 readings, two degrees apart on average; to and fro over a quarter of them.  TLC
\* computes the circle only once when a cfg names it by a second name.
FineCircle == Fine
Stretch    == 1..46
=============================================================================
