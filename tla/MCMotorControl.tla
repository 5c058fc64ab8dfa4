--------------------------- MODULE MCMotorControl ---------------------------
(* Small instances of MotorControl; 4 stands for 1.0. *)
EXTENDS MotorControl

MCDefault == [ema_filter_alpha |-> 2, min_duty_cycle |-> 1]
MCUnfiltered == [ema_filter_alpha |-> NoFilter, min_duty_cycle |-> 2]

At(left, right) == [side \in Side |-> IF side = "Left" THEN left ELSE right]

MCMoves == {At(4, -4), At(0, 0)}
MCConfigs == {MCUnfiltered}
=============================================================================
