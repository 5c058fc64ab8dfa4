------------------------------ MODULE Deadman ------------------------------
(***************************************************************************)
(* The dead-man switch the motor task is meant to be: the motors start     *)
(* only when a message is taken, and once Bound ticks have passed since    *)
(* the last one they are off.  MotorControl implements it.                 *)
(***************************************************************************)
EXTENDS Naturals

CONSTANT Bound

VARIABLES moving,     \* some wheel is commanded to turn
          quiet       \* ticks since the last message, counted up to Bound + 1

vars == <<moving, quiet>>

Init == moving = FALSE /\ quiet = 0

Feed == /\ quiet' = 0
        /\ moving' \in BOOLEAN

Release == /\ moving' = FALSE
           /\ UNCHANGED quiet

Elapse == /\ moving => quiet < Bound
          /\ quiet' = IF quiet <= Bound THEN quiet + 1 ELSE quiet
          /\ UNCHANGED moving

\* A reboot takes the motors down and starts the count again.
Restart == moving' = FALSE /\ quiet' = 0

Next == Feed \/ Release \/ Elapse \/ Restart

Spec == Init /\ [][Next]_vars

=============================================================================
