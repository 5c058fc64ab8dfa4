---------------------------- MODULE MCTelemetry ----------------------------
(* The intervals of the code, in half-seconds: the motor loop reports after  *)
(* every command and at least when its watchdog expires, the battery monitor *)
(* every two seconds, monitor_imu every half-second.                         *)
EXTENDS Telemetry

MCMinGap == [p \in Part |-> CASE p = "motor" -> 0 [] p = "battery" -> 4 [] p = "imu" -> 1]
MCMaxGap == [p \in Part |-> CASE p = "motor" -> 6 [] p = "battery" -> 4 [] p = "imu" -> 1]
=============================================================================
