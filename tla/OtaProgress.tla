---------------------------- MODULE OtaProgress ----------------------------
(***************************************************************************)
(* What the rest of the firmware may rely on about OTA_STATUS, the watch   *)
(* manage_ota broadcasts an update through (src/src/data/ota.rs).  It is   *)
(* the environment of MotorControl and what OtaManager implements.         *)
(*                                                                         *)
(* A Downloading value carries the bytes written; here two of them are the *)
(* same status, so Downloading may follow Downloading.                     *)
(***************************************************************************)
VARIABLE status       \* the latest value of the watch; "Unset" before any

OtaStatus == {"Idle", "Preparing", "Downloading", "Applying"}

TypeOK == status \in OtaStatus \cup {"Unset"}

\* OtaStatus::is_active, lifted to the watch: an empty watch never wakes anybody.
IsActive(s) == s \in OtaStatus \ {"Idle"}

Successors(s) ==
    CASE s = "Unset"       -> {"Idle", "Preparing"}
      [] s = "Idle"        -> {"Preparing"}
      [] s = "Preparing"   -> {"Downloading", "Applying", "Idle"}
      [] s = "Downloading" -> {"Downloading", "Applying", "Idle"}
      [] s = "Applying"    -> {}

Init == status = "Unset"

Publish(s) == /\ s \in Successors(status)
              /\ status' = s

\* A software reset or a power cut empties the watch, whatever it held.
Reset == status' = "Unset"

Next == \/ \E s \in OtaStatus : Publish(s)
        \/ Reset

Spec == Init /\ [][Next]_status

=============================================================================
