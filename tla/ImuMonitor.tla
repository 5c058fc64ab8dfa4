----------------------------- MODULE ImuMonitor -----------------------------
(***************************************************************************)
(* monitor_imu (src/src/tasks/imu_monitor.rs), the initialisation of the   *)
(* two sensors it reads (src/src/drivers/imu) and what its filter has been *)
(* founded on (ImuFilter in src/src/data/imu.rs), while the sensors fall   *)
(* silent and lose their configuration.                                    *)
(*                                                                         *)
(* A step goes from one transaction on the bus to the next.  Timers elapse *)
(* at any time.  The numbers of the filter are left out but for HardIron;  *)
(* the channels are MqttSession's and Telemetry's.                         *)
(***************************************************************************)
EXTENDS ImuDrivers

CONSTANT Boards    \* what may be at the two addresses and in the magnetometer's place

Sensor == {"inertial", "magnetic"}

Board == [primary : {"BMI270", "other", "none"}, secondary : {"BMI270", "other", "none"},
          magnetic : {"MMC5983MA", "other"}]

\* There is one BMI270 at most.
ASSUME BoardsAssumption ==
    /\ Boards \subseteq Board
    /\ \A b \in Boards : ~(b.primary = "BMI270" /\ b.secondary = "BMI270")

VARIABLES
    pc,        \* what the task is about
    step,      \* of the initialisation: the next transaction of Script
    read,      \* the inertial half of a sample, as the latest one is described
    filter,    \* the ImuFilter of the session
    sample,    \* the session's latest one handed to the channels, and what it was made of
    board,     \* what is there, for good
    answers,   \* sensors that acknowledge their address
    holds,     \* what a sensor has been told since its last reset
    image,     \* word addresses of the feature engine that have been written
    lost,      \* sensors that have reset themselves since they were last set up
    stale      \* history: sensors of which the session has readings from before a reset

task == <<pc, step, read, filter, sample>>
part == <<answers, holds, image, lost, stale>>
vars == <<task, board, part>>

NewFilter == [folded |-> FALSE, seeded |-> FALSE, snapped |-> FALSE, usable |-> FALSE]

NoHalf == [measured |-> FALSE, stale |-> FALSE, reset |-> FALSE]

NoSample == [measured |-> TRUE, stale |-> FALSE, reset |-> FALSE,
             heading |-> FALSE]

TypeOK ==
    /\ pc \in {"backoff", "primary", "secondary", "init", "inertial", "magnetic"}
    /\ step \in 1..Len(Script)
    /\ read \in [measured : BOOLEAN, stale : BOOLEAN, reset : BOOLEAN]
    /\ filter \in [folded : BOOLEAN, seeded : BOOLEAN, snapped : BOOLEAN, usable : BOOLEAN]
    /\ sample \in [measured : BOOLEAN, stale : BOOLEAN, reset : BOOLEAN,
                   heading : BOOLEAN]
    /\ board \in Boards
    /\ answers \subseteq Sensor
    /\ holds \in [Sensor -> SUBSET (ItemsOf(Script) \cup {"IMAGE"})]
    /\ image \subseteq ImageAddresses
    /\ lost \subseteq Sensor
    /\ stale \subseteq Sensor

Nothing == [s \in Sensor |-> {}]

Init ==
    /\ pc = "primary"
    /\ step = 1
    /\ read = NoHalf
    /\ filter = NewFilter
    /\ sample = NoSample
    /\ board \in Boards
    /\ answers \in SUBSET Sensor
    /\ holds = Nothing
    /\ image = {}
    /\ lost = {}
    /\ stale = {}

Measures(s) == Configuration(s) \subseteq holds[s]

-----------------------------------------------------------------------------
(* The task *)

\* Any error of any transaction ends the initialisation or the session.
Fail ==
    /\ pc' = "backoff"
    /\ read' = NoHalf
    /\ step' = 1
    /\ sample' = NoSample
    /\ UNCHANGED <<filter, part>>

BackoffElapses ==
    /\ pc = "backoff"
    /\ pc' = "primary"
    /\ UNCHANGED <<step, read, filter, sample, board, part>>

\* An address that is silent, or answers with another identity, leads to the next one.
Probe ==
    /\ pc \in {"primary", "secondary"}
    /\ UNCHANGED board
    /\ IF board[pc] = "BMI270" /\ "inertial" \in answers
       THEN pc' = "init" /\ UNCHANGED <<step, read, filter, sample, part>>
       ELSE IF pc = "primary"
       THEN pc' = "secondary" /\ UNCHANGED <<step, read, filter, sample, part>>
       ELSE Fail

\* The next transaction of the initialisation is acknowledged.
Initialising(op) ==
    /\ pc = "init" /\ Script[step] = op
    /\ Addressee(step) \in answers
    /\ UNCHANGED board

Advance ==
    /\ step' = step + 1
    /\ UNCHANGED <<pc, read, filter, sample>>

\* Everything the part had been told is gone.
SoftReset ==
    /\ \E op \in {"CMD_SOFT_RESET", "CONTROL_1_SOFT_RESET"} : Initialising(op)
    /\ Advance
    /\ LET s == Addressee(step)
       IN  /\ holds' = [holds EXCEPT ![s] = {}]
           /\ image' = IF s = "inertial" THEN {} ELSE image
           /\ lost' = lost \ {s}
    /\ UNCHANGED <<answers, stale>>

\* What is written for its own sake; all but the last such write.
WriteRegister ==
    /\ \E op \in ItemsOf(UploadBegins)
                 \cup ((UNION {ItemsOf(Settings[s]) : s \in Sensor}) \ {"CONTROL_2"}) :
           /\ Initialising(op)
           /\ holds' = [holds EXCEPT ![Addressee(step)] = @ \cup {op}]
    /\ Advance
    /\ UNCHANGED <<answers, image, lost, stale>>

\* The three writes of a chunk.  With power save on none of them lands, so a reset between
\* two of them leaves what one before the first would.
UploadChunk ==
    /\ Initialising("INIT_DATA")
    /\ image' = IF ItemsOf(UploadBegins) \subseteq holds["inertial"]
                THEN image \cup {WrittenAt(InitAddr(step - FirstChunk))} ELSE image
    /\ Advance
    /\ UNCHANGED <<answers, holds, lost, stale>>

\* The rising edge starts the feature engine; the part may still not take its image.
FinishUpload ==
    /\ Initialising("INIT_CTRL_1")
    /\ \/ UNCHANGED holds
       \/ /\ ItemsOf(UploadBegins) \subseteq holds["inertial"]
          /\ image = ImageAddresses
          /\ holds' = [holds EXCEPT !["inertial"] = @ \cup {"IMAGE"}]
    /\ Advance
    /\ UNCHANGED <<answers, image, lost, stale>>

\* Bug: the status is read and not looked at.
BugCheck ==
    /\ Initialising("INTERNAL_STATUS")
    /\ Advance /\ UNCHANGED part

\* Bug: an image that was not taken is waited for.
BugCheckWaits ==
    /\ Initialising("INTERNAL_STATUS")
    /\ IF "IMAGE" \in holds["inertial"]
       THEN Advance /\ UNCHANGED part
       ELSE UNCHANGED <<task, part>>

Check ==
    /\ Initialising("INTERNAL_STATUS")
    /\ IF "IMAGE" \in holds["inertial"]
       THEN Advance /\ UNCHANGED part
       ELSE Fail

Identify ==
    /\ Initialising("PRODUCT_ID")
    /\ IF board.magnetic = "MMC5983MA"
       THEN Advance /\ UNCHANGED part
       ELSE Fail

\* Bug: the filter of the last session is kept.
BugBeginSession ==
    /\ Initialising("CONTROL_2")
    /\ pc' = "inertial" /\ step' = 1
    /\ holds' = [holds EXCEPT !["magnetic"] = @ \cup {"CONTROL_2"}]
    /\ UNCHANGED <<read, filter, sample, answers, image, lost, stale>>

\* The last write, and a session that begins with a filter of its own.
BeginSession ==
    /\ Initialising("CONTROL_2")
    /\ pc' = "inertial" /\ step' = 1
    /\ holds' = [holds EXCEPT !["magnetic"] = @ \cup {"CONTROL_2"}]
    /\ filter' = NewFilter
    /\ stale' = {}
    /\ UNCHANGED <<read, sample, answers, image, lost>>

Reading(s) == pc = s /\ s \in answers /\ UNCHANGED <<step, board, part>>

ReadInertial ==
    /\ Reading("inertial")
    /\ pc' = "magnetic"
    /\ read' = [measured |-> Measures("inertial"),
                stale    |-> "inertial" \in stale,
                reset    |-> "inertial" \in lost]
    /\ UNCHANGED <<filter, sample>>

\* Gravity seeds the attitude and that is all of this update; the heading is snapped to
\* the field by the first later update that has an estimate of its offset.
Update(f, gravity, voted) ==
    LET usable == f.usable \/ voted
    IN  [folded  |-> TRUE,
         seeded  |-> f.seeded \/ gravity,
         snapped |-> f.snapped \/ (f.seeded /\ usable),
         usable  |-> usable]

\* The sample is folded into the filter and handed to the channels without an await.  The
\* first reading of a session has no vote for the offset, and makes it usable in no case.
ReadMagnetic ==
    /\ Reading("magnetic")
    /\ pc' = "inertial"
    /\ \E gravity \in BOOLEAN, voted \in BOOLEAN :
           (voted => filter.folded) /\ filter' = Update(filter, gravity, voted)
    /\ read' = NoHalf
    /\ sample' = [measured |-> read.measured /\ Measures("magnetic"),
                  stale    |-> read.stale \/ "magnetic" \in stale,
                  reset    |-> read.reset \/ "magnetic" \in lost,
                  heading  |-> filter'.usable]

TransactionFails ==
    /\ \/ pc = "init" /\ Addressee(step) \notin answers
       \/ pc \in Sensor \ answers
    /\ Fail
    /\ UNCHANGED board

Monitor ==
    \/ BackoffElapses \/ TransactionFails \/ Probe
    \/ SoftReset \/ WriteRegister \/ UploadChunk \/ FinishUpload \/ Check
    \/ Identify \/ BeginSession
    \/ ReadInertial \/ ReadMagnetic

-----------------------------------------------------------------------------
(* The sensors *)

FallSilent ==
    /\ \E s \in answers : answers' = answers \ {s}
    /\ UNCHANGED <<task, board, holds, image, lost, stale>>

\* A brown-out: what had been configured is gone, and what the session has read of it
\* describes a sensor that has been reset.
ResetSensor(s) ==
    /\ answers' = answers \ {s}
    /\ holds' = [holds EXCEPT ![s] = {}]
    /\ image' = IF s = "inertial" THEN {} ELSE image
    /\ lost' = lost \cup {s}
    /\ stale' = IF filter.folded \/ pc = "magnetic" THEN stale \cup {s} ELSE stale
    /\ UNCHANGED <<task, board>>

\* At once, before the task has met the silence, or any time later.
Answer ==
    /\ \E s \in Sensor \ answers : answers' = answers \cup {s}
    /\ UNCHANGED <<task, board, holds, image, lost, stale>>

Next == Monitor \/ FallSilent \/ (\E s \in Sensor : ResetSensor(s)) \/ Answer

Spec == Init /\ [][Next]_vars

\* The executor runs the task, and a part that is not lost does take its image.
FairSpec == Spec /\ WF_vars(Monitor) /\ SF_vars(FinishUpload /\ holds' # holds)

-----------------------------------------------------------------------------
(* Properties *)

\* imu_monitor.rs, lines 70-79, with bmi270.rs, lines 171-211: at whatever step of the
\* initialisation or of a pass a part fails, no sample is made from the registers of one
\* that is not measuring, unless it has reset itself since and nobody could tell.
SamplesAreMeasured == sample.measured \/ sample.reset

\* data/imu.rs, lines 211-213: "a filter never carries state from before a sensor dropped
\* off the bus across to after it came back": only a part that reset itself and answered
\* again within one session has readings of both kinds in one filter.
FilterIsFresh == sample.stale => sample.reset

\* imu_monitor.rs, lines 70-78 and 140: sensors that answer for good are sampled again
\* and again, on a board that has both.
HasBoth == "BMI270" \in {board.primary, board.secondary} /\ board.magnetic = "MMC5983MA"

KeepsSampling == <>[](answers = Sensor) /\ HasBoth => []<>(pc = "magnetic")

=============================================================================
