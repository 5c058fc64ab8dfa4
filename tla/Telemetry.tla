----------------------------- MODULE Telemetry -----------------------------
(***************************************************************************)
(* aggregate_telemetry (src/src/tasks/telemetry_aggregator.rs) and the     *)
(* three tasks that feed it: how old is what the status bundle says?       *)
(*                                                                         *)
(* Time passes in ticks of half a second.  A sample is its age and, when   *)
(* it is one of the motors, whether they were moving.  The sensors answer. *)
(* NETWORK_TELEMETRY has no producer, and the publisher that takes the     *)
(* bundles is MqttSession's.                                               *)
(***************************************************************************)
EXTENDS Naturals, Sequences

CONSTANTS
    Depth,      \* of MOTOR_TELEMETRY, BATTERY_TELEMETRY and IMU_TELEMETRY
    MinGap,     \* MinGap[p]: ticks between two reports of p, at least ...
    MaxGap,     \* ... and at most, when its sensor answers
    Period,     \* ticks between two bundles
    MaxAge      \* bound: older samples are not told apart

Part == {"motor", "battery", "imu"}

ASSUME TelemetryAssumption ==
    /\ Depth \in Nat \ {0}
    /\ Period \in Nat \ {0}
    /\ MaxAge \in Nat
    /\ MinGap \in [Part -> Nat] /\ MaxGap \in [Part -> Nat]

VARIABLES
    queue,    \* the three channels
    bundle,   \* what the aggregator keeps of each part
    gap,      \* ticks since a part last reported
    phase,    \* ticks since the last bundle
    moving,   \* whether the motors are moving
    paused,   \* an OTA update holds the motor loop
    steady    \* history: ticks since moving or paused last changed

vars == <<queue, bundle, gap, phase, moving, paused, steady>>

Sample == [age : 0..MaxAge, moving : BOOLEAN]

TypeOK ==
    /\ queue \in [Part -> Seq(Sample)]
    /\ \A p \in Part : Len(queue[p]) <= Depth
    /\ bundle \in [Part -> Sample]
    /\ gap \in [Part -> Nat]
    /\ \A p \in Part : gap[p] <= MaxGap[p]
    /\ phase \in 0..Period
    /\ moving \in BOOLEAN /\ paused \in BOOLEAN
    /\ steady \in 0..MaxAge

\* The aggregator begins with defaults, and with a bundle of them.
Init ==
    /\ queue = [p \in Part |-> <<>>]
    /\ bundle = [p \in Part |-> [age |-> MaxAge, moving |-> FALSE]]
    /\ gap = [p \in Part |-> 0]
    /\ phase = Period
    /\ moving = FALSE
    /\ paused = FALSE
    /\ steady = MaxAge

Older(sample) == [sample EXCEPT !.age = IF @ < MaxAge THEN @ + 1 ELSE MaxAge]

-----------------------------------------------------------------------------
(* The channels: a full one drops the newest sample *)

TrySend(p, sample) ==
    queue' = [queue EXCEPT ![p] = IF Len(@) < Depth THEN Append(@, sample) ELSE @]

New(p, moves) == [age |-> 0, moving |-> p = "motor" /\ moves]

\* Bug: motors that do not move are not reported again.
BugReport(p) ==
    /\ gap[p] >= MinGap[p]
    /\ ~(p = "motor" /\ paused)
    /\ IF p = "motor" /\ ~moving THEN UNCHANGED queue ELSE TrySend(p, New(p, moving))
    /\ gap' = [gap EXCEPT ![p] = 0]
    /\ UNCHANGED <<bundle, phase, moving, paused, steady>>

Report(p) ==
    /\ gap[p] >= MinGap[p]
    /\ ~(p = "motor" /\ paused)
    /\ TrySend(p, New(p, moving))
    /\ gap' = [gap EXCEPT ![p] = 0]
    /\ UNCHANGED <<bundle, phase, moving, paused, steady>>

\* A command, or the lack of one, that starts or stops the motors is reported by the
\* same iteration of the loop.
MotorChanges ==
    /\ ~paused
    /\ moving' = ~moving
    /\ steady' = 0
    /\ TrySend("motor", New("motor", moving'))
    /\ gap' = [gap EXCEPT !["motor"] = 0]
    /\ UNCHANGED <<bundle, phase, paused>>

\* The update stops the motors and nothing reports it ...
PauseForOta ==
    /\ ~paused
    /\ paused' = TRUE
    /\ moving' = FALSE
    /\ steady' = 0
    /\ UNCHANGED <<queue, bundle, gap, phase>>

\* ... until the loop runs again, and waits for its watchdog or a command.
ResumeFromOta ==
    /\ paused
    /\ paused' = FALSE
    /\ steady' = 0
    /\ gap' = [gap EXCEPT !["motor"] = 0]
    /\ UNCHANGED <<queue, bundle, phase, moving>>

-----------------------------------------------------------------------------
(* The aggregator *)

Received(p) == queue[p] # <<>>

\* Bug: the second try_receive hangs on the first one's failure.
BugAggregate ==
    LET taken == CHOOSE p \in Part : Received(p) \/ \A q \in Part : ~Received(q)
    IN  /\ phase = Period
        /\ phase' = 0
        /\ bundle' = [bundle EXCEPT ![taken] = IF Received(taken) THEN Head(queue[taken]) ELSE @]
        /\ queue' = [queue EXCEPT ![taken] = IF Received(taken) THEN Tail(@) ELSE @]
        /\ UNCHANGED <<gap, moving, paused, steady>>

\* One sample of each part at most: the oldest.
Aggregate ==
    /\ phase = Period
    /\ phase' = 0
    /\ bundle' = [p \in Part |-> IF Received(p) THEN Head(queue[p]) ELSE bundle[p]]
    /\ queue' = [p \in Part |-> IF Received(p) THEN Tail(queue[p]) ELSE <<>>]
    /\ UNCHANGED <<gap, moving, paused, steady>>

Running == IF paused THEN Part \ {"motor"} ELSE Part

\* Time does not pass over a report or a bundle that is due.
Tick ==
    /\ phase < Period
    /\ \A p \in Running : gap[p] < MaxGap[p]
    /\ phase' = phase + 1
    /\ gap' = [p \in Part |-> IF p \in Running THEN gap[p] + 1 ELSE gap[p]]
    /\ bundle' = [p \in Part |-> Older(bundle[p])]
    /\ queue' = [p \in Part |-> [i \in DOMAIN queue[p] |-> Older(queue[p][i])]]
    /\ steady' = IF steady < MaxAge THEN steady + 1 ELSE MaxAge
    /\ UNCHANGED <<moving, paused>>

Next == (\E p \in Part : Report(p)) \/ MotorChanges \/ PauseForOta \/ ResumeFromOta
        \/ Aggregate \/ Tick

Spec == Init /\ [][Next]_vars

-----------------------------------------------------------------------------
(* Properties *)

Larger(m, n) == IF m >= n THEN m ELSE n

\* Reports that are a bundle apart never find the queue full: the latest is in it.
Roomy(p) == Depth >= 2 /\ MinGap[p] >= Period

\* A queue of samples taken one a bundle, or a part that is silent as long as it may be
\* since its latest report, or the one before if that was dropped; and then a period.
Bound(p) ==
    Larger(Depth * Period, MaxGap[p] + IF Roomy(p) THEN 0 ELSE Period) + Period

\* Too late for what may be wrong: the same of the motors, whose reports may be dropped.
Settling == Larger(Depth * Period, MaxGap["motor"] + Period) + Period + 1

\* The properties see these ages.
ASSUME BoundAssumption ==
    Settling <= MaxAge /\ \A p \in Part \ {"motor"} : Bound(p) < MaxAge

\* imu_monitor.rs, lines 119-137, and battery_monitor.rs, lines 88-90: however the
\* periods fall together, what a bundle says of a sensor it has heard of is not older
\* than its bound.
StaleBound == \A p \in Part \ {"motor"} : bundle[p].age \in 0..Bound(p) \cup {MaxAge}

\* motor_controller.rs, lines 73-141: although a full queue loses the report of a
\* change, Settling ticks later, and after a resumption, the bundles are right again
\* about whether the motors move.
MotorTruth == (~paused /\ steady >= Settling) => bundle["motor"].moving = moving

=============================================================================
