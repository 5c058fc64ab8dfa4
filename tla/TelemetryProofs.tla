-------------------------- MODULE TelemetryProofs --------------------------
(* For every depth of the channels, every period and every gap between two    *)
(* reports: a bundle is not older about a sensor than Bound, nor wrong about  *)
(* the motors for longer than Settling.                                       *)
EXTENDS Telemetry, SequenceTheorems, TLAPS

Sensor == Part \ {"motor"}

-----------------------------------------------------------------------------
(* The invariant *)

Queued(p) == Len(queue[p])

\* How long a sample has waited at most when it has come to place i: a period a place.
Slack(i) == (Depth - i) * Period

\* A sample loses a place with every bundle.
QueueInv == \A p \in Part : \A i \in 1..Queued(p) : queue[p][i].age <= phase + Slack(i)

\* Reports a bundle apart: two samples are queued only when a bundle is due.
RoomInv(p) ==
    Roomy(p) => /\ Queued(p) <= 2
                /\ Queued(p) = 1 => gap[p] <= phase
                /\ Queued(p) = 2 => gap[p] = 0 /\ phase = Period

\* The latest sample that was not dropped.
Newest(p) == IF Queued(p) = 0 THEN bundle[p] ELSE queue[p][Queued(p)]

\* How much older than the latest report it may be.
Silence(p) == IF Roomy(p) THEN 0 ELSE Period

NewestInv(p) == Newest(p).age = MaxAge \/ Newest(p).age <= gap[p] + Silence(p)

BundleInv(p) ==
    bundle[p].age = MaxAge
        \/ bundle[p].age <= Larger(Depth * Period, MaxGap[p] + Silence(p)) + phase

SensorInv(p) == RoomInv(p) /\ NewestInv(p) /\ BundleInv(p)

\* What is queued, latest and bundled of the motors is wrong only since a change that
\* is recent.
Wrong(sample) == sample.moving # moving

MotorInv ==
    /\ \A i \in 1..Queued("motor") : Wrong(queue["motor"][i]) => steady <= phase + Slack(i)
    /\ ~paused /\ Wrong(Newest("motor")) => steady <= gap["motor"] + Period
    /\ ~paused /\ Wrong(bundle["motor"]) =>
           steady <= Larger(Depth * Period, MaxGap["motor"] + Period) + phase

AgeInv == TypeOK /\ QueueInv /\ (\A p \in Sensor : SensorInv(p)) /\ MotorInv

-----------------------------------------------------------------------------
(* What the operators do *)

LEMMA Parts ==
    /\ "motor" \in Part
    /\ \A p \in Sensor : p \in Part /\ p # "motor"
    /\ \A p \in Part : MinGap[p] \in Nat /\ MaxGap[p] \in Nat
    /\ Depth \in Nat /\ Depth > 0 /\ Period \in Nat /\ Period > 0 /\ MaxAge \in Nat
  BY TelemetryAssumption DEF Part, Sensor

\* The products the bounds are made of.
LEMMA Slacks ==
    /\ \A i \in 1..Depth : Slack(i) \in Nat
    /\ Slack(Depth) = 0
    /\ Depth * Period \in Nat
    /\ Slack(1) + Period = Depth * Period
    /\ \A p \in Part : Silence(p) \in 0..Period
  <1>1. ASSUME NEW i \in 1..Depth
        PROVE  Slack(i) \in Nat
    <2>1. Depth - i \in Nat /\ Period \in Nat
      BY Parts
    <2>2. \A m, n \in Nat : m * n \in Nat
      OBVIOUS
    <2> QED
      BY <2>1, <2>2 DEF Slack
  <1>2. Slack(Depth) = 0
    BY Parts DEF Slack
  <1>3. Depth * Period \in Nat
    BY Parts
  <1>4. Slack(1) + Period = Depth * Period
    BY Parts DEF Slack
  <1> QED
    BY <1>1, <1>2, <1>3, <1>4, Parts DEF Silence

LEMMA SlackOfNext ==
    ASSUME NEW i \in Nat
    PROVE  Slack(i + 1) + Period = Slack(i)
  BY Parts DEF Slack

LEMMA Largest ==
    ASSUME NEW m \in Nat, NEW n \in Nat
    PROVE  Larger(m, n) \in Nat /\ m <= Larger(m, n) /\ n <= Larger(m, n)
  BY DEF Larger

\* A sample ages by a tick, or is as old as can be told.
LEMMA Aged ==
    ASSUME NEW s \in Sample
    PROVE  /\ Older(s) \in Sample
           /\ Older(s).moving = s.moving
           /\ Older(s).age <= s.age + 1
           /\ s.age = MaxAge => Older(s).age = MaxAge
           /\ s.age \in Nat /\ Older(s).age \in Nat
  BY Parts DEF Older, Sample

\* What the types say of a part.
LEMMA Typed ==
    ASSUME TypeOK, NEW p \in Part
    PROVE  /\ queue[p] \in Seq(Sample) /\ Queued(p) \in 0..Depth
           /\ \A i \in 1..Queued(p) : queue[p][i] \in Sample
           /\ bundle[p] \in Sample
           /\ gap[p] \in 0..MaxGap[p]
           /\ phase \in 0..Period
  <1>1. queue[p] \in Seq(Sample) /\ Queued(p) <= Depth /\ gap[p] \in Nat /\ gap[p] <= MaxGap[p]
    BY DEF TypeOK, Queued
  <1>2. \A i \in 1..Queued(p) : queue[p][i] \in Sample
    BY <1>1, ElementOfSeq DEF Queued
  <1> QED
    BY <1>1, <1>2, LenProperties, Parts DEF TypeOK, Queued

\* A channel that takes one more sample ...
Sent(p, sample) ==
    /\ Queued(p) < Depth
    /\ Queued(p)' = Queued(p) + 1
    /\ queue'[p][Queued(p) + 1] = sample
    /\ \A i \in 1..Queued(p) : queue'[p][i] = queue[p][i]

\* ... or drops it.
Dropped(p) == Queued(p) = Depth /\ queue'[p] = queue[p]

LEMMA Sending ==
    ASSUME TypeOK, NEW p \in Part, NEW sample \in Sample, TrySend(p, sample)
    PROVE  /\ queue' \in [Part -> Seq(Sample)]
           /\ \A q \in Part : Queued(q)' <= Depth
           /\ \A q \in Part : q # p => queue'[q] = queue[q]
           /\ Sent(p, sample) \/ Dropped(p)
  <1>1. queue \in [Part -> Seq(Sample)]
    BY DEF TypeOK
  <1>2. /\ \A q \in Part : q # p => queue'[q] = queue[q]
        /\ queue'[p] = IF Queued(p) < Depth THEN Append(queue[p], sample) ELSE queue[p]
    BY <1>1 DEF TrySend, Queued
  <1>3. queue[p] \in Seq(Sample) /\ Queued(p) \in 0..Depth
    BY Typed
  <1>4. /\ Append(queue[p], sample) \in Seq(Sample)
        /\ Len(Append(queue[p], sample)) = Queued(p) + 1
        /\ Append(queue[p], sample)[Queued(p) + 1] = sample
        /\ \A i \in 1..Queued(p) : Append(queue[p], sample)[i] = queue[p][i]
    BY <1>3, AppendProperties DEF Queued
  <1>5. queue' \in [Part -> Seq(Sample)]
    BY <1>1, <1>4 DEF TrySend
  <1>6. CASE Queued(p) < Depth
    <2>1. Sent(p, sample)
      BY <1>2, <1>4, <1>6 DEF Sent, Queued
    <2>2. Queued(p)' <= Depth
      BY <1>3, <1>6, <2>1, Parts DEF Sent
    <2>3. ASSUME NEW q \in Part, q # p
          PROVE  Queued(q)' <= Depth
      BY <1>2, <2>3 DEF TypeOK, Queued
    <2> QED
      BY <1>2, <1>5, <2>1, <2>2, <2>3
  <1>7. CASE ~(Queued(p) < Depth)
    <2>1. Dropped(p)
      BY <1>2, <1>3, <1>7, Parts DEF Dropped
    <2> QED
      BY <1>2, <1>5, <2>1 DEF Dropped, TypeOK, Queued
  <1> QED
    BY <1>6, <1>7

\* The aggregator takes the oldest sample of a queue that is not empty.
Taken(p) ==
    /\ Queued(p) > 0
    /\ bundle'[p] = queue[p][1]
    /\ Queued(p)' = Queued(p) - 1
    /\ \A i \in 1..Queued(p) - 1 : queue'[p][i] = queue[p][i + 1]

Nothing(p) ==
    /\ Queued(p) = 0
    /\ bundle'[p] = bundle[p]
    /\ Queued(p)' = 0

LEMMA Taking ==
    ASSUME TypeOK, NEW p \in Part, Aggregate
    PROVE  /\ queue'[p] \in Seq(Sample) /\ bundle'[p] \in Sample
           /\ Taken(p) \/ Nothing(p)
  <1>1. /\ bundle'[p] = IF Received(p) THEN Head(queue[p]) ELSE bundle[p]
        /\ queue'[p] = IF Received(p) THEN Tail(queue[p]) ELSE <<>>
    BY DEF Aggregate
  <1>2. queue[p] \in Seq(Sample) /\ bundle[p] \in Sample
    BY Typed
  <1>3. CASE queue[p] = <<>>
    <2>1. Queued(p) = 0 /\ queue'[p] = <<>> /\ bundle'[p] = bundle[p]
      BY <1>1, <1>3 DEF Received, Queued
    <2> QED
      BY <1>2, <1>3, <2>1 DEF Nothing, Queued
  <1>4. CASE queue[p] # <<>>
    <2>1. queue'[p] = Tail(queue[p]) /\ bundle'[p] = Head(queue[p])
      BY <1>1, <1>4 DEF Received
    <2>2. Queued(p) \in Nat \ {0}
      BY <1>2, <1>4, EmptySeq, LenProperties DEF Queued
    <2>3. /\ Head(queue[p]) \in Sample /\ Head(queue[p]) = queue[p][1]
          /\ Tail(queue[p]) \in Seq(Sample)
          /\ Len(Tail(queue[p])) = Queued(p) - 1
          /\ \A i \in 1..Len(Tail(queue[p])) : Tail(queue[p])[i] = queue[p][i + 1]
      BY <1>2, <1>4, HeadTailProperties, ElementOfSeq, <2>2 DEF Queued
    <2>4. Taken(p)
      BY <2>1, <2>2, <2>3 DEF Taken, Queued
    <2> QED
      BY <2>1, <2>3, <2>4
  <1> QED
    BY <1>3, <1>4

LEMMA CountedIsASeq == ASSUME NEW S, NEW n \in Nat, NEW s \in [1..n -> S] PROVE s \in Seq(S)
  BY SeqDef

\* A tick makes everything older.
LEMMA Ticking ==
    ASSUME TypeOK, NEW p \in Part, Tick
    PROVE  /\ queue'[p] \in Seq(Sample) /\ Queued(p)' = Queued(p)
           /\ \A i \in 1..Queued(p) : queue'[p][i] = Older(queue[p][i])
           /\ bundle'[p] = Older(bundle[p])
           /\ gap'[p] = IF p \in Running THEN gap[p] + 1 ELSE gap[p]
           /\ gap'[p] \in 0..MaxGap[p]
  <1>1. /\ queue'[p] = [i \in DOMAIN queue[p] |-> Older(queue[p][i])]
        /\ bundle'[p] = Older(bundle[p])
        /\ gap'[p] = IF p \in Running THEN gap[p] + 1 ELSE gap[p]
        /\ p \in Running => gap[p] < MaxGap[p]
    BY DEF Tick
  <1>2. /\ queue[p] \in Seq(Sample) /\ Queued(p) \in Nat
        /\ \A i \in 1..Queued(p) : queue[p][i] \in Sample
        /\ gap[p] \in 0..MaxGap[p] /\ MaxGap[p] \in Nat
    BY Typed, Parts
  <1>3. DOMAIN queue[p] = 1..Queued(p)
    BY <1>2, LenProperties DEF Queued
  <1>4. queue'[p] \in [1..Queued(p) -> Sample]
    BY <1>1, <1>2, <1>3, Aged
  <1>5. queue'[p] \in Seq(Sample) /\ Queued(p)' = Queued(p)
    <2>1. queue'[p] \in Seq(Sample)
      BY <1>2, <1>4, CountedIsASeq, Zenon
    <2>2. Len(queue'[p]) \in Nat /\ DOMAIN queue'[p] = 1..Len(queue'[p])
      BY <2>1, LenProperties
    <2>3. Len(queue'[p]) = Queued(p)
      BY <1>2, <1>4, <2>2
    <2> QED
      BY <2>1, <2>3 DEF Queued
  <1> QED
    BY <1>1, <1>2, <1>3, <1>5

-----------------------------------------------------------------------------
(* Every step keeps the invariant *)

LEMMA AgeStarts ==
    ASSUME Init
    PROVE  AgeInv
  <1>1. /\ queue = [p \in Part |-> <<>>]
        /\ bundle = [p \in Part |-> [age |-> MaxAge, moving |-> FALSE]]
        /\ gap = [p \in Part |-> 0] /\ phase = Period
        /\ moving = FALSE /\ paused = FALSE /\ steady = MaxAge
    BY DEF Init
  <1>2. \A p \in Part : /\ queue[p] = <<>> /\ Queued(p) = 0 /\ queue[p] \in Seq(Sample)
                        /\ bundle[p] = [age |-> MaxAge, moving |-> FALSE] /\ gap[p] = 0
    BY <1>1, EmptySeq DEF Queued
  <1>3. [age |-> MaxAge, moving |-> FALSE] \in Sample
    BY Parts DEF Sample
  <1>4. TypeOK
    <2>1. moving \in BOOLEAN /\ paused \in BOOLEAN
      BY <1>1
    <2>2. queue \in [Part -> Seq(Sample)] /\ bundle \in [Part -> Sample] /\ gap \in [Part -> Nat]
      BY <1>1, <1>3, EmptySeq
    <2> QED
      <3>1. \A p \in Part : Len(queue[p]) <= Depth /\ gap[p] <= MaxGap[p]
        BY <1>2, Parts DEF Queued
      <3>2. phase \in 0..Period /\ steady \in 0..MaxAge
        BY <1>1, Parts
      <3> QED
        BY <2>1, <2>2, <3>1, <3>2 DEF TypeOK
  <1>5. QueueInv
    BY <1>2 DEF QueueInv
  <1>6. ASSUME NEW p \in Sensor
        PROVE  SensorInv(p)
    <2>1. Queued(p) = 0 /\ bundle[p].age = MaxAge
      BY <1>2, Parts
    <2> QED
      BY <2>1 DEF SensorInv, RoomInv, NewestInv, BundleInv, Newest
  <1>7. MotorInv
    <2>1. Queued("motor") = 0 /\ bundle["motor"].moving = FALSE
      BY <1>2, Parts
    <2> QED
      <3>1. ~Wrong(bundle["motor"]) /\ Newest("motor") = bundle["motor"]
        BY <1>1, <2>1 DEF Wrong, Newest
      <3> QED
        BY <2>1, <3>1 DEF MotorInv
  <1> QED
    BY <1>4, <1>5, <1>6, <1>7 DEF AgeInv

\* A sensor of which nothing changes.
LEMMA SensorUntouched ==
    ASSUME NEW p \in Sensor, SensorInv(p), phase' = phase,
           queue'[p] = queue[p], bundle'[p] = bundle[p], gap'[p] = gap[p]
    PROVE  SensorInv(p)'
  BY DEF SensorInv, RoomInv, NewestInv, BundleInv, Newest, Queued

\* A report, or a change, takes a place in the queue behind samples that are older.
LEMMA SendKeepsQueueInv ==
    ASSUME AgeInv, NEW p \in Part, NEW sample \in Sample, sample.age = 0,
           TrySend(p, sample), phase' = phase
    PROVE  QueueInv'
  <1>1. TypeOK /\ QueueInv
    BY DEF AgeInv
  <1>2. /\ \A q \in Part : q # p => queue'[q] = queue[q]
        /\ Sent(p, sample) \/ Dropped(p)
    BY <1>1, Sending
  <1>3. ASSUME NEW i \in 1..Queued(p)'
        PROVE  queue'[p][i].age <= phase + Slack(i)
    <2>1. CASE Sent(p, sample)
      <3>1. Queued(p) \in Nat /\ phase \in Nat /\ i \in 1..Depth
        BY <1>1, <2>1, Typed, Parts DEF Sent
      <3>2. CASE i = Queued(p) + 1
        BY <2>1, <3>1, <3>2, Slacks DEF Sent
      <3>3. CASE i \in 1..Queued(p)
        BY <1>1, <2>1, <3>3 DEF Sent, QueueInv
      <3> QED
        BY <2>1, <3>1, <3>2, <3>3 DEF Sent
    <2>2. CASE Dropped(p)
      BY <1>1, <2>2 DEF Dropped, QueueInv, Queued
    <2> QED
      BY <1>2, <2>1, <2>2
  <1>4. ASSUME NEW q \in Part, q # p, NEW i \in 1..Queued(q)'
        PROVE  queue'[q][i].age <= phase + Slack(i)
    BY <1>1, <1>2, <1>4 DEF QueueInv, Queued
  <1> QED
    BY <1>3, <1>4 DEF QueueInv

\* A report drops nothing of a part that has room.
LEMMA ReportKeepsSensorInv ==
    ASSUME AgeInv, NEW p \in Sensor, Report(p)
    PROVE  SensorInv(p)'
  <1>1. /\ TypeOK /\ QueueInv /\ SensorInv(p) /\ p \in Part
        /\ gap[p] >= MinGap[p] /\ gap'[p] = 0 /\ phase' = phase /\ bundle'[p] = bundle[p]
    BY Parts DEF AgeInv, Report, TypeOK
  <1>2. New(p, moving) \in Sample /\ New(p, moving).age = 0
    BY Parts DEF New, Sample, AgeInv, TypeOK
  <1>3. Sent(p, New(p, moving)) \/ Dropped(p)
    BY <1>1, <1>2, Sending DEF Report
  <1>4. /\ Queued(p) \in 0..Depth /\ gap[p] \in Nat /\ phase \in 0..Period
        /\ MinGap[p] \in Nat /\ Depth \in Nat /\ Period \in Nat /\ Period > 0 /\ Depth > 0
    BY <1>1, Typed, Parts
  <1>5. ASSUME Roomy(p)
        PROVE  Depth >= 2 /\ (Queued(p) = 0 \/ (Queued(p) = 1 /\ phase = Period))
    <2>1. /\ Queued(p) <= 2
          /\ Queued(p) = 1 => gap[p] <= phase
          /\ Queued(p) = 2 => gap[p] = 0
      BY <1>1, <1>5 DEF SensorInv, RoomInv
    <2>2. Depth >= 2 /\ MinGap[p] >= Period
      BY <1>5 DEF Roomy
    <2> QED
      BY <1>1, <1>4, <2>1, <2>2
  <1>6. RoomInv(p)'
    <2>1. ASSUME Roomy(p)
          PROVE  /\ Queued(p)' = Queued(p) + 1
                 /\ Queued(p) = 0 \/ (Queued(p) = 1 /\ phase = Period)
      BY <1>3, <1>4, <1>5, <2>1 DEF Dropped, Sent
    <2>2. ASSUME Roomy(p)
          PROVE  /\ Queued(p)' <= 2
                 /\ Queued(p)' = 2 => phase = Period
      BY <2>1, <2>2
    <2> QED
      BY <1>1, <1>4, <2>2 DEF RoomInv, Roomy
  <1>7. NewestInv(p)'
    <2>1. CASE Sent(p, New(p, moving))
      <3>1. Newest(p)' = New(p, moving)
        BY <1>4, <2>1 DEF Newest, Sent
      <3>2. Silence(p)' = Silence(p) /\ Silence(p) \in Nat
        BY <1>1, <1>4, Slacks DEF Silence, Roomy
      <3> QED
        BY <1>1, <1>2, <3>1, <3>2 DEF NewestInv
    <2>2. CASE Dropped(p)
      <3>1. ~Roomy(p)
        BY <1>4, <1>5, <2>2 DEF Dropped
      <3>2. Queued(p) \in 1..Queued(p) /\ Slack(Queued(p)) = 0
        BY <1>4, <2>2, Slacks DEF Dropped
      <3>3. queue[p][Queued(p)].age <= phase + 0
        BY <1>1, <3>2 DEF QueueInv
      <3>4. queue[p][Queued(p)].age \in Nat
        BY <1>1, <3>2, Typed, Aged
      <3>5. Newest(p)' = queue[p][Queued(p)] /\ Silence(p)' = Period
        BY <2>2, <3>1, <3>2, <1>4 DEF Newest, Dropped, Silence, Roomy, Queued
      <3> QED
        BY <1>1, <1>4, <3>3, <3>4, <3>5 DEF NewestInv
    <2> QED
      BY <1>3, <2>1, <2>2
  <1>8. BundleInv(p)'
    BY <1>1 DEF SensorInv, BundleInv, Silence, Roomy
  <1> QED
    BY <1>6, <1>7, <1>8 DEF SensorInv

\* What the motors report now is right.
LEMMA MotorReportKeepsInv ==
    ASSUME AgeInv, Report("motor")
    PROVE  MotorInv'
  <1>1. /\ TypeOK /\ QueueInv /\ MotorInv /\ "motor" \in Part
        /\ gap'["motor"] = 0 /\ phase' = phase /\ bundle' = bundle
        /\ moving' = moving /\ paused' = paused /\ steady' = steady /\ ~paused
    BY Parts DEF AgeInv, Report, TypeOK
  <1>2. /\ New("motor", moving) \in Sample
        /\ New("motor", moving).moving = moving
    BY Parts DEF New, Sample, AgeInv, TypeOK
  <1>3. Sent("motor", New("motor", moving)) \/ Dropped("motor")
    BY <1>1, <1>2, Sending DEF Report
  <1>4. /\ Queued("motor") \in 0..Depth /\ phase \in 0..Period
        /\ Depth \in Nat /\ Period \in Nat /\ Period > 0 /\ Depth > 0
    BY <1>1, Typed, Parts
  <1>5. bundle'["motor"] = bundle["motor"] /\ (Wrong(bundle["motor"])' <=> Wrong(bundle["motor"]))
    BY <1>1 DEF Wrong
  <1>6. CASE Sent("motor", New("motor", moving))
    <2>1. ASSUME NEW i \in 1..Queued("motor")', Wrong(queue["motor"][i])'
          PROVE  steady <= phase + Slack(i)
      <3>1. i # Queued("motor") + 1
        BY <1>1, <1>2, <1>6, <2>1 DEF Sent, Wrong
      <3>2. i \in 1..Queued("motor")
        BY <1>4, <1>6, <3>1 DEF Sent
      <3>3. Wrong(queue["motor"][i])
        BY <1>1, <1>6, <2>1, <3>2 DEF Sent, Wrong
      <3> QED
        BY <1>1, <3>2, <3>3 DEF MotorInv
    <2>2. ~Wrong(Newest("motor"))'
      BY <1>1, <1>2, <1>4, <1>6 DEF Sent, Wrong, Newest
    <2> QED
      BY <1>1, <1>5, <2>1, <2>2 DEF MotorInv
  <1>7. CASE Dropped("motor")
    <2>1. Queued("motor") \in 1..Queued("motor") /\ Slack(Queued("motor")) = 0
      BY <1>4, <1>7, Slacks DEF Dropped
    <2>2. Wrong(Newest("motor"))' => steady <= phase + 0
      <3>1. Newest("motor")' = queue["motor"][Queued("motor")]
        BY <1>4, <1>7 DEF Newest, Dropped, Queued
      <3> QED
        BY <1>1, <2>1, <3>1 DEF MotorInv, Wrong
    <2>3. steady \in Nat
      BY <1>1, Parts DEF TypeOK
    <2>4. Wrong(Newest("motor"))' => steady <= 0 + Period
      BY <1>4, <2>2, <2>3
    <2>5. ASSUME NEW i \in 1..Queued("motor")
          PROVE  Wrong(queue["motor"][i])' => steady <= phase + Slack(i)
      BY <1>1, <1>7 DEF MotorInv, Wrong, Dropped
    <2> QED
      BY <1>1, <1>5, <1>7, <2>4, <2>5 DEF MotorInv, Dropped, Queued
  <1> QED
    BY <1>3, <1>6, <1>7

LEMMA ReportKeepsInv ==
    ASSUME AgeInv, NEW p \in Part, Report(p)
    PROVE  AgeInv'
  <1>1. /\ TypeOK /\ TrySend(p, New(p, moving)) /\ gap' = [gap EXCEPT ![p] = 0]
        /\ UNCHANGED <<bundle, phase, moving, paused, steady>>
    BY DEF AgeInv, Report
  <1>2. New(p, moving) \in Sample /\ New(p, moving).age = 0
    BY Parts DEF New, Sample, AgeInv, TypeOK
  <1>3. /\ queue' \in [Part -> Seq(Sample)]
        /\ \A q \in Part : Queued(q)' <= Depth
        /\ \A q \in Part : q # p => queue'[q] = queue[q]
    BY <1>1, <1>2, Sending
  <1>4. gap' \in [Part -> Nat] /\ \A q \in Part : gap'[q] <= MaxGap[q]
    BY <1>1, Parts DEF TypeOK
  <1>5. TypeOK'
    BY <1>1, <1>3, <1>4 DEF TypeOK, Queued
  <1>6. QueueInv'
    BY <1>1, <1>2, SendKeepsQueueInv
  <1>7. ASSUME NEW q \in Sensor
        PROVE  SensorInv(q)'
    <2>1. CASE q = p
      BY <2>1, ReportKeepsSensorInv
    <2>2. CASE q # p
      <3>1. SensorInv(q) /\ q \in Part
        BY Parts DEF AgeInv
      <3>2. queue'[q] = queue[q] /\ bundle'[q] = bundle[q] /\ gap'[q] = gap[q] /\ phase' = phase
        BY <1>1, <1>3, <2>2, <3>1 DEF TypeOK
      <3> QED
        BY <3>1, <3>2, SensorUntouched
    <2> QED
      BY <2>1, <2>2
  <1>8. MotorInv'
    <2>1. CASE p = "motor"
      BY <2>1, MotorReportKeepsInv
    <2>2. CASE p # "motor"
      <3>1. queue'["motor"] = queue["motor"] /\ gap'["motor"] = gap["motor"]
        BY <1>1, <1>3, <2>2, Parts DEF TypeOK
      <3> QED
        BY <1>1, <3>1 DEF AgeInv, MotorInv, Wrong, Newest, Queued
    <2> QED
      BY <2>1, <2>2
  <1> QED
    BY <1>5, <1>6, <1>7, <1>8 DEF AgeInv

\* A change is what nothing can be wrong about for long yet.
LEMMA ChangeKeepsMotorInv ==
    ASSUME TypeOK', steady' = 0
    PROVE  MotorInv'
  <1>1. /\ phase' \in Nat /\ Queued("motor")' \in 0..Depth
        /\ gap'["motor"] \in Nat
    BY Parts, LenProperties DEF TypeOK, Queued
  <1>2. \A i \in 1..Queued("motor")' : 0 <= phase' + Slack(i)
    BY <1>1, Slacks, Parts
  <1>3. 0 <= Larger(Depth * Period, MaxGap["motor"] + Period) + phase'
    <2>1. Depth * Period \in Nat /\ MaxGap["motor"] + Period \in Nat
      BY Slacks, Parts
    <2>2. Larger(Depth * Period, MaxGap["motor"] + Period) \in Nat
      BY <2>1, Largest
    <2> QED
      BY <1>1, <2>2
  <1> QED
    BY <1>1, <1>2, <1>3, Parts DEF MotorInv

LEMMA MotorChangesKeepsInv ==
    ASSUME AgeInv, MotorChanges
    PROVE  AgeInv'
  <1>1. /\ TypeOK /\ TrySend("motor", New("motor", moving')) /\ moving' \in BOOLEAN
        /\ gap' = [gap EXCEPT !["motor"] = 0] /\ steady' = 0
        /\ UNCHANGED <<bundle, phase, paused>>
    BY DEF AgeInv, MotorChanges, TypeOK
  <1>2. New("motor", moving') \in Sample /\ New("motor", moving').age = 0
    BY <1>1, Parts DEF New, Sample
  <1>3. /\ queue' \in [Part -> Seq(Sample)]
        /\ \A q \in Part : Queued(q)' <= Depth
        /\ \A q \in Part : q # "motor" => queue'[q] = queue[q]
    BY <1>1, <1>2, Sending, Parts
  <1>4. gap' \in [Part -> Nat] /\ \A q \in Part : gap'[q] <= MaxGap[q]
    BY <1>1, Parts DEF TypeOK
  <1>5. TypeOK'
    BY <1>1, <1>3, <1>4, Parts DEF TypeOK, Queued
  <1>6. QueueInv'
    BY <1>1, <1>2, SendKeepsQueueInv, Parts
  <1>7. ASSUME NEW q \in Sensor
        PROVE  SensorInv(q)'
    <2>1. SensorInv(q) /\ q \in Part /\ q # "motor"
      BY Parts DEF AgeInv
    <2>2. queue'[q] = queue[q] /\ bundle'[q] = bundle[q] /\ gap'[q] = gap[q] /\ phase' = phase
      BY <1>1, <1>3, <2>1 DEF TypeOK
    <2> QED
      BY <2>1, <2>2, SensorUntouched
  <1>8. MotorInv'
    BY <1>1, <1>5, ChangeKeepsMotorInv
  <1> QED
    BY <1>5, <1>6, <1>7, <1>8 DEF AgeInv

LEMMA OtaKeepsInv ==
    ASSUME AgeInv, PauseForOta \/ ResumeFromOta
    PROVE  AgeInv'
  <1>1. /\ TypeOK /\ queue' = queue /\ bundle' = bundle /\ phase' = phase /\ steady' = 0
        /\ moving' \in BOOLEAN /\ paused' \in BOOLEAN
        /\ gap' = gap \/ gap' = [gap EXCEPT !["motor"] = 0]
    BY DEF AgeInv, PauseForOta, ResumeFromOta, TypeOK
  <1>2. gap' \in [Part -> Nat] /\ \A q \in Part : gap'[q] <= MaxGap[q]
    <2>1. gap \in [Part -> Nat] /\ \A q \in Part : gap[q] <= MaxGap[q] /\ 0 <= MaxGap[q]
      BY <1>1, Parts DEF TypeOK
    <2>2. CASE gap' = gap
      BY <2>1, <2>2
    <2>3. CASE gap' = [gap EXCEPT !["motor"] = 0]
      BY <2>1, <2>3
    <2> QED
      BY <1>1, <2>2, <2>3
  <1>3. TypeOK'
    BY <1>1, <1>2, Parts DEF TypeOK
  <1>4. QueueInv'
    BY <1>1 DEF QueueInv, AgeInv, Queued
  <1>5. ASSUME NEW q \in Sensor
        PROVE  SensorInv(q)'
    <2>1. SensorInv(q) /\ q \in Part /\ q # "motor"
      BY Parts DEF AgeInv
    <2>2. gap'[q] = gap[q]
      BY <1>1, <2>1 DEF TypeOK
    <2> QED
      BY <1>1, <2>1, <2>2, SensorUntouched
  <1>6. MotorInv'
    BY <1>1, <1>3, ChangeKeepsMotorInv
  <1> QED
    BY <1>3, <1>4, <1>5, <1>6 DEF AgeInv

\* A bundle takes one sample of each part that has one.
LEMMA AggregateKeepsQueueInv ==
    ASSUME AgeInv, Aggregate
    PROVE  QueueInv'
  <1>1. TypeOK /\ QueueInv /\ phase = Period /\ phase' = 0
    BY DEF AgeInv, Aggregate
  <1>2. ASSUME NEW p \in Part, NEW i \in 1..Queued(p)'
        PROVE  queue'[p][i].age <= 0 + Slack(i)
    <2>1. Taken(p)
      BY <1>1, <1>2, Taking DEF Nothing
    <2>2. /\ Queued(p) \in 0..Depth /\ i \in Nat /\ i \in 1..Queued(p) - 1
          /\ i + 1 \in 1..Queued(p) /\ i \in 1..Depth
      BY <1>1, <1>2, <2>1, Typed, Parts DEF Taken
    <2>3. queue'[p][i] = queue[p][i + 1]
      BY <2>1, <2>2 DEF Taken
    <2>4. queue[p][i + 1].age <= Period + Slack(i + 1)
      BY <1>1, <2>2 DEF QueueInv
    <2>5. /\ queue[p][i + 1].age \in Nat /\ Slack(i) \in Nat /\ Period \in Nat
          /\ Slack(i + 1) = Slack(i) - Period
      <3>1. Slack(i + 1) \in Int /\ Slack(i) \in Int
        BY <2>2, Parts DEF Slack
      <3>2. queue[p][i + 1].age \in Nat /\ Slack(i + 1) + Period = Slack(i)
        BY <1>1, <2>2, Typed, Aged, SlackOfNext
      <3> QED
        BY <1>1, <2>2, <3>1, <3>2, Slacks, Parts
    <2> QED
      BY <2>3, <2>4, <2>5
  <1> QED
    BY <1>1, <1>2 DEF QueueInv, Queued

\* The oldest sample of a queue, when a bundle is due.
LEMMA Oldest ==
    ASSUME AgeInv, NEW p \in Part, phase = Period, Queued(p) > 0
    PROVE  queue[p][1].age \in Nat /\ queue[p][1].age <= Depth * Period
  <1>1. TypeOK /\ QueueInv /\ Queued(p) \in 0..Depth
    BY Typed DEF AgeInv
  <1>2. 1 \in 1..Queued(p)
    BY <1>1
  <1>3. queue[p][1].age <= Period + Slack(1) /\ queue[p][1].age \in Nat
    BY <1>1, <1>2, Typed, Aged DEF QueueInv
  <1> QED
    BY <1>3, Slacks, Parts DEF Slack

\* Taking the oldest sample leaves the latest where it is, or makes it the bundle.
LEMMA LatestStays ==
    ASSUME AgeInv, Aggregate, NEW p \in Part
    PROVE  /\ Newest(p)' = Newest(p)
           /\ Nothing(p) => bundle'[p] = Newest(p)
  <1>1. TypeOK /\ Queued(p) \in 0..Depth
    BY Typed DEF AgeInv
  <1>2. CASE Nothing(p)
    BY <1>2 DEF Nothing, Newest
  <1>3. CASE Taken(p)
    <2>1. Queued(p)' = Queued(p) - 1 /\ Queued(p) > 0
      BY <1>3 DEF Taken
    <2>2. CASE Queued(p) = 1
      BY <1>3, <2>1, <2>2 DEF Taken, Newest, Nothing
    <2>3. CASE Queued(p) > 1
      <3>1. Queued(p)' \in 1..Queued(p) - 1 /\ Queued(p)' + 1 = Queued(p)
        BY <1>1, <2>1, <2>3
      <3>2. queue'[p][Queued(p)'] = queue[p][Queued(p)' + 1]
        BY <1>3, <3>1 DEF Taken
      <3> QED
        BY <2>1, <2>3, <3>1, <3>2 DEF Newest, Nothing
    <2> QED
      BY <1>1, <2>1, <2>2, <2>3
  <1> QED
    BY <1>1, <1>2, <1>3, Taking

LEMMA AggregateKeepsSensorInv ==
    ASSUME AgeInv, Aggregate, NEW p \in Sensor
    PROVE  SensorInv(p)'
  <1>1. /\ TypeOK /\ SensorInv(p) /\ p \in Part
        /\ phase = Period /\ phase' = 0 /\ gap' = gap
    BY Parts DEF AgeInv, Aggregate
  <1>2. /\ Queued(p) \in 0..Depth /\ gap[p] \in 0..MaxGap[p] /\ MaxGap[p] \in Nat
        /\ Depth \in Nat /\ Period \in Nat /\ Period > 0
    BY <1>1, Typed, Parts
  <1>3. /\ gap'[p] = gap[p] /\ Silence(p)' = Silence(p) /\ Silence(p) \in Nat
    BY <1>1, <1>2, Slacks DEF Silence, Roomy
  <1>4. Taken(p) \/ Nothing(p)
    BY <1>1, Taking
  <1>5. RoomInv(p)'
    <2>1. Queued(p)' = IF Queued(p) = 0 THEN 0 ELSE Queued(p) - 1
      BY <1>2, <1>4 DEF Taken, Nothing
    <2>2. ASSUME Roomy(p)
          PROVE  /\ Queued(p)' <= 2
                 /\ Queued(p)' = 1 => gap[p] = 0
                 /\ Queued(p)' # 2
      <3>1. Queued(p) <= 2 /\ (Queued(p) = 2 => gap[p] = 0)
        BY <1>1, <2>2 DEF SensorInv, RoomInv
      <3> QED
        BY <1>2, <2>1, <3>1
    <2> QED
      BY <1>1, <1>3, <2>2 DEF RoomInv, Roomy
  <1>6. NewestInv(p)'
    BY <1>1, <1>3, LatestStays DEF SensorInv, NewestInv
  <1>7. BundleInv(p)'
    <2>1. /\ Depth * Period \in Nat /\ MaxGap[p] + Silence(p) \in Nat
          /\ Depth * Period <= Larger(Depth * Period, MaxGap[p] + Silence(p))
          /\ MaxGap[p] + Silence(p) <= Larger(Depth * Period, MaxGap[p] + Silence(p))
          /\ Larger(Depth * Period, MaxGap[p] + Silence(p)) \in Nat
      <3>1. Depth * Period \in Nat /\ MaxGap[p] + Silence(p) \in Nat
        BY <1>2, <1>3, Slacks
      <3> QED
        BY <3>1, Largest
    <2>2. CASE Taken(p)
      <3>1. bundle'[p] = queue[p][1] /\ Queued(p) > 0
        BY <2>2 DEF Taken
      <3>2. bundle'[p].age \in Nat /\ bundle'[p].age <= Depth * Period
        BY <1>1, <3>1, Oldest
      <3>3. bundle'[p].age <= Larger(Depth * Period, MaxGap[p] + Silence(p)) + 0
        BY <2>1, <3>2
      <3> QED
        BY <1>1, <1>3, <3>3 DEF BundleInv
    <2>3. CASE Nothing(p)
      <3>1. bundle'[p] = Newest(p) /\ bundle'[p].age \in Nat
        BY <1>1, <2>3, LatestStays, Typed, Aged DEF Nothing
      <3>2. bundle'[p].age = MaxAge \/ bundle'[p].age <= gap[p] + Silence(p)
        BY <1>1, <3>1 DEF SensorInv, NewestInv
      <3>3. bundle'[p].age = MaxAge
                \/ bundle'[p].age <= Larger(Depth * Period, MaxGap[p] + Silence(p)) + 0
        BY <1>2, <1>3, <2>1, <3>1, <3>2
      <3> QED
        BY <1>1, <1>3, <3>3 DEF BundleInv
    <2> QED
      BY <1>4, <2>2, <2>3
  <1> QED
    BY <1>5, <1>6, <1>7 DEF SensorInv

LEMMA AggregateKeepsMotorInv ==
    ASSUME AgeInv, Aggregate
    PROVE  MotorInv'
  <1>1. /\ TypeOK /\ MotorInv /\ "motor" \in Part /\ phase = Period /\ phase' = 0
        /\ gap' = gap /\ moving' = moving /\ paused' = paused /\ steady' = steady
    BY Parts DEF AgeInv, Aggregate
  <1>2. /\ Queued("motor") \in 0..Depth /\ gap["motor"] \in 0..MaxGap["motor"]
        /\ MaxGap["motor"] \in Nat /\ Depth \in Nat /\ Period \in Nat /\ Period > 0
        /\ steady \in Nat
    BY <1>1, Typed, Parts DEF TypeOK
  <1>3. Taken("motor") \/ Nothing("motor")
    BY <1>1, Taking
  <1>4. ASSUME NEW i \in 1..Queued("motor")', Wrong(queue["motor"][i])'
        PROVE  steady <= 0 + Slack(i)
    <2>1. Taken("motor")
      BY <1>3, <1>4 DEF Nothing
    <2>2. i \in Nat /\ i + 1 \in 1..Queued("motor") /\ i \in 1..Queued("motor") - 1
      BY <1>2, <1>4, <2>1 DEF Taken
    <2>3. Wrong(queue["motor"][i + 1])
      BY <1>1, <1>4, <2>1, <2>2 DEF Taken, Wrong
    <2>4. steady <= Period + Slack(i + 1)
      BY <1>1, <2>2, <2>3 DEF MotorInv
    <2>5. Slack(i + 1) \in Int /\ Slack(i) \in Int /\ Slack(i + 1) + Period = Slack(i)
      BY <2>2, SlackOfNext, Parts DEF Slack
    <2> QED
      BY <1>2, <2>4, <2>5
  <1>5. ASSUME ~paused, Wrong(Newest("motor"))'
        PROVE  steady <= gap["motor"] + Period
    BY <1>1, <1>5, LatestStays DEF MotorInv, Wrong
  <1>6. ASSUME ~paused, Wrong(bundle["motor"])'
        PROVE  steady <= Larger(Depth * Period, MaxGap["motor"] + Period) + 0
    <2>1. /\ Depth * Period \in Nat /\ MaxGap["motor"] + Period \in Nat
          /\ Depth * Period <= Larger(Depth * Period, MaxGap["motor"] + Period)
          /\ MaxGap["motor"] + Period <= Larger(Depth * Period, MaxGap["motor"] + Period)
          /\ Larger(Depth * Period, MaxGap["motor"] + Period) \in Nat
      <3>1. Depth * Period \in Nat /\ MaxGap["motor"] + Period \in Nat
        BY <1>2, Slacks
      <3> QED
        BY <3>1, Largest
    <2>2. CASE Taken("motor")
      <3>1. bundle'["motor"] = queue["motor"][1] /\ 1 \in 1..Queued("motor")
        BY <1>2, <2>2 DEF Taken
      <3>2. Wrong(queue["motor"][1])
        BY <1>1, <1>6, <3>1 DEF Wrong
      <3>3. steady <= Period + Slack(1)
        BY <1>1, <3>1, <3>2 DEF MotorInv
      <3>4. Slack(1) \in Int /\ Slack(1) + Period = Depth * Period
        BY Slacks, Parts DEF Slack
      <3> QED
        BY <1>2, <2>1, <3>3, <3>4
    <2>3. CASE Nothing("motor")
      <3>1. bundle'["motor"] = Newest("motor")
        BY <1>1, <2>3, LatestStays
      <3>2. Wrong(Newest("motor"))
        BY <1>1, <1>6, <3>1 DEF Wrong
      <3>3. steady <= gap["motor"] + Period
        BY <1>1, <1>6, <3>2 DEF MotorInv
      <3> QED
        BY <1>2, <2>1, <3>3
    <2> QED
      BY <1>3, <2>2, <2>3
  <1> QED
    BY <1>1, <1>4, <1>5, <1>6 DEF MotorInv

LEMMA AggregateKeepsInv ==
    ASSUME AgeInv, Aggregate
    PROVE  AgeInv'
  <1>1. /\ TypeOK /\ phase' = 0 /\ UNCHANGED <<gap, moving, paused, steady>>
        /\ queue' = [p \in Part |-> IF Received(p) THEN Tail(queue[p]) ELSE <<>>]
        /\ bundle' = [p \in Part |-> IF Received(p) THEN Head(queue[p]) ELSE bundle[p]]
    BY DEF AgeInv, Aggregate
  <1>2. ASSUME NEW p \in Part
        PROVE  queue'[p] \in Seq(Sample) /\ bundle'[p] \in Sample /\ Queued(p)' <= Depth
    <2>1. queue'[p] \in Seq(Sample) /\ bundle'[p] \in Sample /\ (Taken(p) \/ Nothing(p))
      BY <1>1, Taking
    <2>2. Queued(p) \in 0..Depth
      BY <1>1, Typed
    <2> QED
      BY <2>1, <2>2, Parts DEF Taken, Nothing
  <1>3. TypeOK'
    <2>1. queue' \in [Part -> Seq(Sample)] /\ bundle' \in [Part -> Sample]
      BY <1>1, <1>2
    <2>2. \A p \in Part : Len(queue'[p]) <= Depth
      BY <1>2 DEF Queued
    <2> QED
      BY <1>1, <2>1, <2>2, Parts DEF TypeOK
  <1> QED
    BY <1>3, AggregateKeepsQueueInv, AggregateKeepsSensorInv, AggregateKeepsMotorInv DEF AgeInv

-----------------------------------------------------------------------------
(* ... and so does time *)

\* The latest sample ages where it is.
LEMMA LatestAges ==
    ASSUME AgeInv, Tick, NEW p \in Part
    PROVE  /\ Newest(p) \in Sample /\ Newest(p)' = Older(Newest(p))
           /\ Queued(p)' = Queued(p)
  <1>1. TypeOK /\ Queued(p) \in 0..Depth
    BY Typed DEF AgeInv
  <1>2. Queued(p)' = Queued(p)
    BY <1>1, Ticking
  <1>3. CASE Queued(p) = 0
    BY <1>1, <1>2, <1>3, Ticking, Typed DEF Newest
  <1>4. CASE Queued(p) # 0
    <2>1. Queued(p) \in 1..Queued(p)
      BY <1>1, <1>4
    <2> QED
      BY <1>1, <1>2, <1>4, <2>1, Ticking, Typed DEF Newest
  <1> QED
    BY <1>2, <1>3, <1>4

LEMMA TickKeepsQueueInv ==
    ASSUME AgeInv, Tick
    PROVE  QueueInv'
  <1>1. TypeOK /\ QueueInv /\ phase' = phase + 1 /\ phase \in Nat
    BY Parts DEF AgeInv, Tick, TypeOK
  <1>2. ASSUME NEW p \in Part, NEW i \in 1..Queued(p)'
        PROVE  queue'[p][i].age <= phase + 1 + Slack(i)
    <2>1. /\ Queued(p) \in 0..Depth /\ i \in 1..Queued(p)
          /\ queue[p][i] \in Sample /\ queue'[p][i] = Older(queue[p][i])
      BY <1>1, <1>2, Ticking, Typed
    <2>2. i \in 1..Depth
      BY <2>1, Parts
    <2>3. queue[p][i].age <= phase + Slack(i)
      BY <1>1, <2>1 DEF QueueInv
    <2>4. Slack(i) \in Nat
      BY <2>2, Slacks
    <2> QED
      BY <1>1, <2>1, <2>3, <2>4, Aged
  <1> QED
    BY <1>1, <1>2 DEF QueueInv, Queued

LEMMA TickKeepsSensorInv ==
    ASSUME AgeInv, Tick, NEW p \in Sensor
    PROVE  SensorInv(p)'
  <1>1. /\ TypeOK /\ SensorInv(p) /\ p \in Part /\ p \in Running
        /\ phase < Period /\ phase' = phase + 1
    BY Parts DEF AgeInv, Tick, Running
  <1>2. /\ Queued(p) \in 0..Depth /\ gap[p] \in Nat /\ phase \in Nat
        /\ MaxGap[p] \in Nat /\ Period \in Nat
        /\ bundle[p] \in Sample /\ gap'[p] = gap[p] + 1 /\ bundle'[p] = Older(bundle[p])
    BY <1>1, Typed, Ticking, Parts
  <1>3. /\ Newest(p) \in Sample /\ Newest(p)' = Older(Newest(p)) /\ Queued(p)' = Queued(p)
    BY <1>1, LatestAges
  <1>4. Silence(p)' = Silence(p) /\ Silence(p) \in Nat
    BY <1>1, Slacks, Parts DEF Silence, Roomy
  <1>5. RoomInv(p)'
    <2>1. ASSUME Roomy(p)
          PROVE  /\ Queued(p) <= 2 /\ Queued(p) # 2
                 /\ Queued(p) = 1 => gap[p] + 1 <= phase + 1
      <3>1. /\ Queued(p) <= 2 /\ (Queued(p) = 2 => phase = Period)
            /\ Queued(p) = 1 => gap[p] <= phase
        BY <1>1, <2>1 DEF SensorInv, RoomInv
      <3> QED
        BY <1>1, <1>2, <3>1
    <2> QED
      BY <1>1, <1>2, <1>3, <2>1 DEF RoomInv, Roomy
  <1>6. NewestInv(p)'
    <2>1. /\ Newest(p).age \in Nat /\ Older(Newest(p)).age \in Nat
          /\ Older(Newest(p)).age <= Newest(p).age + 1
          /\ Newest(p).age = MaxAge => Older(Newest(p)).age = MaxAge
      BY <1>3, Aged
    <2>2. Newest(p).age = MaxAge \/ Newest(p).age <= gap[p] + Silence(p)
      BY <1>1 DEF SensorInv, NewestInv
    <2>3. Older(Newest(p)).age = MaxAge \/ Older(Newest(p)).age <= gap[p] + 1 + Silence(p)
      BY <1>2, <1>4, <2>1, <2>2
    <2> QED
      BY <1>2, <1>3, <1>4, <2>3 DEF NewestInv
  <1>7. BundleInv(p)'
    <2> DEFINE L == Larger(Depth * Period, MaxGap[p] + Silence(p))
    <2>1. L \in Nat
      <3>1. Depth * Period \in Nat /\ MaxGap[p] + Silence(p) \in Nat
        BY <1>2, <1>4, Slacks
      <3> QED
        BY <3>1, Largest
    <2>2. L' = L
      BY <1>4
    <2>3. bundle[p].age = MaxAge \/ bundle[p].age <= L + phase
      BY <1>1 DEF SensorInv, BundleInv
    <2>4. /\ bundle[p].age \in Nat /\ Older(bundle[p]).age \in Nat
          /\ Older(bundle[p]).age <= bundle[p].age + 1
          /\ bundle[p].age = MaxAge => Older(bundle[p]).age = MaxAge
      BY <1>2, Aged
    <2> HIDE DEF L
    <2>5. Older(bundle[p]).age = MaxAge \/ Older(bundle[p]).age <= L + (phase + 1)
      BY <1>2, <2>1, <2>3, <2>4
    <2> QED
      BY <1>1, <1>2, <1>4, <2>5 DEF BundleInv, L
  <1> QED
    BY <1>5, <1>6, <1>7 DEF SensorInv

LEMMA TickKeepsMotorInv ==
    ASSUME AgeInv, Tick
    PROVE  MotorInv'
  <1>1. /\ TypeOK /\ MotorInv /\ "motor" \in Part
        /\ phase' = phase + 1 /\ moving' = moving /\ paused' = paused
        /\ steady \in Nat /\ steady' \in Nat /\ steady' <= steady + 1
    BY Parts DEF AgeInv, Tick, TypeOK
  <1>2. /\ Queued("motor") \in 0..Depth /\ gap["motor"] \in Nat /\ phase \in Nat
        /\ MaxGap["motor"] \in Nat /\ Period \in Nat
        /\ bundle["motor"] \in Sample /\ bundle'["motor"] = Older(bundle["motor"])
        /\ ~paused => gap'["motor"] = gap["motor"] + 1
    BY <1>1, Typed, Ticking, Parts DEF Running
  <1>3. /\ Newest("motor") \in Sample /\ Newest("motor")' = Older(Newest("motor"))
        /\ Queued("motor")' = Queued("motor")
    BY <1>1, LatestAges
  <1>4. ASSUME NEW i \in 1..Queued("motor")', Wrong(queue["motor"][i])'
        PROVE  steady' <= phase + 1 + Slack(i)
    <2>1. /\ i \in 1..Queued("motor") /\ queue["motor"][i] \in Sample
          /\ queue'["motor"][i] = Older(queue["motor"][i])
      BY <1>1, <1>3, <1>4, Ticking, Typed
    <2>2. Wrong(queue["motor"][i])
      BY <1>1, <1>4, <2>1, Aged DEF Wrong
    <2>3. steady <= phase + Slack(i)
      BY <1>1, <2>1, <2>2 DEF MotorInv
    <2>4. Slack(i) \in Nat
      <3>1. i \in 1..Depth
        BY <1>2, <2>1, Parts
      <3> QED
        BY <3>1, Slacks
    <2> QED
      BY <1>1, <1>2, <2>3, <2>4
  <1>5. ASSUME ~paused, Wrong(Newest("motor"))'
        PROVE  steady' <= gap'["motor"] + Period
    <2>1. Wrong(Newest("motor"))
      BY <1>1, <1>3, <1>5, Aged DEF Wrong
    <2>2. steady <= gap["motor"] + Period
      BY <1>1, <1>5, <2>1 DEF MotorInv
    <2> QED
      BY <1>1, <1>2, <1>5, <2>2
  <1>6. ASSUME ~paused, Wrong(bundle["motor"])'
        PROVE  steady' <= Larger(Depth * Period, MaxGap["motor"] + Period) + (phase + 1)
    <2>1. Larger(Depth * Period, MaxGap["motor"] + Period) \in Nat
      <3>1. Depth * Period \in Nat /\ MaxGap["motor"] + Period \in Nat
        BY <1>2, Slacks
      <3> QED
        BY <3>1, Largest
    <2>2. Wrong(bundle["motor"])
      BY <1>1, <1>2, <1>6, Aged DEF Wrong
    <2>3. steady <= Larger(Depth * Period, MaxGap["motor"] + Period) + phase
      BY <1>1, <1>6, <2>2 DEF MotorInv
    <2> QED
      BY <1>1, <1>2, <2>1, <2>3
  <1> QED
    BY <1>1, <1>4, <1>5, <1>6 DEF MotorInv

LEMMA TickKeepsInv ==
    ASSUME AgeInv, Tick
    PROVE  AgeInv'
  <1>1. /\ TypeOK /\ phase < Period /\ phase' = phase + 1 /\ UNCHANGED <<moving, paused>>
        /\ steady' = IF steady < MaxAge THEN steady + 1 ELSE MaxAge
        /\ gap' = [p \in Part |-> IF p \in Running THEN gap[p] + 1 ELSE gap[p]]
        /\ bundle' = [p \in Part |-> Older(bundle[p])]
        /\ queue' = [p \in Part |-> [i \in DOMAIN queue[p] |-> Older(queue[p][i])]]
    BY DEF AgeInv, Tick
  <1>2. ASSUME NEW p \in Part
        PROVE  /\ queue'[p] \in Seq(Sample) /\ bundle'[p] \in Sample /\ Queued(p)' <= Depth
               /\ gap'[p] \in Nat /\ gap'[p] <= MaxGap[p]
    <2>1. /\ queue'[p] \in Seq(Sample) /\ Queued(p)' = Queued(p) /\ bundle'[p] = Older(bundle[p])
          /\ gap'[p] \in 0..MaxGap[p]
      BY <1>1, Ticking
    <2>2. Queued(p) \in 0..Depth /\ bundle[p] \in Sample
      BY <1>1, Typed
    <2> QED
      BY <2>1, <2>2, Aged, Parts
  <1>3. TypeOK'
    <2>1. /\ queue' \in [Part -> Seq(Sample)] /\ bundle' \in [Part -> Sample]
          /\ gap' \in [Part -> Nat]
      BY <1>1, <1>2
    <2>2. \A p \in Part : Len(queue'[p]) <= Depth /\ gap'[p] <= MaxGap[p]
      BY <1>2 DEF Queued
    <2>3. phase' \in 0..Period /\ steady' \in 0..MaxAge
      BY <1>1, Parts DEF TypeOK
    <2> QED
      BY <1>1, <2>1, <2>2, <2>3 DEF TypeOK
  <1> QED
    BY <1>3, TickKeepsQueueInv, TickKeepsSensorInv, TickKeepsMotorInv DEF AgeInv

-----------------------------------------------------------------------------
\* However reports, bundles, changes and updates interleave, what is queued has waited
\* one period a place at most, and the latest sample is known by its part's last report.
THEOREM AgeInvariance == Spec => []AgeInv
  <1>1. Init => AgeInv
    BY AgeStarts
  <1>2. AgeInv /\ [Next]_vars => AgeInv'
    <2> SUFFICES ASSUME AgeInv, [Next]_vars
                 PROVE  AgeInv'
      OBVIOUS
    <2>1. ASSUME NEW p \in Part, Report(p)
          PROVE  AgeInv'
      BY <2>1, ReportKeepsInv
    <2>2. CASE MotorChanges
      BY <2>2, MotorChangesKeepsInv
    <2>3. CASE PauseForOta \/ ResumeFromOta
      BY <2>3, OtaKeepsInv
    <2>4. CASE Aggregate
      BY <2>4, AggregateKeepsInv
    <2>5. CASE Tick
      BY <2>5, TickKeepsInv
    <2>6. CASE UNCHANGED vars
      BY <2>6 DEF vars, AgeInv, TypeOK, QueueInv, SensorInv, RoomInv, NewestInv, BundleInv,
             MotorInv, Newest, Wrong, Queued
    <2> QED
      BY <2>1, <2>2, <2>3, <2>4, <2>5, <2>6 DEF Next
  <1> QED
    BY <1>1, <1>2, PTL DEF Spec

\* imu_monitor.rs, lines 119-137, and battery_monitor.rs, lines 88-90: for every depth,
\* period and gap, what a bundle says of a sensor is not older than its bound.
THEOREM BundlesAreFresh == Spec => []StaleBound
  <1>1. AgeInv => StaleBound
    <2> SUFFICES ASSUME AgeInv, NEW p \in Part \ {"motor"}
                 PROVE  bundle[p].age \in 0..Bound(p) \cup {MaxAge}
      BY DEF StaleBound
    <2>1. SensorInv(p) /\ TypeOK /\ p \in Part
      BY DEF AgeInv, Sensor
    <2>2. /\ phase \in 0..Period /\ Period \in Nat /\ bundle[p].age \in Nat
          /\ MaxGap[p] \in Nat /\ Silence(p) \in Nat
      BY <2>1, Typed, Aged, Parts, Slacks
    <2>3. Larger(Depth * Period, MaxGap[p] + Silence(p)) \in Nat
      <3>1. Depth * Period \in Nat /\ MaxGap[p] + Silence(p) \in Nat
        BY <2>2, Slacks
      <3> QED
        BY <3>1, Largest
    <2>4. Bound(p) = Larger(Depth * Period, MaxGap[p] + Silence(p)) + Period
      BY DEF Bound, Silence
    <2>5. bundle[p].age = MaxAge
              \/ bundle[p].age <= Larger(Depth * Period, MaxGap[p] + Silence(p)) + phase
      BY <2>1 DEF SensorInv, BundleInv
    <2> QED
      BY <2>2, <2>3, <2>4, <2>5
  <1> QED
    BY <1>1, AgeInvariance, PTL

\* motor_controller.rs, lines 73-141: for every depth, period and gap, a change of the
\* motors is in the bundles Settling ticks later, although its report may be dropped.
THEOREM BundlesAreRightAboutMotors == Spec => []MotorTruth
  <1>1. AgeInv => MotorTruth
    <2> SUFFICES ASSUME AgeInv, ~paused, steady >= Settling, bundle["motor"].moving # moving
                 PROVE  FALSE
      BY DEF MotorTruth
    <2>1. MotorInv /\ TypeOK
      BY DEF AgeInv
    <2>2. phase \in 0..Period /\ Period \in Nat /\ MaxGap["motor"] \in Nat /\ steady \in Nat
      BY <2>1, Parts DEF TypeOK
    <2>3. Larger(Depth * Period, MaxGap["motor"] + Period) \in Nat
      <3>1. Depth * Period \in Nat /\ MaxGap["motor"] + Period \in Nat
        BY <2>2, Slacks
      <3> QED
        BY <3>1, Largest
    <2>4. steady <= Larger(Depth * Period, MaxGap["motor"] + Period) + phase
      BY <2>1 DEF MotorInv, Wrong
    <2> QED
      BY <2>2, <2>3, <2>4 DEF Settling
  <1> QED
    BY <1>1, AgeInvariance, PTL

=============================================================================
