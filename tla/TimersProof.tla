----------------------------- MODULE TimersProof -----------------------------
(***************************************************************************)
(* Proofs about the intervals of the firmware, for every width of the      *)
(* counter and all intervals that fit it.                                  *)
(***************************************************************************)
EXTENDS Timers, TLAPS

(* The reading `since' was taken `age' milliseconds ago, and the counter   *)
(* has not come round since.                                               *)
Tracks(since, age) ==
  /\ age \in 0..(WRAP - 1)
  /\ clock = (since + age) % WRAP

Tracked ==
  /\ Tracks(now, ran)
  /\ Tracks(lastSensorPoll, sincePoll) /\ Tracks(lastStatusNotify, sinceNotify)
  /\ alarmActive => Tracks(stepStartedAt, sinceStep)

(* What is stored was read before this iteration, until it is replaced.    *)
Stored ==
  /\ pc \in {"update", "poll"} => sincePoll >= ran
  /\ pc \in {"update", "poll", "notify"} => sinceNotify >= ran

(* The bound on an age: the interval was not over at the last reading that *)
(* it was compared with.                                                   *)
Limit(interval) ==
  (IF booted THEN interval ELSE MaxBoot + 1) + ran + (IF pc = "loop" THEN 0 ELSE MaxIteration)

InTime ==
  /\ sincePoll < IF pc = "notify" THEN SENSOR_POLL_INTERVAL_MS + ran
                                  ELSE Limit(SENSOR_POLL_INTERVAL_MS)
  /\ sinceNotify < Limit(STATUS_NOTIFY_INTERVAL_MS)
  /\ alarmActive =>
       sinceStep < durations[step] + ran + (IF pc = "update" THEN MaxIteration ELSE 0)

IInv == TypeOK /\ Tracked /\ Stored /\ InTime

-----------------------------------------------------------------------------
(* The arithmetic of the counter.                                          *)

LEMMA Wraps ==
  ASSUME NEW n \in 0..(2 * WRAP - 1)
  PROVE  n % WRAP = IF n < WRAP THEN n ELSE n - WRAP
  BY WrapAssumption

LEMMA WrapsBelow ==
  ASSUME NEW n \in (1 - WRAP)..(WRAP - 1)
  PROVE  n % WRAP = IF n >= 0 THEN n ELSE n + WRAP
  BY WrapAssumption

(* The difference of two readings is the difference of their ages.         *)
LEMMA ElapsedIsAge ==
  ASSUME NEW t \in 0..(WRAP - 1), NEW since \in 0..(WRAP - 1),
         NEW c \in 0..(WRAP - 1), NEW young \in 0..(WRAP - 1), NEW age \in 0..(WRAP - 1),
         c = (t + young) % WRAP, c = (since + age) % WRAP, young <= age
  PROVE  Elapsed(t, since) = age - young
<1>1. c = IF t + young < WRAP THEN t + young ELSE t + young - WRAP
  BY WrapAssumption, Wraps
<1>2. c = IF since + age < WRAP THEN since + age ELSE since + age - WRAP
  BY WrapAssumption, Wraps
<1>3. Elapsed(t, since) = IF t - since >= 0 THEN t - since ELSE t - since + WRAP
  BY WrapAssumption, WrapsBelow DEF Elapsed
<1> QED
  BY <1>1, <1>2, <1>3, WrapAssumption

(* A reading of the clock itself.                                          *)
LEMMA ElapsedSince ==
  ASSUME clock \in 0..(WRAP - 1), NEW since \in 0..(WRAP - 1), NEW age,
         Tracks(since, age)
  PROVE  Elapsed(clock, since) = age
<1>1. clock = (clock + 0) % WRAP /\ 0 \in 0..(WRAP - 1)
  BY WrapAssumption, Wraps
<1>2. age \in 0..(WRAP - 1) /\ clock = (since + age) % WRAP /\ 0 <= age
  BY DEF Tracks
<1>3. Elapsed(clock, since) = age - 0
  BY <1>1, <1>2, ElapsedIsAge
<1> QED
  BY <1>2, <1>3

LEMMA TracksOn ==
  ASSUME clock \in 0..(WRAP - 1), NEW since \in 0..(WRAP - 1), NEW age, Tracks(since, age),
         clock' = (clock + 1) % WRAP, age + 1 < WRAP
  PROVE  age + 1 \in 0..(WRAP - 1) /\ clock' = (since + (age + 1)) % WRAP
<1>1. age \in 0..(WRAP - 1) /\ clock = (since + age) % WRAP
  BY DEF Tracks
<1>2. clock = IF since + age < WRAP THEN since + age ELSE since + age - WRAP
  BY <1>1, WrapAssumption, Wraps
<1>3. clock' = IF clock + 1 < WRAP THEN clock + 1 ELSE clock + 1 - WRAP
  BY WrapAssumption, Wraps
<1>4. (since + (age + 1)) % WRAP
        = IF since + (age + 1) < WRAP THEN since + (age + 1) ELSE since + (age + 1) - WRAP
  BY <1>1, WrapAssumption, Wraps
<1> QED
  BY <1>1, <1>2, <1>3, <1>4, WrapAssumption

(* A reading just taken.                                                   *)
LEMMA TracksNow == clock \in 0..(WRAP - 1) => Tracks(clock, 0)
  BY WrapAssumption, Wraps DEF Tracks

-----------------------------------------------------------------------------
(* The bounds, on the number line.                                         *)
LEMMA InRange ==
  ASSUME IInv
  PROVE  /\ ran \in 0..MaxIteration
         /\ sincePoll \in Nat /\ sincePoll < WRAP /\ sinceNotify \in Nat /\ sinceNotify < WRAP
         /\ ran < MaxIteration =>
              /\ ran + 1 < WRAP /\ sincePoll + 1 < WRAP /\ sinceNotify + 1 < WRAP
              /\ alarmActive => sinceStep + 1 < WRAP
<1>1. TypeOK /\ InTime
  BY DEF IInv
<1>2. durations[step] \in Nat /\ durations[step] + 2 * MaxIteration <= WRAP
  BY <1>1, IntervalAssumption, WrapAssumption DEF TypeOK
<1> QED
  BY <1>1, <1>2, IntervalAssumption, WrapAssumption DEF TypeOK, InTime, Limit

LEMMA InitIInv == Init => IInv
<1> SUFFICES ASSUME Init PROVE IInv
  OBVIOUS
<1>1. clock \in 0..(WRAP - 1) /\ clock < MaxBoot + 1
  BY WrapAssumption DEF Init
<1>2. TypeOK
  <2>1. 0 \in 0..(WRAP - 1) /\ 0 \in 0..MaxIteration /\ clock \in Nat
    BY <1>1, WrapAssumption
  <2>2. alarmActive \in BOOLEAN /\ booted \in BOOLEAN
    BY DEF Init
  <2> QED
    BY <1>1, <2>1, <2>2 DEF Init, TypeOK
<1>3. Tracked
  <2>1. Tracks(clock, 0)
    BY <1>1, TracksNow
  <2>2. Tracks(0, clock)
    BY <1>1, WrapAssumption, Wraps DEF Tracks
  <2> QED
    BY <2>1, <2>2 DEF Init, Tracked
<1>4. Stored
  BY DEF Init, Stored
<1>5. InTime
  <2>1. /\ pc = "loop" /\ booted = FALSE /\ ran = 0 /\ alarmActive = FALSE
        /\ sincePoll = clock /\ sinceNotify = clock
    BY DEF Init
  <2> QED
    BY <1>1, <2>1, WrapAssumption DEF InTime, Limit
<1> QED
  BY <1>2, <1>3, <1>4, <1>5 DEF IInv

LEMMA TickStep == ASSUME IInv, Tick PROVE IInv'
<1>1. TypeOK /\ Tracked /\ Stored /\ InTime
  BY DEF IInv
<1>2. /\ clock \in 0..(WRAP - 1) /\ now \in 0..(WRAP - 1) /\ lastSensorPoll \in 0..(WRAP - 1)
      /\ lastStatusNotify \in 0..(WRAP - 1) /\ stepStartedAt \in 0..(WRAP - 1)
  BY <1>1 DEF TypeOK
<1>3. /\ ran + 1 < WRAP /\ sincePoll + 1 < WRAP /\ sinceNotify + 1 < WRAP
      /\ alarmActive => sinceStep + 1 < WRAP
  BY InRange DEF Tick
<1>4. clock' \in 0..(WRAP - 1)
  BY <1>2, WrapAssumption, Wraps DEF Tick
<1>5. TypeOK'
  BY <1>1, <1>4, WrapAssumption DEF TypeOK, Tick
<1>6. Tracked'
  <2>1. Tracks(now, ran)'
    BY <1>1, <1>2, <1>3, TracksOn DEF Tracked, Tick, Tracks
  <2>2. Tracks(lastSensorPoll, sincePoll)'
    BY <1>1, <1>2, <1>3, TracksOn DEF Tracked, Tick, Tracks
  <2>3. Tracks(lastStatusNotify, sinceNotify)'
    BY <1>1, <1>2, <1>3, TracksOn DEF Tracked, Tick, Tracks
  <2>4. alarmActive' => Tracks(stepStartedAt, sinceStep)'
    BY <1>1, <1>2, <1>3, TracksOn DEF Tracked, Tick, Tracks
  <2> QED
    BY <2>1, <2>2, <2>3, <2>4 DEF Tracked
<1>7. Stored'
  BY <1>1 DEF Stored, Tick, TypeOK
<1>8. InTime'
  <2>1. durations[step] \in Nat
    BY <1>1, IntervalAssumption DEF TypeOK
  <2> QED
    BY <1>1, <2>1, IntervalAssumption, WrapAssumption DEF InTime, Limit, Tick, TypeOK
<1> QED
  BY <1>5, <1>6, <1>7, <1>8 DEF IInv

LEMMA LoopStep == ASSUME IInv, Loop PROVE IInv'
<1>1. TypeOK /\ Tracked /\ Stored /\ InTime
  BY DEF IInv
<1>2. /\ pc = "loop" /\ pc' = "update" /\ now' = clock /\ ran' = 0
      /\ UNCHANGED <<clock, booted, alarmActive, step, stepStartedAt, sinceStep,
                     lastSensorPoll, sincePoll, lastStatusNotify, sinceNotify>>
  BY DEF Loop, buzzer, poll, notify
<1>3. TypeOK'
  BY <1>1, <1>2, WrapAssumption DEF TypeOK
<1>4. Tracked'
  <2>1. Tracks(clock, 0)
    BY <1>1, TracksNow DEF TypeOK
  <2> QED
    BY <1>1, <1>2, <2>1 DEF Tracked, Tracks
<1>5. Stored'
  BY <1>1, <1>2 DEF Stored, TypeOK
<1>6. InTime'
  <2>1. durations[step] \in Nat
    BY <1>1, IntervalAssumption DEF TypeOK
  <2> QED
    BY <1>1, <1>2, <2>1, IntervalAssumption, WrapAssumption DEF InTime, Limit, TypeOK
<1> QED
  BY <1>3, <1>4, <1>5, <1>6 DEF IInv

(* The four comparisons, read on the number line.                          *)
LEMMA StepIsOver ==
  ASSUME IInv, alarmActive
  PROVE  IsOver(clock, stepStartedAt, durations[step]) <=> sinceStep >= durations[step]
<1>1. Elapsed(clock, stepStartedAt) = sinceStep
  BY ElapsedSince DEF IInv, Tracked, TypeOK
<1> QED
  BY <1>1 DEF IsOver

LEMMA PollIsOver ==
  ASSUME IInv, pc = "poll"
  PROVE  IsOver(now, lastSensorPoll, SENSOR_POLL_INTERVAL_MS)
           <=> sincePoll - ran >= SENSOR_POLL_INTERVAL_MS
<1>1. Elapsed(now, lastSensorPoll) = sincePoll - ran
  BY ElapsedIsAge DEF IInv, Tracked, Tracks, Stored, TypeOK
<1> QED
  BY <1>1 DEF IsOver

LEMMA NotifyIsOver ==
  ASSUME IInv, pc = "notify"
  PROVE  IsOver(now, lastStatusNotify, STATUS_NOTIFY_INTERVAL_MS)
           <=> sinceNotify - ran >= STATUS_NOTIFY_INTERVAL_MS
<1>1. Elapsed(now, lastStatusNotify) = sinceNotify - ran
  BY ElapsedIsAge DEF IInv, Tracked, Tracks, Stored, TypeOK
<1> QED
  BY <1>1 DEF IsOver

LEMMA UpdateStep == ASSUME IInv, Update PROVE IInv'
<1>1. TypeOK /\ Tracked /\ Stored /\ InTime
  BY DEF IInv
<1>2. /\ pc = "update" /\ pc' = "poll"
      /\ UNCHANGED <<clock, now, ran, booted, lastSensorPoll, sincePoll,
                     lastStatusNotify, sinceNotify>>
  BY DEF Update, poll, notify
<1>3. /\ durations[step] \in Nat \ {0} /\ (step + 1) % 4 \in 0..3
      /\ durations[(step + 1) % 4] \in Nat \ {0}
  BY <1>1, IntervalAssumption DEF TypeOK
<1>4. Stored'
  BY <1>1, <1>2 DEF Stored
<1>5. CASE alarmActive /\ IsOver(clock, stepStartedAt, durations[step])
  <2>1. /\ step' = (step + 1) % 4 /\ stepStartedAt' = clock /\ sinceStep' = 0
        /\ UNCHANGED alarmActive
    BY <1>5 DEF Update
  <2>2. TypeOK'
    BY <1>1, <1>2, <1>3, <2>1 DEF TypeOK
  <2>3. Tracked'
    <3>1. Tracks(clock, 0)
      BY <1>1, TracksNow DEF TypeOK
    <3> QED
      BY <1>1, <1>2, <2>1, <3>1 DEF Tracked, Tracks
  <2>4. InTime'
    BY <1>1, <1>2, <1>3, <2>1, WrapAssumption DEF InTime, Limit, TypeOK
  <2> QED
    BY <1>4, <2>2, <2>3, <2>4 DEF IInv
<1>6. CASE ~(alarmActive /\ IsOver(clock, stepStartedAt, durations[step]))
  <2>1. UNCHANGED <<alarmActive, step, stepStartedAt, sinceStep>>
    BY <1>6 DEF Update, buzzer
  <2>2. TypeOK' /\ Tracked'
    BY <1>1, <1>2, <2>1 DEF TypeOK, Tracked, Tracks
  <2>3. alarmActive => sinceStep < durations[step]
    BY <1>1, <1>3, <1>6, StepIsOver DEF TypeOK
  <2>4. InTime'
    BY <1>1, <1>2, <1>3, <2>1, <2>3, WrapAssumption DEF InTime, Limit, TypeOK
  <2> QED
    BY <1>4, <2>2, <2>4 DEF IInv
<1> QED
  BY <1>5, <1>6

LEMMA PollStep == ASSUME IInv, PollSensors PROVE IInv'
<1>1. TypeOK /\ Tracked /\ Stored /\ InTime
  BY DEF IInv
<1>2. /\ pc = "poll" /\ pc' = "notify"
      /\ UNCHANGED <<clock, now, ran, booted, lastStatusNotify, sinceNotify>>
  BY DEF PollSensors, notify
<1>3. UNCHANGED buzzer \/ SetAlarmActive
  BY DEF PollSensors
<1>4. \/ lastSensorPoll' = now /\ sincePoll' = ran
      \/ UNCHANGED <<lastSensorPoll, sincePoll>> /\ sincePoll - ran < SENSOR_POLL_INTERVAL_MS
  BY <1>1, <1>2, PollIsOver, IntervalAssumption DEF PollSensors, poll, TypeOK
<1>5. /\ durations[step] \in Nat \ {0} /\ durations[0] \in Nat \ {0}
  BY <1>1, IntervalAssumption DEF TypeOK
<1>6. TypeOK'
  <2>1. /\ alarmActive' \in BOOLEAN /\ step' \in 0..3 /\ stepStartedAt' \in 0..(WRAP - 1)
        /\ sinceStep' \in Nat
    <3>1. CASE UNCHANGED buzzer
      BY <1>1, <3>1 DEF TypeOK, buzzer
    <3>2. CASE SetAlarmActive
      BY <1>1, <3>2 DEF TypeOK, SetAlarmActive
    <3> QED
      BY <1>3, <3>1, <3>2
  <2>2. lastSensorPoll' \in 0..(WRAP - 1) /\ sincePoll' \in Nat
    BY <1>1, <1>4 DEF TypeOK
  <2> QED
    BY <1>1, <1>2, <2>1, <2>2 DEF TypeOK
<1>7. Tracked'
  <2>1. Tracks(now, ran)' /\ Tracks(lastStatusNotify, sinceNotify)'
    BY <1>1, <1>2 DEF Tracked, Tracks
  <2>2. Tracks(lastSensorPoll, sincePoll)'
    BY <1>1, <1>2, <1>4 DEF Tracked, Tracks
  <2>3. alarmActive' => Tracks(stepStartedAt, sinceStep)'
    <3>1. Tracks(clock, 0)
      BY <1>1, TracksNow DEF TypeOK
    <3> QED
      BY <1>1, <1>2, <1>3, <3>1 DEF Tracked, Tracks, buzzer, SetAlarmActive
  <2> QED
    BY <2>1, <2>2, <2>3 DEF Tracked
<1>8. Stored'
  BY <1>1, <1>2 DEF Stored
<1>9. InTime'
  <2>1. sincePoll' < SENSOR_POLL_INTERVAL_MS + ran
    BY <1>1, <1>4, IntervalAssumption, WrapAssumption DEF TypeOK
  <2>2. alarmActive' => sinceStep' < durations[step'] + ran
    <3>1. CASE UNCHANGED buzzer
      BY <1>1, <1>2, <1>5, <3>1 DEF InTime, TypeOK, buzzer
    <3>2. CASE SetAlarmActive
      BY <1>1, <1>2, <1>5, <3>2 DEF TypeOK, SetAlarmActive
    <3> QED
      BY <1>3, <3>1, <3>2
  <2>3. sinceNotify' < Limit(STATUS_NOTIFY_INTERVAL_MS)'
    BY <1>1, <1>2 DEF InTime, Limit
  <2>4. sincePoll' < IF pc' = "notify" THEN SENSOR_POLL_INTERVAL_MS + ran'
                                       ELSE Limit(SENSOR_POLL_INTERVAL_MS)'
    BY <1>2, <2>1
  <2>5. alarmActive' => sinceStep' < durations[step'] + ran'
                                     + (IF pc' = "update" THEN MaxIteration ELSE 0)
    <3>1. durations[step'] + ran + 0 = durations[step'] + ran
      BY <1>6, <1>1, IntervalAssumption DEF TypeOK
    <3> QED
      BY <1>2, <2>2, <3>1
  <2> QED
    BY <2>3, <2>4, <2>5 DEF InTime
<1> QED
  BY <1>6, <1>7, <1>8, <1>9 DEF IInv

LEMMA NotifyStep == ASSUME IInv, NotifyStatus PROVE IInv'
<1>1. TypeOK /\ Tracked /\ Stored /\ InTime
  BY DEF IInv
<1>2. /\ pc = "notify" /\ pc' = "loop" /\ booted' = TRUE
      /\ UNCHANGED <<clock, now, ran, alarmActive, step, stepStartedAt, sinceStep,
                     lastSensorPoll, sincePoll>>
  BY DEF NotifyStatus, poll, buzzer
<1>3. \/ lastStatusNotify' = now /\ sinceNotify' = ran
      \/ /\ UNCHANGED <<lastStatusNotify, sinceNotify>>
         /\ sinceNotify - ran < STATUS_NOTIFY_INTERVAL_MS
  BY <1>1, <1>2, NotifyIsOver, IntervalAssumption DEF NotifyStatus, notify, TypeOK
<1>4. TypeOK'
  <2>1. lastStatusNotify' \in 0..(WRAP - 1) /\ sinceNotify' \in Nat
    BY <1>1, <1>3 DEF TypeOK
  <2> QED
    BY <1>1, <1>2, <2>1 DEF TypeOK
<1>5. Tracked'
  BY <1>1, <1>2, <1>3 DEF Tracked, Tracks
<1>6. Stored'
  BY <1>2 DEF Stored
<1>7. InTime'
  <2>1. sinceNotify' < STATUS_NOTIFY_INTERVAL_MS + ran
    BY <1>1, <1>3, IntervalAssumption, WrapAssumption DEF TypeOK
  <2> QED
    BY <1>1, <1>2, <2>1, WrapAssumption, IntervalAssumption DEF InTime, Limit, TypeOK
<1> QED
  BY <1>4, <1>5, <1>6, <1>7 DEF IInv

LEMMA StopStep == ASSUME IInv, Stop PROVE IInv'
<1>1. TypeOK /\ Tracked /\ Stored /\ InTime
  BY DEF IInv
<1>2. /\ alarmActive' = FALSE /\ step' = 0 /\ sinceStep' = 0
      /\ UNCHANGED <<clock, pc, now, ran, booted, stepStartedAt, lastSensorPoll, sincePoll,
                     lastStatusNotify, sinceNotify>>
  BY DEF Stop, poll, notify
<1>3. TypeOK'
  <2>1. alarmActive' \in BOOLEAN
    BY <1>2
  <2>2. step' \in 0..3 /\ sinceStep' \in Nat
    BY <1>2
  <2> QED
    BY <1>1, <1>2, <2>1, <2>2 DEF TypeOK
<1>4. Tracked' /\ Stored'
  BY <1>1, <1>2 DEF Tracked, Tracks, Stored
<1>5. InTime'
  BY <1>1, <1>2 DEF InTime, Limit
<1> QED
  BY <1>3, <1>4, <1>5 DEF IInv

LEMMA Stutters == ASSUME IInv, UNCHANGED vars PROVE IInv'
  BY DEF IInv, TypeOK, Tracked, Tracks, Stored, InTime, Limit, vars, buzzer, poll, notify

LEMMA Inductive == Spec => []IInv
<1>1. Init => IInv
  BY InitIInv
<1>2. IInv /\ [Next]_vars => IInv'
  BY TickStep, LoopStep, UpdateStep, PollStep, NotifyStep, StopStep, Stutters DEF Next
<1> QED
  BY <1>1, <1>2, PTL DEF Spec

-----------------------------------------------------------------------------
(* The theorems.                                                           *)

(* Types.                                                                  *)
THEOREM TimersTypeCorrect == Spec => []TypeOK
<1>1. IInv => TypeOK
  BY DEF IInv
<1> QED
  BY <1>1, Inductive, PTL

(* Once loop() runs, an interval is exceeded by less than two iterations.  *)
THEOREM IntervalsEnd == Spec => []NeverLate
<1>1. IInv => NeverLate
  <2> SUFFICES ASSUME IInv PROVE NeverLate
    OBVIOUS
  <2>1. TypeOK /\ InTime /\ durations[step] \in Nat
    BY IntervalAssumption DEF IInv, TypeOK
  <2> QED
    BY <2>1, IntervalAssumption, WrapAssumption DEF NeverLate, InTime, Limit, TypeOK
<1> QED
  BY <1>1, Inductive, PTL

(* No interval is cut short.                                               *)
THEOREM IntervalsPass == Spec => NeverEarly
<1> DEFINE Early ==
      /\ lastSensorPoll' # lastSensorPoll => sincePoll - ran >= SENSOR_POLL_INTERVAL_MS
      /\ lastStatusNotify' # lastStatusNotify =>
           sinceNotify - ran >= STATUS_NOTIFY_INTERVAL_MS
      /\ alarmActive /\ alarmActive' /\ step' # step => sinceStep >= durations[step]
<1>1. IInv /\ [Next]_vars => [Early]_vars
  <2> SUFFICES ASSUME IInv, Next PROVE Early
    OBVIOUS
  <2>1. CASE Tick \/ Loop \/ Stop
    BY <2>1 DEF Tick, Loop, Stop, buzzer, poll, notify
  <2>2. CASE Update
    BY <2>2, StepIsOver DEF Update, buzzer, poll, notify
  <2>3. CASE PollSensors
    BY <2>3, PollIsOver DEF PollSensors, SetAlarmActive, buzzer, poll, notify
  <2>4. CASE NotifyStatus
    BY <2>4, NotifyIsOver DEF NotifyStatus, buzzer, poll, notify
  <2> QED
    BY <2>1, <2>2, <2>3, <2>4 DEF Next
<1> QED
  BY <1>1, Inductive, PTL DEF Spec, NeverEarly
=============================================================================
