------------------------------- MODULE Timers -------------------------------
(***************************************************************************)
(* The intervals of the firmware, against a clock that wraps: the sensor   *)
(* poll and the status line of loop() (SmartDrawerAlarm.ino) and the tone  *)
(* pattern of the buzzer (alarm_buzzer.cpp).                               *)
(*                                                                         *)
(* millis() is a 32-bit counter, and an interval is over when the          *)
(* difference to a stored reading, modulo 2^32, has reached it.  loop()    *)
(* takes one reading for the poll and the status line, and stores it;      *)
(* the buzzer takes its own.  What poll, status line and commands do       *)
(* otherwise is in SmartDrawerAlarm, where an interval may be over at any  *)
(* time; here the host task only stops the buzzer.                         *)
(*                                                                         *)
(* Time passes a millisecond at a time.  The ages since..., and booted,    *)
(* are histories, and the ages do not wrap.                                *)
(***************************************************************************)
EXTENDS Integers

CONSTANTS
  WRAP,                        \* millis() counts modulo this, which is 2^32
  SENSOR_POLL_INTERVAL_MS,
  STATUS_NOTIFY_INTERVAL_MS,
  durations,                   \* of the four steps of the tone pattern
  MaxIteration,   \* bound: milliseconds between two readings by loop()
  MaxBoot         \* bound: milliseconds before the first one

ASSUME IntervalAssumption ==
  /\ SENSOR_POLL_INTERVAL_MS \in Nat \ {0}
  /\ STATUS_NOTIFY_INTERVAL_MS \in Nat \ {0}
  /\ durations \in [0..3 -> Nat \ {0}]

(* No interval, nor setup(), comes near the 49.7 days of the clock.        *)
ASSUME WrapAssumption ==
  /\ WRAP \in Nat /\ MaxIteration \in Nat /\ MaxBoot \in Nat
  /\ SENSOR_POLL_INTERVAL_MS + 2 * MaxIteration <= WRAP
  /\ STATUS_NOTIFY_INTERVAL_MS + 2 * MaxIteration <= WRAP
  /\ \A s \in 0..3 : durations[s] + 2 * MaxIteration <= WRAP
  /\ MaxBoot + 2 * MaxIteration < WRAP

VARIABLES
  clock,              \* what millis() returns
  pc,                 \* where loop() is
  now,                \* the reading of this iteration
  lastSensorPoll,
  lastStatusNotify,
  alarmActive,        \* buzzer.alarmActive
  step,               \* buzzer.step
  stepStartedAt,      \* buzzer.stepStartedAt
  ran,                \* milliseconds since that reading
  sincePoll,          \* since the reading stored in lastSensorPoll,
  sinceNotify,        \* in lastStatusNotify,
  sinceStep,          \* and in stepStartedAt, while the buzzer plays
  booted              \* the first iteration is over

buzzer == <<alarmActive, step, stepStartedAt, sinceStep>>
poll   == <<lastSensorPoll, sincePoll>>
notify == <<lastStatusNotify, sinceNotify>>
vars   == <<clock, pc, now, ran, booted, buzzer, poll, notify>>

-----------------------------------------------------------------------------
(* Mutant of Elapsed: no modulus.                                          *)
ElapsedMutant(t, since) == t - since

(* Unsigned subtraction.                                                   *)
Elapsed(t, since) == (t - since) % WRAP

(* Mutant of IsOver: the moment at which the interval ends is compared.    *)
IsOverMutant(t, since, interval) == t >= (since + interval) % WRAP

IsOver(t, since, interval) == Elapsed(t, since) >= interval

(* A millisecond passes, at any point of an iteration.                     *)
Tick ==
  /\ ran < MaxIteration
  /\ clock' = (clock + 1) % WRAP
  /\ ran' = ran + 1
  /\ sincePoll' = sincePoll + 1 /\ sinceNotify' = sinceNotify + 1
  /\ sinceStep' = IF alarmActive THEN sinceStep + 1 ELSE sinceStep
  /\ UNCHANGED <<pc, now, booted, lastSensorPoll, lastStatusNotify, alarmActive,
                 step, stepStartedAt>>

Loop ==
  /\ pc = "loop" /\ pc' = "update"
  /\ now' = clock /\ ran' = 0
  /\ UNCHANGED <<clock, booted, buzzer, poll, notify>>

(* buzzer.update().                                                        *)
Update ==
  /\ pc = "update" /\ pc' = "poll"
  /\ IF alarmActive /\ IsOver(clock, stepStartedAt, durations[step])
     THEN /\ step' = (step + 1) % 4
          /\ stepStartedAt' = clock /\ sinceStep' = 0
          /\ UNCHANGED alarmActive
     ELSE UNCHANGED buzzer
  /\ UNCHANGED <<clock, now, ran, booted, poll, notify>>

(* buzzer.setAlarmActive(true), which keeps a pattern that plays.          *)
SetAlarmActive ==
  /\ ~alarmActive
  /\ alarmActive' = TRUE /\ step' = 0
  /\ stepStartedAt' = clock /\ sinceStep' = 0

(* A poll may trigger the alarm.                                           *)
PollSensors ==
  /\ pc = "poll" /\ pc' = "notify"
  /\ IF IsOver(now, lastSensorPoll, SENSOR_POLL_INTERVAL_MS)
     THEN /\ lastSensorPoll' = now /\ sincePoll' = ran
          /\ SetAlarmActive \/ UNCHANGED buzzer
     ELSE UNCHANGED <<poll, buzzer>>
  /\ UNCHANGED <<clock, now, ran, booted, notify>>

NotifyStatus ==
  /\ pc = "notify" /\ pc' = "loop"
  /\ IF IsOver(now, lastStatusNotify, STATUS_NOTIFY_INTERVAL_MS)
     THEN lastStatusNotify' = now /\ sinceNotify' = ran
     ELSE UNCHANGED notify
  /\ booted' = TRUE
  /\ UNCHANGED <<clock, now, ran, buzzer, poll>>

(* buzzer.stop(), called by a command: stepStartedAt is left as it is.     *)
Stop ==
  /\ alarmActive' = FALSE /\ step' = 0 /\ sinceStep' = 0
  /\ UNCHANGED <<clock, pc, now, ran, booted, stepStartedAt, poll, notify>>

(* setup() is over.                                                        *)
Init ==
  /\ clock \in 0..MaxBoot
  /\ pc = "loop" /\ now = clock /\ ran = 0 /\ booted = FALSE
  /\ lastSensorPoll = 0 /\ sincePoll = clock
  /\ lastStatusNotify = 0 /\ sinceNotify = clock
  /\ alarmActive = FALSE /\ step = 0 /\ stepStartedAt = 0 /\ sinceStep = 0

Next == Tick \/ Loop \/ Update \/ PollSensors \/ NotifyStatus \/ Stop

Spec == Init /\ [][Next]_vars

-----------------------------------------------------------------------------
(* What holds.                                                             *)

(* Types.                                                                  *)
TypeOK ==
  /\ {clock, now, lastSensorPoll, lastStatusNotify, stepStartedAt} \subseteq 0..(WRAP - 1)
  /\ pc \in {"loop", "update", "poll", "notify"}
  /\ alarmActive \in BOOLEAN /\ booted \in BOOLEAN /\ step \in 0..3
  /\ ran \in 0..MaxIteration
  /\ {sincePoll, sinceNotify, sinceStep} \subseteq Nat

(* No interval is cut short, wherever the counter wraps: at least 80 ms    *)
(* pass from poll to poll, 1000 ms from status line to status line, and    *)
(* each tone and pause plays out.                                          *)
NeverEarly ==
  [][/\ lastSensorPoll' # lastSensorPoll => sincePoll - ran >= SENSOR_POLL_INTERVAL_MS
     /\ lastStatusNotify' # lastStatusNotify =>
          sinceNotify - ran >= STATUS_NOTIFY_INTERVAL_MS
     /\ alarmActive /\ alarmActive' /\ step' # step => sinceStep >= durations[step]]_vars

(* And none is drawn out, by a wrap of the counter or by a stored reading  *)
(* that is older than it: once loop() runs, an interval is exceeded by     *)
(* less than two iterations.                                               *)
NeverLate ==
  /\ booted => /\ sincePoll < SENSOR_POLL_INTERVAL_MS + 2 * MaxIteration
               /\ sinceNotify < STATUS_NOTIFY_INTERVAL_MS + 2 * MaxIteration
  /\ alarmActive => sinceStep < durations[step] + 2 * MaxIteration
=============================================================================
