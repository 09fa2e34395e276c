------------------------------ MODULE Sensors ------------------------------
(***************************************************************************)
(* The sensors of the firmware (ldr_sensor.cpp, accel_sensor.cpp) and the  *)
(* two tasks that use them: setup() and pollSensors() on the Arduino loop  *)
(* task, and on the NimBLE host task the commands that calibrate, of which *)
(* ARM is one.  The light, the movement and the failures of the I2C bus    *)
(* are those of the environment.                                           *)
(*                                                                         *)
(* A step reads one LDR (the average of the ADC samples is one value) or is*)
(* one half of an access to the accelerometer: the transfer, which fills   *)
(* the one buffer of Wire, and the reads from that buffer.  A calibration  *)
(* and a poll take many steps and may interleave; a transfer of one task   *)
(* between the halves of the other garbles what both of them read.  The    *)
(* security state changes in single steps; SmartDrawerAlarm splits them.   *)
(*                                                                         *)
(* External: Wire does a transfer as a whole, under its lock.              *)
(***************************************************************************)
EXTENDS Integers, Sequences, FiniteSets

CONSTANTS
  LDR_COUNT, LIGHT_VOTE_REQUIRED, LIGHT_THRESHOLD_DELTA,
  MOTION_CALIBRATION_SAMPLES, MOTION_THRESHOLD_RAW,
  Levels,        \* the light levels
  Noisy,         \* LDRs that read anything
  Place,         \* where each LDR is: those at one place see the same light
  Magnitudes,    \* the magnitudes of the acceleration, none of them 0
  Garbled,       \* the magnitudes of axes put together from two transfers
  Bus            \* what answers at each I2C address

Ldrs    == 1..LDR_COUNT
Accel   == 0
Sources == Ldrs \cup {Accel}
Places  == {Place[n] : n \in Ldrs \ Noisy}
Known   == {"LIS3DSH", "H3LIS331DL", "LIS3DH_COMPATIBLE"}
Answers == Known \cup {"other", "absent"}

ASSUME LdrAssumption == LDR_COUNT \in Nat \ {0} /\ LIGHT_VOTE_REQUIRED \in Nat
ASSUME NoisyAssumption == Noisy \subseteq Ldrs /\ Cardinality(Noisy) < LIGHT_VOTE_REQUIRED
ASSUME LightAssumption == Levels \subseteq Nat /\ LIGHT_THRESHOLD_DELTA \in Nat \ {0}
ASSUME PlaceAssumption == Place \in [Ldrs -> Nat]
ASSUME MotionAssumption ==
  /\ Magnitudes \subseteq Nat \ {0} /\ MOTION_THRESHOLD_RAW \in Nat \ {0}
  /\ MOTION_CALIBRATION_SAMPLES \in Nat \ {0}
  /\ Garbled \subseteq Nat /\ Garbled # {}
ASSUME BusAssumption == Bus \in Seq(Answers)

VARIABLES
  light,               \* the light at each place
  magnitude,           \* the acceleration
  awake,               \* the accelerometer has got its configuration
  baseline,            \* ldrSensors.baseline
  detectedAddress, detectedType, baselineMagnitude,   \* of motionSensor
  currentState,        \* security.currentState
  \* The calibrating task: setup() at first, then the host task.
  job,                 \* what it does
  calPc, calIndex,     \* where it is
  sum, validSamples,   \* the samples of MotionSensor::calibrate
  \* The loop task.
  pollPc, pollIndex,   \* where pollSensors() is
  voteCount, motionDetected,   \* the readings so far
  \* Wire: the magnitude its buffer holds, and whether a transfer has come
  \* while the other task was at its reads.
  buffer, mixed,
  \* A history: the sensors whose input has changed since what their baseline
  \* tells; whether "light" or "motion" had so when this poll began, or has
  \* changed since; a movement since the first sample of the calibration; and
  \* what tells nothing, being from mixed reads or without a sample: a
  \* "sample" of the calibration under way, the "baseline", or what the
  \* "poll" has compared.
  changed, pollChanged, sampleMoved, worthless

environment == <<light, magnitude>>
ldr         == <<baseline>>
accel       == <<awake, detectedAddress, detectedType, baselineMagnitude>>
calibration == <<job, calPc, calIndex, sum, validSamples>>
reading     == <<voteCount, motionDetected>>
poll        == <<pollPc, pollIndex, reading>>
wire        == <<buffer, mixed>>
changes     == <<changed, pollChanged, sampleMoved>>
history     == <<changes, worthless>>
vars        == <<environment, ldr, accel, currentState, calibration, poll, wire,
                 history>>

-----------------------------------------------------------------------------
(* Measurements.                                                           *)

Distance(a, b) == IF a >= b THEN a - b ELSE b - a

(* readAveraged: a noisy LDR may read anything.                            *)
Raw(n) == IF n \in Noisy THEN Levels ELSE {light[Place[n]]}

Detects(n, raw) == Distance(raw, baseline[n]) >= LIGHT_THRESHOLD_DELTA

LightDetected == voteCount >= LIGHT_VOTE_REQUIRED

IsAvailable == detectedAddress # 0 /\ detectedType # "NONE"

(* What a transfer that succeeds brings: a sensor without configuration is *)
(* in power-down mode and its registers read 0.                            *)
Axes == IF awake THEN magnitude ELSE 0

(* The six Wire.read() of readRawAxes, which consume the buffer.           *)
AxesRead == IF mixed THEN Garbled ELSE {buffer}

Consumes(other) == buffer' = 0 /\ mixed' = (mixed /\ other = "axes")

(* The history of a poll.                                                  *)
Kind(n) == IF n = Accel THEN "motion" ELSE "light"

SeenByPoll(kind) == IF pollPc = "wait" THEN {} ELSE pollChanged \cup {kind}

-----------------------------------------------------------------------------
(* The environment.                                                        *)

LightChanges(place) ==
  /\ \E level \in Levels \ {light[place]} : light' = [light EXCEPT ![place] = level]
  /\ changed' = changed \cup {n \in Ldrs \ Noisy : Place[n] = place}
  /\ pollChanged' = SeenByPoll("light")
  /\ UNCHANGED <<sampleMoved, worthless, magnitude, ldr, accel, currentState,
                 calibration, poll, wire>>

Moves ==
  /\ magnitude' \in Magnitudes \ {magnitude}
  /\ changed' = changed \cup {Accel}
  /\ pollChanged' = SeenByPoll("motion")
  /\ sampleMoved' = (calPc \in {"motion", "axes"})
  /\ UNCHANGED <<light, ldr, accel, currentState, calibration, poll, wire, worthless>>

-----------------------------------------------------------------------------
(* Calibration.  What comes after the LDRs, and after the accelerometer.   *)

AfterLight ==
  CASE job = "setup" -> "scan"
    [] job = "ARM"   -> "motion"
    [] OTHER         -> "done"

AfterMotion == IF job = "ARM" THEN "arm" ELSE "done"

(* The calibrating task goes on at `label'; "done" ends its job.           *)
Goto(label) ==
  /\ calPc' = label
  /\ job' = IF label = "done" THEN "none" ELSE job

(* Mutant of CalibrateLight: the loop leaves out the last LDR.             *)
CalibrateLightMutant ==
  /\ calPc = "light"
  /\ \E raw \in Raw(calIndex) :
       baseline' = IF calIndex < LDR_COUNT
                   THEN [baseline EXCEPT ![calIndex] = raw] ELSE baseline
  /\ changed' = changed \ {calIndex}
  /\ IF calIndex < LDR_COUNT
     THEN calIndex' = calIndex + 1 /\ Goto("light")
     ELSE calIndex' = 1 /\ Goto(AfterLight)
  /\ UNCHANGED <<environment, accel, currentState, sum, validSamples,
                 poll, wire, pollChanged, sampleMoved, worthless>>

(* LdrSensorArray::calibrate, one LDR.                                     *)
CalibrateLight ==
  /\ calPc = "light"
  /\ \E raw \in Raw(calIndex) : baseline' = [baseline EXCEPT ![calIndex] = raw]
  /\ changed' = changed \ {calIndex}
  /\ IF calIndex < LDR_COUNT
     THEN calIndex' = calIndex + 1 /\ Goto("light")
     ELSE calIndex' = 1 /\ Goto(AfterLight)
  /\ UNCHANGED <<environment, accel, currentState, sum, validSamples,
                 poll, wire, pollChanged, sampleMoved, worthless>>

(* Mutant of ScanAddress: any device that answers is taken.                *)
ScanAddressMutant ==
  /\ calPc = "scan" /\ calIndex \in DOMAIN Bus
  /\ calIndex' = calIndex + 1
  /\ \/ /\ detectedAddress = 0 /\ Bus[calIndex] # "absent"
        /\ detectedAddress' = calIndex
        /\ detectedType' = Bus[calIndex]
     \/ UNCHANGED <<detectedAddress, detectedType>>
  /\ UNCHANGED <<environment, ldr, awake, baselineMagnitude, currentState, job,
                 calPc, sum, validSamples, poll, wire, history>>

(* MotionSensor::begin: one address of the scan.  The first device that    *)
(* answers with a known identity is taken; reading the identity may fail.  *)
ScanAddress ==
  /\ calPc = "scan" /\ calIndex \in DOMAIN Bus
  /\ calIndex' = calIndex + 1
  /\ \/ /\ detectedAddress = 0 /\ Bus[calIndex] \in Known
        /\ detectedAddress' = calIndex
        /\ detectedType' = Bus[calIndex]
     \/ UNCHANGED <<detectedAddress, detectedType>>
  /\ UNCHANGED <<environment, ldr, awake, baselineMagnitude, currentState, job,
                 calPc, sum, validSamples, poll, wire, history>>

(* The end of the scan: configureSensor writes one register and does not   *)
(* look whether that failed.                                               *)
ScanEnds ==
  /\ calPc = "scan" /\ calIndex \notin DOMAIN Bus
  /\ calIndex' = 1
  /\ Goto(IF detectedAddress # 0 THEN "motion" ELSE "done")
  /\ awake' \in {FALSE, IsAvailable}
  /\ UNCHANGED <<environment, ldr, detectedAddress, detectedType,
                 baselineMagnitude, currentState, sum, validSamples, poll, wire,
                 history>>

(* MotionSensor::calibrate without a sensor.                               *)
NoMotionSensor ==
  /\ calPc = "motion" /\ ~IsAvailable
  /\ baselineMagnitude' = 0
  /\ Goto(AfterMotion)
  /\ UNCHANGED <<environment, ldr, awake, detectedAddress, detectedType,
                 currentState, calIndex, sum, validSamples, poll, wire, history>>

(* MotionSensor::calibrate, one sample: the transfer, which may fail, ...  *)
SampleTransfer ==
  /\ calPc = "motion" /\ IsAvailable
  /\ calIndex <= MOTION_CALIBRATION_SAMPLES
  /\ mixed' = (pollPc = "axes")
  /\ \/ calPc' = "axes" /\ buffer' = Axes /\ UNCHANGED calIndex
     \/ calIndex' = calIndex + 1 /\ UNCHANGED <<calPc, buffer>>
  /\ sampleMoved' = (calIndex # 1 /\ sampleMoved)
  /\ UNCHANGED <<environment, ldr, accel, currentState, job, sum, validSamples, poll,
                 changed, pollChanged, worthless>>

(* ... and the reads.                                                      *)
SampleMotion ==
  /\ calPc = "axes"
  /\ calPc' = "motion" /\ calIndex' = calIndex + 1
  /\ \E axes \in AxesRead : sum' = sum + axes
  /\ validSamples' = validSamples + 1
  /\ Consumes(pollPc)
  /\ worthless' = IF mixed THEN worthless \cup {"sample"} ELSE worthless
  /\ UNCHANGED <<environment, ldr, accel, currentState, job, poll, changes>>

(* Mutant of CalibrateMotion: failed samples count in the mean.            *)
CalibrateMotionMutant ==
  /\ calPc = "motion" /\ IsAvailable
  /\ calIndex > MOTION_CALIBRATION_SAMPLES
  /\ baselineMagnitude' = sum \div MOTION_CALIBRATION_SAMPLES
  /\ calIndex' = 1 /\ sum' = 0 /\ validSamples' = 0
  /\ Goto(AfterMotion)
  /\ changed' = IF sampleMoved THEN changed \cup {Accel} ELSE changed \ {Accel}
  /\ worthless' = (worthless \ {"sample", "baseline"})
                    \cup IF "sample" \in worthless \/ validSamples = 0
                         THEN {"baseline"} ELSE {}
  /\ sampleMoved' = FALSE
  /\ UNCHANGED <<environment, ldr, awake, detectedAddress, detectedType,
                 currentState, poll, wire, pollChanged>>

(* The end of MotionSensor::calibrate.                                     *)
CalibrateMotion ==
  /\ calPc = "motion" /\ IsAvailable
  /\ calIndex > MOTION_CALIBRATION_SAMPLES
  /\ baselineMagnitude' = IF validSamples > 0 THEN sum \div validSamples ELSE 0
  /\ calIndex' = 1 /\ sum' = 0 /\ validSamples' = 0
  /\ Goto(AfterMotion)
  /\ changed' = IF sampleMoved THEN changed \cup {Accel} ELSE changed \ {Accel}
  /\ worthless' = (worthless \ {"sample", "baseline"})
                    \cup IF "sample" \in worthless \/ validSamples = 0
                         THEN {"baseline"} ELSE {}
  /\ sampleMoved' = FALSE
  /\ UNCHANGED <<environment, ldr, awake, detectedAddress, detectedType,
                 currentState, poll, wire, pollChanged>>

Arm ==
  /\ calPc = "arm"
  /\ currentState' = "ARMED"
  /\ Goto("done")
  /\ UNCHANGED <<environment, ldr, accel, calIndex, sum, validSamples, poll, wire,
                 history>>

(* The commands of the host task; setup() must be over.                    *)
Command(verb) ==
  /\ calPc = "done"
  /\ job' = verb
  /\ calPc' = IF verb = "CALIBRATE_MOTION" THEN "motion" ELSE "light"
  /\ UNCHANGED <<environment, ldr, accel, currentState, calIndex, sum, validSamples,
                 poll, wire, history>>

Disarm ==
  /\ calPc = "done"
  /\ currentState' = "DISARMED"
  /\ UNCHANGED <<environment, ldr, accel, calibration, poll, wire, history>>

-----------------------------------------------------------------------------
(* pollSensors(); the state is ARMED only when setup() is over.            *)

PollStarts ==
  /\ pollPc = "wait"
  /\ currentState = "ARMED"
  /\ pollPc' = "ldr" /\ pollIndex' = 1
  /\ pollChanged' = {Kind(n) : n \in changed}
  /\ UNCHANGED <<environment, ldr, accel, currentState, calibration, reading, wire,
                 changed, sampleMoved, worthless>>

(* LdrSensorArray::read, one LDR.                                          *)
ReadLight ==
  /\ pollPc = "ldr"
  /\ \E raw \in Raw(pollIndex) :
       voteCount' = voteCount + IF Detects(pollIndex, raw) THEN 1 ELSE 0
  /\ IF pollIndex < LDR_COUNT
     THEN pollIndex' = pollIndex + 1 /\ pollPc' = pollPc
     ELSE pollIndex' = 1 /\ pollPc' = "accel"
  /\ UNCHANGED <<environment, ldr, accel, currentState, calibration, motionDetected,
                 wire, history>>

(* MotionSensor::read: no sensor or a failed transfer means no motion.     *)
ReadTransfer ==
  /\ pollPc = "accel"
  /\ mixed' = IF IsAvailable THEN calPc = "axes" ELSE mixed
  /\ \/ IsAvailable /\ pollPc' = "axes" /\ buffer' = Axes
     \/ pollPc' = "trigger" /\ UNCHANGED buffer
  /\ UNCHANGED <<environment, ldr, accel, currentState, calibration, pollIndex,
                 reading, history>>

(* The reads, and the comparison with the baseline as it is by then.       *)
ReadMotion ==
  /\ pollPc = "axes"
  /\ pollPc' = "trigger"
  /\ \E axes \in AxesRead :
       motionDetected' = (Distance(axes, baselineMagnitude) >= MOTION_THRESHOLD_RAW)
  /\ Consumes(calPc)
  /\ worthless' = IF mixed \/ "baseline" \in worthless THEN worthless \cup {"poll"}
                  ELSE worthless
  /\ UNCHANGED <<environment, ldr, accel, currentState, calibration, pollIndex,
                 voteCount, changes>>

(* Mutant of Trigger: light and motion are both asked for.                 *)
TriggerMutant ==
  /\ pollPc = "trigger"
  /\ pollPc' = "wait"
  /\ voteCount' = 0 /\ motionDetected' = FALSE
  /\ worthless' = worthless \ {"poll"}
  /\ pollChanged' = {}
  /\ currentState' = IF currentState = "ARMED" /\ LightDetected /\ motionDetected
                     THEN "ALARM" ELSE currentState
  /\ UNCHANGED <<environment, ldr, accel, calibration, pollIndex, wire, changed,
                 sampleMoved>>

(* security.trigger(lightDetected, motionDetected)                         *)
Trigger ==
  /\ pollPc = "trigger"
  /\ pollPc' = "wait"
  /\ voteCount' = 0 /\ motionDetected' = FALSE
  /\ worthless' = worthless \ {"poll"}
  /\ pollChanged' = {}
  /\ currentState' = IF currentState = "ARMED" /\ (LightDetected \/ motionDetected)
                     THEN "ALARM" ELSE currentState
  /\ UNCHANGED <<environment, ldr, accel, calibration, pollIndex, wire, changed,
                 sampleMoved>>

-----------------------------------------------------------------------------
Init ==
  /\ light \in [Places -> Levels] /\ magnitude \in Magnitudes /\ awake = FALSE
  /\ baseline = [n \in Ldrs |-> 0]
  /\ detectedAddress = 0 /\ detectedType = "NONE" /\ baselineMagnitude = 0
  /\ currentState = "DISARMED"
  /\ job = "setup" /\ calPc = "light" /\ calIndex = 1
  /\ sum = 0 /\ validSamples = 0
  /\ pollPc = "wait" /\ pollIndex = 1
  /\ voteCount = 0 /\ motionDetected = FALSE
  /\ buffer = 0 /\ mixed = FALSE
  /\ changed = {} /\ pollChanged = {} /\ sampleMoved = FALSE
  /\ worthless = {"baseline"}

Poll == PollStarts \/ ReadLight \/ ReadTransfer \/ ReadMotion \/ Trigger

Calibrates ==
  \/ CalibrateLight \/ ScanAddress \/ ScanEnds
  \/ NoMotionSensor \/ SampleTransfer \/ SampleMotion \/ CalibrateMotion \/ Arm

Commands ==
  \/ \E verb \in {"ARM", "CALIBRATE_LIGHT", "CALIBRATE_MOTION"} : Command(verb)
  \/ Disarm

Environment == Moves \/ \E place \in Places : LightChanges(place)

Next == Poll \/ Calibrates \/ Commands \/ Environment

Spec == Init /\ [][Next]_vars

(* Both tasks keep running.                                                *)
FairSpec == Spec /\ WF_vars(Poll) /\ WF_vars(Calibrates)

-----------------------------------------------------------------------------
(* Types; in particular the accelerometer in use is one that answered the  *)
(* scan with a known identity.                                             *)
TypeOK ==
  /\ light \in [Places -> Levels] /\ magnitude \in Magnitudes /\ awake \in BOOLEAN
  /\ baseline \in [Ldrs -> Levels \cup {0}]
  /\ IF detectedAddress = 0 THEN detectedType = "NONE"
     ELSE detectedAddress \in DOMAIN Bus /\ Bus[detectedAddress] = detectedType
  /\ detectedType \in Known \cup {"NONE"}
  /\ baselineMagnitude \in Nat
  /\ currentState \in {"DISARMED", "ARMED", "ALARM"}
  /\ job \in {"none", "setup", "ARM", "CALIBRATE_LIGHT", "CALIBRATE_MOTION"}
  /\ calPc \in {"light", "scan", "motion", "axes", "arm", "done"}
  /\ calIndex \in Nat \ {0} /\ sum \in Nat
  /\ validSamples \in 0..MOTION_CALIBRATION_SAMPLES
  /\ pollPc \in {"wait", "ldr", "accel", "axes", "trigger"} /\ pollIndex \in Ldrs
  /\ voteCount \in 0..LDR_COUNT /\ motionDetected \in BOOLEAN
  /\ changed \subseteq Sources /\ pollChanged \subseteq {"light", "motion"}
  /\ sampleMoved \in BOOLEAN
  /\ buffer \in Nat /\ mixed \in BOOLEAN
  /\ worthless \subseteq {"sample", "baseline", "poll"}

(* One noisy LDR is not enough: a poll detects light only if the light at  *)
(* another LDR has changed since its baseline or during the poll, however  *)
(* calibrations interleave with the poll.                                  *)
LightAlarmIsReal ==
  pollPc \in {"accel", "axes", "trigger"} /\ LightDetected
    => "light" \in pollChanged

(* A poll detects motion only if the drawer has moved since the samples of *)
(* the baseline or during the poll.  There are two exceptions: a baseline  *)
(* that holds no sample at all, because each transfer of the calibration   *)
(* failed, and axes read amid a transfer of the other task, either those   *)
(* of this poll or of a sample in the baseline it compares with.           *)
MotionAlarmIsReal ==
  pollPc = "trigger" /\ motionDetected /\ "poll" \notin worthless
    => "motion" \in pollChanged

(* An opened drawer does not stay unnoticed: it is impossible that the     *)
(* system stays armed, with no command pending, while two sound LDRs keep  *)
(* seeing a light that differs from their baselines by the threshold.      *)
IntrusionIsNoticed ==
  \A m, n \in Ldrs \ Noisy :
    m < n /\ LIGHT_VOTE_REQUIRED <= 2
      => ~<>[](/\ currentState = "ARMED" /\ calPc = "done"
               /\ Detects(m, light[Place[m]]) /\ Detects(n, light[Place[n]]))

-----------------------------------------------------------------------------
(* What the README says and the code does not keep.                        *)

(* README.md:404: motion is detected by comparing the magnitude with the   *)
(* baseline that was read while the drawer was still.  So a drawer that    *)
(* has not moved since detects none.                                       *)
StillDrawerIsQuiet ==
  pollPc = "trigger" /\ "motion" \notin pollChanged => ~motionDetected
=============================================================================
