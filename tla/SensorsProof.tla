--------------------------- MODULE SensorsProof ---------------------------
(***************************************************************************)
(* Proofs that the sensors raise no alarm of their own, for every number   *)
(* of LDRs and samples, every vote and every set of levels.  A baseline    *)
(* equals its input as long as that has not changed; and what has changed  *)
(* since a baseline was taken is known to have changed to the poll, which  *)
(* calibrations may overlap.  For the accelerometer the argument goes      *)
(* through the buffer of Wire, which holds what the last transfer brought  *)
(* for as long as the other task does none.                                *)
(***************************************************************************)
EXTENDS Sensors, FiniteSetTheorems, TLAPS

-----------------------------------------------------------------------------
(* Types, with where the indices and the sums may be at each label.        *)

CalRange ==
  /\ calPc = "light" => calIndex \in Ldrs
  /\ calPc \in {"arm", "done"} \/ (calPc = "motion" /\ ~IsAvailable) => calIndex = 1
  /\ calPc \notin {"motion", "axes"} \/ ~IsAvailable => validSamples = 0
  /\ calPc \in {"motion", "axes"} => validSamples < calIndex
  /\ calPc = "axes" => IsAvailable /\ calIndex <= MOTION_CALIBRATION_SAMPLES
  /\ validSamples = 0 => sum = 0
  /\ calPc = "scan" => job = "setup"
  /\ calPc = "arm" => job = "ARM"
  /\ calPc = "done" <=> job = "none"

PollRange ==
  /\ pollPc = "ldr" => voteCount < pollIndex
  /\ pollPc = "wait" => voteCount = 0
  /\ pollPc # "trigger" => ~motionDetected

TInv == TypeOK /\ CalRange /\ PollRange

LEMMA InitTInv == Init => TInv
<1> SUFFICES ASSUME Init PROVE TInv
  OBVIOUS
<1> USE LdrAssumption, MotionAssumption DEF Init
<1>1. TypeOK
  <2>1. 1 \in Ldrs /\ baseline \in [Ldrs -> Levels \cup {0}]
    BY DEF Ldrs
  <2>2. /\ awake \in BOOLEAN /\ motionDetected \in BOOLEAN /\ sampleMoved \in BOOLEAN
        /\ mixed \in BOOLEAN
    OBVIOUS
  <2>3. /\ changed \subseteq Sources /\ pollChanged \subseteq {"light", "motion"}
        /\ worthless \subseteq {"sample", "baseline", "poll"}
    OBVIOUS
  <2> QED
    BY <2>1, <2>2, <2>3 DEF TypeOK
<1>2. CalRange /\ PollRange
  BY DEF CalRange, PollRange, Ldrs, IsAvailable
<1> QED
  BY <1>1, <1>2 DEF TInv

(* What an LDR and the accelerometer may read.                             *)
LEMMA RawLevel == TInv => \A n \in Ldrs : Raw(n) \subseteq Levels
  BY DEF TInv, TypeOK, Raw, Places

LEMMA AxesNat == TInv => Axes \in Nat
  BY MotionAssumption DEF TInv, TypeOK, Axes

LEMMA ReadNat == TInv => AxesRead \subseteq Nat
  BY MotionAssumption DEF TInv, TypeOK, AxesRead

LEMMA DivNat == ASSUME NEW a \in Nat, NEW b \in Nat, b > 0 PROVE a \div b \in Nat
  BY SMT

LEMMA CalibratesType == TInv /\ Calibrates => TInv'
<1> SUFFICES ASSUME TInv, Calibrates PROVE TInv'
  OBVIOUS
<1> USE LdrAssumption, MotionAssumption
    DEF environment, ldr, accel, poll, history, changes, reading, wire
<1>1. TypeOK /\ CalRange /\ PollRange
  BY DEF TInv
<1>2. CASE CalibrateLight
  <2>1. calIndex \in Ldrs
    BY <1>1, <1>2 DEF CalibrateLight, CalRange
  <2>2. baseline' \in [Ldrs -> Levels \cup {0}]
    BY <1>1, <1>2, <2>1, RawLevel DEF CalibrateLight, TypeOK, TInv
  <2>3. calPc' \in {"light", "scan", "motion", "done"}
        /\ job' \in {"none", "setup", "ARM", "CALIBRATE_LIGHT", "CALIBRATE_MOTION"}
    BY <1>1, <1>2 DEF CalibrateLight, TypeOK, Goto, AfterLight
  <2>4. TypeOK'
    BY <1>1, <1>2, <2>1, <2>2, <2>3 DEF CalibrateLight, TypeOK, Ldrs
  <2>5. CalRange' /\ PollRange'
    BY <1>1, <1>2, <2>1 DEF CalibrateLight, TypeOK, CalRange, PollRange, Goto,
       AfterLight, Ldrs, IsAvailable
  <2> QED
    BY <2>4, <2>5 DEF TInv
<1>3. CASE ScanAddress
  <2>1. TypeOK'
    BY <1>1, <1>3 DEF ScanAddress, TypeOK, Known
  <2>2. CalRange' /\ PollRange'
    BY <1>1, <1>3 DEF ScanAddress, TypeOK, CalRange, PollRange, IsAvailable
  <2> QED
    BY <2>1, <2>2 DEF TInv
<1>4. CASE ScanEnds
  <2>1. awake' \in BOOLEAN
    BY <1>4 DEF ScanEnds, IsAvailable
  <2>2. TypeOK'
    BY <1>1, <1>4, <2>1 DEF ScanEnds, TypeOK, Goto
  <2>3. CalRange' /\ PollRange'
    BY <1>1, <1>4 DEF ScanEnds, TypeOK, CalRange, PollRange, Goto, IsAvailable
  <2> QED
    BY <2>2, <2>3 DEF TInv
<1>5. CASE NoMotionSensor
  <2>1. TypeOK'
    BY <1>1, <1>5 DEF NoMotionSensor, TypeOK, Goto, AfterMotion
  <2>2. CalRange' /\ PollRange'
    BY <1>1, <1>5 DEF NoMotionSensor, TypeOK, CalRange, PollRange, Goto,
       AfterMotion, IsAvailable
  <2> QED
    BY <2>1, <2>2 DEF TInv
<1>6. CASE SampleTransfer
  <2>1. /\ buffer' \in Nat /\ mixed' \in BOOLEAN /\ sampleMoved' \in BOOLEAN
        /\ calPc' \in {"motion", "axes"} /\ calIndex' \in Nat \ {0}
    BY <1>1, <1>6, AxesNat DEF SampleTransfer, TypeOK, TInv
  <2>2. TypeOK'
    BY <1>1, <1>6, <2>1 DEF SampleTransfer, TypeOK
  <2>3. CalRange' /\ PollRange'
    BY <1>1, <1>6 DEF SampleTransfer, TypeOK, CalRange, PollRange, IsAvailable
  <2> QED
    BY <2>2, <2>3 DEF TInv
<1>9. CASE SampleMotion
  <2>1. sum' \in Nat
    BY <1>1, <1>9, ReadNat DEF SampleMotion, TypeOK, TInv
  <2>2. buffer' \in Nat /\ mixed' \in BOOLEAN
    BY <1>1, <1>9 DEF SampleMotion, Consumes, TypeOK
  <2>3. worthless' \subseteq {"sample", "baseline", "poll"}
    BY <1>1, <1>9 DEF SampleMotion, TypeOK
  <2>4. validSamples' \in 0..MOTION_CALIBRATION_SAMPLES /\ calIndex' \in Nat \ {0}
    BY <1>1, <1>9 DEF SampleMotion, TypeOK, CalRange
  <2>5. TypeOK'
    BY <1>1, <1>9, <2>1, <2>2, <2>3, <2>4 DEF SampleMotion, TypeOK
  <2>6. CalRange' /\ PollRange'
    BY <1>1, <1>9 DEF SampleMotion, TypeOK, CalRange, PollRange, IsAvailable
  <2> QED
    BY <2>5, <2>6 DEF TInv
<1>7. CASE CalibrateMotion
  <2>1. baselineMagnitude' \in Nat
    BY <1>1, <1>7, DivNat DEF CalibrateMotion, TypeOK
  <2>2. changed' \subseteq Sources
    BY <1>1, <1>7 DEF CalibrateMotion, TypeOK, Sources
  <2>3. TypeOK'
    <3>1. /\ calIndex' = 1 /\ sum' = 0 /\ validSamples' = 0
          /\ UNCHANGED <<light, magnitude, baseline, awake, detectedAddress,
                         detectedType, currentState, pollPc, pollIndex, voteCount,
                         motionDetected, buffer, mixed, pollChanged>>
      BY <1>7 DEF CalibrateMotion
    <3>2. sampleMoved' \in BOOLEAN
      BY <1>7 DEF CalibrateMotion
    <3>3. calPc' \in {"arm", "done"} /\ job' \in {job, "none"}
      BY <1>7 DEF CalibrateMotion, Goto, AfterMotion
    <3>4. worthless' \subseteq {"sample", "baseline", "poll"}
      BY <1>1, <1>7 DEF CalibrateMotion, TypeOK
    <3> QED
      BY <1>1, <2>1, <2>2, <3>1, <3>2, <3>3, <3>4 DEF TypeOK
  <2>4. CalRange' /\ PollRange'
    BY <1>1, <1>7 DEF CalibrateMotion, TypeOK, CalRange, PollRange, Goto,
       AfterMotion, IsAvailable
  <2> QED
    BY <2>3, <2>4 DEF TInv
<1>8. CASE Arm
  <2>1. TypeOK'
    BY <1>1, <1>8 DEF Arm, TypeOK, Goto
  <2>2. CalRange' /\ PollRange'
    BY <1>1, <1>8 DEF Arm, TypeOK, CalRange, PollRange, Goto, IsAvailable
  <2> QED
    BY <2>1, <2>2 DEF TInv
<1> QED
  BY <1>2, <1>3, <1>4, <1>5, <1>6, <1>7, <1>8, <1>9 DEF Calibrates

LEMMA PollType == TInv /\ Poll => TInv'
<1> SUFFICES ASSUME TInv, Poll PROVE TInv'
  OBVIOUS
<1> USE LdrAssumption, MotionAssumption
    DEF environment, ldr, accel, calibration, reading, history, changes, wire
<1>1. TypeOK /\ CalRange /\ PollRange
  BY DEF TInv
<1>2. CalRange'
  BY <1>1 DEF Poll, PollStarts, ReadLight, ReadTransfer, ReadMotion, Trigger,
     CalRange, IsAvailable
<1>3. CASE PollStarts
  <2>1. pollChanged' \subseteq {"light", "motion"}
    BY <1>3 DEF PollStarts, Kind
  <2>2. TypeOK'
    BY <1>1, <1>3, <2>1 DEF PollStarts, TypeOK, Ldrs
  <2>3. PollRange'
    BY <1>1, <1>3 DEF PollStarts, PollRange
  <2> QED
    BY <1>2, <2>2, <2>3 DEF TInv
<1>4. CASE ReadLight
  <2>1. voteCount' \in {voteCount, voteCount + 1}
    BY <1>1, <1>4 DEF ReadLight, TypeOK
  <2>2. TypeOK'
    BY <1>1, <1>4, <2>1 DEF ReadLight, TypeOK, PollRange, Ldrs
  <2>3. PollRange'
    BY <1>1, <1>4, <2>1 DEF ReadLight, TypeOK, PollRange, Ldrs
  <2> QED
    BY <1>2, <2>2, <2>3 DEF TInv
<1>5. CASE ReadTransfer
  <2>1. /\ buffer' \in Nat /\ mixed' \in BOOLEAN
        /\ pollPc' \in {"axes", "trigger"}
    BY <1>1, <1>5, AxesNat DEF ReadTransfer, TypeOK, TInv
  <2>2. TypeOK'
    BY <1>1, <1>5, <2>1 DEF ReadTransfer, TypeOK
  <2>3. PollRange'
    BY <1>1, <1>5, <2>1 DEF ReadTransfer, PollRange
  <2> QED
    BY <1>2, <2>2, <2>3 DEF TInv
<1>7. CASE ReadMotion
  <2>1. motionDetected' \in BOOLEAN
    BY <1>7 DEF ReadMotion
  <2>2. buffer' \in Nat /\ mixed' \in BOOLEAN
    BY <1>1, <1>7 DEF ReadMotion, Consumes, TypeOK
  <2>3. worthless' \subseteq {"sample", "baseline", "poll"}
    BY <1>1, <1>7 DEF ReadMotion, TypeOK
  <2>4. TypeOK'
    BY <1>1, <1>7, <2>1, <2>2, <2>3 DEF ReadMotion, TypeOK
  <2> QED
    BY <1>2, <1>7, <2>4 DEF ReadMotion, PollRange, TInv
<1>6. CASE Trigger
  <2>1. currentState' \in {"DISARMED", "ARMED", "ALARM"}
    BY <1>1, <1>6 DEF Trigger, TypeOK
  <2>2. /\ pollChanged' \subseteq {"light", "motion"} /\ motionDetected' \in BOOLEAN
        /\ worthless' \subseteq {"sample", "baseline", "poll"}
    BY <1>1, <1>6 DEF Trigger, TypeOK
  <2>3. TypeOK'
    BY <1>1, <1>6, <2>1, <2>2 DEF Trigger, TypeOK
  <2>4. PollRange'
    BY <1>6 DEF Trigger, PollRange
  <2> QED
    BY <1>2, <2>3, <2>4 DEF TInv
<1> QED
  BY <1>3, <1>4, <1>5, <1>6, <1>7 DEF Poll

LEMMA OutsideType == TInv /\ (Commands \/ Environment) => TInv'
<1> SUFFICES ASSUME TInv, Commands \/ Environment PROVE TInv'
  OBVIOUS
<1> USE LdrAssumption, MotionAssumption
    DEF ldr, accel, environment, calibration, poll, reading, history, changes, wire
<1>1. TypeOK /\ CalRange /\ PollRange
  BY DEF TInv
<1>2. ASSUME NEW verb \in {"ARM", "CALIBRATE_LIGHT", "CALIBRATE_MOTION"}, Command(verb)
      PROVE TInv'
  <2>1. TypeOK'
    BY <1>1, <1>2 DEF Command, TypeOK
  <2>2. CalRange' /\ PollRange'
    BY <1>1, <1>2 DEF Command, TypeOK, CalRange, PollRange, IsAvailable, Ldrs
  <2> QED
    BY <2>1, <2>2 DEF TInv
<1>3. CASE Disarm
  BY <1>1, <1>3 DEF Disarm, TypeOK, CalRange, PollRange, IsAvailable, TInv
<1>4. ASSUME NEW place \in Places, LightChanges(place) PROVE TInv'
  <2>1. light' \in [Places -> Levels]
    BY <1>1, <1>4 DEF LightChanges, TypeOK
  <2>4. changed' \subseteq Sources /\ pollChanged' \subseteq {"light", "motion"}
    BY <1>1, <1>4 DEF LightChanges, TypeOK, Sources, SeenByPoll
  <2>2. TypeOK'
    BY <1>1, <1>4, <2>1, <2>4 DEF LightChanges, TypeOK
  <2>3. CalRange' /\ PollRange'
    BY <1>1, <1>4 DEF LightChanges, CalRange, PollRange, IsAvailable
  <2> QED
    BY <2>2, <2>3 DEF TInv
<1>5. CASE Moves
  <2>3. changed' \subseteq Sources
    BY <1>1, <1>5 DEF Moves, TypeOK, Sources
  <2>4. sampleMoved' \in BOOLEAN
    BY <1>5 DEF Moves
  <2>5. pollChanged' \subseteq {"light", "motion"}
    BY <1>1, <1>5 DEF Moves, TypeOK, SeenByPoll
  <2>1. TypeOK'
    BY <1>1, <1>5, <2>3, <2>4, <2>5 DEF Moves, TypeOK
  <2>2. CalRange' /\ PollRange'
    BY <1>1, <1>5 DEF Moves, CalRange, PollRange, IsAvailable
  <2> QED
    BY <2>1, <2>2 DEF TInv
<1> QED
  BY <1>2, <1>3, <1>4, <1>5 DEF Commands, Environment

LEMMA StutterType == TInv /\ UNCHANGED vars => TInv'
  BY DEF TInv, TypeOK, CalRange, PollRange, IsAvailable, vars, environment, ldr,
     accel, calibration, reading, poll, history, changes, wire

LEMMA StepTInv == TInv /\ [Next]_vars => TInv'
  BY CalibratesType, PollType, OutsideType, StutterType DEF Next

(* Type correctness; the accelerometer in use is always one that answered  *)
(* the scan with a known identity, and no index leaves its array, however  *)
(* the two tasks interleave and whatever transfers fail.                   *)
THEOREM TypeCorrect == Spec => []TypeOK
<1>1. TInv => TypeOK
  BY DEF TInv
<1> QED
  BY <1>1, InitTInv, StepTInv, PTL DEF Spec

-----------------------------------------------------------------------------
(* The light.                                                              *)

(* The first calibration has reached LDR n.                                *)
Calibrated(n) == ~(job = "setup" /\ calPc = "light" /\ calIndex <= n)

Fits ==
  \A n \in Ldrs \ Noisy : Calibrated(n) /\ n \notin changed => baseline[n] = light[Place[n]]

Booted == currentState # "DISARMED" \/ pollPc # "wait" => job # "setup"

(* A poll forgets no change that a calibration forgets meanwhile.          *)
Watched == pollPc # "wait" => \A n \in changed : Kind(n) \in pollChanged

(* While the light has not changed, only noisy LDRs vote.                  *)
Votes ==
  "light" \notin pollChanged =>
    /\ pollPc = "ldr" => voteCount <= Cardinality(Noisy \cap 1..(pollIndex - 1))
    /\ pollPc \in {"accel", "axes", "trigger"} => voteCount <= Cardinality(Noisy)

(* A movement amid the samples is remembered until they are averaged.      *)
Moved == sampleMoved => Accel \in changed

LInv == Fits /\ Booted /\ Watched /\ Votes /\ Moved

LEMMA InitLInv == Init => LInv
<1> SUFFICES ASSUME Init PROVE LInv
  OBVIOUS
<1>1. Fits
  BY LdrAssumption DEF Init, Fits, Calibrated, Ldrs
<1> QED
  BY <1>1 DEF Init, LInv, Booted, Watched, Votes, Moved

(* The noisy LDRs among the first k.                                       *)
LEMMA NoisyCount ==
  ASSUME NEW k \in Ldrs
  PROVE  /\ Cardinality(Noisy \cap 1..(k - 1)) \in Nat
         /\ k \in Noisy => Cardinality(Noisy \cap 1..k)
                              = Cardinality(Noisy \cap 1..(k - 1)) + 1
         /\ k \notin Noisy => Noisy \cap 1..k = Noisy \cap 1..(k - 1)
<1> DEFINE before == Noisy \cap 1..(k - 1)
<1>1. k \in Nat \ {0}
  BY LdrAssumption DEF Ldrs
<1>2. IsFiniteSet(before)
  BY <1>1, FS_Interval, FS_Subset
<1>3. Cardinality(before) \in Nat
  BY <1>2, FS_CardinalityType
<1>4. ASSUME k \in Noisy
      PROVE Cardinality(Noisy \cap 1..k) = Cardinality(before) + 1
  <2>1. Noisy \cap 1..k = before \cup {k}
    BY <1>1, <1>4
  <2>2. k \notin before
    BY <1>1
  <2> QED
    BY <1>2, <2>1, <2>2, FS_AddElement
<1>5. k \notin Noisy => Noisy \cap 1..k = before
  BY <1>1
<1> QED
  BY <1>3, <1>4, <1>5

(* An LDR that is not noisy and whose light has not changed does not vote. *)
LEMMA StillIsDark ==
  ASSUME TInv, LInv, pollPc = "ldr", pollIndex \notin Noisy, "light" \notin pollChanged,
         NEW raw \in Raw(pollIndex)
  PROVE  ~Detects(pollIndex, raw)
<1>1. /\ pollIndex \in Ldrs \ Noisy /\ raw = light[Place[pollIndex]]
      /\ light[Place[pollIndex]] \in Nat
  BY LightAssumption DEF TInv, TypeOK, Raw, Places
<1>2. pollIndex \notin changed /\ Calibrated(pollIndex)
  <2>1. Kind(pollIndex) = "light"
    BY <1>1, LdrAssumption DEF Kind, Accel, Ldrs
  <2> QED
    BY <2>1 DEF LInv, Watched, Booted, Calibrated
<1>3. baseline[pollIndex] = light[Place[pollIndex]]
  BY <1>1, <1>2 DEF LInv, Fits
<1> QED
  BY <1>1, <1>3, LightAssumption DEF Detects, Distance

LEMMA ReadLightKeeps == TInv /\ LInv /\ ReadLight => Votes'
<1> SUFFICES ASSUME TInv, LInv, ReadLight, "light" \notin pollChanged
             PROVE  /\ pollPc' = "ldr" =>
                         voteCount' <= Cardinality(Noisy \cap 1..(pollIndex' - 1))
                    /\ pollPc' \in {"accel", "axes", "trigger"} =>
                         voteCount' <= Cardinality(Noisy)
  BY DEF Votes, ReadLight, history, changes
<1>1. /\ pollPc = "ldr" /\ pollIndex \in Ldrs /\ voteCount \in Nat
      /\ voteCount <= Cardinality(Noisy \cap 1..(pollIndex - 1))
  BY LdrAssumption DEF TInv, TypeOK, LInv, Votes, ReadLight
<1>2. voteCount' <= Cardinality(Noisy \cap 1..pollIndex)
  <2>1. CASE pollIndex \in Noisy
    <3>1. voteCount' \in {voteCount, voteCount + 1}
      BY <1>1 DEF ReadLight
    <3> QED
      BY <1>1, <2>1, <3>1, NoisyCount
  <2>2. CASE pollIndex \notin Noisy
    <3>1. voteCount' = voteCount
      BY <1>1, <2>2, StillIsDark DEF ReadLight
    <3> QED
      BY <1>1, <2>2, <3>1, NoisyCount
  <2> QED
    BY <2>1, <2>2
<1>3. CASE pollIndex < LDR_COUNT
  <2>1. pollIndex' - 1 = pollIndex /\ pollPc' = "ldr"
    BY <1>1, <1>3, LdrAssumption DEF ReadLight, Ldrs
  <2> QED
    BY <1>2, <2>1
<1>4. CASE ~(pollIndex < LDR_COUNT)
  <2>1. pollPc' = "accel" /\ pollIndex = LDR_COUNT
    BY <1>1, <1>4, LdrAssumption DEF ReadLight, Ldrs
  <2>2. Noisy \cap 1..pollIndex = Noisy
    BY <2>1, NoisyAssumption DEF Ldrs
  <2> QED
    BY <1>2, <2>1, <2>2
<1> QED
  BY <1>3, <1>4

LEMMA PollKeepsLight == TInv /\ LInv /\ Poll => LInv'
<1> SUFFICES ASSUME TInv, LInv, Poll PROVE LInv'
  OBVIOUS
<1> USE DEF environment, ldr, accel, calibration, reading, history, changes, wire
<1>1. Fits'
  BY DEF LInv, Fits, Calibrated, Poll, PollStarts, ReadLight, ReadTransfer, ReadMotion,
     Trigger
<1>4. Moved'
  BY DEF LInv, Moved, Poll, PollStarts, ReadLight, ReadTransfer, ReadMotion,
     Trigger
<1>2. Booted' /\ Watched'
  <2>1. CASE PollStarts
    BY <2>1 DEF LInv, Booted, Watched, PollStarts
  <2>2. CASE ReadLight
    BY <2>2 DEF LInv, Booted, Watched, ReadLight
  <2>3. CASE ReadTransfer \/ ReadMotion
    BY <2>3 DEF LInv, Booted, Watched, ReadTransfer, ReadMotion
  <2>4. CASE Trigger
    BY <2>4 DEF LInv, Booted, Watched, Trigger
  <2> QED
    BY <2>1, <2>2, <2>3, <2>4 DEF Poll
<1>3. Votes'
  <2>1. CASE PollStarts
    <3>1. voteCount' = 0 /\ pollPc' = "ldr" /\ pollIndex' = 1
      BY <2>1 DEF PollStarts, TInv, PollRange
    <3>2. 1 \in Ldrs
      BY LdrAssumption DEF Ldrs
    <3>3. Cardinality(Noisy \cap 1..(1 - 1)) \in Nat
      BY <3>2, NoisyCount
    <3> QED
      BY <3>1, <3>3 DEF Votes
  <2>2. CASE ReadLight
    BY <2>2, ReadLightKeeps
  <2>3. CASE ReadTransfer \/ ReadMotion
    BY <2>3 DEF LInv, Votes, ReadTransfer, ReadMotion
  <2>4. CASE Trigger
    BY <2>4 DEF Votes, Trigger
  <2> QED
    BY <2>1, <2>2, <2>3, <2>4 DEF Poll
<1> QED
  BY <1>1, <1>2, <1>3, <1>4 DEF LInv

(* A calibration takes from `changed' only the LDR whose baseline it takes *)
(* and, at its end, the accelerometer.                                     *)
LEMMA CalibratesKeepsLight == TInv /\ LInv /\ Calibrates => LInv'
<1> SUFFICES ASSUME TInv, LInv, Calibrates PROVE LInv'
  OBVIOUS
<1> USE DEF environment, ldr, accel, poll, reading, history, changes, wire
<1>1. CASE CalibrateLight
  <2>1. calIndex \in Ldrs
    BY <1>1 DEF TInv, CalRange, CalibrateLight
  <2>2. \A n \in Ldrs \ Noisy : Calibrated(n)' => Calibrated(n) \/ n = calIndex
    BY <1>1, <2>1, LdrAssumption DEF CalibrateLight, Calibrated, Goto, AfterLight, Ldrs
  <2>3. Fits'
    <3> SUFFICES ASSUME NEW n \in Ldrs \ Noisy, Calibrated(n)', n \notin changed'
                 PROVE baseline'[n] = light[Place[n]]
      BY <1>1 DEF Fits, CalibrateLight
    <3>1. CASE n = calIndex
      BY <1>1, <3>1 DEF CalibrateLight, Raw, TInv, TypeOK
    <3>2. CASE n # calIndex
      <4>1. baseline'[n] = baseline[n] /\ n \notin changed
        BY <1>1, <3>2 DEF CalibrateLight, TInv, TypeOK
      <4> QED
        BY <2>2, <3>2, <4>1 DEF LInv, Fits
    <3> QED
      BY <3>1, <3>2
  <2>4. Booted' /\ Watched' /\ Votes'
    BY <1>1 DEF LInv, Booted, Watched, Votes, CalibrateLight, Goto
  <2>5. Moved'
    BY <1>1, <2>1, LdrAssumption DEF LInv, Moved, CalibrateLight, Ldrs, Accel
  <2> QED
    BY <2>3, <2>4, <2>5 DEF LInv
<1>2. CASE CalibrateMotion
  <2>1. \A n \in Ldrs : n \in changed' <=> n \in changed
    BY <1>2, LdrAssumption DEF CalibrateMotion, Ldrs, Accel
  <2>2. changed' \subseteq changed
    BY <1>2 DEF CalibrateMotion, LInv, Moved
  <2>3. Fits'
    BY <1>2, <2>1 DEF LInv, Fits, Calibrated, CalibrateMotion
  <2>4. Booted' /\ Watched' /\ Votes' /\ Moved'
    BY <1>2, <2>2 DEF LInv, Booted, Watched, Votes, Moved, CalibrateMotion, Goto
  <2> QED
    BY <2>3, <2>4 DEF LInv
<1>3. CASE ScanAddress \/ ScanEnds \/ NoMotionSensor \/ SampleTransfer \/ SampleMotion \/ Arm
  <2>1. Fits'
    BY <1>3 DEF LInv, Fits, Calibrated, ScanAddress, ScanEnds, NoMotionSensor,
       SampleTransfer, SampleMotion, Arm, Goto
  <2>2. Watched' /\ Votes'
    BY <1>3 DEF LInv, Watched, Votes, ScanAddress, ScanEnds, NoMotionSensor,
       SampleTransfer, SampleMotion, Arm
  <2>3. Booted'
    BY <1>3 DEF LInv, Booted, ScanAddress, ScanEnds, NoMotionSensor, SampleTransfer,
       SampleMotion, Arm, Goto, TInv, CalRange
  <2>4. Moved'
    BY <1>3 DEF LInv, Moved, ScanAddress, ScanEnds, NoMotionSensor, SampleTransfer,
       SampleMotion, Arm
  <2> QED
    BY <2>1, <2>2, <2>3, <2>4 DEF LInv
<1> QED
  BY <1>1, <1>2, <1>3 DEF Calibrates

LEMMA OutsideKeepsLight == TInv /\ LInv /\ (Commands \/ Environment) => LInv'
<1> SUFFICES ASSUME TInv, LInv, Commands \/ Environment PROVE LInv'
  OBVIOUS
<1> USE DEF ldr, accel, environment, calibration, poll, reading, history, changes, wire
<1>1. ASSUME NEW verb \in {"ARM", "CALIBRATE_LIGHT", "CALIBRATE_MOTION"}, Command(verb)
      PROVE LInv'
  <2>1. Fits'
    BY <1>1 DEF LInv, Fits, Calibrated, Command, TInv, CalRange
  <2> QED
    BY <1>1, <2>1 DEF LInv, Booted, Watched, Votes, Moved, Command
<1>2. CASE Disarm
  BY <1>2 DEF LInv, Fits, Calibrated, Booted, Watched, Votes, Moved, Disarm, TInv, CalRange
<1>3. ASSUME NEW place \in Places, LightChanges(place) PROVE LInv'
  <2>1. Fits'
    BY <1>3 DEF LInv, Fits, Calibrated, LightChanges, TInv, TypeOK
  <2>3. \A n \in changed' : n \in changed \/ Kind(n) = "light"
    BY <1>3, LdrAssumption DEF LightChanges, Kind, Accel, Ldrs
  <2>2. Watched' /\ Votes' /\ Booted' /\ Moved'
    BY <1>3, <2>3 DEF LInv, Watched, Votes, Booted, Moved, LightChanges, SeenByPoll
  <2> QED
    BY <2>1, <2>2 DEF LInv
<1>4. CASE Moves
  <2>1. Fits'
    BY <1>4, LdrAssumption DEF LInv, Fits, Calibrated, Moves, Ldrs, Accel
  <2>2. Watched' /\ Votes' /\ Booted' /\ Moved'
    BY <1>4 DEF LInv, Watched, Votes, Booted, Moved, Moves, SeenByPoll, Kind
  <2> QED
    BY <2>1, <2>2 DEF LInv
<1> QED
  BY <1>1, <1>2, <1>3, <1>4 DEF Commands, Environment

LEMMA StepLInv == TInv /\ LInv /\ [Next]_vars => LInv'
<1>1. TInv /\ LInv /\ UNCHANGED vars => LInv'
  BY DEF LInv, Fits, Calibrated, Booted, Watched, Votes, Moved, vars, environment,
     ldr, accel, calibration, reading, poll, history, changes, wire
<1> QED
  BY <1>1, PollKeepsLight, CalibratesKeepsLight, OutsideKeepsLight DEF Next

(* For every number of LDRs and every vote that outnumbers the noisy ones, *)
(* a poll that detects light has a sound LDR whose light changed since its *)
(* baseline was taken or during the poll: read() against calibrate().      *)
THEOREM LightIsReal == Spec => []LightAlarmIsReal
<1>1. TInv /\ LInv => LightAlarmIsReal
  <2>1. Cardinality(Noisy) \in Nat
    <3>1. IsFiniteSet(1..LDR_COUNT)
      BY LdrAssumption, FS_Interval
    <3>2. IsFiniteSet(Noisy)
      BY <3>1, NoisyAssumption, FS_Subset DEF Ldrs
    <3> QED
      BY <3>2, FS_CardinalityType
  <2> QED
    BY <2>1, NoisyAssumption, LdrAssumption
       DEF LInv, Votes, LightAlarmIsReal, LightDetected, TInv, TypeOK
<1> QED
  BY <1>1, InitTInv, StepTInv, InitLInv, StepLInv, PTL DEF Spec

-----------------------------------------------------------------------------
(* The motion.  A baseline of good samples is the magnitude at rest, as    *)
(* long as the drawer has not moved, and so is the mean in the making.     *)

MFits == Accel \notin changed /\ "baseline" \notin worthless => baselineMagnitude = Axes

Samples ==
  calPc \in {"motion", "axes"} /\ ~sampleMoved /\ "sample" \notin worthless
    => sum = validSamples * Axes

(* What a task has transferred is in the buffer until it reads it, unless  *)
(* the transfers of both are there to be read.                             *)
Buffers ==
  /\ calPc = "axes" /\ ~mixed /\ ~sampleMoved => buffer = Axes
  /\ pollPc = "axes" /\ ~mixed /\ "motion" \notin pollChanged => buffer = Axes
  /\ calPc = "axes" /\ pollPc = "axes" => mixed

(* Before the configuration is written there is no baseline.               *)
Unset ==
  calPc = "scan" \/ (calPc = "light" /\ job = "setup") \/ ~IsAvailable
    => "baseline" \in worthless

MInv == MFits /\ Samples /\ Buffers /\ Unset /\ MotionAlarmIsReal

LEMMA MeanOfEqual ==
  ASSUME NEW a \in Nat, NEW n \in Nat, n > 0 PROVE (n * a) \div n = a
  BY SMT

LEMMA OneMore ==
  ASSUME NEW a \in Nat, NEW n \in Nat PROVE n * a + a = (n + 1) * a
  BY SMT

LEMMA InitMInv == Init => MInv
  BY DEF Init, MInv, MFits, Samples, Buffers, Unset, MotionAlarmIsReal

LEMMA PollKeepsMotion == TInv /\ LInv /\ MInv /\ Poll => MInv'
<1> SUFFICES ASSUME TInv, LInv, MInv, Poll PROVE MInv'
  OBVIOUS
<1> USE DEF environment, ldr, accel, calibration, reading, history, changes, wire
<1>1. CASE PollStarts \/ ReadLight
  <2>1. MFits' /\ Samples' /\ Unset' /\ MotionAlarmIsReal'
    BY <1>1 DEF MInv, MFits, Samples, Unset, IsAvailable, MotionAlarmIsReal, Axes,
       PollStarts, ReadLight
  <2>2. Buffers'
    BY <1>1 DEF MInv, Buffers, Axes, PollStarts, ReadLight
  <2> QED
    BY <2>1, <2>2 DEF MInv
<1>2. CASE ReadTransfer
  <2>1. MFits' /\ Samples' /\ Unset'
    BY <1>2 DEF MInv, MFits, Samples, Unset, IsAvailable, Axes, ReadTransfer
  <2>2. Buffers'
    BY <1>2 DEF MInv, Buffers, Axes, ReadTransfer, TInv, CalRange
  <2>3. MotionAlarmIsReal'
    BY <1>2 DEF MotionAlarmIsReal, ReadTransfer, TInv, PollRange
  <2> QED
    BY <2>1, <2>2, <2>3 DEF MInv
<1>3. CASE ReadMotion
  <2>1. MFits' /\ Samples' /\ Unset'
    BY <1>3 DEF MInv, MFits, Samples, Unset, IsAvailable, Axes, ReadMotion
  <2>2. Buffers'
    BY <1>3 DEF MInv, Buffers, Axes, ReadMotion, Consumes
  <2>3. MotionAlarmIsReal'
    <3> SUFFICES ASSUME motionDetected', ~mixed, "baseline" \notin worthless,
                        "motion" \notin pollChanged
                 PROVE  FALSE
      BY <1>3 DEF MotionAlarmIsReal, ReadMotion
    <3>1. Accel \notin changed
      BY <1>3 DEF ReadMotion, LInv, Watched, Kind
    <3>2. baselineMagnitude = Axes /\ buffer = Axes
      BY <1>3, <3>1 DEF MInv, MFits, Buffers, ReadMotion
    <3>3. Distance(buffer, baselineMagnitude) >= MOTION_THRESHOLD_RAW
      BY <1>3 DEF ReadMotion, AxesRead
    <3> QED
      BY <3>2, <3>3, AxesNat, MotionAssumption DEF Distance
  <2> QED
    BY <2>1, <2>2, <2>3 DEF MInv
<1>4. CASE Trigger
  BY <1>4 DEF MInv, MFits, Samples, Buffers, Unset, IsAvailable, MotionAlarmIsReal, Axes,
     Trigger
<1> QED
  BY <1>1, <1>2, <1>3, <1>4 DEF Poll

LEMMA NoSample == ASSUME NEW a \in Nat PROVE 0 * a = 0
BY SMT

LEMMA CalibratesKeepsMotion == TInv /\ LInv /\ MInv /\ Calibrates => MInv'
<1> SUFFICES ASSUME TInv, LInv, MInv, Calibrates PROVE MInv'
  OBVIOUS
<1> USE DEF environment, ldr, accel, poll, reading, history, changes, wire
<1>1. CASE CalibrateLight
  <2>1. Accel \in changed' <=> Accel \in changed
    BY <1>1, LdrAssumption DEF CalibrateLight, TInv, CalRange, Ldrs, Accel
  <2>2. MFits' /\ Unset' /\ MotionAlarmIsReal'
    BY <1>1, <2>1 DEF MInv, MFits, Unset, IsAvailable, MotionAlarmIsReal, CalibrateLight,
       Axes, Goto, AfterLight
  <2>3. sum' = 0 /\ validSamples' = 0 /\ Axes \in Nat /\ Axes' = Axes
    BY <1>1, AxesNat DEF CalibrateLight, TInv, CalRange, Axes
  <2>4. Samples'
    BY <2>3 DEF Samples
  <2>5. Buffers'
    BY <1>1 DEF MInv, Buffers, CalibrateLight, Axes, Goto, AfterLight
  <2> QED
    BY <2>2, <2>4, <2>5 DEF MInv
<1>2. CASE ScanAddress
  <2>1. calPc = "scan" /\ calPc' = "scan" /\ "baseline" \in worthless'
    BY <1>2 DEF ScanAddress, MInv, Unset
  <2>2. MotionAlarmIsReal' /\ Buffers'
    BY <1>2, <2>1 DEF MInv, MotionAlarmIsReal, Buffers, Axes, ScanAddress
  <2> QED
    BY <2>1, <2>2 DEF MInv, MFits, Samples, Unset
<1>3. CASE ScanEnds
  <2>1. "baseline" \in worthless' /\ pollPc' = "wait" /\ calPc' # "axes"
    BY <1>3 DEF ScanEnds, Goto, MInv, Unset, LInv, Booted, TInv, CalRange
  <2>2. MFits' /\ Unset' /\ MotionAlarmIsReal' /\ Buffers'
    BY <2>1 DEF MFits, Unset, MotionAlarmIsReal, Buffers
  <2>3. sum' = 0 /\ validSamples' = 0
    BY <1>3 DEF ScanEnds, TInv, CalRange
  <2>5. Axes' \in Nat
    BY <1>3, MotionAssumption DEF ScanEnds, TInv, TypeOK, Axes
  <2>6. PICK a \in Nat : a = Axes'
    BY <2>5
  <2>7. 0 * a = 0
    BY <2>6, NoSample
  <2>4. Samples'
    BY <2>3, <2>6, <2>7 DEF Samples
  <2> QED
    BY <2>2, <2>4 DEF MInv
<1>4. CASE NoMotionSensor
  <2>1. "baseline" \in worthless' /\ calPc' \in {"arm", "done"}
    BY <1>4 DEF NoMotionSensor, Goto, AfterMotion, MInv, Unset
  <2>2. MotionAlarmIsReal' /\ Buffers'
    BY <1>4, <2>1 DEF MInv, MotionAlarmIsReal, Buffers, Axes, NoMotionSensor
  <2> QED
    BY <2>1, <2>2 DEF MInv, MFits, Samples, Unset
<1>5. CASE SampleTransfer
  <2>1. MFits' /\ Unset' /\ MotionAlarmIsReal'
    BY <1>5 DEF MInv, MFits, Unset, IsAvailable, MotionAlarmIsReal, SampleTransfer, Axes
  <2>2. Buffers'
    BY <1>5 DEF MInv, Buffers, SampleTransfer, Axes
  <2>3. Axes \in Nat /\ validSamples \in Nat /\ calIndex \in Nat \ {0} /\ Axes' = Axes
    BY <1>5, AxesNat DEF TInv, TypeOK, SampleTransfer, Axes
  <2>4. ~sampleMoved' /\ "sample" \notin worthless => sum = validSamples * Axes
    <3>1. CASE calIndex = 1
      <4>1. validSamples = 0 /\ sum = 0
        BY <1>5, <2>3, <3>1 DEF TInv, CalRange, SampleTransfer
      <4> QED
        BY <2>3, <4>1
    <3>2. CASE calIndex # 1
      BY <1>5, <3>2 DEF MInv, Samples, SampleTransfer
    <3> QED
      BY <3>1, <3>2
  <2>5. Samples'
    BY <1>5, <2>3, <2>4 DEF Samples, SampleTransfer
  <2> QED
    BY <2>1, <2>2, <2>5 DEF MInv
<1>6. CASE SampleMotion
  <2>1. MFits' /\ Unset' /\ MotionAlarmIsReal'
    BY <1>6 DEF MInv, MFits, Unset, IsAvailable, MotionAlarmIsReal, SampleMotion, Axes
  <2>2. Buffers'
    BY <1>6 DEF MInv, Buffers, SampleMotion, Consumes, Axes
  <2>3. Axes \in Nat /\ validSamples \in Nat /\ Axes' = Axes
    BY <1>6, AxesNat DEF TInv, TypeOK, SampleMotion, Axes
  <2>4. Samples'
    <3> SUFFICES ASSUME ~sampleMoved, ~mixed, "sample" \notin worthless
                 PROVE  sum' = validSamples' * Axes
      BY <1>6, <2>3 DEF Samples, SampleMotion
    <3>1. sum = validSamples * Axes /\ buffer = Axes
      BY <1>6 DEF MInv, Samples, Buffers, SampleMotion
    <3>2. sum' = validSamples * Axes + Axes /\ validSamples' = validSamples + 1
      BY <1>6, <3>1 DEF SampleMotion, AxesRead
    <3> QED
      BY <2>3, <3>2, OneMore
  <2> QED
    BY <2>1, <2>2, <2>4 DEF MInv
<1>7. CASE CalibrateMotion
  <2>1. MFits'
    <3> SUFFICES ASSUME ~sampleMoved, validSamples # 0, "sample" \notin worthless
                 PROVE  baselineMagnitude' = Axes
      BY <1>7 DEF MFits, CalibrateMotion, Axes
    <3>1. sum = validSamples * Axes
      BY <1>7 DEF MInv, Samples, CalibrateMotion
    <3>2. validSamples \in Nat /\ validSamples > 0 /\ Axes \in Nat
      BY MotionAssumption, AxesNat DEF TInv, TypeOK
    <3>3. (validSamples * Axes) \div validSamples = Axes
      BY <3>2, MeanOfEqual
    <3> QED
      BY <1>7, <3>1, <3>2, <3>3 DEF CalibrateMotion
  <2>2. Samples' /\ Unset'
    BY <1>7 DEF Samples, Unset, IsAvailable, CalibrateMotion, Goto, AfterMotion
  <2>3. MotionAlarmIsReal' /\ Buffers'
    BY <1>7 DEF MInv, MotionAlarmIsReal, Buffers, Axes, CalibrateMotion, Goto, AfterMotion
  <2> QED
    BY <2>1, <2>2, <2>3 DEF MInv
<1>8. CASE Arm
  BY <1>8 DEF MInv, MFits, Samples, Buffers, Unset, IsAvailable, MotionAlarmIsReal, Arm,
     Axes, Goto
<1> QED
  BY <1>1, <1>2, <1>3, <1>4, <1>5, <1>6, <1>7, <1>8 DEF Calibrates

LEMMA OutsideKeepsMotion == TInv /\ MInv /\ (Commands \/ Environment) => MInv'
<1> SUFFICES ASSUME TInv, MInv, Commands \/ Environment PROVE MInv'
  OBVIOUS
<1> USE DEF ldr, accel, environment, calibration, poll, reading, history, changes, wire
<1>1. ASSUME NEW verb \in {"ARM", "CALIBRATE_LIGHT", "CALIBRATE_MOTION"}, Command(verb)
      PROVE MInv'
  <2>1. MFits' /\ Unset' /\ MotionAlarmIsReal' /\ Buffers'
    BY <1>1 DEF MInv, MFits, Unset, IsAvailable, MotionAlarmIsReal, Buffers, Command, Axes
  <2>2. sum' = 0 /\ validSamples' = 0 /\ Axes \in Nat /\ Axes' = Axes
    BY <1>1, AxesNat DEF Command, TInv, CalRange, Axes
  <2>3. Samples'
    BY <2>2 DEF Samples
  <2> QED
    BY <2>1, <2>3 DEF MInv
<1>2. CASE Disarm
  BY <1>2 DEF MInv, MFits, Samples, Buffers, Unset, IsAvailable, MotionAlarmIsReal, Disarm,
     Axes
<1>3. ASSUME NEW place \in Places, LightChanges(place) PROVE MInv'
  <2>1. Accel \in changed' <=> Accel \in changed
    BY <1>3, LdrAssumption DEF LightChanges, Ldrs, Accel
  <2>2. pollPc # "wait" => ("motion" \in pollChanged' <=> "motion" \in pollChanged)
    BY <1>3 DEF LightChanges, SeenByPoll
  <2> QED
    BY <1>3, <2>1, <2>2 DEF MInv, MFits, Samples, Buffers, Unset, IsAvailable,
       MotionAlarmIsReal, LightChanges, Axes
<1>4. CASE Moves
  <2>1. pollPc # "wait" => "motion" \in pollChanged'
    BY <1>4 DEF Moves, SeenByPoll
  <2> QED
    BY <1>4, <2>1 DEF MInv, MFits, Samples, Buffers, Unset, IsAvailable, MotionAlarmIsReal,
       Moves
<1> QED
  BY <1>1, <1>2, <1>3, <1>4 DEF Commands, Environment

LEMMA StepMInv == TInv /\ LInv /\ MInv /\ [Next]_vars => MInv'
<1>1. MInv /\ UNCHANGED vars => MInv'
  BY DEF MInv, MFits, Samples, Buffers, Unset, IsAvailable, MotionAlarmIsReal, Axes, vars,
     environment, ldr, accel, calibration, reading, poll, history, changes, wire
<1> QED
  BY <1>1, PollKeepsMotion, CalibratesKeepsMotion, OutsideKeepsMotion DEF Next

(* For every number of samples and every threshold, a poll that detects    *)
(* motion follows a movement since the samples of its baseline or during   *)
(* the poll, however calibrate() overlaps read(), unless the calibration   *)
(* got no sample or a transfer of one task came amid the reads of the      *)
(* other.                                                                  *)
THEOREM MotionIsReal == Spec => []MotionAlarmIsReal
<1>1. MInv => MotionAlarmIsReal
  BY DEF MInv
<1> QED
  BY <1>1, InitTInv, StepTInv, InitLInv, StepLInv, InitMInv, StepMInv, PTL DEF Spec
=============================================================================
