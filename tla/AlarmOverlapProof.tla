------------------------- MODULE AlarmOverlapProof -------------------------
(***************************************************************************)
(* Proofs that only overlapping writes make the alarm inconsistent, for    *)
(* every set of PINs.  The inductive invariant says, for each place of the *)
(* two program counters, how far the objects are on their way from one     *)
(* consistent alarm to the next, as long as no writes have overlapped.     *)
(***************************************************************************)
EXTENDS AlarmOverlap, SmartDrawerAlarmProof

(* What the loop task has got done when the host task is not writing.      *)
LoopProgress ==
  ~torn /\ ~HostWrites =>
    /\ ~LoopWrites => Consistent
    /\ loopPc \in {"advance", "storeStep"} => Consistent /\ currentState = "ALARM"
    /\ loopPc = "setAlarm" => Consistent /\ currentState = "ARMED" /\ sensed # "NONE"
    /\ loopPc \in {"setReason", "sound"} => ~alarmActive /\ tone = "off"
    /\ loopPc = "setReason" => sensed # "NONE"
    /\ loopPc \in {"soundStep", "soundTest", "soundTone", "playStep"} => alarmActive
    /\ loopPc \in {"soundTest", "soundTone"} => step = 0
    /\ loopPc # "soundOff"
    /\ loopPc = "playStep" => step = nextStep
    /\ loopPc \in {"setReason", "sound", "soundStep", "soundTest", "soundTone", "playStep"}
         => currentState = "ALARM"
    /\ loopPc \in {"sound", "soundStep", "soundTest", "soundTone", "playStep"}
         => currentReason # "NONE"

(* What the host task has got done, with the loop task not writing.        *)
HostProgress ==
  ~torn /\ HostWrites =>
    /\ ~LoopWrites
    /\ hostPc # "setState" => currentState = Target
    /\ hostPc \in {"stopStep", "stopTone"} => ~alarmActive

(* The answer the host task is going to give matches the command.          *)
AnswerFits == Accepted => hostMsg = Ok(Target)

IInv == TypeOK /\ LoopProgress /\ HostProgress /\ AnswerFits /\ OkIsTruthful

-----------------------------------------------------------------------------
(* The loop task's steps never touch what belongs to the host task, and    *)
(* touch the alarm objects only within the loop task's writes.             *)
LEMMA LoopLeavesHost == LoopTask => UNCHANGED hostVars
<1> USE DEF hostVars
<1> QED
  BY DEF LoopTask, Updates, LoopUpdate, AdvanceWaits, AdvanceDue, StoreStep,
     PlayStep, Polls, PollSkips, PollDue, Sense, Raises, TriggerCheck,
     TriggerSetAlarm, TriggerSetReason, SoundCheck, SoundStep, SoundTest,
     SoundTone, SoundOff, ReportAlarm, NotifyAlarm, Reports, StatusSkips, StatusDue, SetStatus,
     NotifyStatus

LEMMA LoopQuiet ==
  LoopTask /\ ~LoopWrites => UNCHANGED <<security, buzzer>>
<1> USE DEF security, buzzer, LoopWrites
<1> QED
  BY DEF LoopTask, Updates, LoopUpdate, AdvanceWaits, AdvanceDue, StoreStep,
     PlayStep, Polls, PollSkips, PollDue, Sense, Raises, TriggerCheck,
     TriggerSetAlarm, TriggerSetReason, SoundCheck, SoundStep, SoundTest,
     SoundTone, SoundOff, ReportAlarm, NotifyAlarm, Reports, StatusSkips, StatusDue, SetStatus,
     NotifyStatus

(* A step of the loop task that leaves torn false starts with torn false,  *)
(* and does not write while the host task does.                            *)
LEMMA LoopWatch ==
  LoopTask /\ Watch /\ ~torn' => ~torn /\ ~(LoopWrites' /\ HostWrites')
                                 /\ (HostWrites' <=> HostWrites)
  BY LoopLeavesHost DEF hostVars, Watch, HostWrites

LEMMA HInitIInv == HInit => IInv
<1> SUFFICES ASSUME HInit PROVE IInv
  OBVIOUS
<1>1. Consistent /\ ~LoopWrites /\ ~HostWrites
  BY DEF HInit, Init, Consistent, LoopWrites, HostWrites
<1>2. LoopProgress
  BY <1>1 DEF HInit, Init, LoopProgress
<1> QED
  BY <1>1, <1>2, InitType DEF HInit, Init, IInv, HostProgress, AnswerFits, Accepted,
     OkIsTruthful

(* Each step of the loop task takes its own writes one further.            *)
LEMMA LoopKeepsProgress == IInv /\ LoopTask /\ Watch => LoopProgress'
<1> SUFFICES ASSUME IInv, LoopTask, Watch, ~torn', ~HostWrites'
             PROVE LoopProgress'
  BY DEF LoopProgress
<1>1. ~torn /\ ~HostWrites
  BY LoopWatch
<1>2. LoopProgress /\ TypeOK
  BY DEF IInv
<1> USE DEF security, buzzer, LoopProgress, Consistent, LoopWrites
<1>3. CASE LoopUpdate
  BY <1>1, <1>2, <1>3 DEF LoopUpdate
<1>4. CASE AdvanceWaits
  BY <1>1, <1>2, <1>4 DEF AdvanceWaits
<1>5. CASE AdvanceDue
  BY <1>1, <1>2, <1>5 DEF AdvanceDue
<1>6. CASE StoreStep
  BY <1>1, <1>2, <1>6 DEF StoreStep
<1>7. CASE PlayStep
  BY <1>1, <1>2, <1>7 DEF PlayStep
<1>8. CASE Polls
  BY <1>1, <1>2, <1>8 DEF Polls, PollSkips, PollDue, Sense
<1>9. CASE TriggerCheck
  BY <1>1, <1>2, <1>9 DEF TriggerCheck, Triggers
<1>10. CASE TriggerSetAlarm
  BY <1>1, <1>2, <1>10 DEF TriggerSetAlarm
<1>11. CASE TriggerSetReason
  BY <1>1, <1>2, <1>11 DEF TriggerSetReason
<1>12. CASE SoundCheck
  BY <1>1, <1>2, <1>12 DEF SoundCheck
<1>13. CASE SoundStep
  BY <1>1, <1>2, <1>13 DEF SoundStep
<1>14. CASE SoundTest \/ SoundTone \/ SoundOff
  BY <1>1, <1>2, <1>14 DEF SoundTest, SoundTone, SoundOff
<1>15. CASE ReportAlarm \/ NotifyAlarm
  BY <1>1, <1>2, <1>15 DEF ReportAlarm, NotifyAlarm
<1>16. CASE Reports
  BY <1>1, <1>2, <1>16 DEF Reports, StatusSkips, StatusDue, SetStatus, NotifyStatus
<1> QED
  BY <1>3, <1>4, <1>5, <1>6, <1>7, <1>8, <1>9, <1>10, <1>11, <1>12, <1>13, <1>14,
     <1>15, <1>16 DEF LoopTask, Updates, Raises

(* While the host task writes, an untorn loop task only looks on; and it   *)
(* never takes back what the host task is answering.                       *)
LEMMA LoopKeepsHost ==
  IInv /\ LoopTask /\ Watch => HostProgress' /\ AnswerFits' /\ OkIsTruthful'
<1> SUFFICES ASSUME IInv, LoopTask, Watch
             PROVE HostProgress' /\ AnswerFits' /\ OkIsTruthful'
  OBVIOUS
<1>1. UNCHANGED hostVars
  BY LoopLeavesHost
<1>2. HostProgress'
  <2> SUFFICES ASSUME ~torn', HostWrites' PROVE HostProgress'
    BY DEF HostProgress
  <2>1. ~torn /\ HostWrites /\ ~LoopWrites' /\ ~LoopWrites
    BY LoopWatch DEF IInv, HostProgress
  <2>2. UNCHANGED <<security, buzzer>>
    BY <2>1, LoopQuiet
  <2> QED
    BY <1>1, <2>1, <2>2 DEF IInv, HostProgress, Target, hostVars, security, buzzer
<1>3. AnswerFits'
  BY <1>1 DEF IInv, AnswerFits, Accepted, Target, hostVars
<1>4. OkIsTruthful'
  <2> SUFFICES ASSUME ~torn', hostPc \in {"respond", "notify"}
               PROVE OkIsTruthful'
    BY <1>1 DEF OkIsTruthful, hostVars
  <2>1. ~torn /\ ~HostWrites
    BY LoopWatch DEF HostWrites
  <2>2. CASE hostMsg = Ok("DISARMED")
    <3>1. currentState = "DISARMED" /\ Silent
      BY <2>1, <2>2 DEF IInv, OkIsTruthful
    <3>2. ~LoopWrites
      BY <2>1, <3>1 DEF IInv, LoopProgress, LoopWrites, Silent
    <3>3. UNCHANGED <<security, buzzer>>
      BY <3>2, LoopQuiet
    <3> QED
      BY <1>1, <2>2, <3>1, <3>3 DEF OkIsTruthful, Silent, security, buzzer, hostVars, Ok
  <2>3. CASE hostMsg = Ok("ARMED")
    <3>1. currentState \in {"ARMED", "ALARM"}
      BY <2>1, <2>3 DEF IInv, OkIsTruthful
    <3>2. currentState' \in {currentState, "ALARM"}
      BY DEF LoopTask, Updates, LoopUpdate, AdvanceWaits, AdvanceDue, StoreStep,
         PlayStep, Polls, PollSkips, PollDue, Sense, Raises, TriggerCheck,
         TriggerSetAlarm, TriggerSetReason, SoundCheck, SoundStep, SoundTest, SoundTone,
         SoundOff,
         ReportAlarm, NotifyAlarm, Reports, StatusSkips, StatusDue, SetStatus,
         NotifyStatus, security
    <3> QED
      BY <1>1, <2>3, <3>1, <3>2 DEF OkIsTruthful, hostVars, Ok
  <2> QED
    BY <1>1, <2>2, <2>3 DEF OkIsTruthful, hostVars
<1> QED
  BY <1>2, <1>3, <1>4

(* Each step of a command takes the host task's writes one further, and    *)
(* the first of them may make good what an earlier overlap broke.          *)
LEMMA HostKeeps == IInv /\ Handles /\ Watch
                     => LoopProgress' /\ HostProgress' /\ AnswerFits' /\ OkIsTruthful'
<1> SUFFICES ASSUME IInv, Handles, Watch
             PROVE LoopProgress' /\ HostProgress' /\ AnswerFits' /\ OkIsTruthful'
  OBVIOUS
<1> USE DEF security, buzzer, loopVars
<1>1. TypeOK /\ LoopProgress /\ HostProgress /\ AnswerFits /\ OkIsTruthful
  BY DEF IInv
<1>2. LoopWrites' <=> LoopWrites
  BY DEF LoopWrites, Handles, HostEnter, HostSetState, HostClearReason, HostStop,
     HostStopStep, HostStopTone, HostRespond, HostNotify
<1>3. CASE HostEnter
  <2>1. HostWrites' /\ Target' = Target
    BY <1>3 DEF HostEnter, HostWrites, Target
  <2>2. HostProgress'
    BY <1>2, <1>3, <2>1 DEF HostEnter, HostProgress, Watch, Target
  <2> QED
    BY <1>1, <1>3, <2>1, <2>2 DEF HostEnter, LoopProgress, AnswerFits, Accepted,
       OkIsTruthful
<1>4. CASE HostSetState \/ HostClearReason \/ HostStop \/ HostStopStep
  <2>1. HostWrites' /\ HostWrites /\ Target' = Target
    BY <1>4 DEF HostSetState, HostClearReason, HostStop, HostStopStep, HostWrites,
       Target
  <2>2. ~torn' => ~torn /\ ~LoopWrites'
    BY <2>1 DEF Watch
  <2>3. HostProgress'
    BY <1>1, <1>4, <2>1, <2>2 DEF HostProgress, HostSetState, HostClearReason,
       HostStop, HostStopStep, Target
  <2>4. AnswerFits'
    BY <1>1, <1>4, <2>1 DEF AnswerFits, Accepted, HostSetState, HostClearReason,
       HostStop, HostStopStep
  <2>5. LoopProgress' /\ OkIsTruthful'
    BY <1>4, <2>1 DEF LoopProgress, OkIsTruthful, HostWrites
  <2> QED
    BY <2>3, <2>4, <2>5
<1>5. CASE HostStopTone
  <2>1. HostWrites /\ ~HostWrites' /\ Target' = Target
    BY <1>5 DEF HostStopTone, HostWrites, Target
  <2>2. HostProgress' /\ AnswerFits'
    BY <1>5, <2>1 DEF HostStopTone, HostProgress, AnswerFits, Accepted
  <2>3. ASSUME ~torn'
        PROVE ~LoopWrites /\ currentState' = Target /\ Silent' /\ hostMsg' = Ok(Target)
    <3>1. ~torn
      BY <2>1, <2>3 DEF Watch
    <3> QED
      BY <1>1, <1>5, <2>1, <3>1 DEF HostStopTone, HostProgress, AnswerFits, Accepted,
         Silent, Target
  <2>4. LoopProgress'
    <3> SUFFICES ASSUME ~torn' PROVE LoopProgress'
      BY DEF LoopProgress
    <3>1. Consistent' /\ ~LoopWrites'
      BY <1>2, <2>3 DEF Consistent, Silent, Target
    <3> QED
      BY <3>1 DEF LoopProgress, LoopWrites
  <2>5. OkIsTruthful'
    BY <2>3 DEF OkIsTruthful, Target, Ok
  <2> QED
    BY <2>2, <2>4, <2>5
<1>6. CASE HostRespond \/ HostNotify
  <2>1. ~HostWrites /\ ~HostWrites' /\ (~torn' => ~torn)
    BY <1>6 DEF HostRespond, HostNotify, HostWrites, Watch
  <2>2. LoopProgress'
    BY <1>1, <1>6, <2>1 DEF HostRespond, HostNotify, LoopProgress, LoopWrites,
       Consistent
  <2>3. HostProgress' /\ AnswerFits'
    BY <1>6, <2>1 DEF HostRespond, HostNotify, HostProgress, AnswerFits, Accepted
  <2>4. OkIsTruthful'
    BY <1>1, <1>6, <2>1 DEF HostRespond, HostNotify, OkIsTruthful, Silent, Ok
  <2> QED
    BY <2>2, <2>3, <2>4
<1> QED
  BY <1>3, <1>4, <1>5, <1>6 DEF Handles

(* A command arriving, a link coming or going: no alarm object moves.      *)
LEMMA OutsideKeeps ==
  IInv /\ (Client \/ LinkLost \/ OnDisconnect) /\ Watch
    => LoopProgress' /\ HostProgress' /\ AnswerFits' /\ OkIsTruthful'
<1> SUFFICES ASSUME IInv, Client \/ LinkLost \/ OnDisconnect, Watch
             PROVE LoopProgress' /\ HostProgress' /\ AnswerFits' /\ OkIsTruthful'
  OBVIOUS
<1> USE DEF security, buzzer, loopVars
<1>1. TypeOK /\ LoopProgress /\ HostProgress /\ AnswerFits /\ OkIsTruthful
  BY DEF IInv
<1>2. UNCHANGED <<security, buzzer, loopVars>>
  BY DEF Client, OnConnect, OnWriteArmOrDisarm, OnWriteNewPin, OnWriteChangePin,
     OnWriteStatus, OnWriteOther, LinkLost, OnDisconnect
<1>3. /\ HostWrites' <=> HostWrites
      /\ HostWrites => UNCHANGED <<hostPc, cmd>>
      /\ AnswerFits'
      /\ hostPc' \in {"respond", "notify"} /\ hostPc' # hostPc
           => hostMsg' # Ok("ARMED") /\ hostMsg' # Ok("DISARMED")
      /\ hostPc' = hostPc => UNCHANGED hostMsg
  <2>1. CASE OnConnect \/ LinkLost \/ OnDisconnect
    BY <1>1, <2>1 DEF OnConnect, LinkLost, OnDisconnect, hostVars, HostWrites,
       AnswerFits, Accepted, Target
  <2>2. ASSUME NEW verb \in {"ARM", "DISARM"}, NEW pin \in Pins,
               OnWriteArmOrDisarm(verb, pin)
        PROVE <1>3!:
    BY <2>2 DEF OnWriteArmOrDisarm, Receives, Answers, HostWrites, AnswerFits, Accepted,
       Target, Ok, Err
  <2>3. ASSUME NEW old \in Pins, NEW new \in Pins, OnWriteChangePin(old, new)
        PROVE <1>3!:
    BY <2>3 DEF OnWriteChangePin, Receives, Answers, HostWrites, AnswerFits, Accepted, Ok,
       Err, Other
  <2>4. CASE OnWriteStatus \/ OnWriteOther
    BY <2>4 DEF OnWriteStatus, OnWriteOther, Receives, Answers, HostWrites, AnswerFits,
       Accepted, Ok, StatusLine, Other
  <2> QED
    BY <2>1, <2>2, <2>3, <2>4 DEF Client, OnWriteNewPin
<1>4. LoopWrites' <=> LoopWrites
  BY <1>2 DEF LoopWrites
<1>5. ~torn' => ~torn
  BY <1>3, <1>4 DEF Watch
<1>6. LoopProgress'
  BY <1>1, <1>2, <1>3, <1>4, <1>5 DEF LoopProgress, Consistent
<1>7. HostProgress'
  BY <1>1, <1>2, <1>3, <1>4, <1>5 DEF HostProgress, Target
<1>8. OkIsTruthful'
  BY <1>1, <1>2, <1>3, <1>5 DEF OkIsTruthful, Silent
<1> QED
  BY <1>3, <1>6, <1>7, <1>8

LEMMA IInvInductive == IInv /\ [HNext]_<<vars, torn>> => IInv'
<1> SUFFICES ASSUME IInv, [HNext]_<<vars, torn>> PROVE IInv'
  OBVIOUS
<1>1. CASE UNCHANGED <<vars, torn>>
  BY <1>1 DEF vars, security, buzzer, radio, status, loopVars, hostVars, IInv,
     TypeOK, LoopProgress, HostProgress, AnswerFits, OkIsTruthful, Accepted,
     Consistent, LoopWrites, HostWrites, Target, Silent
<1>2. CASE HNext
  <2>1. TypeOK'
    BY <1>2, LoopType, HostType, ClientType DEF HNext, Next, IInv
  <2>2. LoopProgress' /\ HostProgress' /\ AnswerFits' /\ OkIsTruthful'
    BY <1>2, LoopKeepsProgress, LoopKeepsHost, HostKeeps, OutsideKeeps
       DEF HNext, Next, HostTask
  <2> QED
    BY <2>1, <2>2 DEF IInv
<1> QED
  BY <1>1, <1>2

LEMMA IInvHolds == HSpec => []IInv
  BY HInitIInv, IInvInductive, PTL DEF HSpec

(* Without an overlap of the two tasks' writes the alarm's state, buzzer,  *)
(* tone and reason agree whenever neither task is amid its writes, and one *)
(* undisturbed ARM or DISARM restores that after an overlap.               *)
THEOREM OverlapIsNeeded == HSpec => []UntornIsConsistent
<1>1. IInv => UntornIsConsistent
  BY DEF IInv, LoopProgress, UntornIsConsistent
<1> QED
  BY <1>1, IInvHolds, PTL

(* An OK answer to a command that was carried out undisturbed tells the    *)
(* truth for as long as it is being sent.                                  *)
THEOREM AnswersAreTruthful == HSpec => []OkIsTruthful
<1>1. IInv => OkIsTruthful
  BY DEF IInv
<1> QED
  BY <1>1, IInvHolds, PTL

-----------------------------------------------------------------------------
(* The refinement: each step of the two tasks is one of the device, or it  *)
(* changes nothing of the device.                                          *)
DeviceState    == IF HostWrites THEN Target ELSE IF Raising THEN "ALARM" ELSE currentState
DeviceSounding == IF HostWrites THEN FALSE ELSE Raising \/ alarmActive

DeviceStays == UNCHANGED <<DeviceState, DeviceSounding, torn>>

(* A step that leaves torn set is an overlap, whatever else it does.       *)
LEMMA TornIsOverlap == TypeOK' /\ torn' = TRUE => Device!Next
<1> SUFFICES ASSUME TypeOK', torn' = TRUE PROVE Device!Overlap
  BY DEF Device!Next
<1>1. DeviceState' \in Device!SystemState
  BY DEF TypeOK, DeviceState, Device!SystemState, SystemState, Target
<1>2. DeviceSounding' \in BOOLEAN
  BY DEF TypeOK, DeviceSounding
<1> QED
  BY <1>1, <1>2 DEF Device!Overlap, DeviceState, DeviceSounding, Device!SystemState

TornType == torn \in BOOLEAN

LEMMA TornTyped == HSpec => []TornType
<1>1. HInit => TornType
  BY DEF HInit, TornType
<1>2. TornType /\ [HNext]_<<vars, torn>> => TornType'
  BY DEF HNext, Watch, TornType
<1> QED
  BY <1>1, <1>2, PTL DEF HSpec

(* An untorn step of the loop task raises the alarm at the check of        *)
(* trigger(), and otherwise changes nothing.                               *)
LEMMA LoopRefines == IInv /\ LoopTask /\ Watch /\ torn' = FALSE /\ torn = FALSE
                       => Device!Raise \/ DeviceStays
<1> SUFFICES ASSUME IInv, LoopTask, Watch, torn' = FALSE, torn = FALSE
             PROVE Device!Raise \/ DeviceStays
  OBVIOUS
<1>1. UNCHANGED hostVars /\ (HostWrites' <=> HostWrites) /\ Target' = Target
  BY LoopLeavesHost, LoopWatch DEF hostVars, Target
<1>2. CASE HostWrites
  BY <1>1, <1>2 DEF DeviceStays, DeviceState, DeviceSounding
<1>3. CASE ~HostWrites
  <2> USE DEF security, buzzer, Raising
  <2>1. LoopProgress /\ TypeOK
    BY DEF IInv
  <2>2. CASE TriggerCheck /\ Triggers
    <3>1. Consistent /\ currentState = "ARMED" /\ ~alarmActive
      BY <1>3, <2>1, <2>2 DEF TriggerCheck, Triggers, LoopProgress, LoopWrites, Consistent
    <3>2. Raising' /\ ~Raising
      BY <2>2 DEF TriggerCheck
    <3> QED
      BY <1>1, <1>3, <3>1, <3>2 DEF Device!Raise
  <2>3. CASE TriggerCheck /\ ~Triggers
    BY <1>1, <1>3, <2>3 DEF TriggerCheck, DeviceStays, DeviceState, DeviceSounding
  <2>4. CASE \/ TriggerSetAlarm \/ TriggerSetReason
             \/ SoundCheck \/ SoundStep \/ SoundTest \/ SoundTone \/ SoundOff
    BY <1>1, <1>3, <2>1, <2>4 DEF TriggerSetAlarm, TriggerSetReason, SoundCheck,
       SoundStep, SoundTest, SoundTone, SoundOff, LoopProgress, DeviceStays, DeviceState, DeviceSounding
  <2>5. CASE Updates \/ Polls \/ ReportAlarm \/ NotifyAlarm \/ Reports
    <3>1. UNCHANGED <<currentState, alarmActive>> /\ (Raising' <=> Raising)
      BY <2>5 DEF Updates, LoopUpdate, AdvanceWaits, AdvanceDue, StoreStep,
         PlayStep, Polls, PollSkips, PollDue, Sense, ReportAlarm, NotifyAlarm, Reports,
         StatusSkips, StatusDue, SetStatus, NotifyStatus
    <3> QED
      BY <1>1, <1>3, <3>1 DEF DeviceStays, DeviceState, DeviceSounding
  <2> QED
    BY <2>2, <2>3, <2>4, <2>5 DEF LoopTask, Raises
<1> QED
  BY <1>2, <1>3

(* An untorn step of the host task changes the device where arm() or       *)
(* disarm() is entered, and nowhere else.                                  *)
LEMMA HostRefines ==
  IInv /\ Handles /\ Watch /\ torn \in BOOLEAN /\ torn' = FALSE
    => Device!Next \/ DeviceStays
<1> SUFFICES ASSUME IInv, Handles, Watch, torn \in BOOLEAN, torn' = FALSE
             PROVE Device!Next \/ DeviceStays
  OBVIOUS
<1>1. CASE HostEnter
  <2>1. HostWrites' /\ Target' = Target /\ Target \in {"ARMED", "DISARMED"}
    BY <1>1 DEF HostEnter, HostWrites, Target
  <2>2. Device!Carry(Target)
    BY <2>1 DEF Device!Carry
  <2> QED
    BY <2>1, <2>2 DEF Device!Next
<1> USE DEF security, buzzer, loopVars
<1>2. CASE HostSetState \/ HostClearReason \/ HostStop \/ HostStopStep
  <2>1. HostWrites' /\ HostWrites /\ Target' = Target
    BY <1>2 DEF HostSetState, HostClearReason, HostStop, HostStopStep, HostWrites,
       Target
  <2>2. torn = FALSE
    BY <2>1 DEF Watch
  <2> QED
    BY <2>1, <2>2 DEF DeviceStays, DeviceState, DeviceSounding
<1>3. CASE HostStopTone
  <2>1. HostWrites /\ ~HostWrites' /\ Target' = Target
    BY <1>3 DEF HostStopTone, HostWrites, Target
  <2>2. torn = FALSE
    BY <2>1 DEF Watch
  <2>3. ~LoopWrites /\ currentState = Target /\ ~alarmActive
    BY <1>3, <2>1, <2>2 DEF IInv, HostProgress, HostStopTone
  <2>4. ~Raising' /\ currentState' = Target /\ ~alarmActive'
    BY <1>3, <2>3 DEF HostStopTone, Raising, LoopWrites
  <2> QED
    BY <1>3, <2>1, <2>2, <2>3, <2>4 DEF HostStopTone, DeviceStays, DeviceState, DeviceSounding
<1>4. CASE HostRespond \/ HostNotify
  <2>1. ~HostWrites /\ ~HostWrites'
    BY <1>4 DEF HostRespond, HostNotify, HostWrites
  <2>2. torn = FALSE
    BY <2>1 DEF Watch
  <2>3. UNCHANGED <<security, buzzer, loopPc>>
    BY <1>4 DEF HostRespond, HostNotify
  <2> QED
    BY <2>1, <2>2, <2>3 DEF DeviceStays, DeviceState, DeviceSounding, Raising
<1> QED
  BY <1>1, <1>2, <1>3, <1>4 DEF Handles

LEMMA OutsideRefines ==
  IInv /\ torn \in BOOLEAN /\ (Client \/ LinkLost \/ OnDisconnect) /\ Watch /\ torn' = FALSE
    => Device!Next \/ DeviceStays
<1> SUFFICES ASSUME IInv, torn \in BOOLEAN, Client \/ LinkLost \/ OnDisconnect,
                    Watch, torn' = FALSE
             PROVE Device!Next \/ DeviceStays
  OBVIOUS
<1>1. UNCHANGED <<security, buzzer, loopVars>>
  BY DEF Client, OnConnect, OnWriteArmOrDisarm, OnWriteNewPin, OnWriteChangePin,
     OnWriteStatus, OnWriteOther, LinkLost, OnDisconnect
<1>2. (HostWrites' <=> HostWrites) /\ (HostWrites => UNCHANGED cmd)
  <2>1. CASE OnConnect \/ LinkLost \/ OnDisconnect
    BY <2>1 DEF OnConnect, LinkLost, OnDisconnect, hostVars, HostWrites
  <2>2. CASE ~(OnConnect \/ LinkLost \/ OnDisconnect)
    BY <2>2 DEF Client, OnWriteArmOrDisarm, OnWriteNewPin, OnWriteChangePin,
       OnWriteStatus, OnWriteOther, Receives, Answers, HostWrites
  <2> QED
    BY <2>1, <2>2
<1> QED
  BY <1>1, <1>2 DEF DeviceStays, DeviceState, DeviceSounding, Raising, Target, Watch,
     security, buzzer, loopVars

LEMMA StepRefines ==
  IInv /\ IInv' /\ torn \in BOOLEAN /\ HNext => Device!Next \/ DeviceStays
<1> SUFFICES ASSUME IInv, IInv', torn \in BOOLEAN, HNext
             PROVE Device!Next \/ DeviceStays
  OBVIOUS
<1>1. torn' \in BOOLEAN /\ Watch
  BY DEF HNext, Watch
<1>2. CASE torn' = TRUE
  BY <1>2, TornIsOverlap DEF IInv
<1>3. CASE torn' = FALSE
  <2>1. CASE Handles
    BY <1>1, <1>3, <2>1, HostRefines
  <2>2. CASE LoopTask
    BY <1>1, <1>3, <2>2, LoopWatch, LoopRefines DEF Device!Next
  <2>3. CASE Client \/ LinkLost \/ OnDisconnect
    BY <1>1, <1>3, <2>3, OutsideRefines
  <2> QED
    BY <2>1, <2>2, <2>3 DEF HNext, Next, HostTask
<1> QED
  BY <1>1, <1>2, <1>3

(* The two unlocked tasks implement the atomic device: an alarm is raised  *)
(* from ARMED alone and ended by a command alone, state and buzzer         *)
(* together, save between an overlap of their writes and the next command. *)
THEOREM TasksImplementDevice == HSpec => ImplementsDevice
<1>1. HInit => Device!Init
  BY DEF HInit, Init, Device!Init, HostWrites, Raising
<1>2. IInv /\ IInv' /\ TornType /\ [HNext]_<<vars, torn>>
        => [Device!Next]_<<DeviceState, DeviceSounding, torn>>
  <2>1. UNCHANGED <<vars, torn>> => DeviceStays
    BY DEF vars, security, buzzer, loopVars, hostVars, DeviceStays, DeviceState,
       DeviceSounding, HostWrites, Raising, Target
  <2> QED
    BY <2>1, StepRefines DEF DeviceStays, TornType
<1> QED
  BY <1>1, <1>2, IInvHolds, TornTyped, PTL DEF HSpec, ImplementsDevice, Device!Spec, DeviceState,
     DeviceSounding
=============================================================================
