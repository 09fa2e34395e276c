----------------------- MODULE SmartDrawerAlarmProof -----------------------
(***************************************************************************)
(* Proofs about the alarm core, for every set of PINs: types, and that     *)
(* only a command with the PIN in force moves the alarm objects.           *)
(***************************************************************************)
EXTENDS SmartDrawerAlarm, TLAPS

(* The host task is amid an ARM or DISARM command whose PIN it accepted.   *)
Accepted ==
  hostPc \in {"enter", "setState", "clearReason", "stop", "stopStep", "stopTone"}

(* An accepted command keeps the PIN in force until it has been carried    *)
(* out: no CHANGE_PIN comes in between, for one task handles both.         *)
AcceptedPin ==
  Accepted => cmd.verb \in {"ARM", "DISARM"} /\ cmd.pin = currentPin

LEMMA DataTypes ==
  /\ \A s \in SystemState \cup {"none"} : StatusLine(s) \in Message /\ Ok(s) \in Message
  /\ AlarmReport \in Message /\ Err \in Message /\ Other \in Message
  /\ NoCommand \in Command
  /\ \A s : ToneOf(s) \in Tone
  /\ \A light, motion \in BOOLEAN : ReasonOf(light, motion) \in AlarmReason
<1>1. /\ \A s \in SystemState \cup {"none"} : StatusLine(s) \in Message /\ Ok(s) \in Message
      /\ AlarmReport \in Message /\ Err \in Message /\ Other \in Message
  BY DEF StatusLine, Ok, AlarmReport, Err, Other, Message, SystemState
<1>2. NoCommand \in Command
  BY PinAssumption DEF NoCommand, Command
<1>3. \A s : ToneOf(s) \in Tone
  BY DEF ToneOf, Tone
<1>4. \A light, motion \in BOOLEAN : ReasonOf(light, motion) \in AlarmReason
  BY DEF ReasonOf, AlarmReason
<1> QED
  BY <1>1, <1>2, <1>3, <1>4

LEMMA InitType == Init => TypeOK
<1> SUFFICES ASSUME Init PROVE TypeOK
  OBVIOUS
<1>1. alarmActive \in BOOLEAN /\ clientConnected \in BOOLEAN
  BY DEF Init
<1>2. step \in 0..3 /\ nextStep \in 0..3
  BY DEF Init
<1>3. /\ currentPin \in ValidPins /\ cmd \in Command
      /\ statusValue \in Message /\ heard \in Message
      /\ loopMsg \in Message /\ hostMsg \in Message
  BY DataTypes, PinAssumption DEF Init, SystemState
<1>4. /\ currentState \in SystemState /\ currentReason \in AlarmReason
      /\ tone \in Tone /\ sensed \in AlarmReason
      /\ link \in {"advertising", "up", "lost"}
      /\ loopPc \in LoopLabel /\ hostPc \in HostLabel
  BY DEF Init, SystemState, AlarmReason, Tone, LoopLabel, HostLabel
<1> QED
  BY <1>1, <1>2, <1>3, <1>4 DEF TypeOK

(* Each step of the loop task preserves the types.                         *)
LEMMA LoopType == TypeOK /\ LoopTask => TypeOK'
<1> SUFFICES ASSUME TypeOK, LoopTask PROVE TypeOK'
  OBVIOUS
<1> USE DEF security, buzzer, radio, status, loopVars, hostVars
<1>1. CASE Updates
  BY <1>1, DataTypes DEF Updates, LoopUpdate, AdvanceWaits, AdvanceDue, StoreStep,
     PlayStep, TypeOK, LoopLabel
<1>2. CASE Polls
  BY <1>2, DataTypes, SensorAssumption
     DEF Polls, PollSkips, PollDue, Sense, TypeOK, LoopLabel
<1>3. CASE TriggerCheck \/ TriggerSetAlarm \/ TriggerSetReason
  BY <1>3 DEF TriggerCheck, TriggerSetAlarm, TriggerSetReason, TypeOK, LoopLabel,
     SystemState, AlarmReason
<1>4. CASE SoundCheck \/ SoundStep \/ SoundTest \/ SoundTone \/ SoundOff
  <2>1. CASE SoundCheck
    BY <2>1 DEF SoundCheck, TypeOK, LoopLabel
  <2>2. CASE SoundStep \/ SoundTone
    BY <2>2, DataTypes DEF SoundStep, SoundTone, TypeOK, LoopLabel
  <2>3. CASE SoundTest \/ SoundOff
    BY <2>3 DEF SoundTest, SoundOff, TypeOK, LoopLabel, Tone
  <2> QED
    BY <1>4, <2>1, <2>2, <2>3
<1>5. CASE ReportAlarm \/ NotifyAlarm
  BY <1>5, DataTypes DEF ReportAlarm, NotifyAlarm, Notify, TypeOK, LoopLabel
<1>6. CASE Reports
  BY <1>6, DataTypes DEF Reports, StatusSkips, StatusDue, SetStatus, NotifyStatus,
     Notify, TypeOK, LoopLabel
<1> QED
  BY <1>1, <1>2, <1>3, <1>4, <1>5, <1>6 DEF LoopTask, Raises

(* So does each step of the host task.                                     *)
LEMMA HostType == TypeOK /\ HostTask => TypeOK'
<1> SUFFICES ASSUME TypeOK, HostTask PROVE TypeOK'
  OBVIOUS
<1> USE DEF security, buzzer, radio, status, loopVars, hostVars
<1>1. CASE HostEnter \/ HostSetState \/ HostClearReason
  BY <1>1 DEF HostEnter, HostSetState, HostClearReason, Target, TypeOK, HostLabel,
     SystemState, AlarmReason
<1>2. CASE HostStop \/ HostStopStep \/ HostStopTone
  <2>1. CASE HostStop
    BY <2>1 DEF HostStop, TypeOK, HostLabel
  <2>2. CASE HostStopStep \/ HostStopTone
    BY <2>2 DEF HostStopStep, HostStopTone, TypeOK, HostLabel, Tone
  <2> QED
    BY <1>2, <2>1, <2>2
<1>3. CASE HostRespond \/ HostNotify
  BY <1>3, DataTypes DEF HostRespond, HostNotify, Notify, TypeOK, HostLabel
<1>4. CASE OnDisconnect
  BY <1>4 DEF OnDisconnect, TypeOK
<1> QED
  BY <1>1, <1>2, <1>3, <1>4 DEF HostTask, Handles

(* And so does whatever the clients send and the radio does.               *)
LEMMA ClientType == TypeOK /\ (Client \/ LinkLost) => TypeOK'
<1> SUFFICES ASSUME TypeOK, Client \/ LinkLost PROVE TypeOK'
  OBVIOUS
<1> USE DEF security, buzzer, radio, status, loopVars, hostVars
<1>1. CASE OnConnect \/ LinkLost
  BY <1>1 DEF OnConnect, LinkLost, TypeOK
<1>2. ASSUME NEW verb \in {"ARM", "DISARM"}, NEW pin \in Pins,
             OnWriteArmOrDisarm(verb, pin)
      PROVE TypeOK'
  <2>1. cmd' \in Command
    BY <1>2 DEF OnWriteArmOrDisarm, Answers, Command, TypeOK
  <2>2. hostMsg' \in Message
    BY <1>2, DataTypes DEF OnWriteArmOrDisarm, Answers, SystemState
  <2> QED
    BY <1>2, <2>1, <2>2 DEF OnWriteArmOrDisarm, Answers, TypeOK, HostLabel
<1>3. ASSUME NEW old \in Pins, NEW new \in Pins, OnWriteChangePin(old, new)
      PROVE TypeOK'
  <2>1. currentPin' \in ValidPins
    BY <1>3 DEF OnWriteChangePin, AcceptsNewPin, TypeOK
  <2> QED
    BY <1>3, <2>1, DataTypes DEF OnWriteChangePin, Answers, TypeOK, HostLabel
<1>4. CASE OnWriteStatus \/ OnWriteOther
  BY <1>4, DataTypes DEF OnWriteStatus, OnWriteOther, Answers, TypeOK, HostLabel
<1> QED
  BY <1>1, <1>2, <1>3, <1>4 DEF Client, OnWriteNewPin

(* TypeOK holds in every reachable state: whatever words the clients send, *)
(* the PIN in force is one that CHANGE_PIN accepts, and no index, label or *)
(* message leaves its range.                                               *)
THEOREM TypeCorrect == Spec => []TypeOK
<1>1. TypeOK /\ UNCHANGED vars => TypeOK'
  BY DEF TypeOK, vars, security, buzzer, radio, status, loopVars, hostVars
<1>2. TypeOK /\ [Next]_vars => TypeOK'
  BY <1>1, LoopType, HostType, ClientType DEF Next
<1> QED
  BY <1>2, InitType, PTL DEF Spec

-----------------------------------------------------------------------------

LEMMA AcceptedInductive == TypeOK /\ AcceptedPin /\ [Next]_vars => AcceptedPin'
<1> SUFFICES ASSUME TypeOK, AcceptedPin, [Next]_vars PROVE AcceptedPin'
  OBVIOUS
<1> USE DEF AcceptedPin, Accepted, hostVars
<1>1. CASE LoopTask
  BY <1>1 DEF LoopTask, Updates, LoopUpdate, AdvanceWaits, AdvanceDue, StoreStep,
     PlayStep, Polls, PollSkips, PollDue, Sense, Raises, TriggerCheck,
     TriggerSetAlarm, TriggerSetReason, SoundCheck, SoundStep, SoundTest,
     SoundTone, SoundOff, ReportAlarm, NotifyAlarm, Reports, StatusSkips, StatusDue, SetStatus,
     NotifyStatus
<1>2. CASE HostTask
  BY <1>2 DEF HostTask, Handles, HostEnter, HostSetState, HostClearReason,
     HostStop, HostStopStep, HostStopTone, HostRespond, HostNotify, OnDisconnect
<1>3. ASSUME NEW verb \in {"ARM", "DISARM"}, NEW pin \in Pins,
             OnWriteArmOrDisarm(verb, pin)
      PROVE AcceptedPin'
  BY <1>3 DEF OnWriteArmOrDisarm, Answers, CheckPin
<1>4. ASSUME NEW old \in Pins, NEW new \in Pins, OnWriteChangePin(old, new)
      PROVE AcceptedPin'
  BY <1>4 DEF OnWriteChangePin, Answers
<1>5. CASE OnWriteStatus \/ OnWriteOther
  BY <1>5 DEF OnWriteStatus, OnWriteOther, Answers
<1>6. CASE OnConnect \/ LinkLost
  BY <1>6 DEF OnConnect, LinkLost
<1>7. CASE UNCHANGED vars
  BY <1>7 DEF vars
<1> QED
  BY <1>1, <1>2, <1>3, <1>4, <1>5, <1>6, <1>7 DEF Next, Client, OnWriteNewPin

(* Every step of the loop task moves its program counter.                  *)
LEMMA LoopMoves == LoopTask => loopPc' # loopPc
  BY DEF LoopTask, Updates, LoopUpdate, AdvanceWaits, AdvanceDue, StoreStep,
     PlayStep, Polls, PollSkips, PollDue, Sense, Raises, TriggerCheck,
     TriggerSetAlarm, TriggerSetReason, SoundCheck, SoundStep, SoundTest,
     SoundTone, SoundOff, ReportAlarm, NotifyAlarm, Reports, StatusSkips, StatusDue, SetStatus,
     NotifyStatus

(* Outside of the loop task's own steps nothing moves the state, the       *)
(* reason or the buzzer but an ARM or DISARM command with the PIN that is  *)
(* in force at that step: handleCommand's check, kept through its writes.  *)
THEOREM PinMovesAlarm == Spec => OnlyPinMovesAlarm
<1>1. Init => AcceptedPin
  BY DEF Init, AcceptedPin, Accepted
<1>2. ASSUME AcceptedPin, [Next]_vars, loopPc' = loopPc,
             <<security, buzzer>>' # <<security, buzzer>>
      PROVE cmd.verb \in {"ARM", "DISARM"} /\ cmd.pin = currentPin
  <2>1. SUFFICES Accepted
    BY <1>2 DEF AcceptedPin
  <2>2. ~ UNCHANGED vars /\ ~ LoopTask
    BY <1>2, LoopMoves DEF vars
  <2>3. CASE HostTask
    BY <1>2, <2>3 DEF HostTask, Handles, Accepted, HostEnter, HostSetState,
       HostClearReason, HostStop, HostStopStep, HostStopTone, HostRespond,
       HostNotify, OnDisconnect
  <2>4. CASE Client \/ LinkLost
    BY <1>2, <2>4 DEF Client, OnConnect, LinkLost, OnWriteArmOrDisarm,
       OnWriteNewPin, OnWriteChangePin, OnWriteStatus, OnWriteOther
  <2> QED
    BY <1>2, <2>2, <2>3, <2>4 DEF Next
<1> QED
  BY <1>1, <1>2, AcceptedInductive, TypeCorrect, PTL DEF Spec, OnlyPinMovesAlarm
=============================================================================
