-------------------------- MODULE SmartDrawerAlarm --------------------------
(***************************************************************************)
(* The alarm core of the ESP32 firmware: SmartDrawerAlarm.ino with the     *)
(* objects `security' (state_machine.cpp), `buzzer' (alarm_buzzer.cpp) and *)
(* `ble' (ble_service.cpp).                                                *)
(*                                                                         *)
(* Two tasks share these objects and no lock protects them:                *)
(*   - the Arduino loop task runs setup() and then loop() forever;         *)
(*   - the NimBLE host task runs the callbacks onConnect, onDisconnect and *)
(*     onWrite, one at a time, and onWrite runs handleCommand to its end.  *)
(* On the dual-core ESP32 they really run in parallel, so a step below is  *)
(* one access to a shared object: a handler is a chain of steps, and the   *)
(* program counters loopPc and hostPc say where each task is in its chain. *)
(* What only one task touches is read and written within a single step.    *)
(*                                                                         *)
(* Time is abstracted: a comparison of millis() with an interval may come  *)
(* out either way.  Sensor readings are inputs.  Log lines are not in this *)
(* module, and a status message is reduced to its kind and to the security *)
(* state it tells.                                                         *)
(***************************************************************************)
EXTENDS Naturals

CONSTANTS
  Verbs,        \* the commands the clients send
  Pins,         \* the words a client may send where a PIN is expected
  ValidPins,    \* those that CHANGE_PIN accepts: 4 to 8 characters
  DEFAULT_PIN,
  Lights,       \* what lightDetected may be, and
  Motions       \* what motionDetected may be, in a poll

ASSUME PinAssumption == ValidPins \subseteq Pins /\ DEFAULT_PIN \in ValidPins
ASSUME SensorAssumption == Lights \subseteq BOOLEAN /\ Motions \subseteq BOOLEAN

VARIABLES
  currentState,     \* security.currentState
  currentReason,    \* security.currentReason
  alarmActive,      \* buzzer.alarmActive
  step,             \* buzzer.step, the index into the tone pattern
  tone,             \* what the PWM output plays
  currentPin,       \* the PIN; only the host task uses it
  link,             \* the radio link: "advertising", "up", or "lost"
  clientConnected,  \* ble.clientConnected
  statusValue,      \* the value held by the status characteristic
  heard,            \* the last status notification that reached the client
  loopPc,           \* where the loop task is
  sensed,           \* loop task: what the sensors of this poll detected
  nextStep,         \* loop task: the register that holds the advanced step
  loopMsg,          \* loop task: the status line it has built
  hostPc,           \* where the host task is
  cmd,              \* host task: the ARM or DISARM it carries out
  hostMsg           \* host task: the response it has built

security == <<currentState, currentReason>>
buzzer   == <<alarmActive, step, tone>>
radio    == <<link, clientConnected>>
status   == <<statusValue, heard>>
loopVars == <<loopPc, sensed, nextStep, loopMsg>>
hostVars == <<hostPc, cmd, hostMsg, currentPin>>
vars     == <<security, buzzer, radio, status, loopVars, hostVars>>

-----------------------------------------------------------------------------
(* Data.                                                                   *)

SystemState == {"DISARMED", "ARMED", "ALARM"}
AlarmReason == {"NONE", "LIGHT", "MOTION", "LIGHT_AND_MOTION"}
Tone        == {"off", "1000Hz", "1500Hz"}

(* What a status message tells its reader: its first word and, where it    *)
(* names one, the security state.                                          *)
StatusLine(s) == [kind |-> "STATUS", state |-> s]
Ok(s)         == [kind |-> "OK", state |-> s]
AlarmReport   == [kind |-> "ALARM", state |-> "ALARM"]
Err           == [kind |-> "ERR", state |-> "none"]
Other         == [kind |-> "other", state |-> "none"]
Message       == [kind : {"STATUS", "OK", "ALARM", "ERR", "other"},
                  state : SystemState \cup {"none"}]

NoCommand == [verb |-> "none", pin |-> DEFAULT_PIN]
Command   == [verb : {"ARM", "DISARM", "none"}, pin : Pins]

(* The reason trigger(light, motion) records; "NONE" is the case in which  *)
(* it does nothing.                                                        *)
ReasonOf(light, motion) ==
  CASE light /\ motion   -> "LIGHT_AND_MOTION"
    [] light /\ ~motion  -> "LIGHT"
    [] ~light /\ motion  -> "MOTION"
    [] ~light /\ ~motion -> "NONE"

(* The tone pattern: 1000 Hz, pause, 1500 Hz, pause.                       *)
ToneOf(s) ==
  CASE s = 0 -> "1000Hz"
    [] s = 2 -> "1500Hz"
    [] OTHER -> "off"

LoopLabel == {"setup", "update", "advance", "storeStep", "playStep", "poll",
              "sense", "trigger", "setAlarm", "setReason", "sound",
              "soundStep", "soundTest", "soundTone", "soundOff", "report",
              "notifyAlarm", "status", "setStatus", "notifyStatus"}
HostLabel == {"idle", "enter", "setState", "clearReason", "stop", "stopStep",
              "stopTone", "respond", "notify"}

-----------------------------------------------------------------------------
(* The link and the status characteristic.                                 *)

(* notifyStatus, second half: what is sent is the value the characteristic *)
(* holds now, and it arrives only over a link that is still up.            *)
Notify ==
  /\ heard' = IF clientConnected /\ link = "up" THEN statusValue ELSE heard
  /\ UNCHANGED statusValue

(* A client connects; the stack stops advertising.  onConnect.             *)
OnConnect ==
  /\ hostPc = "idle"
  /\ link = "advertising"
  /\ link' = "up"
  /\ clientConnected' = TRUE
  /\ UNCHANGED <<security, buzzer, status, loopVars, hostVars>>

(* The radio link breaks; the callback comes when the host task is free.   *)
LinkLost ==
  /\ link = "up"
  /\ link' = "lost"
  /\ UNCHANGED <<security, buzzer, clientConnected, status, loopVars, hostVars>>

(* Mutant of OnDisconnect: startAdvertising() is forgotten.                *)
OnDisconnectMutant ==
  /\ hostPc = "idle"
  /\ link = "lost"
  /\ clientConnected' = FALSE
  /\ UNCHANGED <<security, buzzer, link, status, loopVars, hostVars>>

(* onDisconnect: forget the client and advertise again.                    *)
OnDisconnect ==
  /\ hostPc = "idle"
  /\ link = "lost"
  /\ link' = "advertising"
  /\ clientConnected' = FALSE
  /\ UNCHANGED <<security, buzzer, status, loopVars, hostVars>>

-----------------------------------------------------------------------------
(* The host task: handleCommand, called from onWrite.                      *)

(* Mutant of CheckPin: the default PIN stays valid after CHANGE_PIN.       *)
CheckPinMutant(pin) == pin \in {currentPin, DEFAULT_PIN}

CheckPin(pin) == pin = currentPin

(* The state that arm() or disarm() enters.                                *)
Target == IF cmd.verb = "ARM" THEN "ARMED" ELSE "DISARMED"

(* A written command is one the host task had queued while it knew the     *)
(* client, so the link may be lost already.                                *)
Receives(verb) ==
  /\ hostPc = "idle"
  /\ clientConnected
  /\ verb \in Verbs

(* The command ends with the response m.                                   *)
Answers(m) ==
  /\ hostPc' = "respond"
  /\ hostMsg' = m
  /\ UNCHANGED cmd

(* ARM <pin> and DISARM <pin>.  A wrong PIN changes nothing.  Calibration  *)
(* precedes arm() and has no effect on the objects of this module.         *)
OnWriteArmOrDisarm(verb, pin) ==
  /\ Receives(verb)
  /\ IF CheckPin(pin)
     THEN /\ hostPc' = "enter"
          /\ cmd' = [verb |-> verb, pin |-> pin]
          /\ hostMsg' = Ok(IF verb = "ARM" THEN "ARMED" ELSE "DISARMED")
     ELSE Answers(Err)
  /\ UNCHANGED <<security, buzzer, radio, status, loopVars, currentPin>>

(* Mutant of AcceptsNewPin: the length of the new PIN is not checked.      *)
AcceptsNewPinMutant(new) == TRUE

(* CHANGE_PIN <old> <new>.                                                 *)
AcceptsNewPin(new) == new \in ValidPins

OnWriteChangePin(old, new) ==
  /\ Receives("CHANGE_PIN")
  /\ IF CheckPin(old) /\ AcceptsNewPin(new)
     THEN currentPin' = new /\ Answers(Other)
     ELSE currentPin' = currentPin /\ Answers(Err)
  /\ UNCHANGED <<security, buzzer, radio, status, loopVars>>

OnWriteNewPin == \E old, new \in Pins : OnWriteChangePin(old, new)

(* STATUS: buildStatusLine reads the state here.                           *)
OnWriteStatus ==
  /\ Receives("STATUS")
  /\ Answers(StatusLine(currentState))
  /\ UNCHANGED <<security, buzzer, radio, status, loopVars, currentPin>>

(* PING, GET_LOG, the calibration commands and whatever is no command.     *)
OnWriteOther ==
  /\ Receives("OTHER")
  /\ Answers(Other)
  /\ UNCHANGED <<security, buzzer, radio, status, loopVars, currentPin>>

(* arm() and disarm(): return at once in the target state, otherwise write *)
(* the state and then the reason.                                          *)
HostEnter ==
  /\ hostPc = "enter"
  /\ hostPc' = IF currentState = Target THEN "stop" ELSE "setState"
  /\ UNCHANGED <<security, buzzer, radio, status, loopVars, cmd, hostMsg, currentPin>>

HostSetState ==
  /\ hostPc = "setState"
  /\ currentState' = Target
  /\ hostPc' = "clearReason"
  /\ UNCHANGED <<currentReason, buzzer, radio, status, loopVars, cmd, hostMsg, currentPin>>

HostClearReason ==
  /\ hostPc = "clearReason"
  /\ currentReason' = "NONE"
  /\ hostPc' = "stop"
  /\ UNCHANGED <<currentState, buzzer, radio, status, loopVars, cmd, hostMsg, currentPin>>

(* buzzer.stop(), whether or not the state changed.                        *)
HostStop ==
  /\ hostPc = "stop"
  /\ alarmActive' = FALSE
  /\ hostPc' = "stopStep"
  /\ UNCHANGED <<security, step, tone, radio, status, loopVars, cmd, hostMsg, currentPin>>

HostStopStep ==
  /\ hostPc = "stopStep"
  /\ step' = 0
  /\ hostPc' = "stopTone"
  /\ UNCHANGED <<security, alarmActive, tone, radio, status, loopVars, cmd, hostMsg, currentPin>>

(* Mutant of HostStopTone: stop() leaves the tone to the next update().    *)
HostStopToneMutant ==
  /\ hostPc = "stopTone"
  /\ hostPc' = "respond"
  /\ UNCHANGED <<security, buzzer, radio, status, loopVars, cmd, hostMsg, currentPin>>

HostStopTone ==
  /\ hostPc = "stopTone"
  /\ tone' = "off"
  /\ hostPc' = "respond"
  /\ UNCHANGED <<security, alarmActive, step, radio, status, loopVars, cmd, hostMsg, currentPin>>

(* ble.notifyStatus(response): set the value, then notify.                 *)
HostRespond ==
  /\ hostPc = "respond"
  /\ statusValue' = hostMsg
  /\ hostPc' = "notify"
  /\ UNCHANGED <<security, buzzer, radio, heard, loopVars, cmd, hostMsg, currentPin>>

HostNotify ==
  /\ hostPc = "notify"
  /\ Notify
  /\ hostPc' = "idle"
  /\ cmd' = NoCommand
  /\ hostMsg' = Other
  /\ UNCHANGED <<security, buzzer, radio, loopVars, currentPin>>

-----------------------------------------------------------------------------
(* The loop task: the end of setup(), then loop() over and over.           *)

(* buzzer.update().                                                        *)
LoopUpdate ==
  /\ loopPc = "update"
  /\ loopPc' = IF alarmActive THEN "advance" ELSE "poll"
  /\ UNCHANGED <<security, buzzer, radio, status, hostVars, sensed, nextStep, loopMsg>>

(* advanceStep(): the current step of the pattern is not over yet ...      *)
AdvanceWaits ==
  /\ loopPc = "advance"
  /\ loopPc' = "poll"
  /\ UNCHANGED <<security, buzzer, radio, status, hostVars, sensed, nextStep, loopMsg>>

(* ... or it is: load the step, store its successor, play its tone.        *)
AdvanceDue ==
  /\ loopPc = "advance"
  /\ nextStep' = (step + 1) % 4
  /\ loopPc' = "storeStep"
  /\ UNCHANGED <<security, buzzer, radio, status, hostVars, sensed, loopMsg>>

StoreStep ==
  /\ loopPc = "storeStep"
  /\ step' = nextStep
  /\ loopPc' = "playStep"
  /\ UNCHANGED <<security, alarmActive, tone, radio, status, hostVars, sensed, nextStep, loopMsg>>

(* The compiled code may test the register or load `step' again: a write   *)
(* of the host task in between makes the two differ.                       *)
PlayStep ==
  /\ loopPc = "playStep"
  /\ \E s \in {nextStep, step} : tone' = ToneOf(s)
  /\ nextStep' = 0
  /\ loopPc' = "poll"
  /\ UNCHANGED <<security, alarmActive, step, radio, status, hostVars, sensed, loopMsg>>

(* The poll interval has not passed, or pollSensors() returns at once      *)
(* because the system is not armed.                                        *)
PollSkips ==
  /\ loopPc = "poll"
  /\ loopPc' = "status"
  /\ UNCHANGED <<security, buzzer, radio, status, hostVars, sensed, nextStep, loopMsg>>

PollDue ==
  /\ loopPc = "poll"
  /\ currentState = "ARMED"
  /\ loopPc' = "sense"
  /\ UNCHANGED <<security, buzzer, radio, status, hostVars, sensed, nextStep, loopMsg>>

(* Reading the sensors takes some 50 ms, so that any number of host steps  *)
(* may lie between the armed check and the trigger.                        *)
Sense ==
  /\ loopPc = "sense"
  /\ \E light \in Lights, motion \in Motions : sensed' = ReasonOf(light, motion)
  /\ loopPc' = "trigger"
  /\ UNCHANGED <<security, buzzer, radio, status, hostVars, nextStep, loopMsg>>

(* Mutant of Triggers: trigger() relies on pollSensors' armed check.       *)
TriggersMutant == sensed # "NONE"

(* security.trigger(light, motion): check, write the state, the reason.    *)
Triggers == currentState = "ARMED" /\ sensed # "NONE"

TriggerCheck ==
  /\ loopPc = "trigger"
  /\ IF Triggers
     THEN loopPc' = "setAlarm" /\ UNCHANGED sensed
     ELSE loopPc' = "status" /\ sensed' = "NONE"
  /\ UNCHANGED <<security, buzzer, radio, status, hostVars, nextStep, loopMsg>>

TriggerSetAlarm ==
  /\ loopPc = "setAlarm"
  /\ currentState' = "ALARM"
  /\ loopPc' = "setReason"
  /\ UNCHANGED <<currentReason, buzzer, radio, status, hostVars, sensed, nextStep, loopMsg>>

TriggerSetReason ==
  /\ loopPc = "setReason"
  /\ currentReason' = sensed
  /\ sensed' = "NONE"
  /\ loopPc' = "sound"
  /\ UNCHANGED <<currentState, buzzer, radio, status, hostVars, nextStep, loopMsg>>

(* buzzer.setAlarmActive(true).                                            *)
SoundCheck ==
  /\ loopPc = "sound"
  /\ alarmActive' = TRUE
  /\ loopPc' = IF alarmActive THEN "report" ELSE "soundStep"
  /\ UNCHANGED <<security, step, tone, radio, status, hostVars, sensed, nextStep, loopMsg>>

SoundStep ==
  /\ loopPc = "soundStep"
  /\ step' = 0
  /\ loopPc' = "soundTest"
  /\ UNCHANGED <<security, alarmActive, tone, radio, status, hostVars, sensed, nextStep, loopMsg>>

(* alarmActive is read once more: the host task may have stopped the buzzer.*)
SoundTest ==
  /\ loopPc = "soundTest"
  /\ loopPc' = IF alarmActive THEN "soundTone" ELSE "soundOff"
  /\ UNCHANGED <<security, buzzer, radio, status, hostVars, sensed, nextStep, loopMsg>>

SoundOff ==
  /\ loopPc = "soundOff"
  /\ tone' = "off"
  /\ loopPc' = "report"
  /\ UNCHANGED <<security, alarmActive, step, radio, status, hostVars, sensed, nextStep, loopMsg>>

SoundTone ==
  /\ loopPc = "soundTone"
  /\ tone' = ToneOf(0)
  /\ loopPc' = "report"
  /\ UNCHANGED <<security, alarmActive, step, radio, status, hostVars, sensed, nextStep, loopMsg>>

(* ble.notifyStatus(reason): set the value, then notify.                   *)
ReportAlarm ==
  /\ loopPc = "report"
  /\ statusValue' = AlarmReport
  /\ loopPc' = "notifyAlarm"
  /\ UNCHANGED <<security, buzzer, radio, heard, hostVars, sensed, nextStep, loopMsg>>

NotifyAlarm ==
  /\ loopPc = "notifyAlarm"
  /\ Notify
  /\ loopPc' = "status"
  /\ UNCHANGED <<security, buzzer, radio, hostVars, sensed, nextStep, loopMsg>>

(* The periodic status line; setup() sends one unconditionally.            *)
StatusSkips ==
  /\ loopPc = "status"
  /\ loopPc' = "update"
  /\ UNCHANGED <<security, buzzer, radio, status, hostVars, sensed, nextStep, loopMsg>>

(* Mutant of StatusDue: the characteristic's value is sent again as it is. *)
StatusDueMutant ==
  /\ loopPc \in {"setup", "status"}
  /\ loopMsg' = statusValue
  /\ loopPc' = "setStatus"
  /\ UNCHANGED <<security, buzzer, radio, status, hostVars, sensed, nextStep>>

StatusDue ==
  /\ loopPc \in {"setup", "status"}
  /\ loopMsg' = StatusLine(currentState)
  /\ loopPc' = "setStatus"
  /\ UNCHANGED <<security, buzzer, radio, status, hostVars, sensed, nextStep>>

SetStatus ==
  /\ loopPc = "setStatus"
  /\ statusValue' = loopMsg
  /\ loopMsg' = Other
  /\ loopPc' = "notifyStatus"
  /\ UNCHANGED <<security, buzzer, radio, heard, hostVars, sensed, nextStep>>

NotifyStatus ==
  /\ loopPc = "notifyStatus"
  /\ Notify
  /\ loopPc' = "update"
  /\ UNCHANGED <<security, buzzer, radio, hostVars, sensed, nextStep, loopMsg>>

-----------------------------------------------------------------------------
(* The specification.  It starts where ble.begin() has started advertising *)
(* and setup() is about to send its status line.                           *)

Init ==
  /\ currentState = "DISARMED" /\ currentReason = "NONE"
  /\ alarmActive = FALSE /\ step = 0 /\ tone = "off"
  /\ currentPin = DEFAULT_PIN
  /\ link = "advertising" /\ clientConnected = FALSE
  /\ statusValue = StatusLine("DISARMED") /\ heard = Other
  /\ loopPc = "setup" /\ sensed = "NONE" /\ nextStep = 0 /\ loopMsg = Other
  /\ hostPc = "idle" /\ cmd = NoCommand /\ hostMsg = Other

Polls == PollSkips \/ PollDue \/ Sense
Raises ==
  \/ TriggerCheck \/ TriggerSetAlarm \/ TriggerSetReason
  \/ SoundCheck \/ SoundStep \/ SoundTest \/ SoundTone \/ SoundOff
  \/ ReportAlarm \/ NotifyAlarm
Updates == LoopUpdate \/ AdvanceWaits \/ AdvanceDue \/ StoreStep \/ PlayStep
Reports == StatusSkips \/ StatusDue \/ SetStatus \/ NotifyStatus

LoopTask == Updates \/ Polls \/ Raises \/ Reports

Handles ==
  \/ HostEnter \/ HostSetState \/ HostClearReason
  \/ HostStop \/ HostStopStep \/ HostStopTone \/ HostRespond \/ HostNotify

HostTask == Handles \/ OnDisconnect

Client ==
  \/ OnConnect
  \/ \E verb \in {"ARM", "DISARM"}, pin \in Pins : OnWriteArmOrDisarm(verb, pin)
  \/ OnWriteNewPin \/ OnWriteStatus \/ OnWriteOther

Next == LoopTask \/ HostTask \/ Client \/ LinkLost

Spec == Init /\ [][Next]_vars

(* Both tasks keep running; the status interval of 1000 ms passes again    *)
(* and again, although any one test of it may come too early; before the   *)
(* host task reports a broken link it handles the finitely many commands   *)
(* that had arrived.  Nothing is assumed of the client and of the radio.   *)
Fairness ==
  /\ WF_vars(LoopTask)
  /\ SF_vars(StatusDue)
  /\ WF_vars(HostTask)
  /\ SF_vars(OnDisconnect)

FairSpec == Spec /\ Fairness

-----------------------------------------------------------------------------
(* What holds.                                                             *)

(* Types; in particular the PIN in force is always one CHANGE_PIN would    *)
(* accept, whatever words the clients send.                                *)
TypeOK ==
  /\ currentState \in SystemState /\ currentReason \in AlarmReason
  /\ alarmActive \in BOOLEAN /\ step \in 0..3 /\ tone \in Tone
  /\ currentPin \in ValidPins
  /\ link \in {"advertising", "up", "lost"} /\ clientConnected \in BOOLEAN
  /\ statusValue \in Message /\ heard \in Message
  /\ loopPc \in LoopLabel /\ sensed \in AlarmReason
  /\ nextStep \in 0..3 /\ loopMsg \in Message
  /\ hostPc \in HostLabel /\ cmd \in Command /\ hostMsg \in Message

(* The host task moves the alarm objects only for ARM and DISARM commands  *)
(* that carry the PIN in force: after CHANGE_PIN the old PIN is useless.   *)
OnlyPinMovesAlarm ==
  [][loopPc' = loopPc /\ <<security, buzzer>>' # <<security, buzzer>>
       => cmd.verb \in {"ARM", "DISARM"} /\ cmd.pin = currentPin]_vars

(* Once a client is left connected and sends no more commands, the status  *)
(* lines it hears come to tell the state the system is in, for good.       *)
StatusConverges ==
  <>[](hostPc = "idle" /\ link = "up")
    => <>[](heard = StatusLine(currentState))

(* After a broken link the firmware advertises again, whatever command the *)
(* host task was amid when the link broke.                                 *)
LinkRecovers == link = "lost" ~> link = "advertising"

-----------------------------------------------------------------------------
(* What the project's README says and overlapping writes break.  Quiet:    *)
(* the host task is idle and the loop task between two iterations.         *)

Silent == ~alarmActive /\ tone = "off"

Quiet == hostPc = "idle" /\ loopPc = "update"

(* README.md:34, of DISARMED: the buzzer is off.  README.md:36, of ALARM:  *)
(* the buzzer is active.  The writes of an ARM or a DISARM that overlap    *)
(* those of the loop task break both.                                      *)
BuzzerFollowsState ==
  Quiet => /\ currentState = "DISARMED" => Silent
           /\ currentState = "ALARM" => alarmActive
=============================================================================
