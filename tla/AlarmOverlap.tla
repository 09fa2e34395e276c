--------------------------- MODULE AlarmOverlap ---------------------------
(***************************************************************************)
(* The alarm core with a history of whether the writes of its two tasks    *)
(* have overlapped.  No lock protects the alarm objects; the properties    *)
(* here say that overlapping writes are the only way to an inconsistent    *)
(* alarm, and what repairs it.                                             *)
(***************************************************************************)
EXTENDS SmartDrawerAlarm

VARIABLE torn     \* the two tasks' writes have overlapped

(* The stretches in which a task has acted on a check of the shared alarm  *)
(* objects and still has writes to them to do.                             *)
LoopWrites ==
  loopPc \in {"advance", "storeStep", "playStep", "setAlarm", "setReason",
              "sound", "soundStep", "soundTest", "soundTone", "soundOff"}
HostWrites ==
  hostPc \in {"setState", "clearReason", "stop", "stopStep", "stopTone"}

(* History: both tasks were amid their writes at once since the host task  *)
(* last began to write with the loop task outside of its own.              *)
Watch ==
  torn' = \/ (LoopWrites /\ HostWrites)'
          \/ torn /\ ~(HostWrites' /\ ~HostWrites)

(* The alarm objects agree with each other.                                *)
Consistent ==
  /\ currentState = "ALARM" <=> alarmActive
  /\ tone = IF alarmActive THEN ToneOf(step) ELSE "off"
  /\ currentState = "ALARM" => currentReason # "NONE"

HInit == Init /\ torn = FALSE
HNext == Next /\ Watch
HSpec == HInit /\ [][HNext]_<<vars, torn>>

-----------------------------------------------------------------------------
(* Only overlapping writes tear the alarm apart.  Outside of both tasks'   *)
(* writes, and when none overlapped since the last undisturbed ARM or      *)
(* DISARM, the buzzer pattern runs exactly in ALARM, the output plays the  *)
(* tone of the pattern's step, and an alarm has a reason.  In particular   *)
(* the 50 ms between pollSensors' armed check and the trigger are harmless,*)
(* and one undisturbed ARM or DISARM repairs whatever an overlap left.     *)
UntornIsConsistent == ~torn /\ ~LoopWrites /\ ~HostWrites => Consistent

(* When handleCommand answers OK DISARMED to a command whose writes were   *)
(* undisturbed, the system is disarmed and silent, and stays so while it   *)
(* answers; after OK ARMED it is armed, or has already raised an alarm.    *)
OkIsTruthful ==
  ~torn /\ hostPc \in {"respond", "notify"} =>
    /\ hostMsg = Ok("DISARMED") => currentState = "DISARMED" /\ Silent
    /\ hostMsg = Ok("ARMED") => currentState \in {"ARMED", "ALARM"}

-----------------------------------------------------------------------------
(* The two tasks implement the device of AlarmDevice.  A change counts     *)
(* from the step that decides it: the check in trigger(), and the check in *)
(* arm() or disarm(); the writes that follow only carry it out.            *)
Raising ==
  loopPc \in {"setAlarm", "setReason", "sound", "soundStep", "soundTest", "soundTone",
              "soundOff"}

Device == INSTANCE AlarmDevice WITH
  state    <- IF HostWrites THEN Target
              ELSE IF Raising THEN "ALARM"
              ELSE currentState,
  sounding <- IF HostWrites THEN FALSE ELSE Raising \/ alarmActive

(* Unless writes overlap, the some ten unlocked writes of a trigger, of an *)
(* ARM or of a DISARM act as one step: an alarm is raised only from ARMED, *)
(* with its buzzer; it ends only by a DISARM or an ARM, with its buzzer;   *)
(* and one undisturbed command ends whatever an overlap has left.          *)
ImplementsDevice == Device!Spec

(* README.md:36, of ALARM: the system remains in this state until a        *)
(* correct DISARM command is received.  The code lets a correct ARM end it *)
(* as well, with no overlap at all: arm() asks only whether the system is  *)
(* armed already, and then goes on to write the state.                     *)
AlarmLastsUntilDisarmed ==
  [][~torn /\ ~LoopWrites /\ currentState = "ALARM" /\ HostWrites' /\ ~HostWrites
       => cmd.verb = "DISARM" /\ cmd.pin = currentPin]_vars
=============================================================================
