---------------------------- MODULE AlarmDevice ----------------------------
(***************************************************************************)
(* What the alarm core promises, seen from outside: an alarm with a state  *)
(* and a buzzer that change together.  The states are those of README.md,  *)
(* lines 34-36; that an alarm lasts until a correct DISARM, as line 36     *)
(* has it, is not promised, for the code also lets an ARM end it: that     *)
(* disagreement is stated by AlarmLastsUntilDisarmed of AlarmOverlap.      *)
(*                                                                         *)
(* The promise has one exception, and `torn' says when it applies: after   *)
(* the firmware's two unlocked tasks have changed the alarm at the same    *)
(* time, nothing is known of it until the next command.                    *)
(***************************************************************************)
VARIABLES
  state,     \* the security state
  sounding,  \* the buzzer plays the alarm pattern
  torn       \* two changes have overlapped

SystemState == {"DISARMED", "ARMED", "ALARM"}

Init ==
  /\ state = "DISARMED"
  /\ sounding = FALSE
  /\ torn = FALSE

(* A detection raises the alarm of an armed drawer, and of no other.       *)
Raise ==
  /\ ~torn
  /\ state = "ARMED"
  /\ state' = "ALARM"
  /\ sounding' = TRUE
  /\ UNCHANGED torn

(* ARM or DISARM ends whatever was, a torn state included; and arm(), like *)
(* disarm(), is carried out in state ALARM, too.                           *)
Carry(target) ==
  /\ state' = target
  /\ sounding' = FALSE
  /\ torn' = FALSE

(* Two changes overlap.                                                    *)
Overlap ==
  /\ state' \in SystemState
  /\ sounding' \in BOOLEAN
  /\ torn' = TRUE

Next ==
  \/ Raise
  \/ \E target \in {"ARMED", "DISARMED"} : Carry(target)
  \/ Overlap

Spec == Init /\ [][Next]_<<state, sounding, torn>>
=============================================================================
