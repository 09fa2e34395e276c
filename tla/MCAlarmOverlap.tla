--------------------------- MODULE MCAlarmOverlap ---------------------------
(***************************************************************************)
(* AlarmOverlap on the instances of MCSmartDrawerAlarm.                    *)
(***************************************************************************)
EXTENDS AlarmOverlap, MCSmartDrawerAlarm
=============================================================================
