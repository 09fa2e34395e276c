----------------------------- MODULE MCEventLog -----------------------------
(***************************************************************************)
(* An instance of EventLog for TLC.  The firmware's CAPACITY is 24; what   *)
(* matters is how many lines come before and after the log is full.        *)
(***************************************************************************)
EXTENDS EventLog
=============================================================================
