------------------------------ MODULE MCTimers ------------------------------
(***************************************************************************)
(* An instance of Timers for TLC, on a clock of four bits: it wraps during *)
(* every interval.                                                         *)
(***************************************************************************)
EXTENDS Timers, TLC

MCDurations == (0 :> 2) @@ (1 :> 1) @@ (2 :> 2) @@ (3 :> 3)
=============================================================================
