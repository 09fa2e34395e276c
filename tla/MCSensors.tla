----------------------------- MODULE MCSensors -----------------------------
(***************************************************************************)
(* An instance of Sensors for TLC: three LDRs at one place, of which one   *)
(* is noisy, two levels of light a threshold apart, and an I2C bus with    *)
(* another device before the accelerometer.  The magnitudes are chosen so  *)
(* that a drawer at rest differs from 0 by the threshold, as gravity does; *)
(* garbled axes have the magnitude 0.                                      *)
(***************************************************************************)
EXTENDS Sensors

MCLevels     == {0, 1}
MCNoisy      == {2}
MCPlace      == [n \in 1..3 |-> 1]
MCMagnitudes == {1, 2}
MCGarbled    == {0}
MCBus        == <<"other", "LIS3DH_COMPATIBLE">>
=============================================================================
