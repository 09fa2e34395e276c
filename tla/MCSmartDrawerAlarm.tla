------------------------- MODULE MCSmartDrawerAlarm -------------------------
(***************************************************************************)
(* Instances of SmartDrawerAlarm for TLC.  Two acceptable PINs let a       *)
(* client change the PIN and present the old one; the third word stands    *)
(* for every PIN token that is too short, too long or missing.             *)
(***************************************************************************)
EXTENDS SmartDrawerAlarm

CONSTANTS p1, p2, bad

MCValidPins == {p1, p2}
MCPins      == {p1, p2, bad}
OnePin      == {p1}
ArmDisarm   == {"ARM", "DISARM"}
AllVerbs    == ArmDisarm \cup {"CHANGE_PIN", "STATUS", "OTHER"}
Both        == BOOLEAN
Never       == {FALSE}
=============================================================================
