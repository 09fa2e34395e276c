---------------------------- MODULE MCDrawerGui ----------------------------
(***************************************************************************)
(* Instances of DrawerGui for TLC.  Two clients let a new one replace one  *)
(* that is still connected.                                                *)
(***************************************************************************)
EXTENDS DrawerGui

CONSTANTS c1, c2, t1

TwoClients == {c1, c2}
OneTask    == {t1}

(* A form that leaves the sender to the user name, one with the check box  *)
(* off, and one without a port.                                            *)
ValidForm == [enabled |-> TRUE, recipient |-> "address", smtp_host |-> "word",
              smtp_port |-> 465, username |-> "address", password |-> "word",
              sender |-> ""]
OffForm   == [ValidForm EXCEPT !.enabled = FALSE]
WrongForm == [ValidForm EXCEPT !.smtp_port = 0]

OnOrOff    == {ValidForm, OffForm}
ThreeForms == {ValidForm, OffForm, WrongForm}
=============================================================================
