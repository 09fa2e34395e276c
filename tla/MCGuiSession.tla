---------------------------- MODULE MCGuiSession ----------------------------
(***************************************************************************)
(* An instance of GuiSession for TLC: the default PIN, another one, and a  *)
(* word that the form refuses.                                             *)
(***************************************************************************)
EXTENDS GuiSession

Word(t, d, n) == [text |-> t, digits |-> d, length |-> n]

DefaultPin == Word("1234", TRUE, 4)
MCWords    == {DefaultPin, Word("5678", TRUE, 4), Word("abcd", FALSE, 4)}

MCBleAnswers == {Event("other")}
=============================================================================
