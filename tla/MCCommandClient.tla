-------------------------- MODULE MCCommandClient --------------------------
(***************************************************************************)
(* An instance of CommandClient for TLC: a blank line, commands with the   *)
(* right and the wrong number of words, the commands of the console and a  *)
(* word that is none.                                                      *)
(***************************************************************************)
EXTENDS CommandClient

Typed(v, n) == [verb |-> v, words |-> n]

MCLines ==
  {Blank, Typed("STATUS", 0), Typed("ARM", 0), Typed("ARM", 1),
   Typed("CHANGE_PIN", 2), Typed("HELP", 0), Typed("QUIT", 0), Typed("OPEN", 0)}
=============================================================================
