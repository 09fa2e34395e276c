----------------------------- MODULE DrawerCall -----------------------------
(***************************************************************************)
(* What the command-line client promises its user of a command: a remote   *)
(* call that is executed at most once, and that returns only when it has   *)
(* been executed, with its answer shown or lost.  Connections, attempts,   *)
(* status lines and acknowledgements do not appear here; that any of them  *)
(* may fail appears as `Gives up', which may come at any time and tells    *)
(* the user that nothing is known.                                         *)
(***************************************************************************)
EXTENDS Naturals

VARIABLES
  caller,      \* "free", "busy" with a call, or "gone" without its return
  executed,    \* how often the drawer executed the call
  shown,       \* its answer was shown
  lost,        \* its answer will never be
  response     \* what it returned

Init ==
  /\ caller = "free" /\ executed = 1
  /\ shown = FALSE /\ lost = FALSE /\ response = "nothing"

Call ==
  /\ caller = "free" /\ caller' = "busy"
  /\ executed' = 0 /\ shown' = FALSE /\ lost' = FALSE /\ response' = "nothing"

(* Also after the caller has given up.                                     *)
Execute ==
  /\ executed = 0 /\ executed' = 1
  /\ lost' \in BOOLEAN
  /\ UNCHANGED <<caller, shown, response>>

ShowAnswer ==
  /\ executed = 1
  /\ shown' = TRUE
  /\ UNCHANGED <<caller, executed, lost, response>>

LoseAnswer ==
  /\ executed = 1
  /\ lost' = TRUE
  /\ UNCHANGED <<caller, executed, shown, response>>

(* The response may be a status line, nothing when the caller has waited   *)
(* too long, or the answer to an earlier call that the drawer happened to  *)
(* send again; it is never an answer that was not shown, nor one that is   *)
(* left over from an earlier call.                                         *)
Return ==
  /\ caller = "busy" /\ caller' = "free"
  /\ executed = 1
  /\ shown \/ lost
  /\ response' \in {"nothing", "line", "again"} \/ (shown /\ response' = "answer")
  /\ UNCHANGED <<executed, shown, lost>>

GivesUp ==
  /\ caller' = "gone"
  /\ UNCHANGED <<executed, shown, lost, response>>

Next == Call \/ Execute \/ ShowAnswer \/ LoseAnswer \/ Return \/ GivesUp

Spec == Init /\ [][Next]_<<caller, executed, shown, lost, response>>
=============================================================================
