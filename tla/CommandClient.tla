--------------------------- MODULE CommandClient ---------------------------
(***************************************************************************)
(* The command-line client: ConsoleApp (main.py) with the checks of        *)
(* commands.py and SmartDrawerBleClient (ble_client.py), against the       *)
(* drawer.                                                                 *)
(*                                                                         *)
(* There is one coroutine; a step is what lies between two of its awaits,  *)
(* and notification callbacks run between steps.  A line of input is its   *)
(* verb and the number of words after it; a status message is an answer to *)
(* the command under way, an answer to an earlier one, or a status line of *)
(* the drawer's loop task.                                                 *)
(*                                                                         *)
(* The drawer has two tasks that notify: setValue and then notify, without *)
(* a lock between them (ble_service.cpp), so that each sends what the      *)
(* other has set last.  An answer that the loop task sends so is a repeat. *)
(*                                                                         *)
(* External: bleak may fail any call and the radio may lose the link.  The *)
(* drawer handles a write within onWrite, so it sends the answer first and *)
(* acknowledges the write then; the link keeps the order of what it sends. *)
(***************************************************************************)
EXTENDS Naturals, Sequences

CONSTANTS
  Lines,        \* the lines a user may type, or give with --command
  MaxAir        \* bound on the messages sent and not yet received

ASSUME AirAssumption == MaxAir \in Nat /\ MaxAir >= 1
ASSUME LinesAssumption == Lines \subseteq [verb : STRING, words : Nat]

VARIABLES
  mode,           \* "once" with --command, else "interactive"
  pc,             \* the await the coroutine is at
  code,           \* the exit code, once it is known
  sent,           \* the command under way
  attempt,        \* of ensure_connected; 0 in the first connect()
  deviceKnown,    \* client.device is not None
  client,         \* client.client: "none", or whether it is connected
  oldUp,          \* a client it has replaced is still connected
  subscribed,     \* a connected client has its notifications enabled
  statusEvent,    \* client._status_event is set
  lastStatus,     \* client.last_status
  printed,        \* the response printed for the command under way
  air,            \* what the drawer has sent and the client not received
  request,        \* the written command: "none", "sent", "answering" between
                  \* the setValue and the notify of its answer, or "executed"
  value,          \* of the status characteristic: "line" or an answer
  reporting,      \* the loop task is between setValue and notify
  \* A history, of the command under way but for `spoiled'.
  executed,       \* how often the drawer executed it, 2 for more
  seen,           \* its answer has arrived, and was shown as an event
  lost,           \* its answer will never arrive
  spoiled         \* a start_notify or a disconnect has failed

console == <<mode, code, sent>>
ble     == <<attempt, deviceKnown, client, oldUp, subscribed>>
answer  == <<statusEvent, lastStatus, printed>>
drawer  == <<air, request, value, reporting>>
history == <<executed, seen, lost, spoiled>>
vars    == <<pc, console, ble, answer, drawer, history>>

-----------------------------------------------------------------------------
(* Commands (commands.py).                                                 *)

VALID_COMMANDS ==
  {"ARM", "DISARM", "STATUS", "CHANGE_PIN", "GET_LOG", "CALIBRATE_LIGHT",
   "CALIBRATE_MOTION", "PING", "HELP", "QUIT", "EXIT"}

(* The verbs that handleCommand knows.                                     *)
DrawerVerbs == VALID_COMMANDS \ {"HELP", "QUIT", "EXIT"}

(* normalize_command makes nothing of a blank line.                        *)
Blank == [verb |-> "", words |-> 0]

(* Mutant of Validate: a word that is no command passes.                   *)
ValidateMutant(line) ==
  /\ line.verb \in {"ARM", "DISARM"} => line.words = 1
  /\ line.verb = "CHANGE_PIN" => line.words = 2

(* validate_command: only the number of words is checked, not the PINs.    *)
Validate(line) ==
  /\ line.verb \in VALID_COMMANDS
  /\ line.verb \in {"ARM", "DISARM"} => line.words = 1
  /\ line.verb = "CHANGE_PIN" => line.words = 2

-----------------------------------------------------------------------------
(* The awaits and how the coroutine leaves them.                           *)

Await == {"start", "scanning", "connecting", "check", "subscribing",
          "prompt", "sending", "ready", "sleeping", "writing", "waiting",
          "closing", "exited"}

Connected == client = "up"

(* The one link of the drawer is shared by the clients connected to it.    *)
LinkUp == Connected \/ oldUp

(* The first connect() precedes the `try' of run_once and interactive, so  *)
(* an exception within it ends the program without disconnect().           *)
InFirstConnect ==
  attempt = 0 /\ pc \in {"scanning", "connecting", "check", "subscribing"}

Leave(c) ==
  /\ code' = c
  /\ pc' = IF InFirstConnect THEN "exited" ELSE "closing"
  /\ UNCHANGED <<mode, sent>>

(* An exception in connect(): ensure_connected catches it and sleeps, also *)
(* after its last attempt.                                                 *)
ConnectRaises ==
  /\ IF attempt = 0
     THEN Leave(1)
     ELSE pc' = "sleeping" /\ UNCHANGED console
  /\ UNCHANGED <<attempt, deviceKnown>>

(* connect() makes a new client and does not disconnect the one before.    *)
NewClient ==
  /\ client' = "down"
  /\ oldUp' = LinkUp
  /\ pc' = "connecting"

BeginConnect(n) ==
  /\ attempt' = n
  /\ IF deviceKnown
     THEN NewClient
     ELSE pc' = "scanning" /\ UNCHANGED <<client, oldUp>>
  /\ UNCHANGED <<deviceKnown, subscribed>>

-----------------------------------------------------------------------------
(* main.py.                                                                *)

(* A new command: what is known of the one before is history.              *)
Aged(m) == CASE m = "answer" -> "oldAnswer"
             [] m = "repeat" -> "oldRepeat"
             [] OTHER        -> m

NewCommand(line) ==
  /\ sent' = line
  /\ printed' = "nothing"
  /\ lastStatus' = Aged(lastStatus)
  /\ air' = [k \in DOMAIN air |-> Aged(air[k])]
  /\ value' = Aged(value)
  /\ executed' = 0 /\ seen' = FALSE /\ lost' = FALSE
  /\ UNCHANGED <<statusEvent, request, reporting, spoiled>>

(* --command: a line that is not valid ends the program with code 2.       *)
StartOnce ==
  /\ pc = "start"
  /\ mode' = "once"
  /\ \E line \in Lines :
       IF Validate(line)
       THEN /\ BeginConnect(0)
            /\ NewCommand(line)
            /\ UNCHANGED code
       ELSE /\ pc' = "exited" /\ code' = 2
            /\ UNCHANGED <<sent, ble, answer, drawer, history>>

StartInteractive ==
  /\ pc = "start"
  /\ mode' = "interactive"
  /\ BeginConnect(0)
  /\ UNCHANGED <<code, sent, answer, drawer, history>>

(* A blank line, HELP and what is not valid leave the program at the       *)
(* prompt; QUIT and EXIT end it; anything else is sent.  An end of input   *)
(* is an exception.                                                        *)
Types ==
  /\ pc = "prompt"
  /\ UNCHANGED ble
  /\ \E line \in Lines :
       \/ /\ line.verb \in {"QUIT", "EXIT"}
          /\ Leave(0)
          /\ UNCHANGED <<answer, drawer, history>>
       \/ /\ line.verb \notin {"QUIT", "EXIT", "HELP"}
          /\ Validate(line)
          /\ NewCommand(line)
          /\ pc' = "sending"
          /\ UNCHANGED <<mode, code>>

EndOfInput ==
  /\ pc = "prompt"
  /\ Leave(1)
  /\ UNCHANGED <<ble, answer, drawer, history>>

(* Ctrl-C cancels the coroutine at its await.                              *)
Interrupt ==
  /\ pc \notin {"start", "closing", "exited"}
  /\ Leave(130)
  /\ UNCHANGED <<ble, answer, drawer, history>>

-----------------------------------------------------------------------------
(* connect() and ensure_connected().                                       *)

(* scan() finds the drawer, or raises.                                     *)
ScanEnds ==
  /\ pc = "scanning"
  /\ \/ /\ deviceKnown' = TRUE
        /\ NewClient
        /\ UNCHANGED <<console, attempt>>
     \/ ConnectRaises /\ UNCHANGED <<client, oldUp>>
  /\ UNCHANGED <<subscribed, answer, drawer, history>>

(* await self.client.connect()                                             *)
ClientConnects ==
  /\ pc = "connecting"
  /\ client' = "up"
  /\ pc' = "check"
  /\ UNCHANGED <<console, attempt, deviceKnown, oldUp, subscribed, answer,
                 drawer, history>>

ClientConnectFails ==
  /\ pc = "connecting"
  /\ ConnectRaises
  /\ UNCHANGED <<client, oldUp, subscribed, answer, drawer, history>>

(* if not self.client.is_connected: raise                                  *)
ConnectChecks ==
  /\ pc = "check"
  /\ IF Connected
     THEN pc' = "subscribing" /\ UNCHANGED <<console, attempt, deviceKnown>>
     ELSE ConnectRaises
  /\ UNCHANGED <<client, oldUp, subscribed, answer, drawer, history>>

(* start_notify twice.  After connect(), run_once goes on with its command,*)
(* interactive with the prompt, ensure_connected with its caller.          *)
Subscribes ==
  /\ pc = "subscribing"
  /\ Connected
  /\ subscribed' = TRUE
  /\ pc' = CASE attempt > 0                      -> "ready"
             [] attempt = 0 /\ mode = "once"     -> "sending"
             [] attempt = 0 /\ mode # "once"     -> "prompt"
  /\ UNCHANGED <<console, attempt, deviceKnown, client, oldUp, answer, drawer,
                 history>>

(* The first or the second of them raises.                                 *)
SubscribeFails ==
  /\ pc = "subscribing"
  /\ ConnectRaises
  /\ subscribed' \in {subscribed, Connected}
  /\ spoiled' = TRUE
  /\ UNCHANGED <<client, oldUp, answer, drawer, executed, seen, lost>>

(* ensure_connected, as send_command begins.                               *)
EnsureConnected ==
  /\ pc = "sending"
  /\ IF Connected
     THEN pc' = "ready" /\ UNCHANGED ble
     ELSE BeginConnect(1)
  /\ UNCHANGED <<console, answer, drawer, history>>

(* Mutant of Retries: the attempts are not counted.                        *)
RetriesMutant ==
  /\ pc = "sleeping"
  /\ BeginConnect(attempt)
  /\ UNCHANGED <<console, answer, drawer, history>>

(* RECONNECT_DELAY_SECONDS later: the next attempt, or an exception.       *)
Retries ==
  /\ pc = "sleeping"
  /\ IF attempt < 3
     THEN BeginConnect(attempt + 1) /\ UNCHANGED console
     ELSE Leave(1) /\ UNCHANGED ble
  /\ UNCHANGED <<answer, drawer, history>>

-----------------------------------------------------------------------------
(* send_command().                                                         *)

(* Mutants of Write: the event is not cleared; the write does not wait for *)
(* its acknowledgement (response=False).                                   *)
WriteStaleMutant ==
  /\ pc = "ready"
  /\ pc' = "writing"
  /\ request' = IF Connected THEN "sent" ELSE request
  /\ UNCHANGED <<console, ble, answer, air, value, reporting, history>>

WriteAsyncMutant ==
  /\ pc = "ready"
  /\ statusEvent' = FALSE
  /\ pc' = "waiting"
  /\ request' = IF Connected THEN "sent" ELSE request
  /\ UNCHANGED <<console, ble, lastStatus, printed, air, value, reporting,
                 history>>

(* _status_event.clear(), then write_gatt_char.                            *)
Write ==
  /\ pc = "ready"
  /\ statusEvent' = FALSE
  /\ pc' = "writing"
  /\ request' = IF Connected THEN "sent" ELSE request
  /\ UNCHANGED <<console, ble, lastStatus, printed, air, value, reporting,
                 history>>

(* Mutant of WriteFails: a failed command is sent again.                   *)
WriteFailsMutant ==
  /\ pc = "writing"
  /\ pc' = "sending"
  /\ UNCHANGED <<console, ble, answer, drawer, history>>

(* An error of the link, or bleak's own timeout: the exception ends the    *)
(* program.  The drawer may have received the command all the same.        *)
WriteFails ==
  /\ pc = "writing"
  /\ Leave(1)
  /\ UNCHANGED <<ble, answer, drawer, history>>

CommandEnds ==
  IF mode = "once"
  THEN Leave(0)
  ELSE pc' = "prompt" /\ UNCHANGED console

(* Mutant of Answered: whether the event is set does not matter.           *)
AnsweredMutant ==
  /\ pc = "waiting"
  /\ printed' = lastStatus
  /\ CommandEnds
  /\ UNCHANGED <<ble, statusEvent, lastStatus, drawer, history>>

(* The event is set: the last status that arrived is the response.         *)
Answered ==
  /\ pc = "waiting"
  /\ statusEvent
  /\ printed' = lastStatus
  /\ CommandEnds
  /\ UNCHANGED <<ble, statusEvent, lastStatus, drawer, history>>

(* COMMAND_RESPONSE_TIMEOUT_SECONDS have passed.  Before Python 3.11 what  *)
(* wait_for raises is no TimeoutError, and nothing catches it.             *)
TimesOut ==
  /\ pc = "waiting"
  /\ ~statusEvent
  /\ CommandEnds \/ Leave(1)
  /\ UNCHANGED <<ble, answer, drawer, history>>

(* disconnect(), in the `finally' of run_once and interactive.             *)
LinkDrops == client' = (IF client = "none" THEN "none" ELSE "down")
             /\ oldUp' = FALSE /\ subscribed' = FALSE
             /\ air' = <<>>

(* Mutant of Disconnects: the program ends without disconnecting.          *)
DisconnectsMutant ==
  /\ pc = "closing"
  /\ pc' = "exited"
  /\ UNCHANGED <<console, ble, answer, drawer, history>>

Disconnects ==
  /\ pc = "closing"
  /\ pc' = "exited"
  /\ IF Connected
     THEN LinkDrops
     ELSE UNCHANGED <<client, oldUp, subscribed, air>>
  /\ UNCHANGED <<console, attempt, deviceKnown, answer, request, value,
                 reporting, history>>

DisconnectFails ==
  /\ pc = "closing"
  /\ Connected
  /\ pc' = "exited"
  /\ code' = 1
  /\ spoiled' = TRUE
  /\ UNCHANGED <<mode, sent, ble, answer, drawer, executed, seen, lost>>

-----------------------------------------------------------------------------
(* The drawer, the radio, and the callbacks.                               *)

Sends(m) == Len(air) < MaxAir /\ air' = Append(air, m)

(* notifyStatus on the loop task: setValue with the line of the loop, ...  *)
ReportSets ==
  /\ ~reporting
  /\ reporting' = TRUE
  /\ value' = "line"
  /\ UNCHANGED <<pc, console, ble, answer, air, request, history>>

(* ... and notify, of what the value is by then.  The stack may have no    *)
(* room for it, which nobody looks at.                                     *)
Repeated(v) == CASE v = "answer"    -> "repeat"
                 [] v = "oldAnswer" -> "oldRepeat"
                 [] OTHER           -> v

ReportNotifies ==
  /\ reporting
  /\ reporting' = FALSE
  /\ (subscribed /\ Sends(Repeated(value))) \/ UNCHANGED air
  /\ UNCHANGED <<pc, console, ble, answer, request, value, history>>

(* handleCommand, up to the setValue of its answer, ...                    *)
Execute ==
  /\ request = "sent"
  /\ request' = "answering"
  /\ executed' = IF executed < 2 THEN executed + 1 ELSE 2
  /\ value' = "answer"
  /\ UNCHANGED <<pc, console, ble, answer, air, reporting, seen, lost, spoiled>>

(* ... and its notify.  The answer is lost without a subscription, when the*)
(* loop task has set its own line in between, or when there is no room.    *)
AnswerNotifies ==
  /\ request = "answering"
  /\ request' = "executed"
  /\ \/ /\ subscribed
        /\ Sends(value)
        /\ lost' = (lost \/ value # "answer")
     \/ /\ lost' = TRUE
        /\ UNCHANGED air
  /\ UNCHANGED <<pc, console, ble, answer, value, reporting, executed, seen,
                 spoiled>>

(* onWrite has returned.                                                   *)
Acknowledge ==
  /\ request = "executed"
  /\ request' = "none"
  /\ IF LinkUp THEN Sends("ack") ELSE UNCHANGED air
  /\ UNCHANGED <<pc, console, ble, answer, value, reporting, history>>

(* _on_status; a callback of each subscribed client runs, to one effect.   *)
OnStatus ==
  /\ pc # "exited"
  /\ air # <<>> /\ Head(air) # "ack"
  /\ air' = Tail(air)
  /\ lastStatus' = Head(air)
  /\ statusEvent' = TRUE
  /\ seen' = (seen \/ Head(air) \in {"answer", "repeat"})
  /\ UNCHANGED <<pc, console, ble, printed, request, value, reporting, executed,
                 lost, spoiled>>

(* write_gatt_char returns.                                                *)
Written ==
  /\ air # <<>> /\ Head(air) = "ack"
  /\ air' = Tail(air)
  /\ pc' = IF pc = "writing" THEN "waiting" ELSE pc
  /\ UNCHANGED <<console, ble, answer, request, value, reporting, history>>

(* The link breaks, with what is in the air; the drawer may have received  *)
(* the command before.                                                     *)
LinkLost ==
  /\ LinkUp
  /\ LinkDrops
  /\ request' \in {request, IF request = "sent" THEN "none" ELSE request}
  /\ lost' = (lost \/ \E k \in DOMAIN air : air[k] = "answer")
  /\ UNCHANGED <<pc, console, attempt, deviceKnown, answer, value, reporting,
                 executed, seen, spoiled>>

-----------------------------------------------------------------------------
(* The specification.                                                      *)

Init ==
  /\ mode = "interactive" /\ pc = "start" /\ code = 0 /\ sent = Blank
  /\ attempt = 0 /\ deviceKnown = FALSE /\ client = "none"
  /\ oldUp = FALSE /\ subscribed = FALSE
  /\ statusEvent = FALSE /\ lastStatus = "nothing" /\ printed = "nothing"
  /\ air = <<>> /\ request = "none" /\ value = "line" /\ reporting = FALSE
  /\ executed = 0 /\ seen = FALSE /\ lost = FALSE /\ spoiled = FALSE

Connect ==
  \/ ScanEnds \/ ClientConnects \/ ClientConnectFails \/ ConnectChecks
  \/ Subscribes \/ SubscribeFails

SendCommand ==
  \/ EnsureConnected \/ Retries \/ Write \/ WriteFails
  \/ Answered \/ TimesOut

Disconnect == Disconnects \/ DisconnectFails

Program == Connect \/ SendCommand \/ Disconnect

User   == StartOnce \/ StartInteractive \/ Types \/ EndOfInput \/ Interrupt
Drawer == ReportSets \/ ReportNotifies \/ Execute \/ AnswerNotifies \/ Acknowledge
Radio  == OnStatus \/ Written \/ LinkLost

Next == Program \/ User \/ Drawer \/ Radio

Spec == Init /\ [][Next]_vars

(* bleak ends each call, by success, error or its timeout, and the event   *)
(* loop resumes the coroutine.  Nothing is assumed of user, radio, drawer. *)
FairSpec == Spec /\ WF_vars(Program)

-----------------------------------------------------------------------------
(* What holds.                                                             *)

Messages == {"answer", "oldAnswer", "repeat", "oldRepeat", "line", "ack"}
Status   == (Messages \ {"ack"}) \cup {"nothing"}

(* Types.                                                                  *)
TypeOK ==
  /\ mode \in {"once", "interactive"} /\ pc \in Await /\ code \in {0, 1, 2, 130}
  /\ sent \in Lines \cup {Blank}
  /\ attempt \in 0..3 /\ deviceKnown \in BOOLEAN
  /\ client \in {"none", "down", "up"}
  /\ oldUp \in BOOLEAN /\ subscribed \in BOOLEAN
  /\ statusEvent \in BOOLEAN /\ lastStatus \in Status /\ printed \in Status
  /\ air \in Seq(Messages) /\ Len(air) <= MaxAir
  /\ request \in {"none", "sent", "answering", "executed"}
  /\ value \in {"line", "answer", "oldAnswer"} /\ reporting \in BOOLEAN
  /\ executed \in 0..2 /\ seen \in BOOLEAN /\ lost \in BOOLEAN
  /\ spoiled \in BOOLEAN

(* A command that ended without an exception: the program is back at the   *)
(* prompt, or ends with code 0.                                            *)
Done ==
  /\ sent # Blank
  /\ \/ mode = "interactive" /\ pc = "prompt"
     \/ mode = "once" /\ pc \in {"closing", "exited"} /\ code = 0

(* Whatever connections and writes fail, the drawer executes no command    *)
(* twice, and has executed each that send_command returned from.           *)
ExactlyOnce == executed <= 1 /\ (Done => executed = 1)

(* send_command takes any notification for the answer, and a command may   *)
(* begin while the one before has just been answered.  Still the answer to *)
(* an earlier command is printed only where the loop task's notify has     *)
(* sent it once more (then it is "oldRepeat"): never as the drawer sent it *)
(* in answering, nor as it was left in last_status.                        *)
AnswerIsOwn == printed # "oldAnswer"

(* A periodic status line is not taken for the answer before the answer    *)
(* has been shown, unless the answer is lost.                              *)
AnswerIsShown == Done => seen \/ lost

(* The client implements the remote call of DrawerCall: between a command  *)
(* typed and the next prompt everything that fails, is retried or comes in *)
(* between is either invisible or ends the program.                        *)
Remote == INSTANCE DrawerCall WITH
  caller   <- IF Done \/ (sent = Blank /\ pc \notin {"closing", "exited"}) THEN "free"
              ELSE IF pc \in {"closing", "exited"} THEN "gone"
              ELSE "busy",
  executed <- IF sent = Blank THEN 1 ELSE executed,
  shown    <- seen,
  response <- CASE printed = "repeat"    -> "answer"
                [] printed = "oldRepeat" -> "again"
                [] OTHER                 -> printed

ImplementsCall == Remote!Spec

(* How many more awaits a command can take: those of send_command, those   *)
(* of the attempt to connect under way, and those of the attempts left.    *)
UnderWay == sent # Blank /\ pc \notin {"start", "prompt", "closing", "exited"}

AwaitsLeft ==
  CASE pc = "waiting"     -> 1
    [] pc = "writing"     -> 2
    [] pc = "ready"       -> 3
    [] pc = "sending"     -> 19
    [] OTHER              ->
         (CASE pc = "sleeping"    -> 4
            [] pc = "subscribing" -> 5
            [] pc = "check"       -> 6
            [] pc = "connecting"  -> 7
            [] pc = "scanning"    -> 8)
         + (IF attempt = 0 THEN 15 ELSE 5 * (3 - attempt))

(* No command goes on for ever, whatever fails: each step of the program   *)
(* brings it nearer to its end, and nothing that drawer, radio and user do *)
(* takes it back.                                                          *)
CommandRunsOut ==
  [][UnderWay /\ UnderWay' =>
       /\ AwaitsLeft' <= AwaitsLeft
       /\ Program => AwaitsLeft' < AwaitsLeft]_vars

(* The program leaves the drawer connected, so that it does not advertise, *)
(* only after a start_notify or a disconnect has failed, or when an        *)
(* interrupt comes during the first connect().                             *)
DrawerIsLeftFree == pc = "exited" /\ LinkUp => spoiled \/ code = 130

(* The drawer is sent nothing it does not know, but for the three commands *)
(* of the console itself when they are given with --command.               *)
OnlyKnownVerbs ==
  request = "sent" =>
    sent.verb \in DrawerVerbs \/ (mode = "once" /\ sent.verb \in VALID_COMMANDS)

(* Every command ends: with the prompt, or with the program.               *)
CommandReturns == pc = "sending" ~> pc \in {"prompt", "exited"}
=============================================================================
