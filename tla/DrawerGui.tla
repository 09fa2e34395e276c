----------------------------- MODULE DrawerGui -----------------------------
(***************************************************************************)
(* The desktop application in BLE mode: the Tk thread (main_gui.py), the   *)
(* asyncio thread that runs the coroutines of BleDrawerBackend             *)
(* (backends.py) under BackendWorker (worker.py), and the event queue from *)
(* the second thread to the first.                                         *)
(*                                                                         *)
(* A coroutine runs undisturbed from one await to the next, so a step is   *)
(* what lies between two awaits; self.client is read again after each of   *)
(* them, and several coroutines may be in flight.  The Tk thread handles   *)
(* one event or one click at a time; the Connect and Scan buttons do not   *)
(* wait for a coroutine to end.                                            *)
(*                                                                         *)
(* External: the BLE stack under bleak may fail or finish any call and may *)
(* lose any link, SMTP may fail.  The drawer, of which SmartDrawerAlarm is *)
(* the model, may send any of its messages at any time here: what its two  *)
(* tasks send may be late or one in place of the other.  Where it matters, *)
(* a property assumes that in the end the drawer tells its state, which    *)
(* SmartDrawerAlarm promises (StatusConverges).  Left out: addresses,      *)
(* texts, and which notification ends a command's wait (CommandClient has  *)
(* it; the GUI drops the result).                                          *)
(***************************************************************************)
EXTENDS Integers, Sequences

CONSTANTS
  Clients,     \* the BleakClient objects there can be at once
  NoClient,    \* stands for None
  Tasks,       \* the coroutines that can be in flight at once
  Forms,       \* how the user may fill in the email form
  MaxEmails,   \* bound on the emails being sent at once
  MaxQueue     \* bound on the events in the queue

ASSUME BoundAssumption == MaxQueue \in Nat /\ MaxQueue >= 1
ASSUME EmailAssumption == MaxEmails \in Nat \ {0}
ASSUME NoClientAssumption == NoClient \notin Clients

(* The form, with the check box "Enable alarm email": a text is empty, has *)
(* an @, or is another one; the port is 0 if it is not a number.           *)
Text == {"", "word", "address"}
Form == [enabled : BOOLEAN, recipient : Text, smtp_host : Text, smtp_port : Int,
         username : Text, password : Text, sender : Text]

ASSUME FormAssumption == Forms \subseteq Form /\ Forms # {}

VARIABLES
  \* The Tk thread.
  connected,        \* gui.connected: whether the command buttons work
  snapshotState,    \* gui.snapshot.state, the badge the user looks at
  dialog,           \* whether an error or a warning waits to be dismissed
  form,             \* the email form
  alarmEmailSent,   \* gui.alarm_email_sent
  sending,          \* how many threads are sending an email
  \* Between the threads.
  eventQueue,
  \* The asyncio thread and the BLE stack.
  client,           \* backend.client
  tasks,            \* the coroutines in flight
  up,               \* the clients whose is_connected is true
  subscribed,       \* those whose status notifications are enabled
  following,        \* those whose log notifications are enabled
  \* A history.
  shownEmails       \* emails since the badge last showed no alarm, 2 for more

email   == <<form, alarmEmailSent, sending, shownEmails>>
gui     == <<connected, snapshotState, dialog, email>>
links   == <<up, subscribed, following>>
backend == <<client, tasks, links>>
vars    == <<gui, eventQueue, backend>>

-----------------------------------------------------------------------------
(* Data.                                                                   *)

SystemState == {"DISARMED", "ARMED", "ALARM"}
Verb        == {"ARM", "DISARM", "STATUS", "OTHER"}

(* The messages of the drawer, as the GUI tells them apart.                *)
StatusLine(s) == [kind |-> "STATUS", state |-> s]
Ok(s)         == [kind |-> "OK", state |-> s]
AlarmReport   == [kind |-> "ALARM", state |-> "ALARM"]
Other         == [kind |-> "other", state |-> "none"]
Message       == {StatusLine(s) : s \in SystemState} \cup
                 {Ok("ARMED"), Ok("DISARMED"), AlarmReport, Other}

(* The events of the queue; `message' matters for a status event only.     *)
Event(kind)        == [kind |-> kind, message |-> Other]
StatusEvent(m)     == [kind |-> "status", message |-> m]
EventKind          == {"connected", "disconnected", "devices", "device_log",
                       "error", "warning"}

(* A coroutine: what it does, the await it is at, the client it awaits.    *)
NoTask == [op |-> "none", at |-> "start", client |-> NoClient]
Op     == {"none", "scan", "connect", "disconnect"} \cup Verb
Await  == {"start", "connecting", "check", "subscribing", "relook", "following",
           "announce", "closing", "writing", "waiting"}
Task   == [op : Op, at : Await, client : Clients \cup {NoClient}]

Room(n) == Len(eventQueue) + n <= MaxQueue

(* _emit_backend_event: put events into the queue.                         *)
Emit(events) ==
  /\ Room(Len(events))
  /\ eventQueue' = eventQueue \o events

(* The coroutine waits at `at', for a call of client c if not NoClient.    *)
Goto(t, at, c) == tasks' = [tasks EXCEPT ![t].at = at, ![t].client = c]
Ends(t)        == tasks' = [tasks EXCEPT ![t] = NoTask]

(* _guard: an exception ends the coroutine with an error event.            *)
Raises(t) ==
  /\ Ends(t)
  /\ Emit(<<Event("error")>>)

At(t, op, at) == tasks[t].op = op /\ tasks[t].at = at
IsConnected(c) == c \in up

(* The drawer has one link, which the connected clients share: it ends for *)
(* all of them, and each calls _on_disconnect.  Handling the events of     *)
(* these calls one after the other is the same as handling one.            *)
LinkDrops ==
  /\ up' = {} /\ subscribed' = {} /\ following' = {}
  /\ Emit(<<Event("disconnected")>>)

(* The callbacks of the notifications, _on_status and _on_log.  Without a  *)
(* subscription nothing arrives.                                           *)
StatusArrives(m) ==
  /\ subscribed # {}
  /\ Emit(<<StatusEvent(m)>>)
  /\ UNCHANGED <<gui, backend>>

LogArrives ==
  /\ following # {}
  /\ Emit(<<Event("device_log")>>)
  /\ UNCHANGED <<gui, backend>>

(* The link breaks, also where the drawer loses its power.                 *)
LinkLost ==
  /\ up # {}
  /\ LinkDrops
  /\ UNCHANGED <<gui, client, tasks>>

-----------------------------------------------------------------------------
(* The coroutines of BleDrawerBackend.                                     *)

(* scan(): discover() fails, or the devices found are emitted.             *)
Scan(t) ==
  /\ At(t, "scan", "start")
  /\ \/ Raises(t)
     \/ Ends(t) /\ Emit(<<Event("devices")>>)
  /\ UNCHANGED <<gui, client, links>>

(* connect(): the device is not found ...                                  *)
ConnectNotFound(t) ==
  /\ At(t, "connect", "start")
  /\ Raises(t)
  /\ UNCHANGED <<gui, client, links>>

(* ... or becomes the target of a new client, which replaces the old one   *)
(* and does not disconnect it.  A client nobody refers to is collected.    *)
FreshClient(c) ==
  /\ c \notin up \cup {client}
  /\ \A t \in Tasks : tasks[t].client # c

ConnectStarts(t, c) ==
  /\ At(t, "connect", "start")
  /\ FreshClient(c)
  /\ client' = c
  /\ Goto(t, "connecting", c)
  /\ UNCHANGED <<gui, eventQueue, links>>

(* await self.client.connect()                                             *)
ClientConnects(t) ==
  /\ At(t, "connect", "connecting")
  /\ up' = up \cup {tasks[t].client}
  /\ Goto(t, "check", NoClient)
  /\ UNCHANGED <<gui, eventQueue, client, subscribed, following>>

ClientConnectFails(t) ==
  /\ At(t, "connect", "connecting")
  /\ Raises(t)
  /\ UNCHANGED <<gui, client, links>>

(* if not self.client.is_connected: raise; otherwise start_notify.         *)
ConnectChecks(t) ==
  /\ At(t, "connect", "check")
  /\ IF IsConnected(client)
     THEN Goto(t, "subscribing", client) /\ UNCHANGED eventQueue
     ELSE Raises(t)
  /\ UNCHANGED <<gui, client, links>>

(* start_notify for the status characteristic, another look at            *)
(* self.client, and start_notify for the log characteristic.               *)
Subscribes(t) ==
  /\ At(t, "connect", "subscribing")
  /\ IsConnected(tasks[t].client)
  /\ subscribed' = subscribed \cup {tasks[t].client}
  /\ Goto(t, "relook", NoClient)
  /\ UNCHANGED <<gui, eventQueue, client, up, following>>

LooksAgain(t) ==
  /\ At(t, "connect", "relook")
  /\ Goto(t, "following", client)
  /\ UNCHANGED <<gui, eventQueue, client, links>>

Follows(t) ==
  /\ At(t, "connect", "following")
  /\ IsConnected(tasks[t].client)
  /\ following' = following \cup {tasks[t].client}
  /\ Goto(t, "announce", NoClient)
  /\ UNCHANGED <<gui, eventQueue, client, up, subscribed>>

(* Either may raise; what has been subscribed stays so.                    *)
SubscribeFails(t) ==
  /\ At(t, "connect", "subscribing") \/ At(t, "connect", "following")
  /\ Raises(t)
  /\ UNCHANGED <<gui, client, links>>

(* The coroutine resumes.  The link may have broken since start_notify     *)
(* was answered: it is not looked at again.                                *)
ConnectAnnounces(t) ==
  /\ At(t, "connect", "announce")
  /\ Ends(t)
  /\ Emit(<<Event("connected")>>)
  /\ UNCHANGED <<gui, client, links>>

(* disconnect()                                                            *)
DisconnectStarts(t) ==
  /\ At(t, "disconnect", "start")
  /\ IF IsConnected(client)
     THEN Goto(t, "closing", client) /\ UNCHANGED eventQueue
     ELSE Ends(t) /\ Emit(<<Event("disconnected")>>)
  /\ UNCHANGED <<gui, client, links>>

(* client.disconnect() closes the link, if it is still there; then the     *)
(* coroutine emits an event like those of the callbacks.                   *)
ClientDisconnects(t) ==
  /\ At(t, "disconnect", "closing")
  /\ LinkDrops
  /\ Ends(t)
  /\ UNCHANGED <<gui, client>>

ClientDisconnectFails(t) ==
  /\ At(t, "disconnect", "closing")
  /\ Raises(t)
  /\ UNCHANGED <<gui, client, links>>

(* send_command()                                                          *)
CommandStarts(t) ==
  /\ tasks[t].op \in Verb /\ tasks[t].at = "start"
  /\ IF IsConnected(client)
     THEN Goto(t, "writing", client) /\ UNCHANGED eventQueue
     ELSE Raises(t)
  /\ UNCHANGED <<gui, client, links>>

(* The drawer has executed the command and acknowledges the write; the     *)
(* coroutine goes on to wait for a notification.                           *)
CommandWritten(t) ==
  /\ tasks[t].op \in Verb /\ tasks[t].at = "writing"
  /\ IsConnected(tasks[t].client)
  /\ Goto(t, "waiting", NoClient)
  /\ UNCHANGED <<gui, eventQueue, client, links>>

(* The write raises, whether or not the drawer has executed the command.   *)
CommandFails(t) ==
  /\ tasks[t].op \in Verb /\ tasks[t].at = "writing"
  /\ Raises(t)
  /\ UNCHANGED <<gui, client, links>>

(* A notification has come, or COMMAND_RESPONSE_TIMEOUT_SECONDS have       *)
(* passed: a warning, or, before Python 3.11, where the exception is not   *)
(* the TimeoutError that is caught, an error.                              *)
CommandEnds(t) ==
  /\ tasks[t].op \in Verb /\ tasks[t].at = "waiting"
  /\ \/ Ends(t) /\ UNCHANGED eventQueue
     \/ Ends(t) /\ Emit(<<Event("warning")>>)
     \/ Raises(t)
  /\ UNCHANGED <<gui, client, links>>

-----------------------------------------------------------------------------
(* The Tk thread: clicks.  A dialog keeps the user from clicking.          *)

(* worker.submit(): a new coroutine.                                       *)
Submit(op) ==
  /\ ~dialog
  /\ \E t \in Tasks :
       /\ tasks[t] = NoTask
       /\ tasks' = [tasks EXCEPT ![t].op = op]
  /\ UNCHANGED <<gui, eventQueue, client, links>>

(* Connect works unless the GUI is connected, Disconnect and the command   *)
(* buttons only if it is; Scan always works.                               *)
ClickScan       == Submit("scan")
ClickConnect    == ~connected /\ Submit("connect")
ClickDisconnect == connected /\ Submit("disconnect")
ClickCommand    == connected /\ \E verb \in Verb : Submit(verb)

ClickEmail ==
  /\ ~dialog
  /\ form' \in Forms
  /\ UNCHANGED <<connected, snapshotState, dialog, alarmEmailSent, sending,
                 shownEmails, eventQueue, backend>>

DismissDialog ==
  /\ dialog
  /\ dialog' = FALSE
  /\ UNCHANGED <<connected, snapshotState, email, eventQueue, backend>>

-----------------------------------------------------------------------------
(* The Tk thread: _handle_event.                                           *)

(* Mutants of Parse: the state of an unknown message is taken for known;   *)
(* an alarm stays on the badge until a command is answered.                *)
ParseUnknownMutant(m, current) ==
  CASE m.kind = "OK" -> "ARMED"
    [] OTHER         -> m.state

ParseLatchMutant(m, current) ==
  CASE m.kind = "STATUS" -> IF current = "ALARM" THEN current ELSE m.state
    [] m.kind = "OK"     -> "ARMED"
    [] m.kind = "ALARM"  -> "ALARM"
    [] OTHER             -> current

(* parse_status_message: "ARMED" is sought in the text of an OK before     *)
(* "DISARMED", which contains it.                                          *)
Parse(m, current) ==
  CASE m.kind = "STATUS" -> m.state
    [] m.kind = "OK"     -> "ARMED"
    [] m.kind = "ALARM"  -> "ALARM"
    [] OTHER             -> current

(* _handle_alarm_email, once the badge shows `now'.  An invalid email form *)
(* uses up the email of this alarm, too.                                   *)
AlreadySent(previous, now) == alarmEmailSent /\ previous = "ALARM" /\ now = "ALARM"

(* Mutants of MayEmail: the email sent before is forgotten; only the event *)
(* that turns the badge to ALARM may send one.                             *)
MayEmailAgainMutant(previous, now) == now = "ALARM" /\ form.enabled
MayEmailEdgeMutant(previous, now) ==
  now = "ALARM" /\ previous # "ALARM" /\ form.enabled

MayEmail(previous, now) == now = "ALARM" /\ form.enabled /\ ~AlreadySent(previous, now)

(* _email_config_from_form: an empty sender is the user name.              *)
EmailConfigFromForm ==
  [form EXCEPT !.sender = IF form.sender = "" THEN form.username ELSE form.sender]

(* EmailConfig.validate.                                                   *)
Validate(config) ==
  /\ config.recipient = "address" /\ config.sender = "address"
  /\ config.smtp_port \in 1..65535
  /\ "" \notin {config.smtp_host, config.username, config.password}

OneMore(n) == IF n < 2 THEN n + 1 ELSE n

(* The email goes to a thread of its own.                                  *)
StartsEmail(previous) ==
  /\ sending < MaxEmails
  /\ sending' = sending + 1
  /\ shownEmails' = IF previous = "ALARM" THEN OneMore(shownEmails) ELSE 1

StartsNoEmail(previous, now) ==
  /\ sending' = sending
  /\ shownEmails' = IF previous = "ALARM" /\ now = "ALARM" THEN shownEmails ELSE 0

HandleAlarmEmail(previous, now) ==
  /\ alarmEmailSent' = (MayEmail(previous, now) \/ AlreadySent(previous, now))
  /\ IF MayEmail(previous, now) /\ Validate(EmailConfigFromForm)
     THEN StartsEmail(previous)
     ELSE StartsNoEmail(previous, now)

(* _send_alarm_email_worker: the email is sent, which is only logged, or   *)
(* SMTP fails; in either case it is not tried again.                       *)
EmailEnds ==
  /\ sending > 0
  /\ sending' = sending - 1
  /\ Emit(<<Event("warning")>>) \/ UNCHANGED eventQueue
  /\ UNCHANGED <<connected, snapshotState, dialog, form,
                 alarmEmailSent, shownEmails, backend>>

(* _process_events goes on when a dialog it has opened is dismissed.       *)
Takes(kind) ==
  /\ ~dialog
  /\ eventQueue # <<>>
  /\ Head(eventQueue).kind = kind
  /\ eventQueue' = Tail(eventQueue)
  /\ UNCHANGED <<form, backend>>

HandleConnected ==
  /\ Takes("connected")
  /\ connected' = TRUE
  /\ UNCHANGED <<snapshotState, dialog, alarmEmailSent, sending, shownEmails>>

(* _update_snapshot_state("DISCONNECTED") forgets the email of the alarm.  *)
HandleDisconnected ==
  /\ Takes("disconnected")
  /\ connected' = FALSE
  /\ snapshotState' = "DISCONNECTED"
  /\ alarmEmailSent' = FALSE
  /\ shownEmails' = 0
  /\ UNCHANGED <<dialog, sending>>

HandleStatus ==
  /\ Takes("status")
  /\ snapshotState' = Parse(Head(eventQueue).message, snapshotState)
  /\ HandleAlarmEmail(snapshotState, snapshotState')
  /\ UNCHANGED <<connected, dialog>>

HandleDeviceLog ==
  /\ Takes("device_log")
  /\ HandleAlarmEmail(snapshotState, snapshotState)
  /\ UNCHANGED <<connected, snapshotState, dialog>>

(* Mutant of HandleError: an error is only shown.                          *)
HandleErrorMutant ==
  /\ Takes("error")
  /\ dialog' = TRUE
  /\ UNCHANGED <<connected, snapshotState, alarmEmailSent, sending, shownEmails>>

(* An error of any coroutine: the GUI takes the link for broken.           *)
HandleError ==
  /\ Takes("error")
  /\ connected' = FALSE
  /\ dialog' = TRUE
  /\ UNCHANGED <<snapshotState, alarmEmailSent, sending, shownEmails>>

HandleWarning ==
  /\ Takes("warning")
  /\ dialog' = TRUE
  /\ UNCHANGED <<connected, snapshotState, alarmEmailSent, sending, shownEmails>>

HandleDevices ==
  /\ Takes("devices")
  /\ UNCHANGED <<connected, snapshotState, dialog, alarmEmailSent, sending,
                 shownEmails>>

-----------------------------------------------------------------------------
(* The specification.                                                      *)

(* The user may have filled in the form before anything else happens.      *)
Init ==
  /\ connected = FALSE /\ snapshotState = "DISCONNECTED"
  /\ dialog = FALSE
  /\ form \in Forms /\ alarmEmailSent = FALSE
  /\ sending = 0 /\ shownEmails = 0
  /\ eventQueue = <<>>
  /\ client = NoClient /\ tasks = [t \in Tasks |-> NoTask]
  /\ up = {} /\ subscribed = {} /\ following = {}

HandleEvent ==
  \/ HandleConnected \/ HandleDisconnected \/ HandleStatus
  \/ HandleDeviceLog \/ HandleError \/ HandleWarning \/ HandleDevices

Connecting(t) ==
  \/ ConnectNotFound(t) \/ \E c \in Clients : ConnectStarts(t, c)
  \/ ClientConnects(t) \/ ClientConnectFails(t) \/ ConnectChecks(t)
  \/ Subscribes(t) \/ LooksAgain(t) \/ Follows(t) \/ SubscribeFails(t)
  \/ ConnectAnnounces(t)

Disconnecting(t) ==
  DisconnectStarts(t) \/ ClientDisconnects(t) \/ ClientDisconnectFails(t)

Commanding(t) ==
  CommandStarts(t) \/ CommandWritten(t) \/ CommandFails(t) \/ CommandEnds(t)

Resume(t) == Scan(t) \/ Connecting(t) \/ Disconnecting(t) \/ Commanding(t)

Click ==
  \/ ClickScan \/ ClickConnect \/ ClickDisconnect \/ ClickCommand
  \/ ClickEmail \/ DismissDialog

Next ==
  \/ HandleEvent \/ EmailEnds \/ Click
  \/ \E t \in Tasks : Resume(t)
  \/ LinkLost \/ LogArrives \/ \E m \in Message : StatusArrives(m)

Spec == Init /\ [][Next]_vars

(* The Tk loop polls the queue every 100 ms, bleak ends each call (its own *)
(* timeouts), so does SMTP, and the drawer sends a status line every       *)
(* second, which other events do not keep out of the queue for good.       *)
(* Nothing is assumed of the user and of the radio.                        *)
Fairness ==
  /\ WF_vars(HandleEvent) /\ WF_vars(EmailEnds)
  /\ \A t \in Tasks : WF_vars(Resume(t))
  /\ SF_vars(\E s \in SystemState : StatusArrives(StatusLine(s)))

FairSpec == Spec /\ Fairness

-----------------------------------------------------------------------------
(* What holds.                                                             *)

(* Types; in particular only connected clients are subscribed.             *)
TypeOK ==
  /\ connected \in BOOLEAN /\ snapshotState \in SystemState \cup {"DISCONNECTED"}
  /\ dialog \in BOOLEAN
  /\ form \in Forms /\ alarmEmailSent \in BOOLEAN
  /\ sending \in 0..MaxEmails /\ shownEmails \in 0..2
  /\ eventQueue \in Seq({Event(k) : k \in EventKind} \cup {StatusEvent(m) : m \in Message})
  /\ Len(eventQueue) <= MaxQueue
  /\ client \in Clients \cup {NoClient}
  /\ tasks \in [Tasks -> Task]
  /\ up \subseteq Clients /\ subscribed \subseteq up /\ following \subseteq up

(* However status lines, log lines, alarm reports and form changes come,   *)
(* at most one email is sent while the badge goes on showing ALARM.        *)
OneEmailPerShownAlarm == shownEmails <= 1

(* The events that set the badge, and to what; ShownBy(e) is independent   *)
(* of the state shown before.                                              *)
Displays(e) ==
  \/ e.kind = "disconnected"
  \/ e.kind = "status" /\ e.message.kind # "other"
ShownBy(e) ==
  IF e.kind = "status" THEN Parse(e.message, "DISCONNECTED") ELSE "DISCONNECTED"

(* The badge will show s once the queue is handled: the last event in it   *)
(* that sets the badge decides.                                            *)
WillShow(s) ==
  \/ snapshotState = s /\ \A k \in DOMAIN eventQueue : ~Displays(eventQueue[k])
  \/ \E k \in DOMAIN eventQueue :
       /\ Displays(eventQueue[k]) /\ ShownBy(eventQueue[k]) = s
       /\ \A j \in DOMAIN eventQueue : k < j => ~Displays(eventQueue[j])

(* Whatever errors, log lines, disconnections and new connections are      *)
(* queued, and however late the GUI handles them: a message of an alarm    *)
(* that arrives is going to be shown, no alarm is going to be shown        *)
(* without one, and it goes from the badge only when a message of another  *)
(* state arrives or when the badge says Disconnected.                      *)
Arrives(states) == \E m \in Message : m.state \in states /\ StatusArrives(m)

AlarmIsTold ==
  [][/\ Arrives({"ALARM"}) => WillShow("ALARM")'
     /\ ~WillShow("ALARM") /\ WillShow("ALARM")' => Arrives({"ALARM"})
     /\ WillShow("ALARM") /\ ~WillShow("ALARM")' =>
          WillShow("DISCONNECTED")' \/ Arrives({"ARMED", "DISARMED"})]_vars

(* A user who dismisses every dialog.                                      *)
Answered == []<>~dialog

(* From some time on no command is under way and the drawer, whose state   *)
(* is s, says nothing else (StatusConverges), to a client that listens.    *)
Tells(s) ==
  /\ <>[](subscribed # {} /\ \A t \in Tasks : tasks[t] = NoTask)
  /\ <>[][\A m \in Message : StatusArrives(m) => m \in {StatusLine(s), Other}]_vars

(* When the user only dismisses dialogs and a subscribed client keeps its  *)
(* link, the badge comes to show the drawer's state for good: whatever was *)
(* shown wrongly before is put right by the status lines.  (No event is    *)
(* handled while a dialog is open.)                                        *)
BadgeConverges ==
  Answered => \A s \in SystemState : Tells(s) => <>[](snapshotState = s)

(* An alarm that lasts is emailed, with the link kept, dialogs dismissed,  *)
(* email enabled, and a form that has been valid all along (an invalid one *)
(* uses up the email of the alarm).                                        *)
AlarmIsEmailed ==
  Answered /\ []Validate(EmailConfigFromForm) /\ <>[]form.enabled /\ Tells("ALARM")
    => <>[](shownEmails = 1)

(* A GUI that takes a broken link for a working one learns better from the *)
(* next command: it becomes disconnected, unless a new client connects.    *)
CommandFindsLinkBroken ==
  Answered =>
    \A t \in Tasks :
      (tasks[t].op \in Verb /\ tasks[t].at = "start" /\ up = {})
        ~> (~connected \/ up # {})

-----------------------------------------------------------------------------
(* What the README says and the code does not keep.                        *)

(* README.md:514: live state display.  The answer OK DISARMED is shown as  *)
(* DISARMED.                                                               *)
OkIsShown ==
  [][eventQueue # <<>> /\ Head(eventQueue) = StatusEvent(Ok("DISARMED"))
       /\ eventQueue' = Tail(eventQueue) => snapshotState' = "DISARMED"]_vars
=============================================================================
