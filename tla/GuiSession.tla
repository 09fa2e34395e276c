----------------------------- MODULE GuiSession -----------------------------
(***************************************************************************)
(* A session of the desktop application: the mode check box, the worker    *)
(* that comes and goes with it (worker.py), the connection badge, the PIN  *)
(* form (protocol.py), closing the window, and the mock drawer             *)
(* (backends.py).                                                          *)
(*                                                                         *)
(* Three parties interleave: the Tk thread, the asyncio thread of the      *)
(* present worker, and the event queue between them, which outlives the    *)
(* workers.  While the Tk thread is in shutdown() it handles neither       *)
(* events nor clicks, and the coroutines in flight go on until the loop    *)
(* stops, which loses them.                                                *)
(*                                                                         *)
(* The BLE backend is here only what the session sees of it: a call ends   *)
(* with its events or with an exception, when it pleases; DrawerGui has it *)
(* await by await.  Dialogs only delay what comes next, but for the one    *)
(* that refuses a switch of the mode; log lines, addresses and the texts   *)
(* of events are left out.                                                 *)
(*                                                                         *)
(* External: a drawer has one link to this computer, which the clients of  *)
(* bleak share; a modal dialog lets no click through.                      *)
(***************************************************************************)
EXTENDS Naturals, Sequences, FiniteSets

CONSTANTS
  Words,         \* what a user may type as a PIN
  DEFAULT_PIN,   \* the PIN of a new mock drawer
  BleAnswers,    \* the answers of a real drawer
  Tasks,         \* the coroutines that can be in flight at once
  Overlapping,   \* bound: what is submitted while others are in flight
  MaxPending     \* bound: with more coroutines in flight and events waiting
                 \* the user does nothing

(* validate_pin: digits only, four to eight.                               *)
ValidatePin(word) == word.digits /\ word.length \in 4..8

ASSUME WordsAssumption ==
  /\ \A word \in Words : word.digits \in BOOLEAN /\ word.length \in Nat
  /\ DEFAULT_PIN \in Words /\ ValidatePin(DEFAULT_PIN)
ASSUME PendingAssumption == MaxPending \in Nat
ASSUME TasksAssumption == Tasks # {}

VARIABLES
  \* The Tk thread.
  tk,           \* "idle", amid a batch of events, in shutdown(), or gone
  after,        \* what it does when shutdown() returns
  useMock,      \* the check box
  refusing,     \* the dialog of a refused click on it is open
  connected,    \* gui.connected: whether the command buttons work
  mockButton,   \* whether the button "Mock Alarm" works
  badge,        \* the connection badge
  shown,        \* gui.snapshot.state
  worker,       \* the mode of gui.worker, or "none"
  eventQueue,
  \* The asyncio thread of the worker.
  tasks,        \* the coroutines in flight
  ready,        \* those the loop has yet to start, in order
  stop,         \* the coroutine disconnect() that shutdown() has submitted
  link,         \* backend.is_connected()
  client,       \* the connect() that has made backend.client, or "none"
  up,           \* a client of this backend has a link to the drawer
  mockState, pin,   \* the mock drawer
  \* A history.
  unclean,      \* what disturbed the latest shutdown()
  scanEnded,    \* a scan has ended since the GUI became connected
  left,         \* the latest connect() to end has failed beside a link that
                \* is up, whose client it has replaced
  slipped       \* "connected" was handled while the dialog was open

window     == <<useMock, refusing, connected, mockButton, badge, shown>>
thread     == <<tk, after, worker>>
connection == <<link, client, up, left>>
backend    == <<tasks, ready, stop, connection, mockState, pin>>
history    == <<unclean, scanEnded, slipped>>
vars       == <<window, thread, eventQueue, backend, history>>

-----------------------------------------------------------------------------
(* Data.                                                                   *)

SystemState == {"DISARMED", "ARMED", "ALARM"}

(* The events the session tells apart; `text' is any other message of kind *)
(* "connection".                                                           *)
Event(kind)    == [kind |-> kind, state |-> "none"]
StatusEvent(s) == [kind |-> "status", state |-> s]
OkEvent(s)     == [kind |-> "ok", state |-> s]
Answers == {StatusEvent(s) : s \in SystemState} \cup
           {OkEvent("ARMED"), OkEvent("DISARMED"), Event("other")}
Events  == Answers \cup {Event(k) : k \in {"text", "devices", "connected",
                                           "disconnected", "error"}}

Op(name)       == [op |-> name, pin |-> DEFAULT_PIN, new |-> DEFAULT_PIN]
Command(v, p, n) == [op |-> v, pin |-> p, new |-> n]
Verbs  == {"ARM", "DISARM", "CHANGE_PIN", "STATUS", "MOCK_ALARM"}
NoTask == [at |-> "none", does |-> Op("none")]
Task   == [at   : {"none", "start", "finding", "awaiting", "announcing"},
           does : [op : Verbs \cup {"none", "scan", "connect", "disconnect"},
                   pin : Words, new : Words]]

ASSUME AnswersAssumption == BleAnswers \subseteq Answers

Badges == {"Disconnected", "Scanning", "Connecting", "Connected", "Error", "text"}

Mode == IF useMock THEN "mock" ELSE "ble"

Emit(events) == eventQueue' = eventQueue \o events

-----------------------------------------------------------------------------
(* The coroutines.  Mock calls end well, BLE calls may raise.              *)

At(t, name, at) == tasks[t].does.op = name /\ tasks[t].at = at
Goto(t, at)     == tasks' = [tasks EXCEPT ![t].at = at]
Ends(t)         == tasks' = [tasks EXCEPT ![t] = NoTask]
Starts(t)       == ready # <<>> /\ Head(ready) = t /\ ready' = Tail(ready)
Tk              == <<window, thread, history>>
Mock            == <<mockState, pin>>

(* _guard: an exception becomes an error event.                            *)
Raises(t) == Ends(t) /\ Emit(<<Event("error")>>)

(* The link ends, whichever client has made it.                            *)
Closed ==
  link' = FALSE /\ up' = FALSE /\ left' = FALSE /\ UNCHANGED client

(* scan() and connect() of the BLE backend announce themselves.            *)
ScanStarts(t) ==
  /\ At(t, "scan", "start") /\ Starts(t)
  /\ Goto(t, "awaiting")
  /\ IF worker = "ble" THEN Emit(<<Event("text")>>) ELSE UNCHANGED eventQueue
  /\ UNCHANGED <<Tk, stop, connection, Mock>>

ScanEnds(t) ==
  /\ At(t, "scan", "awaiting")
  /\ \/ Ends(t) /\ Emit(<<Event("devices")>>)
     \/ worker = "ble" /\ Raises(t)
  /\ UNCHANGED <<Tk, ready, stop, connection, Mock>>

(* A new client takes the place of the one before, connected or not, and   *)
(* connects.                                                               *)
Replaces(t) ==
  /\ Goto(t, "awaiting")
  /\ client' = t /\ link' = FALSE
  /\ UNCHANGED <<up, left>>

MockConnectStarts(t) ==
  /\ At(t, "connect", "start") /\ Starts(t) /\ worker = "mock"
  /\ Goto(t, "awaiting")
  /\ UNCHANGED <<Tk, eventQueue, stop, connection, Mock>>

(* The mock drawer sends its status at once.                               *)
MockConnects(t) ==
  /\ At(t, "connect", "awaiting") /\ worker = "mock"
  /\ link' = TRUE /\ UNCHANGED <<client, up, left>>
  /\ Ends(t)
  /\ Emit(<<Event("connected"), StatusEvent(mockState)>>)
  /\ UNCHANGED <<Tk, ready, stop, Mock>>

(* Without an address the first client has to find the drawer.             *)
BleConnectStarts(t) ==
  /\ At(t, "connect", "start") /\ Starts(t) /\ worker = "ble"
  /\ \/ client = "none" /\ Goto(t, "finding") /\ UNCHANGED connection
     \/ Replaces(t)
  /\ Emit(<<Event("text")>>)
  /\ UNCHANGED <<Tk, stop, Mock>>

BleFinds(t) ==
  /\ At(t, "connect", "finding")
  /\ \/ Replaces(t) /\ UNCHANGED eventQueue
     \/ Raises(t) /\ UNCHANGED connection
  /\ UNCHANGED <<Tk, ready, stop, Mock>>

(* connect() of bleak, and the look at self.client.is_connected, which may *)
(* be another client by then.                                              *)
BleConnects(t) ==
  /\ At(t, "connect", "awaiting") /\ worker = "ble"
  /\ \/ /\ up' = TRUE /\ link' = (link \/ client = t) /\ left' = ~link'
        /\ IF link' THEN Goto(t, "announcing") /\ UNCHANGED eventQueue ELSE Raises(t)
     \/ Raises(t) /\ left' = (up /\ ~link) /\ UNCHANGED <<link, up>>
  /\ UNCHANGED <<client, Tk, ready, stop, Mock>>

(* start_notify is answered, or raises.                                    *)
BleAnnounces(t) ==
  /\ At(t, "connect", "announcing")
  /\ \/ Ends(t) /\ Emit(<<Event("connected")>>)
     \/ Raises(t)
  /\ UNCHANGED <<Tk, ready, stop, connection, Mock>>

(* disconnect(): the BLE backend awaits nothing without a connection.      *)
DisconnectStarts(t) ==
  /\ At(t, "disconnect", "start") /\ Starts(t)
  /\ IF worker = "ble" /\ ~link
     THEN Ends(t) /\ Emit(<<Event("disconnected")>>)
     ELSE Goto(t, "awaiting") /\ UNCHANGED eventQueue
  /\ UNCHANGED <<Tk, stop, connection, Mock>>

DisconnectEnds(t) ==
  /\ At(t, "disconnect", "awaiting")
  /\ \/ Ends(t) /\ Closed /\ Emit(<<Event("disconnected")>>)
     \/ worker = "ble" /\ Raises(t) /\ UNCHANGED connection
  /\ UNCHANGED <<Tk, ready, stop, Mock>>

(* send_command: the connection is looked at before the await only.        *)
CommandStarts(t) ==
  /\ tasks[t].does.op \in Verbs /\ tasks[t].at = "start" /\ Starts(t)
  /\ IF link THEN Goto(t, "awaiting") /\ UNCHANGED eventQueue ELSE Raises(t)
  /\ UNCHANGED <<Tk, stop, connection, Mock>>

(* MockDrawerBackend._handle_command: ARM, DISARM and CHANGE_PIN with the  *)
(* wrong PIN change nothing; any new PIN is accepted.                      *)
Accepts(c) == c.op \in {"ARM", "DISARM", "CHANGE_PIN"} => c.pin = pin

HandleCommand(c) ==
  /\ mockState' = CASE Accepts(c) /\ c.op = "ARM"        -> "ARMED"
                    [] Accepts(c) /\ c.op = "DISARM"     -> "DISARMED"
                    [] Accepts(c) /\ c.op = "MOCK_ALARM" -> "ALARM"
                    [] OTHER                             -> mockState
  /\ pin' = IF Accepts(c) /\ c.op = "CHANGE_PIN" THEN c.new ELSE pin

(* What it answers.                                                        *)
Response(c) ==
  CASE c.op = "STATUS"                               -> StatusEvent(mockState)
    [] c.op = "MOCK_ALARM"                           -> StatusEvent("ALARM")
    [] c.op \in {"ARM", "DISARM"} /\ Accepts(c)      -> OkEvent(mockState')
    [] c.op \in {"ARM", "DISARM"} /\ ~Accepts(c)     -> Event("other")
    [] c.op = "CHANGE_PIN"                           -> Event("other")

MockExecutes(t) ==
  /\ tasks[t].does.op \in Verbs /\ tasks[t].at = "awaiting"
  /\ worker = "mock"
  /\ HandleCommand(tasks[t].does)
  /\ Ends(t)
  /\ Emit(<<Response(tasks[t].does)>>)
  /\ UNCHANGED <<Tk, ready, stop, connection>>

(* The drawer answers, does not answer, or the write raises.               *)
BleCommandEnds(t) ==
  /\ tasks[t].does.op \in Verbs /\ tasks[t].at = "awaiting"
  /\ worker = "ble"
  /\ \/ Ends(t) /\ \E answer \in BleAnswers : Emit(<<answer>>)
     \/ Raises(t)
  /\ UNCHANGED <<Tk, ready, stop, connection, Mock>>

(* The callback of a client whose loop has stopped is not called.          *)
LinkLost ==
  /\ up /\ Closed
  /\ IF worker = "ble" THEN Emit(<<Event("disconnected")>>) ELSE UNCHANGED eventQueue
  /\ UNCHANGED <<Tk, tasks, ready, stop, Mock>>

-----------------------------------------------------------------------------
(* shutdown(), called in the Tk thread.                                    *)

Free == {t \in Tasks : tasks[t] = NoTask}

Pending == Cardinality(Tasks \ Free) + Len(eventQueue)

InFlight(name) == \E t \in Tasks : tasks[t].does.op = name

BeginShutdown(then) ==
  /\ Pending <= MaxPending
  /\ tk' = "stopping"
  /\ after' = then
  /\ stop' = "start"
  /\ unclean' = IF InFlight("connect") THEN "inFlight" ELSE "no"
  /\ UNCHANGED <<worker, tasks, ready, connection, Mock, scanEnded, slipped>>

(* Mutant of StopStarts: the backend is not disconnected.                  *)
StopStartsMutant ==
  /\ stop = "start"
  /\ ready = <<>>
  /\ stop' = "done" /\ Emit(<<Event("disconnected")>>)
  /\ UNCHANGED <<Tk, tasks, ready, connection, Mock>>

(* The coroutine it submits starts after those submitted before.           *)
StopStarts ==
  /\ stop = "start"
  /\ ready = <<>>
  /\ IF worker = "ble" /\ ~link
     THEN stop' = "done" /\ Emit(<<Event("disconnected")>>)
     ELSE stop' = "awaiting" /\ UNCHANGED eventQueue
  /\ UNCHANGED <<Tk, tasks, ready, connection, Mock>>

(* Mutant of StopDisconnects: a stopped backend keeps quiet.               *)
StopDisconnectsMutant ==
  /\ stop = "awaiting"
  /\ stop' = "done" /\ Closed
  /\ UNCHANGED <<Tk, tasks, ready, eventQueue, Mock>>

StopDisconnects ==
  /\ stop = "awaiting"
  /\ stop' = "done" /\ Closed
  /\ Emit(<<Event("disconnected")>>)
  /\ UNCHANGED <<Tk, tasks, ready, Mock>>

StopRaises ==
  /\ stop = "awaiting" /\ worker = "ble"
  /\ stop' = "done" /\ unclean' = "failed"
  /\ Emit(<<Event("error")>>)
  /\ UNCHANGED <<window, thread, tasks, ready, connection, Mock, scanEnded, slipped>>

(* A new worker, with its first coroutine.  A link that the one before has *)
(* left is not looked at any more.                                         *)
NewWorker(what) ==
  LET t == CHOOSE t \in Tasks : TRUE
  IN  /\ worker' = Mode
      /\ tasks' = [u \in Tasks |->
                     IF u = t THEN [at |-> "start", does |-> what] ELSE NoTask]
      /\ ready' = <<t>>
      /\ stop' = "none" /\ link' = FALSE /\ client' = "none" /\ up' = FALSE
      /\ mockState' = "DISARMED" /\ pin' = DEFAULT_PIN
      /\ unclean' = "no" /\ left' = FALSE /\ slipped' = FALSE
      /\ UNCHANGED scanEnded

(* shutdown() returns and the loop stops, with what was in flight.         *)
Returns ==
  /\ after' = "nothing"
  /\ UNCHANGED <<window, eventQueue>>
  /\ IF after \in {"toggle", "close"}
     THEN /\ tk' = IF after = "close" THEN "closed" ELSE "idle"
          /\ worker' = "none"
          /\ tasks' = [t \in Tasks |-> NoTask] /\ ready' = <<>> /\ stop' = "none"
          /\ mockState' = "DISARMED" /\ pin' = DEFAULT_PIN
          /\ UNCHANGED connection
     ELSE /\ tk' = "idle"
          /\ NewWorker(Op(after))

ShutdownReturns ==
  /\ tk = "stopping" /\ stop = "done"
  /\ Returns
  /\ after \in {"toggle", "close"} => UNCHANGED history

(* Mutant of ShutdownTimesOut: result() without a timeout.                 *)
ShutdownTimesOutMutant == FALSE /\ UNCHANGED vars

(* result(timeout=2): the 0.1 s of the mock drawer are always in time.     *)
ShutdownTimesOut ==
  /\ tk = "stopping" /\ stop # "done" /\ worker = "ble"
  /\ Returns
  /\ after \in {"toggle", "close"} =>
       unclean' = "timedOut" /\ UNCHANGED <<scanEnded, slipped>>

-----------------------------------------------------------------------------
(* Clicks.                                                                 *)

Idle == tk = "idle" /\ ~refusing

Submit(what) ==
  LET t == CHOOSE t \in Free : TRUE
  IN  /\ Pending <= MaxPending
      /\ Free # {} /\ (what.op \in Overlapping \/ Free = Tasks)
      /\ tasks' = [tasks EXCEPT ![t] = [at |-> "start", does |-> what]]
      /\ ready' = Append(ready, t)
      /\ UNCHANGED <<eventQueue, thread, stop, connection, Mock, history>>

(* _ensure_worker, then the coroutine.                                     *)
EnsureWorker(name) ==
  CASE worker = Mode -> Submit(Op(name))
    [] worker = "none" ->
         /\ NewWorker(Op(name))
         /\ UNCHANGED <<tk, after, eventQueue>>
    [] worker \notin {Mode, "none"} -> BeginShutdown(name) /\ UNCHANGED eventQueue

ClickScan ==
  /\ Idle
  /\ badge' = "Scanning"
  /\ EnsureWorker("scan")
  /\ UNCHANGED <<useMock, refusing, connected, mockButton, shown>>

ClickConnect ==
  /\ Idle /\ ~connected
  /\ badge' = "Connecting"
  /\ EnsureWorker("connect")
  /\ UNCHANGED <<useMock, refusing, connected, mockButton, shown>>

ClickDisconnect ==
  /\ Idle /\ connected /\ worker # "none"
  /\ Submit(Op("disconnect"))
  /\ UNCHANGED window

(* send_command, which asserts that there is a worker.                     *)
SendCommand(c) ==
  /\ Idle /\ connected /\ worker # "none"
  /\ Submit(c)
  /\ UNCHANGED window

ClickStatus == SendCommand(Op("STATUS"))

ClickArmOrDisarm ==
  \E verb \in {"ARM", "DISARM"}, word \in Words :
    ValidatePin(word) /\ SendCommand(Command(verb, word, DEFAULT_PIN))

(* Mutant of BuildChangePin: the new PIN is only compared, not validated.  *)
BuildChangePinMutant(old, new, confirm) == ValidatePin(old) /\ new = confirm

(* build_change_pin.                                                       *)
BuildChangePin(old, new, confirm) ==
  ValidatePin(old) /\ ValidatePin(new) /\ new = confirm

ClickChangePin ==
  \E old, new, confirm \in Words :
    /\ BuildChangePin(old, new, confirm)
    /\ SendCommand(Command("CHANGE_PIN", old, new))

ClickMockAlarm == mockButton /\ SendCommand(Op("MOCK_ALARM"))

(* _on_mock_toggle.  While connected the click is refused; the dialog that *)
(* says so handles events before the box is put back.                      *)
ClickMode ==
  /\ Idle
  /\ useMock' = ~useMock /\ refusing' = connected
  /\ IF connected \/ worker = "none"
     THEN UNCHANGED <<thread, backend, history>>
     ELSE BeginShutdown("toggle")
  /\ UNCHANGED <<connected, mockButton, badge, shown, eventQueue>>

(* Mutant of DismissRefusal: the box is not put back.                      *)
DismissRefusalMutant ==
  /\ tk = "idle" /\ refusing
  /\ refusing' = FALSE
  /\ UNCHANGED <<useMock, connected, mockButton, badge, shown, thread, eventQueue,
                 backend, history>>

DismissRefusal ==
  /\ tk = "idle" /\ refusing
  /\ refusing' = FALSE
  /\ useMock' = (worker = "mock")
  /\ UNCHANGED <<connected, mockButton, badge, shown, thread, eventQueue,
                 backend, history>>

(* _on_close.                                                              *)
CloseWindow ==
  /\ Idle
  /\ IF worker = "none"
     THEN tk' = "closed" /\ UNCHANGED <<after, worker, backend, history>>
     ELSE BeginShutdown("close")
  /\ UNCHANGED <<window, eventQueue>>

-----------------------------------------------------------------------------
(* _process_events: a batch, until the queue is empty.                     *)

Takes(event) ==
  /\ tk \in {"idle", "batch"}
  /\ eventQueue # <<>> /\ Head(eventQueue) = event
  /\ eventQueue' = Tail(eventQueue)
  /\ tk' = IF Tail(eventQueue) = <<>> THEN "idle" ELSE "batch"
  /\ UNCHANGED <<after, worker, useMock, refusing, backend, unclean>>

(* Mutant of SetControlsEnabled: the mode is not looked at.                *)
SetControlsEnabledMutant(enabled) == mockButton' = enabled

(* _set_controls_enabled: the other buttons follow gui.connected.          *)
SetControlsEnabled(enabled) == mockButton' = (enabled /\ useMock)

HandleConnected ==
  /\ Takes(Event("connected"))
  /\ connected' = TRUE /\ badge' = "Connected"
  /\ SetControlsEnabled(TRUE)
  /\ scanEnded' = FALSE /\ slipped' = (slipped \/ refusing)
  /\ UNCHANGED shown

(* Mutant of HandleDisconnected: only the badge changes.                   *)
HandleDisconnectedMutant ==
  /\ Takes(Event("disconnected"))
  /\ badge' = "Disconnected" /\ shown' = "DISCONNECTED"
  /\ UNCHANGED <<connected, mockButton, scanEnded, slipped>>

HandleDisconnected ==
  /\ Takes(Event("disconnected"))
  /\ connected' = FALSE /\ badge' = "Disconnected" /\ shown' = "DISCONNECTED"
  /\ SetControlsEnabled(FALSE)
  /\ scanEnded' = FALSE
  /\ UNCHANGED slipped

HandleText ==
  /\ Takes(Event("text"))
  /\ badge' = "text"
  /\ UNCHANGED <<connected, mockButton, shown, scanEnded, slipped>>

(* Mutant of HandleDevices: the badge is left alone.                       *)
HandleDevicesMutant ==
  /\ Takes(Event("devices"))
  /\ scanEnded' = connected
  /\ UNCHANGED <<badge, connected, mockButton, shown, slipped>>

(* The end of a scan sets the badge, whether or not connected.             *)
HandleDevices ==
  /\ Takes(Event("devices"))
  /\ badge' = "Disconnected"
  /\ scanEnded' = connected
  /\ UNCHANGED <<connected, mockButton, shown, slipped>>

HandleError ==
  /\ Takes(Event("error"))
  /\ connected' = FALSE /\ badge' = "Error"
  /\ SetControlsEnabled(FALSE)
  /\ scanEnded' = FALSE
  /\ UNCHANGED <<shown, slipped>>

(* Mutant of Parse: the answer OK changes nothing.                         *)
ParseMutant(event) ==
  CASE event.kind = "status" -> event.state
    [] OTHER                 -> shown

(* parse_status_message: an OK of either kind contains "ARMED".            *)
Parse(event) ==
  CASE event.kind = "status" -> event.state
    [] event.kind = "ok"     -> "ARMED"
    [] event.kind = "other"  -> shown

HandleStatus ==
  \E event \in Answers :
    /\ Takes(event)
    /\ shown' = Parse(event)
    /\ UNCHANGED <<connected, mockButton, badge, scanEnded, slipped>>

-----------------------------------------------------------------------------
(* The specification.                                                      *)

Init ==
  /\ tk = "idle" /\ after = "nothing" /\ worker = "none"
  /\ useMock \in BOOLEAN /\ refusing = FALSE
  /\ connected = FALSE /\ mockButton = FALSE
  /\ badge = "Disconnected" /\ shown = "DISCONNECTED"
  /\ eventQueue = <<>>
  /\ tasks = [t \in Tasks |-> NoTask] /\ ready = <<>> /\ stop = "none"
  /\ link = FALSE /\ client = "none" /\ up = FALSE
  /\ mockState = "DISARMED" /\ pin = DEFAULT_PIN
  /\ unclean = "no" /\ scanEnded = FALSE /\ left = FALSE /\ slipped = FALSE

HandleEvent ==
  \/ HandleConnected \/ HandleDisconnected \/ HandleText \/ HandleDevices
  \/ HandleError \/ HandleStatus

Resume(t) ==
  \/ ScanStarts(t) \/ ScanEnds(t)
  \/ MockConnectStarts(t) \/ MockConnects(t)
  \/ BleConnectStarts(t) \/ BleFinds(t) \/ BleConnects(t) \/ BleAnnounces(t)
  \/ DisconnectStarts(t) \/ DisconnectEnds(t)
  \/ CommandStarts(t) \/ MockExecutes(t) \/ BleCommandEnds(t)

Shutdown == ShutdownReturns \/ ShutdownTimesOut

Click ==
  \/ ClickScan \/ ClickConnect \/ ClickDisconnect \/ ClickStatus
  \/ ClickArmOrDisarm \/ ClickChangePin \/ ClickMockAlarm
  \/ ClickMode \/ DismissRefusal \/ CloseWindow

Next ==
  \/ HandleEvent \/ Click \/ Shutdown
  \/ \E t \in Tasks : Resume(t)
  \/ StopStarts \/ StopDisconnects \/ StopRaises \/ LinkLost

Spec == Init /\ [][Next]_vars

(* The Tk loop polls the queue and waits in shutdown() for two seconds at  *)
(* most; the asyncio loop resumes its coroutines and bleak ends each call, *)
(* but a BLE disconnect may take longer than any of this; the mock drawer  *)
(* is in time.                                                             *)
Fairness ==
  /\ WF_vars(HandleEvent) /\ WF_vars(Shutdown)
  /\ \A t \in Tasks : WF_vars(Resume(t))
  /\ WF_vars(StopStarts) /\ WF_vars(worker = "mock" /\ StopDisconnects)

FairSpec == Spec /\ Fairness

-----------------------------------------------------------------------------
(* What holds.                                                             *)

(* Types.                                                                  *)
TypeOK ==
  /\ tk \in {"idle", "batch", "stopping", "closed"}
  /\ after \in {"nothing", "toggle", "close", "scan", "connect"}
  /\ useMock \in BOOLEAN /\ refusing \in BOOLEAN
  /\ connected \in BOOLEAN /\ mockButton \in BOOLEAN
  /\ badge \in Badges /\ shown \in SystemState \cup {"DISCONNECTED"}
  /\ worker \in {"none", "mock", "ble"}
  /\ eventQueue \in Seq(Events)
  /\ tasks \in [Tasks -> Task] /\ ready \in Seq(Tasks)
  /\ stop \in {"none", "start", "awaiting", "done"} /\ link \in BOOLEAN
  /\ client \in Tasks \cup {"none"} /\ up \in BOOLEAN
  /\ mockState \in SystemState /\ pin \in Words
  /\ unclean \in {"no", "inFlight", "timedOut", "failed"} /\ scanEnded \in BOOLEAN
  /\ left \in BOOLEAN /\ slipped \in BOOLEAN

(* The PIN in force in the mock drawer, which accepts any, is one that the *)
(* form lets the user type: nobody is locked out.                          *)
PinIsTypable == ValidatePin(pin)

(* The worker is of the mode the check box shows, so that _ensure_worker   *)
(* never has to replace one.                                               *)
WorkerMatchesMode == Idle /\ worker # "none" => worker = Mode

(* send_command's assertion that there is a worker can only fail after a   *)
(* shutdown() that timed out or cut off a connect(): the events of the     *)
(* stopped worker may then connect the GUI to nothing.                     *)
AssertionNeedsRace == Idle /\ connected /\ worker = "none" => unclean # "no"

(* A stopped worker leaves a link of its own behind only if its            *)
(* disconnect() raised or timed out, or a connect() was in flight, or if   *)
(* a connect() had replaced the client of that link and then failed: there *)
(* is no way to the link any more.                                         *)
LinkIsClosed ==
  worker = "none" /\ (link \/ up) => unclean # "no" \/ left

(* MOCK_ALARM is never written to a real drawer, but for one way: a second *)
(* "Connected." is handled while the dialog of a refused switch is open,   *)
(* with the box the other way round, and turns the button on.  (It can be  *)
(* submitted to a BLE worker without that, when a late event of a stopped  *)
(* worker has connected the GUI and a scan has then made the worker; it    *)
(* fails there.)                                                           *)
MockAlarmStaysInMock ==
  worker = "ble" /\ ~slipped => \A t \in Tasks : ~At(t, "MOCK_ALARM", "awaiting")

(* The badge says Disconnected in a connected GUI only if a scan has ended *)
(* since it became connected.                                              *)
BadgeLiesAfterScanOnly == connected /\ badge = "Disconnected" => scanEnded

(* When all is quiet the state badge shows the state of the mock drawer,   *)
(* but for the answer OK DISARMED, which it shows as ARMED; the mock       *)
(* drawer sends no periodic line that would put this right.                *)
MockIsShown ==
  worker = "mock" /\ link /\ eventQueue = <<>> =>
    \/ shown = mockState
    \/ shown = "ARMED" /\ mockState = "DISARMED"

(* shutdown() does not freeze the window for good, also when the BLE       *)
(* disconnect never ends.                                                  *)
ShutdownEnds == tk = "stopping" ~> tk # "stopping"

(* The badge does not stay at Scanning or Connecting, whatever fails and   *)
(* whenever the mode is switched, unless a shutdown() timed out.           *)
BadgeSettles ==
  badge \in {"Scanning", "Connecting", "text"} ~>
    \/ badge \in {"Disconnected", "Connected", "Error"}
    \/ tk = "closed" \/ unclean = "timedOut"
=============================================================================
