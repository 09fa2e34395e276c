-------------------------- MODULE DrawerGuiProof --------------------------
(***************************************************************************)
(* Proofs about the desktop application, for every number of coroutines    *)
(* and clients and every length of the event queue: types, that the alarm  *)
(* email is sent once, and that what the badge will show follows the       *)
(* messages of the drawer about its alarms.                                *)
(***************************************************************************)
EXTENDS DrawerGui, SequenceTheorems, TLAPS

-----------------------------------------------------------------------------
(* Types, and that a client that is being connected is a client; in parts, *)
(* by who changes them.                                                    *)

Events == {Event(k) : k \in EventKind} \cup {StatusEvent(m) : m \in Message}

Awaited == \A t \in Tasks : tasks[t].at = "connecting" => tasks[t].client \in Clients

QueueOK  == eventQueue \in Seq(Events) /\ Len(eventQueue) <= MaxQueue
TasksOK  == tasks \in [Tasks -> Task] /\ Awaited
LinksOK  ==
  /\ client \in Clients \cup {NoClient} /\ up \subseteq Clients
  /\ subscribed \subseteq up /\ following \subseteq up
GuiOK    ==
  /\ connected \in BOOLEAN /\ snapshotState \in SystemState \cup {"DISCONNECTED"}
  /\ dialog \in BOOLEAN
  /\ form \in Forms /\ alarmEmailSent \in BOOLEAN
  /\ sending \in 0..MaxEmails /\ shownEmails \in 0..2

TInv == QueueOK /\ TasksOK /\ LinksOK /\ GuiOK

LEMMA KnownEvents ==
  /\ \A k \in EventKind : Event(k) \in Events
  /\ \A m \in Message : StatusEvent(m) \in Events
  BY DEF Events

LEMMA InitTInv == Init => TInv
<1> SUFFICES ASSUME Init PROVE TInv
  OBVIOUS
<1>1. QueueOK
  BY BoundAssumption DEF Init, QueueOK
<1>2. NoTask \in Task
  BY DEF NoTask, Task, Op, Await
<1>3. TasksOK
  BY <1>2 DEF Init, TasksOK, Awaited, NoTask
<1>4. LinksOK
  BY DEF Init, LinksOK
<1>5. sending \in 0..MaxEmails /\ shownEmails \in 0..2
  BY EmailAssumption DEF Init
<1>6. GuiOK
  BY <1>5 DEF Init, GuiOK
<1> QED
  BY <1>1, <1>3, <1>4, <1>6 DEF TInv

(* Emitting one or two events keeps the queue within its bound.            *)
LEMMA EmitType ==
  ASSUME QueueOK, NEW events \in Seq(Events), Emit(events)
  PROVE  QueueOK'
  BY BoundAssumption DEF QueueOK, Emit, Room

LEMMA TakesType ==
  ASSUME QueueOK, NEW kind, Takes(kind)
  PROVE  QueueOK' /\ Head(eventQueue) \in Events
  BY BoundAssumption DEF QueueOK, Takes

LEMMA GotoType ==
  ASSUME TasksOK, NEW t \in Tasks, NEW at \in Await, NEW c \in Clients \cup {NoClient},
         at = "connecting" => c \in Clients, Goto(t, at, c)
  PROVE  TasksOK'
<1>1. tasks \in [Tasks -> Task] /\ Awaited
  BY DEF TasksOK
<1> DEFINE one == [[tasks[t] EXCEPT !.at = at] EXCEPT !.client = c]
<1>2. tasks[t] \in Task
  BY <1>1
<1>3. one \in Task /\ one.at = at /\ one.client = c
  BY <1>2 DEF Task
<1>4. tasks' = [tasks EXCEPT ![t] = one]
  BY <1>1 DEF Goto
<1> HIDE DEF one
<1> QED
  BY <1>1, <1>3, <1>4 DEF TasksOK, Awaited

LEMMA EndsType ==
  ASSUME TasksOK, NEW t \in Tasks, Ends(t)
  PROVE  TasksOK'
  BY DEF TasksOK, Awaited, Ends, NoTask, Task, Op, Await

LEMMA RaisesType ==
  ASSUME TasksOK, QueueOK, NEW t \in Tasks, Raises(t)
  PROVE  TasksOK' /\ QueueOK'
<1>1. <<Event("error")>> \in Seq(Events)
  BY KnownEvents DEF EventKind
<1> QED
  BY <1>1, EmitType, EndsType DEF Raises

LEMMA DropsType ==
  ASSUME QueueOK, LinksOK, LinkDrops
  PROVE  QueueOK' /\ up' = {} /\ subscribed' = {} /\ following' = {}
<1>1. <<Event("disconnected")>> \in Seq(Events)
  BY KnownEvents DEF EventKind
<1> QED
  BY <1>1, EmitType DEF LinkDrops

LEMMA ConnectingType ==
  ASSUME TInv, NEW t \in Tasks, Connecting(t) PROVE TInv'
<1> USE DEF TInv
<1>1. GuiOK'
  <2>1. UNCHANGED gui
    BY DEF Connecting, ConnectNotFound, ConnectStarts, ClientConnects, ClientConnectFails,
           ConnectChecks, Subscribes, LooksAgain, Follows, SubscribeFails, ConnectAnnounces
  <2> QED
    BY <2>1 DEF GuiOK, gui, email
<1>2. CASE ConnectNotFound(t) \/ ClientConnectFails(t) \/ SubscribeFails(t)
  BY <1>1, <1>2, RaisesType
     DEF ConnectNotFound, ClientConnectFails, SubscribeFails, LinksOK, links
<1>3. ASSUME NEW c \in Clients, ConnectStarts(t, c) PROVE TInv'
  BY <1>1, <1>3, GotoType DEF ConnectStarts, LinksOK, QueueOK, Await, links
<1>4. CASE ClientConnects(t)
  <2>1. tasks[t].client \in Clients
    BY <1>4 DEF ClientConnects, At, TasksOK, Awaited
  <2> QED
    BY <1>1, <1>4, <2>1, GotoType DEF ClientConnects, LinksOK, QueueOK, Await, links
<1>5. CASE ConnectChecks(t)
  <2>1. CASE IsConnected(client)
    BY <1>1, <1>5, <2>1, GotoType DEF ConnectChecks, LinksOK, QueueOK, Await, links
  <2>2. CASE ~IsConnected(client)
    BY <1>1, <1>5, <2>2, RaisesType DEF ConnectChecks, LinksOK, links
  <2> QED
    BY <2>1, <2>2
<1>6. CASE Subscribes(t)
  <2>1. tasks[t].client \in Clients /\ tasks[t].client \in up
    BY <1>6 DEF Subscribes, IsConnected, LinksOK
  <2> QED
    BY <1>1, <1>6, <2>1, GotoType DEF Subscribes, LinksOK, QueueOK, Await, links
<1>7. CASE LooksAgain(t)
  BY <1>1, <1>7, GotoType DEF LooksAgain, LinksOK, QueueOK, Await, links
<1>8. CASE Follows(t)
  <2>1. tasks[t].client \in Clients /\ tasks[t].client \in up
    BY <1>8 DEF Follows, IsConnected, LinksOK
  <2> QED
    BY <1>1, <1>8, <2>1, GotoType DEF Follows, LinksOK, QueueOK, Await, links
<1>9. CASE ConnectAnnounces(t)
  <2>1. <<Event("connected")>> \in Seq(Events)
    BY KnownEvents DEF EventKind
  <2> QED
    BY <1>1, <1>9, <2>1, EmitType, EndsType DEF ConnectAnnounces, LinksOK, links
<1> QED
  BY <1>2, <1>3, <1>4, <1>5, <1>6, <1>7, <1>8, <1>9 DEF Connecting

LEMMA DisconnectingType ==
  ASSUME TInv, NEW t \in Tasks, Disconnecting(t) PROVE TInv'
<1> USE DEF TInv
<1>1. GuiOK'
  <2>1. UNCHANGED gui
    BY DEF Disconnecting, DisconnectStarts, ClientDisconnects, ClientDisconnectFails
  <2> QED
    BY <2>1 DEF GuiOK, gui, email
<1>2. CASE DisconnectStarts(t)
  <2>1. CASE IsConnected(client)
    BY <1>1, <1>2, <2>1, GotoType DEF DisconnectStarts, LinksOK, QueueOK, Await, links
  <2>2. CASE ~IsConnected(client)
    <3>1. <<Event("disconnected")>> \in Seq(Events)
      BY KnownEvents DEF EventKind
    <3> QED
      BY <1>1, <1>2, <2>2, <3>1, EmitType, EndsType DEF DisconnectStarts, LinksOK, links
  <2> QED
    BY <2>1, <2>2
<1>3. CASE ClientDisconnects(t)
  BY <1>1, <1>3, DropsType, EndsType DEF ClientDisconnects, LinksOK
<1>4. CASE ClientDisconnectFails(t)
  BY <1>1, <1>4, RaisesType DEF ClientDisconnectFails, LinksOK, links
<1> QED
  BY <1>2, <1>3, <1>4 DEF Disconnecting

LEMMA CommandingType ==
  ASSUME TInv, NEW t \in Tasks, Commanding(t) PROVE TInv'
<1> USE DEF TInv
<1>1. GuiOK'
  <2>1. UNCHANGED gui
    BY DEF Commanding, CommandStarts, CommandWritten, CommandFails, CommandEnds
  <2> QED
    BY <2>1 DEF GuiOK, gui, email
<1>2. CASE CommandStarts(t)
  <2>1. CASE IsConnected(client)
    BY <1>1, <1>2, <2>1, GotoType DEF CommandStarts, LinksOK, QueueOK, Await, links
  <2>2. CASE ~IsConnected(client)
    BY <1>1, <1>2, <2>2, RaisesType DEF CommandStarts, LinksOK, links
  <2> QED
    BY <2>1, <2>2
<1>3. CASE CommandWritten(t)
  BY <1>1, <1>3, GotoType DEF CommandWritten, LinksOK, QueueOK, Await, links
<1>4. CASE CommandFails(t)
  BY <1>1, <1>4, RaisesType DEF CommandFails, LinksOK, links
<1>5. CASE CommandEnds(t)
  <2>1. LinksOK'
    BY <1>5 DEF CommandEnds, LinksOK, links
  <2>2. <<Event("warning")>> \in Seq(Events)
    BY KnownEvents DEF EventKind
  <2>3. TasksOK' /\ QueueOK'
    BY <1>5, <2>2, EndsType, EmitType, RaisesType DEF CommandEnds, QueueOK
  <2> QED
    BY <1>1, <2>1, <2>3
<1> QED
  BY <1>2, <1>3, <1>4, <1>5 DEF Commanding

LEMMA ScanType ==
  ASSUME TInv, NEW t \in Tasks, Scan(t) PROVE TInv'
<1> USE DEF TInv
<1>1. GuiOK' /\ LinksOK'
  BY DEF Scan, GuiOK, LinksOK, gui, email, links
<1>2. <<Event("devices")>> \in Seq(Events)
  BY KnownEvents DEF EventKind
<1> QED
  BY <1>1, <1>2, RaisesType, EmitType, EndsType DEF Scan

(* The Tk thread.                                                          *)
LEMMA ClickType ==
  ASSUME TInv, Click PROVE TInv'
<1> USE DEF TInv
<1>1. ASSUME NEW op \in Op, Submit(op) PROVE TInv'
  <2>1. PICK t \in Tasks : tasks[t] = NoTask /\ tasks' = [tasks EXCEPT ![t].op = op]
    BY <1>1 DEF Submit
  <2> DEFINE one == [tasks[t] EXCEPT !.op = op]
  <2>2. one \in Task /\ one.at = "start"
    BY <2>1, <1>1 DEF NoTask, Task, Await
  <2>3. tasks' = [tasks EXCEPT ![t] = one]
    BY <2>1 DEF TasksOK
  <2> HIDE DEF one
  <2>4. TasksOK'
    BY <2>2, <2>3 DEF TasksOK, Awaited
  <2> QED
    BY <1>1, <2>4 DEF Submit, QueueOK, LinksOK, GuiOK, gui, email, links
<1>2. CASE ClickEmail
  BY <1>2 DEF ClickEmail, QueueOK, TasksOK, Awaited, LinksOK, GuiOK, backend, links
<1>3. CASE DismissDialog
  BY <1>3 DEF DismissDialog, QueueOK, TasksOK, Awaited, LinksOK, GuiOK, backend, links, email
<1> QED
  BY <1>1, <1>2, <1>3 DEF Click, ClickScan, ClickConnect, ClickDisconnect, ClickCommand, Op, Verb

LEMMA ParseType ==
  ASSUME QueueOK, eventQueue # <<>>, Head(eventQueue).kind = "status",
         snapshotState \in SystemState \cup {"DISCONNECTED"}
  PROVE  Parse(Head(eventQueue).message, snapshotState) \in SystemState \cup {"DISCONNECTED"}
<1>1. Head(eventQueue) \in Events
  BY DEF QueueOK
<1>2. PICK m \in Message : Head(eventQueue) = StatusEvent(m)
  BY <1>1 DEF Events, EventKind, Event
<1>3. Head(eventQueue).message = m
  BY <1>2 DEF StatusEvent
<1>4. m.kind = "STATUS" => m.state \in SystemState
  BY DEF Message, StatusLine, Ok, AlarmReport, Other, SystemState
<1> QED
  BY <1>3, <1>4 DEF Parse, SystemState

LEMMA EmailType ==
  ASSUME GuiOK, NEW previous, NEW now, HandleAlarmEmail(previous, now)
  PROVE  alarmEmailSent' \in BOOLEAN /\ sending' \in 0..MaxEmails /\ shownEmails' \in 0..2
<1>1. alarmEmailSent' \in BOOLEAN
  BY DEF HandleAlarmEmail, MayEmail, AlreadySent
<1>2. CASE StartsEmail(previous)
  BY <1>1, <1>2, EmailAssumption DEF StartsEmail, GuiOK, OneMore
<1>3. CASE StartsNoEmail(previous, now)
  BY <1>1, <1>3 DEF StartsNoEmail, GuiOK
<1> QED
  BY <1>2, <1>3 DEF HandleAlarmEmail

LEMMA HandleType ==
  ASSUME TInv, HandleEvent PROVE TInv'
<1> USE DEF TInv
<1>1. /\ eventQueue # <<>> /\ eventQueue' = Tail(eventQueue)
      /\ UNCHANGED <<form, backend>>
  BY DEF HandleEvent, HandleConnected, HandleDisconnected, HandleStatus, HandleDeviceLog,
         HandleError, HandleWarning, HandleDevices, Takes
<1>2. QueueOK'
  BY <1>1, BoundAssumption DEF QueueOK
<1>3. TasksOK' /\ LinksOK'
  BY <1>1 DEF TasksOK, Awaited, LinksOK, backend, links
<1>4. GuiOK'
  <2>1. CASE HandleConnected \/ HandleError \/ HandleWarning \/ HandleDevices
    BY <1>1, <2>1 DEF HandleConnected, HandleError, HandleWarning, HandleDevices, GuiOK
  <2>2. CASE HandleDisconnected
    <3>1. /\ connected' = FALSE /\ snapshotState' = "DISCONNECTED"
          /\ alarmEmailSent' = FALSE
          /\ form' = form /\ dialog' = dialog /\ sending' = sending
      BY <1>1, <2>2 DEF HandleDisconnected
    <3>2. shownEmails' \in 0..2
      BY <2>2 DEF HandleDisconnected
    <3> QED
      BY <3>1, <3>2 DEF GuiOK
  <2>3. CASE HandleStatus
    BY <1>1, <2>3, ParseType, EmailType DEF HandleStatus, Takes, GuiOK
  <2>4. CASE HandleDeviceLog
    BY <1>1, <2>4, EmailType DEF HandleDeviceLog, GuiOK
  <2> QED
    BY <2>1, <2>2, <2>3, <2>4 DEF HandleEvent
<1> QED
  BY <1>2, <1>3, <1>4

LEMMA WorldType ==
  ASSUME TInv, LinkLost \/ LogArrives \/ \E m \in Message : StatusArrives(m) PROVE TInv'
<1> USE DEF TInv
<1>1. GuiOK' /\ TasksOK'
  BY DEF LinkLost, LogArrives, StatusArrives, GuiOK, TasksOK, Awaited, gui, email, backend
<1>2. CASE LinkLost
  BY <1>1, <1>2, DropsType DEF LinkLost, LinksOK
<1>3. CASE LogArrives
  <2>1. <<Event("device_log")>> \in Seq(Events)
    BY KnownEvents DEF EventKind
  <2> QED
    BY <1>1, <1>3, <2>1, EmitType DEF LogArrives, LinksOK, backend, links
<1>4. ASSUME NEW m \in Message, StatusArrives(m) PROVE TInv'
  <2>1. <<StatusEvent(m)>> \in Seq(Events)
    BY KnownEvents
  <2> QED
    BY <1>1, <1>4, <2>1, EmitType DEF StatusArrives, LinksOK, backend, links
<1> QED
  BY <1>2, <1>3, <1>4

LEMMA EmailEndsType ==
  ASSUME TInv, EmailEnds PROVE TInv'
<1> USE DEF TInv
<1>1. <<Event("warning")>> \in Seq(Events)
  BY KnownEvents DEF EventKind
<1>2. QueueOK'
  BY <1>1, EmitType DEF EmailEnds, QueueOK
<1>3. GuiOK'
  BY EmailAssumption DEF EmailEnds, GuiOK
<1>4. TasksOK' /\ LinksOK'
  BY DEF EmailEnds, TasksOK, Awaited, LinksOK, backend, links
<1> QED
  BY <1>2, <1>3, <1>4

LEMMA StepTInv == TInv /\ [Next]_vars => TInv'
<1> SUFFICES ASSUME TInv, [Next]_vars PROVE TInv'
  OBVIOUS
<1>1. CASE UNCHANGED vars
  BY <1>1 DEF TInv, QueueOK, TasksOK, Awaited, LinksOK, GuiOK,
              vars, gui, email, backend, links
<1>2. ASSUME NEW t \in Tasks, Resume(t) PROVE TInv'
  BY <1>2, ScanType, ConnectingType, DisconnectingType, CommandingType DEF Resume
<1> QED
  BY <1>1, <1>2, HandleType, ClickType, WorldType, EmailEndsType DEF Next

(* Type correctness for every number of clients and coroutines: however    *)
(* connect() is started again while it waits, only connected clients are   *)
(* subscribed, and the badge only ever shows a known state.                *)
THEOREM TypeCorrect == Spec => []TypeOK
<1>1. TInv => TypeOK
  BY DEF TInv, QueueOK, TasksOK, LinksOK, GuiOK, TypeOK, Events
<1> QED
  BY <1>1, InitTInv, StepTInv, PTL DEF Spec

-----------------------------------------------------------------------------
(* An email sent since the badge last showed no alarm leaves its mark: the *)
(* badge still shows the alarm and alarm_email_sent is set.                *)

Marked == shownEmails > 0 => snapshotState = "ALARM" /\ alarmEmailSent

EInv == OneEmailPerShownAlarm /\ Marked

(* _handle_alarm_email, for the states of the badge before and after.      *)
LEMMA EmailOnce ==
  ASSUME TInv, EInv, NEW now, snapshotState' = now, HandleAlarmEmail(snapshotState, now)
  PROVE  EInv'
<1>1. shownEmails \in {0, 1} /\ alarmEmailSent \in BOOLEAN
  BY DEF TInv, GuiOK, EInv, OneEmailPerShownAlarm
<1>2. alarmEmailSent' = (MayEmail(snapshotState, now) \/ AlreadySent(snapshotState, now))
  BY DEF HandleAlarmEmail
<1>3. CASE MayEmail(snapshotState, now)
  <2>1. now = "ALARM" /\ alarmEmailSent'
    BY <1>2, <1>3 DEF MayEmail
  <2>2. snapshotState = "ALARM" => shownEmails = 0
    BY <1>1, <1>3 DEF MayEmail, AlreadySent, EInv, Marked
  <2>3. shownEmails' \in {0, 1}
    BY <1>1, <1>3, <2>1, <2>2
       DEF HandleAlarmEmail, StartsEmail, StartsNoEmail, OneMore
  <2> QED
    BY <2>1, <2>3 DEF EInv, Marked, OneEmailPerShownAlarm
<1>4. CASE ~MayEmail(snapshotState, now)
  <2>1. shownEmails' = IF snapshotState = "ALARM" /\ now = "ALARM" THEN shownEmails ELSE 0
    BY <1>4 DEF HandleAlarmEmail, StartsNoEmail
  <2>2. shownEmails' > 0 => now = "ALARM" /\ AlreadySent(snapshotState, now)
    BY <1>1, <2>1 DEF EInv, Marked, AlreadySent
  <2> QED
    BY <1>1, <1>2, <2>1, <2>2 DEF EInv, Marked, OneEmailPerShownAlarm
<1> QED
  BY <1>3, <1>4

LEMMA StepEInv == TInv /\ EInv /\ [Next]_vars => EInv'
<1> SUFFICES ASSUME TInv, EInv, [Next]_vars PROVE EInv'
  OBVIOUS
<1>1. CASE UNCHANGED <<shownEmails, snapshotState, alarmEmailSent>>
  BY <1>1 DEF EInv, Marked, OneEmailPerShownAlarm
<1>2. CASE HandleDisconnected
  BY <1>2 DEF HandleDisconnected, EInv, Marked, OneEmailPerShownAlarm
<1>3. CASE HandleStatus
  BY <1>3, EmailOnce DEF HandleStatus
<1>4. CASE HandleDeviceLog
  BY <1>4, EmailOnce DEF HandleDeviceLog
<1>5. CASE HandleConnected \/ HandleError \/ HandleWarning \/ HandleDevices
  BY <1>1, <1>5 DEF HandleConnected, HandleError, HandleWarning, HandleDevices
<1>6. CASE Click \/ EmailEnds \/ LinkLost \/ LogArrives \/ UNCHANGED vars
           \/ \E m \in Message : StatusArrives(m)
  BY <1>1, <1>6 DEF Click, ClickScan, ClickConnect, ClickDisconnect, ClickCommand, ClickEmail,
     DismissDialog, Submit, EmailEnds, LinkLost, LogArrives, StatusArrives, vars, gui, email
<1>7. ASSUME NEW t \in Tasks, Resume(t) PROVE EInv'
  <2>1. UNCHANGED gui
    BY <1>7 DEF Resume, Scan, Connecting, ConnectNotFound, ConnectStarts, ClientConnects,
       ClientConnectFails, ConnectChecks, Subscribes, LooksAgain, Follows, SubscribeFails,
       ConnectAnnounces, Disconnecting, DisconnectStarts, ClientDisconnects, ClientDisconnectFails,
       Commanding, CommandStarts, CommandWritten, CommandFails, CommandEnds
  <2> QED
    BY <1>1, <2>1 DEF gui, email
<1> QED
  BY <1>2, <1>3, <1>4, <1>5, <1>6, <1>7 DEF Next, HandleEvent

(* Whatever number of coroutines and clients, and however status lines,    *)
(* log lines, disconnections and form changes are queued, the GUI sends at *)
(* most one email while the badge goes on showing ALARM.                   *)
THEOREM EmailIsSentOnce == Spec => []OneEmailPerShownAlarm
<1>1. Init => EInv
  BY DEF Init, EInv, Marked, OneEmailPerShownAlarm
<1>2. EInv => OneEmailPerShownAlarm
  BY DEF EInv
<1> QED
  BY <1>1, <1>2, InitTInv, StepTInv, StepEInv, PTL DEF Spec

-----------------------------------------------------------------------------
(* What the badge will show, and how a step changes that.                  *)

Shown == SystemState \cup {"DISCONNECTED"}

(* The invariant: the badge will show something.                           *)
WillShowOne == \E s \in Shown : WillShow(s)

Stays == \A s \in Shown : WillShow(s) => WillShow(s)'

(* A step leaves alone what will be shown, or the badge will say           *)
(* Disconnected, or what arrives will be shown.                            *)
ToldStep ==
  \/ Stays
  \/ WillShow("DISCONNECTED")'
  \/ Arrives({"ALARM"}) /\ WillShow("ALARM")'
  \/ /\ Arrives({"ARMED", "DISARMED"})
     /\ \E s \in {"ARMED", "DISARMED"} : WillShow(s)'

LEMMA DisplayKinds ==
  /\ \A k \in EventKind : ~Displays(Event(k)) <=> k # "disconnected"
  /\ ShownBy(Event("disconnected")) = "DISCONNECTED"
  /\ ~Displays(StatusEvent(Other))
  /\ \A s \in SystemState : /\ Displays(StatusEvent(StatusLine(s)))
                            /\ ShownBy(StatusEvent(StatusLine(s))) = s
  /\ \A s \in {"ARMED", "DISARMED"} : /\ Displays(StatusEvent(Ok(s)))
                                      /\ ShownBy(StatusEvent(Ok(s))) = "ARMED"
  /\ Displays(StatusEvent(AlarmReport)) /\ ShownBy(StatusEvent(AlarmReport)) = "ALARM"
  BY DEF Displays, ShownBy, Parse, Event, StatusEvent, StatusLine, Ok, AlarmReport, Other,
         EventKind

(* At most one state will be shown.                                        *)
LEMMA OneIsShown ==
  ASSUME QueueOK', NEW a, NEW b, WillShow(a)', WillShow(b)'
  PROVE  a = b
<1>1. DOMAIN eventQueue' \subseteq Nat
  BY LenProperties DEF QueueOK
<1>2. CASE \A k \in DOMAIN eventQueue' : ~Displays(eventQueue[k])'
  BY <1>2 DEF WillShow
<1>3. ASSUME NEW i \in DOMAIN eventQueue', NEW k \in DOMAIN eventQueue',
             Displays(eventQueue'[i]), Displays(eventQueue'[k]),
             \A j \in DOMAIN eventQueue' : i < j => ~Displays(eventQueue'[j]),
             \A j \in DOMAIN eventQueue' : k < j => ~Displays(eventQueue'[j])
      PROVE  i = k
  BY <1>1, <1>3
<1> QED
  BY <1>2, <1>3 DEF WillShow

LEMMA Emitted ==
  ASSUME QueueOK, NEW events \in Seq(Events), Emit(events)
  PROVE  LET n == Len(eventQueue)
             m == Len(events)
         IN  /\ n \in Nat /\ m \in Nat
             /\ DOMAIN eventQueue = 1..n /\ DOMAIN events = 1..m
             /\ DOMAIN eventQueue' = 1..(n + m)
             /\ \A k \in 1..n : eventQueue'[k] = eventQueue[k]
             /\ \A k \in 1..m : eventQueue'[n + k] = events[k]
<1>1. eventQueue \in Seq(Events) /\ eventQueue' = eventQueue \o events
  BY DEF QueueOK, Emit
<1>2. /\ eventQueue' \in Seq(Events)
      /\ Len(eventQueue') = Len(eventQueue) + Len(events)
      /\ \A k \in 1..(Len(eventQueue) + Len(events)) :
           eventQueue'[k] = IF k <= Len(eventQueue) THEN eventQueue[k]
                            ELSE events[k - Len(eventQueue)]
  BY <1>1, ConcatProperties
<1>3. /\ Len(eventQueue) \in Nat /\ Len(events) \in Nat
      /\ DOMAIN eventQueue = 1..Len(eventQueue) /\ DOMAIN events = 1..Len(events)
      /\ DOMAIN eventQueue' = 1..Len(eventQueue')
  BY <1>1, <1>2, LenProperties
<1> QED
  BY <1>2, <1>3

(* Events that do not set the badge are put into the queue.                *)
LEMMA EmitsQuietly ==
  ASSUME QueueOK, snapshotState' = snapshotState,
         NEW events \in Seq(Events), \A i \in DOMAIN events : ~Displays(events[i]),
         UNCHANGED eventQueue \/ Emit(events)
  PROVE  Stays
<1>1. CASE UNCHANGED eventQueue
  BY <1>1 DEF Stays, WillShow
<1>2. CASE Emit(events)
  <2> DEFINE n == Len(eventQueue)
             m == Len(events)
  <2>1. /\ n \in Nat /\ m \in Nat
        /\ DOMAIN eventQueue = 1..n /\ DOMAIN eventQueue' = 1..(n + m)
        /\ \A k \in 1..n : eventQueue'[k] = eventQueue[k]
        /\ \A k \in 1..m : ~Displays(eventQueue'[n + k])
    BY <1>2, Emitted
  <2>2. \A k \in 1..(n + m) : k \in 1..n \/ ~Displays(eventQueue'[k])
    <3> TAKE k \in 1..(n + m)
    <3>1. k \in 1..n \/ (k - n \in 1..m /\ n + (k - n) = k)
      BY <2>1
    <3> QED
      BY <2>1, <3>1
  <2> SUFFICES ASSUME NEW s \in Shown, WillShow(s) PROVE WillShow(s)'
    BY DEF Stays
  <2>3. CASE snapshotState = s /\ \A k \in DOMAIN eventQueue : ~Displays(eventQueue[k])
    <3>1. \A k \in DOMAIN eventQueue' : ~Displays(eventQueue'[k])
      BY <2>1, <2>2, <2>3
    <3> QED
      BY <2>3, <3>1 DEF WillShow
  <2>4. ASSUME NEW k \in DOMAIN eventQueue,
               Displays(eventQueue[k]), ShownBy(eventQueue[k]) = s,
               \A j \in DOMAIN eventQueue : k < j => ~Displays(eventQueue[j])
        PROVE  WillShow(s)'
    <3>1. k \in DOMAIN eventQueue' /\ eventQueue'[k] = eventQueue[k]
      BY <2>1, <2>4
    <3>2. \A j \in DOMAIN eventQueue' : k < j => ~Displays(eventQueue'[j])
      BY <2>1, <2>2, <2>4
    <3> QED
      BY <2>4, <3>1, <3>2 DEF WillShow
  <2> QED
    BY <2>3, <2>4 DEF WillShow
<1> QED
  BY <1>1, <1>2

(* The last event put into the queue sets the badge.                       *)
LEMMA EmitsLast ==
  ASSUME QueueOK, NEW events \in Seq(Events), Emit(events), events # <<>>,
         NEW e, e = events[Len(events)], Displays(e)
  PROVE  WillShow(ShownBy(e))'
<1> DEFINE n == Len(eventQueue)
           m == Len(events)
<1>1. /\ n \in Nat /\ m \in Nat
      /\ DOMAIN eventQueue' = 1..(n + m)
      /\ \A k \in 1..m : eventQueue'[n + k] = events[k]
  BY Emitted
<1>2. m # 0
  BY EmptySeq
<1>3. /\ n + m \in DOMAIN eventQueue' /\ eventQueue'[n + m] = e
      /\ \A j \in DOMAIN eventQueue' : ~(n + m < j)
  BY <1>1, <1>2
<1> QED
  BY <1>3 DEF WillShow

(* The Tk thread takes an event and shows what it says, if anything.       *)
LEMMA TakesFirst ==
  ASSUME QueueOK, NEW kind, Takes(kind), NEW e, e = Head(eventQueue),
         snapshotState' = IF Displays(e) THEN ShownBy(e) ELSE snapshotState
  PROVE  Stays
<1> DEFINE n == Len(eventQueue)
<1>1. /\ n \in Nat \ {0} /\ DOMAIN eventQueue = 1..n /\ DOMAIN eventQueue' = 1..(n - 1)
      /\ \A k \in 1..(n - 1) : eventQueue'[k] = eventQueue[k + 1]
      /\ eventQueue[1] = e
  <2>1. eventQueue # <<>> /\ eventQueue' = Tail(eventQueue) /\ eventQueue \in Seq(Events)
    BY DEF Takes, QueueOK
  <2> QED
    BY <2>1, EmptySeq, HeadTailProperties, LenProperties
<1>2. \A k \in 1..(n - 1) : k + 1 \in 1..n
  BY <1>1
<1> SUFFICES ASSUME NEW s \in Shown, WillShow(s) PROVE WillShow(s)'
  BY DEF Stays
<1>3. CASE snapshotState = s /\ \A k \in DOMAIN eventQueue : ~Displays(eventQueue[k])
  <2>1. \A k \in DOMAIN eventQueue' : ~Displays(eventQueue'[k])
    BY <1>1, <1>2, <1>3
  <2>2. ~Displays(e)
    BY <1>1, <1>3
  <2> QED
    BY <1>3, <2>1, <2>2 DEF WillShow
<1>4. ASSUME NEW k \in DOMAIN eventQueue,
             Displays(eventQueue[k]), ShownBy(eventQueue[k]) = s,
             \A j \in DOMAIN eventQueue : k < j => ~Displays(eventQueue[j])
      PROVE  WillShow(s)'
  <2>1. CASE k = 1
    <3>1. snapshotState' = s
      BY <1>1, <1>4, <2>1
    <3>2. \A j \in DOMAIN eventQueue' : ~Displays(eventQueue'[j])
      <4> TAKE j \in DOMAIN eventQueue'
      <4>1. j + 1 \in DOMAIN eventQueue /\ k < j + 1 /\ eventQueue'[j] = eventQueue[j + 1]
        BY <1>1, <2>1
      <4> QED
        BY <1>4, <4>1
    <3> QED
      BY <3>1, <3>2 DEF WillShow
  <2>2. CASE k # 1
    <3>1. k - 1 \in 1..(n - 1) /\ (k - 1) + 1 = k
      BY <1>1, <2>2
    <3>2. k - 1 \in DOMAIN eventQueue' /\ eventQueue'[k - 1] = eventQueue[k]
      BY <1>1, <3>1
    <3>3. \A j \in DOMAIN eventQueue' : k - 1 < j => ~Displays(eventQueue'[j])
      <4> TAKE j \in DOMAIN eventQueue'
      <4> HAVE k - 1 < j
      <4>1. j + 1 \in DOMAIN eventQueue /\ k < j + 1 /\ eventQueue'[j] = eventQueue[j + 1]
        BY <1>1
      <4> QED
        BY <1>4, <4>1
    <3> QED
      BY <1>4, <3>2, <3>3 DEF WillShow
  <2> QED
    BY <2>1, <2>2
<1> QED
  BY <1>3, <1>4 DEF WillShow

(* The steps, by who takes them.                                           *)
LEMMA QuietTold ==
  ASSUME QueueOK, UNCHANGED snapshotState,
         \/ UNCHANGED eventQueue
         \/ \E k \in EventKind \ {"disconnected"} : Emit(<<Event(k)>>)
  PROVE  ToldStep
<1>1. PICK k \in EventKind \ {"disconnected"} : UNCHANGED eventQueue \/ Emit(<<Event(k)>>)
  BY DEF EventKind
<1>2. /\ <<Event(k)>> \in Seq(Events)
      /\ \A i \in DOMAIN <<Event(k)>> : ~Displays(<<Event(k)>>[i])
  BY KnownEvents, DisplayKinds
<1>3. Stays
  BY <1>1, <1>2, EmitsQuietly
<1> QED
  BY <1>3 DEF ToldStep

LEMMA DropsTold ==
  ASSUME QueueOK, Emit(<<Event("disconnected")>>)
  PROVE  ToldStep
<1>1. <<Event("disconnected")>> \in Seq(Events) /\ Displays(Event("disconnected"))
  BY KnownEvents, DisplayKinds DEF EventKind
<1>2. WillShow("DISCONNECTED")'
  BY <1>1, EmitsLast, DisplayKinds
<1> QED
  BY <1>2 DEF ToldStep

LEMMA HandleTold ==
  ASSUME TInv, HandleEvent PROVE ToldStep
<1> DEFINE e == Head(eventQueue)
<1>1. /\ QueueOK
      /\ \E kind : Takes(kind) /\ e.kind = kind
  BY DEF TInv, HandleEvent, HandleConnected, HandleDisconnected, HandleStatus, HandleDeviceLog,
         HandleError, HandleWarning, HandleDevices, Takes
<1>2. snapshotState' = IF Displays(e) THEN ShownBy(e) ELSE snapshotState
  <2>1. CASE HandleStatus
    <3>1. e.kind = "status" /\ snapshotState' = Parse(e.message, snapshotState)
      BY <2>1 DEF HandleStatus, Takes
    <3>2. PICK m \in Message : e.message = m
      <4>1. e \in Events
        BY <2>1, TakesType DEF HandleStatus, TInv
      <4> QED
        BY <3>1, <4>1 DEF Events, Event, StatusEvent, EventKind
    <3>3. m.kind \in {"STATUS", "OK", "ALARM", "other"}
      BY DEF Message, StatusLine, Ok, AlarmReport, Other
    <3> QED
      BY <3>1, <3>2, <3>3 DEF Displays, ShownBy, Parse
  <2>2. CASE HandleDisconnected
    BY <2>2 DEF HandleDisconnected, Takes, Displays, ShownBy
  <2>3. CASE HandleConnected \/ HandleDeviceLog \/ HandleError \/ HandleWarning \/ HandleDevices
    BY <2>3 DEF HandleConnected, HandleDeviceLog, HandleError, HandleWarning, HandleDevices,
                Takes, Displays
  <2> QED
    BY <2>1, <2>2, <2>3 DEF HandleEvent
<1>3. Stays
  BY <1>1, <1>2, TakesFirst
<1> QED
  BY <1>1, <1>3 DEF ToldStep

(* A message arrives; an OK is shown as ARMED, whatever it says.           *)
LEMMA ArrivedShows ==
  ASSUME TInv, NEW m \in Message, StatusArrives(m), m.kind # "other"
  PROVE  IF m.kind = "OK" THEN WillShow("ARMED")' ELSE WillShow(m.state)'
<1> DEFINE e == StatusEvent(m)
<1>1. QueueOK /\ <<e>> \in Seq(Events) /\ Emit(<<e>>)
  BY KnownEvents DEF TInv, StatusArrives
<1>2. m.kind \in {"STATUS", "OK", "ALARM"} /\ (m.kind = "ALARM" => m.state = "ALARM")
  BY DEF Message, StatusLine, Ok, AlarmReport, Other
<1>3. Displays(e) /\ ShownBy(e) = IF m.kind = "OK" THEN "ARMED" ELSE m.state
  BY <1>2 DEF Displays, ShownBy, Parse, StatusEvent
<1>4. WillShow(ShownBy(e))'
  BY <1>1, <1>3, EmitsLast
<1>5. CASE m.kind = "OK"
  <2>1. ShownBy(e) = "ARMED"
    BY <1>3, <1>5
  <2> QED
    BY <1>4, <1>5, <2>1
<1>6. CASE m.kind # "OK"
  <2>1. ShownBy(e) = m.state
    BY <1>3, <1>6
  <2> QED
    BY <1>4, <1>6, <2>1
<1> QED
  BY <1>5, <1>6

LEMMA AlarmArrives ==
  ASSUME TInv, Arrives({"ALARM"}) PROVE WillShow("ALARM")'
<1>1. PICK m \in Message : m.state = "ALARM" /\ StatusArrives(m)
  BY DEF Arrives
<1>2. m.kind # "other" /\ m.kind # "OK"
  BY <1>1 DEF Message, StatusLine, Ok, AlarmReport, Other
<1> QED
  BY <1>1, <1>2, ArrivedShows

LEMMA WorldTold ==
  ASSUME TInv, LinkLost \/ LogArrives \/ \E m \in Message : StatusArrives(m)
  PROVE  ToldStep
<1> USE DEF TInv
<1>1. snapshotState' = snapshotState
  BY DEF LinkLost, LogArrives, StatusArrives, gui
<1>2. CASE LinkLost
  BY <1>2, DropsTold DEF LinkLost, LinkDrops
<1>3. CASE LogArrives
  BY <1>1, <1>3, QuietTold DEF LogArrives, EventKind
<1>4. ASSUME NEW m \in Message, StatusArrives(m) PROVE ToldStep
  <2>1. CASE m = Other
    <3>1. /\ <<StatusEvent(Other)>> \in Seq(Events) /\ Emit(<<StatusEvent(Other)>>)
          /\ \A i \in DOMAIN <<StatusEvent(Other)>> : ~Displays(<<StatusEvent(Other)>>[i])
      BY <1>4, <2>1, KnownEvents, DisplayKinds DEF StatusArrives
    <3>2. Stays
      BY <1>1, <3>1, EmitsQuietly
    <3> QED
      BY <3>2 DEF ToldStep
  <2>2. CASE m.state = "ALARM"
    <3>1. Arrives({"ALARM"})
      BY <1>4, <2>2 DEF Arrives
    <3> QED
      BY <3>1, AlarmArrives DEF ToldStep
  <2>3. CASE m.state \in {"ARMED", "DISARMED"}
    <3>1. Arrives({"ARMED", "DISARMED"})
      BY <1>4, <2>3 DEF Arrives
    <3>2. m.kind # "other"
      BY <2>3 DEF Message, StatusLine, Ok, AlarmReport, Other
    <3>3. PICK s \in {"ARMED", "DISARMED"} : s = IF m.kind = "OK" THEN "ARMED" ELSE m.state
      BY <2>3
    <3>4. WillShow(s)'
      BY <1>4, <3>2, <3>3, ArrivedShows
    <3> QED
      BY <3>1, <3>4 DEF ToldStep
  <2>4. m = Other \/ m.state \in SystemState
    BY DEF Message, StatusLine, Ok, AlarmReport, SystemState
  <2> QED
    BY <2>1, <2>2, <2>3, <2>4 DEF SystemState
<1> QED
  BY <1>2, <1>3, <1>4

LEMMA ResumeTold ==
  ASSUME TInv, NEW t \in Tasks, Resume(t) PROVE ToldStep
<1> USE DEF TInv
<1>1. UNCHANGED snapshotState
  BY DEF Resume, Scan, Connecting, ConnectNotFound, ConnectStarts, ClientConnects,
     ClientConnectFails, ConnectChecks, Subscribes, LooksAgain, Follows, SubscribeFails,
     ConnectAnnounces, Disconnecting, DisconnectStarts, ClientDisconnects,
     ClientDisconnectFails, Commanding, CommandStarts, CommandWritten, CommandFails,
     CommandEnds, gui
<1>2. CASE Scan(t) \/ Connecting(t)
  <2>1. \/ UNCHANGED eventQueue
        \/ \E k \in EventKind \ {"disconnected"} : Emit(<<Event(k)>>)
    BY <1>2 DEF Scan, Connecting, ConnectNotFound, ConnectStarts, ClientConnects, Raises,
       ClientConnectFails, ConnectChecks, Subscribes, LooksAgain, Follows, SubscribeFails,
       ConnectAnnounces, EventKind
  <2> QED
    BY <1>1, <2>1, QuietTold
<1>3. CASE Disconnecting(t)
  <2>1. \/ UNCHANGED eventQueue \/ Emit(<<Event("error")>>)
        \/ Emit(<<Event("disconnected")>>)
    BY <1>3 DEF Disconnecting, DisconnectStarts, ClientDisconnects, ClientDisconnectFails,
       Raises, LinkDrops
  <2> QED
    BY <1>1, <2>1, QuietTold, DropsTold DEF EventKind
<1>4. CASE Commanding(t)
  <2>1. \/ UNCHANGED eventQueue
        \/ \E k \in EventKind \ {"disconnected"} : Emit(<<Event(k)>>)
    BY <1>4 DEF Commanding, CommandStarts, CommandWritten, CommandFails, CommandEnds,
       Raises, EventKind
  <2> QED
    BY <1>1, <2>1, QuietTold
<1> QED
  BY <1>2, <1>3, <1>4 DEF Resume

LEMMA StepTold == TInv /\ [Next]_vars => ToldStep
<1> SUFFICES ASSUME TInv, [Next]_vars PROVE ToldStep
  OBVIOUS
<1> USE DEF TInv
<1>1. CASE Click \/ UNCHANGED vars
  <2>1. UNCHANGED <<snapshotState, eventQueue>>
    BY <1>1 DEF Click, ClickScan, ClickConnect, ClickDisconnect, ClickCommand, ClickEmail,
       DismissDialog, Submit, vars, gui
  <2> QED
    BY <2>1, QuietTold
<1>2. CASE EmailEnds
  BY <1>2, QuietTold DEF EmailEnds, EventKind
<1> QED
  BY <1>1, <1>2, HandleTold, WorldTold, ResumeTold DEF Next

(* Since the badge will show one state only, what a step makes it show     *)
(* says what it no longer shows.                                           *)
LEMMA ToldStepTells ==
  ASSUME TInv, TInv', WillShowOne, ToldStep
  PROVE  /\ WillShowOne'
         /\ Arrives({"ALARM"}) => WillShow("ALARM")'
         /\ ~WillShow("ALARM") /\ WillShow("ALARM")' => Arrives({"ALARM"})
         /\ WillShow("ALARM") /\ ~WillShow("ALARM")' =>
              WillShow("DISCONNECTED")' \/ Arrives({"ARMED", "DISARMED"})
<1>1. \A a, b : WillShow(a)' /\ WillShow(b)' => a = b
  BY OneIsShown DEF TInv
<1>2. Arrives({"ALARM"}) => WillShow("ALARM")'
  BY AlarmArrives
<1>3. CASE Stays
  <2>1. PICK s \in Shown : WillShow(s) /\ WillShow(s)'
    BY <1>3 DEF WillShowOne, Stays
  <2>2. WillShow("ALARM")' => s = "ALARM"
    BY <1>1, <2>1
  <2>3. WillShow("ALARM") => WillShow("ALARM")'
    BY <1>3 DEF Stays, Shown, SystemState
  <2> QED
    BY <1>2, <2>1, <2>2, <2>3 DEF WillShowOne
<1>4. CASE WillShow("DISCONNECTED")'
  <2>1. ~WillShow("ALARM")'
    BY <1>1, <1>4
  <2> QED
    BY <1>2, <1>4, <2>1 DEF WillShowOne, Shown
<1>5. CASE Arrives({"ALARM"}) /\ WillShow("ALARM")'
  BY <1>5 DEF WillShowOne, Shown, SystemState
<1>6. ASSUME Arrives({"ARMED", "DISARMED"}), NEW s \in {"ARMED", "DISARMED"}, WillShow(s)'
      PROVE  /\ WillShowOne' /\ Arrives({"ARMED", "DISARMED"})
             /\ ~WillShow("ALARM")'
  <2>1. WillShow("ALARM")' => s = "ALARM"
    BY <1>1, <1>6
  <2>2. s # "ALARM" /\ s \in Shown
    BY DEF Shown, SystemState
  <2> QED
    BY <1>6, <2>1, <2>2 DEF WillShowOne
<1> QED
  BY <1>2, <1>3, <1>4, <1>5, <1>6 DEF ToldStep

(* Whatever number of coroutines and clients, and however long the queue   *)
(* is: every message of an alarm that reaches the application is going to  *)
(* be shown, no alarm is without one, and it leaves the badge only for     *)
(* another message of the drawer or for Disconnected.                      *)
THEOREM AlarmsAreTold == Spec => AlarmIsTold
<1>1. Init => WillShowOne
  BY DEF Init, WillShowOne, WillShow, Shown
<1>2. TInv /\ WillShowOne /\ [Next]_vars => WillShowOne'
  BY StepTInv, StepTold, ToldStepTells
<1>3. TInv /\ WillShowOne /\ [Next]_vars =>
        [/\ Arrives({"ALARM"}) => WillShow("ALARM")'
         /\ ~WillShow("ALARM") /\ WillShow("ALARM")' => Arrives({"ALARM"})
         /\ WillShow("ALARM") /\ ~WillShow("ALARM")' =>
              WillShow("DISCONNECTED")' \/ Arrives({"ARMED", "DISARMED"})]_vars
  BY StepTInv, StepTold, ToldStepTells
<1> QED
  BY <1>1, <1>2, <1>3, InitTInv, StepTInv, PTL DEF Spec, AlarmIsTold
=============================================================================
