--------------------------- MODULE GuiSessionProof ---------------------------
(***************************************************************************)
(* Proofs about a session of the desktop application, for every set of     *)
(* words, of coroutines in flight and of what may overlap.                 *)
(*                                                                         *)
(* The argument about stopped workers is one about the event queue, which  *)
(* outlives them: where nothing disturbed shutdown(), the last event in it *)
(* that changes the connection is one that ends it.                        *)
(*                                                                         *)
(* Two more invariants are proved on top of that one: what the state badge *)
(* will show of the mock drawer, an argument about the queue too, and what *)
(* becomes of a MOCK_ALARM that a BLE worker has got, an argument about    *)
(* the order in which the loop starts the coroutines.                      *)
(***************************************************************************)
EXTENDS GuiSession, TLAPS, SequenceTheorems

(* The PINs on their way to the mock drawer are typable, like its own.     *)
Typable == ValidatePin(pin) /\ \A t \in Tasks : ValidatePin(tasks[t].does.new)

(* The worker follows the check box, also amid a batch of events, unless a *)
(* refused click is still on it.                                           *)
Follows ==
  tk \in {"idle", "batch"} /\ ~refusing /\ worker # "none" => worker = Mode

(* A link of another client than backend.client is known to be lost, or a  *)
(* connect() will yet tell.                                                *)
Lost ==
  worker = "ble" /\ up /\ ~link /\ ~left =>
    \E t \in Tasks : At(t, "connect", "awaiting")

(* No link that a disconnect() could end.                                  *)
Tidy == ~link /\ (up => left)

Opens(event)  == event.kind = "connected"
Closes(event) == event.kind \in {"disconnected", "error"}

(* The GUI is connected once it has handled what is in the queue.          *)
WillConnect ==
  \/ connected /\ \A k \in DOMAIN eventQueue : ~Closes(eventQueue[k])
  \/ \E k \in DOMAIN eventQueue :
       /\ Opens(eventQueue[k])
       /\ \A j \in DOMAIN eventQueue : k < j => ~Closes(eventQueue[j])

(* Where a shutdown() stands.                                              *)
Stopping ==
  /\ tk = "stopping" => worker # "none" /\ after # "nothing"
  /\ tk # "stopping" => stop = "none"
  /\ tk = "stopping" /\ after = "toggle" => ~connected
  /\ worker = "none" => \A t \in Tasks : tasks[t] = NoTask
  /\ tk = "stopping" /\ unclean = "no" => ~InFlight("connect")
  /\ stop = "done" /\ unclean = "no" => Tidy /\ ~WillConnect

(* What an undisturbed one leaves.                                         *)
Stopped ==
  worker = "none" /\ unclean = "no" =>
    Tidy /\ ~WillConnect /\ (tk = "idle" => ~connected)

IInv ==
  /\ TypeOK /\ Typable /\ Follows /\ BadgeLiesAfterScanOnly
  /\ Stopping /\ Stopped /\ Lost

-----------------------------------------------------------------------------
(* Types.                                                                  *)
LEMMA OpType == ASSUME NEW name \in Verbs \cup {"none", "scan", "connect", "disconnect"}
                PROVE  [at |-> "start", does |-> Op(name)] \in Task
  BY WordsAssumption DEF Op, Task

LEMMA NoTaskIsNone == NoTask.at = "none"
  BY DEF NoTask

LEMMA NoTaskType == NoTask \in Task
  BY WordsAssumption DEF NoTask, Op, Task

LEMMA EmitOne ==
  ASSUME NEW e \in Events, eventQueue \in Seq(Events), Emit(<<e>>)
  PROVE  /\ eventQueue' \in Seq(Events)
         /\ Len(eventQueue) \in Nat /\ Len(eventQueue') = Len(eventQueue) + 1
         /\ DOMAIN eventQueue = 1..Len(eventQueue)
         /\ DOMAIN eventQueue' = 1..(Len(eventQueue) + 1)
         /\ \A k \in 1..Len(eventQueue) : eventQueue'[k] = eventQueue[k]
         /\ eventQueue'[Len(eventQueue) + 1] = e
<1>1. eventQueue' = Append(eventQueue, e)
  BY AppendIsConcat DEF Emit
<1> QED
  BY <1>1, AppendProperties, LenProperties

LEMMA EmitTwo ==
  ASSUME NEW e \in Events, NEW f \in Events, eventQueue \in Seq(Events), Emit(<<e, f>>)
  PROVE  eventQueue' \in Seq(Events)
<1>1. <<e, f>> \in Seq(Events)
  OBVIOUS
<1> QED
  BY <1>1, ConcatProperties DEF Emit

LEMMA Taking ==
  ASSUME NEW e \in Events, eventQueue \in Seq(Events), Takes(e)
  PROVE  /\ eventQueue' \in Seq(Events)
         /\ Len(eventQueue) \in Nat \ {0} /\ Len(eventQueue') = Len(eventQueue) - 1
         /\ DOMAIN eventQueue = 1..Len(eventQueue)
         /\ DOMAIN eventQueue' = 1..(Len(eventQueue) - 1)
         /\ \A k \in 1..(Len(eventQueue) - 1) : eventQueue'[k] = eventQueue[k + 1]
         /\ eventQueue[1] = e
<1>1. eventQueue # <<>> /\ Head(eventQueue) = e /\ eventQueue' = Tail(eventQueue)
  BY DEF Takes
<1> QED
  BY <1>1, EmptySeq, HeadTailProperties, LenProperties

LEMMA EventTypes ==
  /\ \A kind \in {"text", "devices", "connected", "disconnected", "error"} :
       Event(kind) \in Events
  /\ Answers \subseteq Events
  /\ \A s \in SystemState : StatusEvent(s) \in Answers
  /\ OkEvent("ARMED") \in Answers /\ OkEvent("DISARMED") \in Answers
  /\ Event("other") \in Answers
  BY DEF Events, Answers

(* Only a connect() emits an event that opens, and it emits none that      *)
(* closes but the error of its end.                                        *)
LEMMA Kinds ==
  /\ \A kind \in {"text", "devices", "error", "disconnected"} : ~Opens(Event(kind))
  /\ \A answer \in Answers : ~Opens(answer) /\ ~Closes(answer)
  /\ Opens(Event("connected")) /\ ~Closes(Event("connected"))
  /\ \A kind \in {"text", "devices"} : ~Closes(Event(kind))
  /\ Closes(Event("disconnected")) /\ Closes(Event("error"))
  BY DEF Opens, Closes, Event, Answers, StatusEvent, OkEvent

QueueType == eventQueue \in Seq(Events)
TaskType  == tasks \in [Tasks -> Task] /\ ready \in Seq(Tasks)
PinType   == pin \in Words

Simple ==
  /\ tk \in {"idle", "batch", "stopping", "closed"}
  /\ after \in {"nothing", "toggle", "close", "scan", "connect"}
  /\ useMock \in BOOLEAN /\ refusing \in BOOLEAN
  /\ connected \in BOOLEAN /\ mockButton \in BOOLEAN
  /\ badge \in Badges /\ shown \in SystemState \cup {"DISCONNECTED"}
  /\ worker \in {"none", "mock", "ble"}
  /\ stop \in {"none", "start", "awaiting", "done"} /\ link \in BOOLEAN
  /\ client \in Tasks \cup {"none"} /\ up \in BOOLEAN
  /\ mockState \in SystemState
  /\ unclean \in {"no", "inFlight", "timedOut", "failed"} /\ scanEnded \in BOOLEAN
  /\ left \in BOOLEAN /\ slipped \in BOOLEAN

LEMMA TypeSplits ==
  /\ TypeOK  <=> Simple /\ QueueType /\ TaskType /\ PinType
  /\ TypeOK' <=> Simple' /\ QueueType' /\ TaskType' /\ PinType'
  BY DEF TypeOK, Simple, QueueType, TaskType, PinType

LEMMA StateTypes ==
  /\ SystemState = {"DISARMED", "ARMED", "ALARM"}
  /\ \A event \in Answers : event.kind = "status" => event.state \in SystemState
  /\ \A event \in Answers : event.kind \in {"status", "ok", "other"}
  BY DEF SystemState, Answers, StatusEvent, OkEvent, Event

LEMMA InitIInv == Init => IInv
<1> SUFFICES ASSUME Init PROVE IInv
  OBVIOUS
<1>1. Simple
  BY DEF Init, Simple, Badges, SystemState
<1>2. QueueType /\ TaskType /\ PinType
  BY NoTaskType, EmptySeq, WordsAssumption DEF Init, QueueType, TaskType, PinType
<1>3. Typable
  BY WordsAssumption DEF Init, Typable, NoTask, Op
<1>4. ~WillConnect
  BY DEF Init, WillConnect
<1>5. Follows /\ BadgeLiesAfterScanOnly /\ Stopped /\ Lost
  BY <1>4 DEF Init, Follows, BadgeLiesAfterScanOnly, Stopped, Tidy, Lost
<1>6. Stopping
  BY DEF Init, Stopping
<1> QED
  BY <1>1, <1>2, <1>3, <1>5, <1>6, TypeSplits DEF IInv

(* A new worker.                                                           *)
LEMMA NewWorkerStep ==
  ASSUME NEW what, NewWorker(what),
         [at |-> "start", does |-> what] \in Task, ValidatePin(what.new),
         useMock \in BOOLEAN
  PROVE  /\ worker' = Mode /\ worker' \in {"mock", "ble"}
         /\ TaskType' /\ PinType' /\ Typable'
         /\ stop' = "none" /\ mockState' = "DISARMED"
         /\ link' = FALSE /\ up' = FALSE /\ client' = "none"
         /\ left' = FALSE /\ slipped' = FALSE
         /\ unclean' = "no" /\ scanEnded' = scanEnded
<1> DEFINE t == CHOOSE t \in Tasks : TRUE
<1>1. t \in Tasks
  BY TasksAssumption
<1>2. /\ tasks' = [u \in Tasks |->
                     IF u = t THEN [at |-> "start", does |-> what] ELSE NoTask]
      /\ ready' = <<t>> /\ pin' = DEFAULT_PIN
  BY DEF NewWorker
<1> HIDE DEF t
<1>3. TaskType'
  BY <1>1, <1>2, NoTaskType DEF TaskType
<1>4. PinType'
  BY <1>2, WordsAssumption DEF PinType
<1>5. Typable'
  BY <1>2, WordsAssumption DEF Typable, NoTask, Op
<1> QED
  BY <1>3, <1>4, <1>5 DEF NewWorker, Mode

(* A click submits a coroutine.                                            *)
LEMMA SubmitStep ==
  ASSUME NEW what, Submit(what), TaskType, Typable,
         [at |-> "start", does |-> what] \in Task, ValidatePin(what.new)
  PROVE  TaskType' /\ Typable'
         /\ UNCHANGED <<eventQueue, tk, after, worker, stop, connection, mockState,
                        pin, unclean, scanEnded, slipped>>
         /\ \A u \in Tasks : tasks[u] # NoTask => tasks'[u] = tasks[u]
<1> DEFINE t == CHOOSE t \in Free : TRUE
<1>1. t \in Tasks
  BY DEF Submit, Free
<1>2. /\ tasks' = [tasks EXCEPT ![t] = [at |-> "start", does |-> what]]
      /\ ready' = Append(ready, t)
      /\ UNCHANGED <<eventQueue, tk, after, worker, stop, connection, mockState, pin,
                     unclean, scanEnded, slipped>>
      /\ tasks[t] = NoTask
  BY DEF Submit, Free, thread, Mock, history
<1> HIDE DEF t
<1>3. TaskType'
  BY <1>1, <1>2, AppendProperties DEF TaskType
<1>4. Typable'
  BY <1>1, <1>2 DEF Typable, TaskType
<1>5. \A u \in Tasks : tasks[u] # NoTask => tasks'[u] = tasks[u]
  BY <1>1, <1>2 DEF TaskType
<1> QED
  BY <1>2, <1>3, <1>4, <1>5

-----------------------------------------------------------------------------
(* What will become of the connection.                                     *)

LEMMA NothingHappens ==
  ASSUME UNCHANGED <<connected, eventQueue>>
  PROVE  WillConnect' <=> WillConnect
  BY DEF WillConnect

LEMMA EmitCloses ==
  ASSUME NEW e \in Events, QueueType, Emit(<<e>>), Closes(e)
  PROVE  ~WillConnect'
<1>1. /\ Len(eventQueue) \in Nat
      /\ DOMAIN eventQueue' = 1..(Len(eventQueue) + 1)
      /\ eventQueue'[Len(eventQueue) + 1] = e
  BY EmitOne DEF QueueType
<1>2. ~Opens(e)
  BY DEF Opens, Closes
<1> HIDE DEF Opens, Closes
<1>3. ~(connected' /\ \A k \in DOMAIN eventQueue' : ~Closes(eventQueue'[k]))
  BY <1>1
<1>4. ASSUME NEW k \in DOMAIN eventQueue', Opens(eventQueue'[k]),
             \A j \in DOMAIN eventQueue' : k < j => ~Closes(eventQueue'[j])
      PROVE  FALSE
  <2>1. k = Len(eventQueue) + 1
    BY <1>1, <1>4
  <2> QED
    BY <1>1, <1>2, <1>4, <2>1
<1> QED
  BY <1>3, <1>4 DEF WillConnect, Opens, Closes

LEMMA EmitKeeps ==
  ASSUME NEW e \in Events, QueueType, Emit(<<e>>), ~Opens(e),
         UNCHANGED connected, ~WillConnect
  PROVE  ~WillConnect'
<1>1. /\ Len(eventQueue) \in Nat
      /\ DOMAIN eventQueue = 1..Len(eventQueue)
      /\ DOMAIN eventQueue' = 1..(Len(eventQueue) + 1)
      /\ \A k \in 1..Len(eventQueue) : eventQueue'[k] = eventQueue[k]
      /\ eventQueue'[Len(eventQueue) + 1] = e
  BY EmitOne DEF QueueType
<1>2. ASSUME connected', \A k \in DOMAIN eventQueue' : ~Closes(eventQueue'[k])
      PROVE  FALSE
  <2>1. \A k \in DOMAIN eventQueue : ~Closes(eventQueue[k])
    <3> TAKE k \in DOMAIN eventQueue
    <3>1. k \in DOMAIN eventQueue' /\ eventQueue'[k] = eventQueue[k]
      BY <1>1
    <3> QED
      BY <3>1, <1>2 DEF Closes
  <2> QED
    BY <2>1, <1>2 DEF WillConnect
<1>3. ASSUME NEW k \in DOMAIN eventQueue', Opens(eventQueue'[k]),
             \A j \in DOMAIN eventQueue' : k < j => ~Closes(eventQueue'[j])
      PROVE  FALSE
  <2>1. k # Len(eventQueue) + 1
    BY <1>1, <1>3 DEF Opens
  <2>2. k \in DOMAIN eventQueue /\ eventQueue'[k] = eventQueue[k]
    BY <1>1, <2>1
  <2>3. \A j \in DOMAIN eventQueue : k < j => ~Closes(eventQueue[j])
    <3> TAKE j \in DOMAIN eventQueue
    <3>1. j \in DOMAIN eventQueue' /\ eventQueue'[j] = eventQueue[j]
      BY <1>1
    <3> QED
      BY <3>1, <1>3 DEF Closes
  <2> QED
    BY <2>2, <2>3, <1>3 DEF WillConnect, Opens
<1> QED
  BY <1>2, <1>3 DEF WillConnect

LEMMA TakesKeeps ==
  ASSUME NEW e \in Events, QueueType, Takes(e),
         Closes(e) => ~connected',
         connected' => connected \/ Opens(e)
  PROVE  /\ WillConnect' => WillConnect
         /\ tk' = "idle" /\ connected' => WillConnect'
<1>1. /\ Len(eventQueue) \in Nat \ {0}
      /\ DOMAIN eventQueue = 1..Len(eventQueue)
      /\ DOMAIN eventQueue' = 1..(Len(eventQueue) - 1)
      /\ \A k \in 1..(Len(eventQueue) - 1) : eventQueue'[k] = eventQueue[k + 1]
      /\ eventQueue[1] = e
  BY Taking DEF QueueType
<1>2. \A j \in DOMAIN eventQueue : 1 < j =>
        j - 1 \in DOMAIN eventQueue' /\ eventQueue'[j - 1] = eventQueue[j]
  <2> TAKE j \in DOMAIN eventQueue
  <2> HAVE 1 < j
  <2>1. j - 1 \in 1..(Len(eventQueue) - 1) /\ (j - 1) + 1 = j
    BY <1>1
  <2> QED
    BY <2>1, <1>1
<1>3. ASSUME connected', \A k \in DOMAIN eventQueue' : ~Closes(eventQueue'[k])
      PROVE  WillConnect
  <2>1. \A j \in DOMAIN eventQueue : 1 < j => ~Closes(eventQueue[j])
    BY <1>2, <1>3 DEF Closes
  <2>2. CASE Opens(e)
    <3>1. 1 \in DOMAIN eventQueue /\ Opens(eventQueue[1])
      BY <1>1, <2>2 DEF Opens
    <3> QED
      BY <3>1, <2>1 DEF WillConnect
  <2>3. CASE ~Opens(e)
    <3>1. ~Closes(e) /\ connected
      BY <1>3, <2>3
    <3>2. \A j \in DOMAIN eventQueue : j = 1 \/ 1 < j
      BY <1>1
    <3>3. \A j \in DOMAIN eventQueue : ~Closes(eventQueue[j])
      BY <1>1, <2>1, <3>1, <3>2 DEF Closes
    <3> QED
      BY <3>1, <3>3 DEF WillConnect
  <2> QED
    BY <2>2, <2>3
<1>4. ASSUME NEW k \in DOMAIN eventQueue', Opens(eventQueue'[k]),
             \A j \in DOMAIN eventQueue' : k < j => ~Closes(eventQueue'[j])
      PROVE  WillConnect
  <2>1. k + 1 \in DOMAIN eventQueue /\ eventQueue'[k] = eventQueue[k + 1]
    BY <1>1
  <2>2. \A j \in DOMAIN eventQueue : k + 1 < j => ~Closes(eventQueue[j])
    <3> TAKE j \in DOMAIN eventQueue
    <3> HAVE k + 1 < j
    <3>1. 1 < j /\ k < j - 1
      BY <1>1
    <3>2. j - 1 \in DOMAIN eventQueue' /\ eventQueue'[j - 1] = eventQueue[j]
      BY <1>2, <3>1
    <3> QED
      BY <3>1, <3>2, <1>4 DEF Closes
  <2> QED
    BY <2>1, <2>2, <1>4 DEF WillConnect, Opens
<1>5. WillConnect' => WillConnect
  BY <1>3, <1>4 DEF WillConnect
<1>6. ASSUME tk' = "idle", connected'
      PROVE  WillConnect'
  <2>1. eventQueue' = <<>>
    BY <1>6 DEF Takes
  <2>2. DOMAIN eventQueue' = {}
    BY <2>1
  <2> QED
    BY <2>2, <1>6 DEF WillConnect
<1> QED
  BY <1>5, <1>6

-----------------------------------------------------------------------------
(* The steps.                                                              *)

(* An event is handled: nothing of the worker changes.                     *)
LEMMA TakesStep ==
  ASSUME NEW e \in Events, IInv, Takes(e), Simple',
         Closes(e) => ~connected',
         connected' => connected \/ Opens(e),
         BadgeLiesAfterScanOnly'
  PROVE  IInv'
<1>1. /\ tk \in {"idle", "batch"} /\ tk' \in {"idle", "batch"}
      /\ UNCHANGED <<after, worker, useMock, refusing, tasks, ready, stop, link, up,
                     left, pin, unclean>>
  BY DEF Takes, backend, connection, Mock
<1>2. QueueType
  BY TypeSplits DEF IInv
<1>3. /\ WillConnect' => WillConnect
      /\ tk' = "idle" /\ connected' => WillConnect'
  BY <1>2, TakesKeeps
<1>4. QueueType'
  BY <1>2, Taking DEF QueueType
<1>5. TaskType' /\ PinType'
  BY <1>1, TypeSplits DEF IInv, TaskType, PinType
<1>6. Typable' /\ Follows' /\ Lost'
  BY <1>1 DEF IInv, Typable, Follows, Mode, Lost, At
<1>7. stop = "none" /\ (worker = "none" => \A t \in Tasks : tasks[t] = NoTask)
  BY <1>1 DEF IInv, Stopping
<1>8. Stopping'
  BY <1>1, <1>7 DEF Stopping
<1>9. Stopped'
  BY <1>1, <1>3 DEF IInv, Stopped, Tidy
<1> QED
  BY <1>4, <1>5, <1>6, <1>8, <1>9, TypeSplits DEF IInv

LEMMA HandledSimple ==
  ASSUME Simple, tk' \in {"idle", "batch"},
         UNCHANGED <<after, worker, useMock, refusing, stop, connection, mockState,
                     unclean>>,
         connected' \in BOOLEAN, mockButton' \in BOOLEAN,
         scanEnded' \in BOOLEAN, slipped' \in BOOLEAN,
         badge' \in Badges, shown' \in SystemState \cup {"DISCONNECTED"}
  PROVE  Simple'
  BY DEF Simple, connection

LEMMA HandleEventStep == ASSUME IInv, HandleEvent PROVE IInv'
<1>1. Simple /\ BadgeLiesAfterScanOnly
  BY TypeSplits DEF IInv
<1>2. ASSUME NEW e \in Events, Takes(e)
      PROVE  /\ tk' \in {"idle", "batch"}
             /\ UNCHANGED <<after, worker, useMock, refusing, stop, connection, mockState,
                         unclean>>
  BY <1>2 DEF Takes, backend, Mock
<1> USE DEF connection
<1>3. CASE HandleConnected
  <2>1. Takes(Event("connected")) /\ Event("connected") \in Events
    BY <1>3, EventTypes DEF HandleConnected
  <2>2. /\ tk' \in {"idle", "batch"}
        /\ UNCHANGED <<after, worker, useMock, refusing, stop, connection, mockState,
                         unclean>>
    BY <2>1, <1>2
  <2>5. /\ connected' \in BOOLEAN /\ scanEnded' \in BOOLEAN
        /\ badge' \in Badges /\ shown' = shown
    BY <1>3 DEF HandleConnected, Badges
  <2>6. mockButton' \in BOOLEAN /\ slipped' \in BOOLEAN
    BY <1>3 DEF HandleConnected, SetControlsEnabled
  <2>3. Simple'
    BY <1>1, <2>2, <2>5, <2>6, HandledSimple DEF Simple
  <2>4. BadgeLiesAfterScanOnly'
    BY <1>3 DEF BadgeLiesAfterScanOnly, HandleConnected
  <2> QED
    BY <2>1, <2>3, <2>4, Kinds, TakesStep
<1>4. CASE HandleDisconnected
  <2>1. Takes(Event("disconnected")) /\ Event("disconnected") \in Events
    BY <1>4, EventTypes DEF HandleDisconnected
  <2>2. /\ tk' \in {"idle", "batch"}
        /\ UNCHANGED <<after, worker, useMock, refusing, stop, connection, mockState,
                         unclean>>
    BY <2>1, <1>2
  <2>5. /\ connected' = FALSE /\ scanEnded' = FALSE /\ UNCHANGED slipped
        /\ badge' \in Badges /\ shown' = "DISCONNECTED"
    BY <1>4 DEF HandleDisconnected, Badges
  <2>6. mockButton' \in BOOLEAN
    BY <1>4 DEF HandleDisconnected, SetControlsEnabled
  <2>3. Simple' /\ ~connected'
    BY <1>1, <2>2, <2>5, <2>6, HandledSimple DEF Simple
  <2>4. BadgeLiesAfterScanOnly'
    BY <2>3 DEF BadgeLiesAfterScanOnly
  <2> QED
    BY <2>1, <2>3, <2>4, TakesStep
<1>5. CASE HandleText
  <2>1. Takes(Event("text")) /\ Event("text") \in Events
    BY <1>5, EventTypes DEF HandleText
  <2>2. /\ tk' \in {"idle", "batch"}
        /\ UNCHANGED <<after, worker, useMock, refusing, stop, connection, mockState,
                         unclean>>
    BY <2>1, <1>2
  <2>3. Simple'
    BY <1>1, <1>5, <2>2 DEF Simple, HandleText, Badges
  <2>4. BadgeLiesAfterScanOnly' /\ connected' = connected
    BY <1>5 DEF BadgeLiesAfterScanOnly, HandleText
  <2> QED
    BY <2>1, <2>3, <2>4, Kinds, TakesStep
<1>6. CASE HandleDevices
  <2>1. Takes(Event("devices")) /\ Event("devices") \in Events
    BY <1>6, EventTypes DEF HandleDevices
  <2>2. /\ tk' \in {"idle", "batch"}
        /\ UNCHANGED <<after, worker, useMock, refusing, stop, connection, mockState,
                         unclean>>
    BY <2>1, <1>2
  <2>3. Simple'
    BY <1>1, <1>6, <2>2 DEF Simple, HandleDevices, Badges
  <2>4. BadgeLiesAfterScanOnly' /\ connected' = connected
    BY <1>6 DEF BadgeLiesAfterScanOnly, HandleDevices
  <2> QED
    BY <2>1, <2>3, <2>4, Kinds, TakesStep
<1>7. CASE HandleError
  <2>1. Takes(Event("error")) /\ Event("error") \in Events
    BY <1>7, EventTypes DEF HandleError
  <2>2. /\ tk' \in {"idle", "batch"}
        /\ UNCHANGED <<after, worker, useMock, refusing, stop, connection, mockState,
                         unclean>>
    BY <2>1, <1>2
  <2>5. /\ connected' = FALSE /\ scanEnded' = FALSE /\ UNCHANGED <<shown, slipped>>
        /\ badge' \in Badges
    BY <1>7 DEF HandleError, Badges
  <2>6. mockButton' \in BOOLEAN
    BY <1>7 DEF HandleError, SetControlsEnabled
  <2>3. Simple' /\ ~connected'
    BY <1>1, <2>2, <2>5, <2>6, HandledSimple DEF Simple
  <2>4. BadgeLiesAfterScanOnly'
    BY <2>3 DEF BadgeLiesAfterScanOnly
  <2> QED
    BY <2>1, <2>3, <2>4, TakesStep
<1>8. CASE HandleStatus
  <2>1. PICK event \in Answers :
          /\ Takes(event)
          /\ shown' = Parse(event)
          /\ UNCHANGED <<connected, mockButton, badge, scanEnded, slipped>>
    BY <1>8 DEF HandleStatus
  <2>2. event \in Events
    BY EventTypes
  <2>3. /\ tk' \in {"idle", "batch"}
        /\ UNCHANGED <<after, worker, useMock, refusing, stop, connection, mockState,
                         unclean>>
    BY <2>1, <2>2, <1>2
  <2>4. shown' \in SystemState \cup {"DISCONNECTED"}
    BY <1>1, <2>1, StateTypes DEF Parse, Simple
  <2>5. Simple'
    BY <1>1, <2>1, <2>3, <2>4 DEF Simple
  <2>6. BadgeLiesAfterScanOnly' /\ connected' = connected
    BY <1>1, <2>1 DEF BadgeLiesAfterScanOnly
  <2> QED
    BY <2>1, <2>2, <2>5, <2>6, Kinds, TakesStep
<1> QED
  BY <1>3, <1>4, <1>5, <1>6, <1>7, <1>8 DEF HandleEvent

(* A coroutine t goes on or ends: only a connect() may make a link or      *)
(* connect the GUI.                                                        *)
LEMMA TaskStep ==
  ASSUME NEW t \in Tasks, IInv, tasks[t] # NoTask,
         Ends(t) \/ \E at \in {"finding", "awaiting", "announcing"} : Goto(t, at),
         UNCHANGED <<Tk, stop>>, Simple', QueueType', ready' \in Seq(Tasks),
         UNCHANGED pin \/ pin' = tasks[t].does.new, Lost',
         tasks[t].does.op # "connect" =>
           (Tidy => Tidy') /\ (~WillConnect => ~WillConnect')
  PROVE  IInv'
<1>1. UNCHANGED <<tk, after, worker, useMock, refusing, connected, badge, unclean,
                  scanEnded, stop>>
  BY DEF Tk, window, thread, history
<1>2. TaskType /\ PinType /\ Typable /\ Stopping
  BY TypeSplits DEF IInv
<1>3. worker # "none"
  BY <1>2 DEF Stopping
<1>4. tasks[t] \in Task /\ tasks \in [Tasks -> Task]
  BY <1>2 DEF TaskType
<1>5. /\ tasks' \in [Tasks -> Task]
      /\ \A u \in Tasks : tasks'[u].does \in {tasks[u].does, Op("none")}
  <2>1. CASE Ends(t)
    BY <1>4, <2>1, NoTaskType DEF Ends, NoTask
  <2>2. ASSUME NEW at \in {"finding", "awaiting", "announcing"}, Goto(t, at)
        PROVE  <1>5!1 /\ <1>5!2
    BY <1>4, <2>2 DEF Goto, Task
  <2> QED
    BY <2>1, <2>2
<1>6. TaskType'
  BY <1>5 DEF TaskType
<1>7. PinType' /\ Typable'
  <2>1. pin' \in Words /\ ValidatePin(pin')
    BY <1>2, <1>4 DEF PinType, Typable, Task
  <2>2. \A u \in Tasks : ValidatePin(tasks'[u].does.new)
    <3>1. ValidatePin(Op("none").new)
      BY WordsAssumption DEF Op
    <3> QED
      BY <1>2, <1>5, <3>1 DEF Typable
  <2> QED
    BY <2>1, <2>2 DEF PinType, Typable
<1>8. Follows' /\ BadgeLiesAfterScanOnly' /\ Stopped'
  BY <1>1, <1>3 DEF IInv, Follows, Mode, BadgeLiesAfterScanOnly, Stopped
<1>9. InFlight("connect")' => InFlight("connect")
  BY <1>5 DEF InFlight, Op
<1>10. stop' = "done" /\ unclean' = "no" => Tidy' /\ ~WillConnect'
  <2> SUFFICES ASSUME stop = "done", unclean = "no"
               PROVE  Tidy' /\ ~WillConnect'
    BY <1>1
  <2>1. Tidy /\ ~WillConnect /\ ~InFlight("connect")
    BY <1>2 DEF Stopping
  <2>2. tasks[t].does.op # "connect"
    BY <2>1 DEF InFlight
  <2> QED
    BY <2>1, <2>2
<1>11. Stopping'
  BY <1>1, <1>2, <1>3, <1>9, <1>10 DEF Stopping
<1> QED
  BY <1>6, <1>7, <1>8, <1>11, TypeSplits DEF IInv

(* What a coroutine that emits at most one event does to the queue.        *)
LEMMA EmitStep ==
  ASSUME QueueType, UNCHANGED connected,
         NEW e \in Events, UNCHANGED eventQueue \/ Emit(<<e>>)
  PROVE  QueueType' /\ (~Opens(e) /\ ~WillConnect => ~WillConnect')
<1>1. CASE UNCHANGED eventQueue
  BY <1>1, NothingHappens DEF QueueType
<1>2. CASE Emit(<<e>>)
  <2>1. QueueType'
    BY <1>2, EmitOne DEF QueueType
  <2>2. ~Opens(e) /\ ~WillConnect => ~WillConnect'
    BY <1>2, EmitKeeps
  <2> QED
    BY <2>1, <2>2
<1> QED
  BY <1>1, <1>2

(* Calls of the drawer, and scans.                                         *)
LEMMA QuietTaskStep ==
  ASSUME NEW t \in Tasks, NEW e \in Events, IInv, tasks[t] # NoTask,
         ~At(t, "connect", "awaiting"),
         Ends(t) \/ \E at \in {"finding", "awaiting", "announcing"} : Goto(t, at),
         UNCHANGED <<Tk, stop>>, ready' \in Seq(Tasks),
         UNCHANGED pin \/ pin' = tasks[t].does.new, mockState' \in SystemState,
         UNCHANGED eventQueue \/ Emit(<<e>>), ~Opens(e),
         UNCHANGED connection \/ Closed
  PROVE  IInv'
<1>1. Simple /\ QueueType /\ TaskType /\ Lost
  BY TypeSplits DEF IInv
<1>2. UNCHANGED <<tk, after, worker, useMock, refusing, connected, mockButton, badge,
                  shown, unclean, scanEnded, slipped, stop>>
  BY DEF Tk, window, thread, history
<1>3. QueueType' /\ (~WillConnect => ~WillConnect')
  BY <1>1, <1>2, EmitStep
<1>4. /\ link' \in BOOLEAN /\ up' \in BOOLEAN /\ left' \in BOOLEAN /\ client' = client
      /\ Tidy => Tidy'
  <2>1. CASE UNCHANGED connection
    BY <1>1, <2>1 DEF Simple, connection, Tidy
  <2>2. CASE Closed
    BY <2>2 DEF Closed, Tidy
  <2> QED
    BY <2>1, <2>2
<1>5. Simple'
  BY <1>1, <1>2, <1>4 DEF Simple
<1>6. \A u \in Tasks \ {t} : tasks'[u] = tasks[u]
  BY <1>1 DEF Ends, Goto, TaskType
<1>7. Lost'
  BY <1>1, <1>2, <1>6 DEF Lost, At, Closed, connection
<1> QED
  BY <1>3, <1>4, <1>5, <1>7, TaskStep

LEMMA InTask ==
  ASSUME NEW t \in Tasks, tasks[t] = NoTask
  PROVE  /\ tasks[t].does.op = "none" /\ tasks[t].at = "none"
         /\ tasks[t].does.op \notin Verbs
  BY DEF NoTask, Op, Verbs

LEMMA StartsStep ==
  ASSUME NEW t, Starts(t), TaskType
  PROVE  ready' \in Seq(Tasks)
  BY EmptySeq, HeadTailProperties DEF Starts, TaskType

LEMMA ResumeStep == ASSUME IInv, NEW t \in Tasks, Resume(t) PROVE IInv'
<1>1. Simple /\ QueueType /\ TaskType /\ PinType /\ mockState \in SystemState
  BY TypeSplits DEF IInv, Simple
<1>2. /\ \A kind \in {"text", "devices", "error", "disconnected"} :
           Event(kind) \in Events /\ ~Opens(Event(kind))
      /\ \A answer \in Answers : answer \in Events /\ ~Opens(answer)
  BY EventTypes, Kinds
<1>3. tasks[t] # NoTask
  <2> SUFFICES ASSUME tasks[t] = NoTask PROVE FALSE
    OBVIOUS
  <2> QED
    BY InTask DEF Resume, At, ScanStarts, ScanEnds, MockConnectStarts, MockConnects,
       BleConnectStarts, BleFinds, BleConnects, BleAnnounces, DisconnectStarts,
       DisconnectEnds, CommandStarts,
       MockExecutes, BleCommandEnds
<1>4. CASE ScanStarts(t)
  <2>1. ready' \in Seq(Tasks)
    BY <1>1, <1>4, StartsStep DEF ScanStarts
  <2>2. /\ Goto(t, "awaiting") /\ UNCHANGED <<Tk, stop, connection, mockState, pin>>
        /\ UNCHANGED eventQueue \/ Emit(<<Event("text")>>)
    BY <1>4 DEF ScanStarts, Mock
  <2>9. ~At(t, "connect", "awaiting")
    BY <1>4 DEF ScanStarts, At, Verbs
  <2> QED
    BY <1>1, <1>2, <1>3, <2>1, <2>2, <2>9, QuietTaskStep
<1>5. CASE ScanEnds(t)
  <2>1. PICK kind \in {"devices", "error"} : Ends(t) /\ Emit(<<Event(kind)>>)
    BY <1>5 DEF ScanEnds, Raises
  <2>2. ready' \in Seq(Tasks) /\ UNCHANGED <<Tk, stop, connection, mockState, pin>>
    BY <1>1, <1>5 DEF ScanEnds, Mock, TaskType
  <2>9. ~At(t, "connect", "awaiting")
    BY <1>5 DEF ScanEnds, At, Verbs
  <2> QED
    BY <1>1, <1>2, <1>3, <2>1, <2>2, <2>9, QuietTaskStep
<1>6. CASE MockConnectStarts(t)
  <2>1. ready' \in Seq(Tasks)
    BY <1>1, <1>6, StartsStep DEF MockConnectStarts
  <2>2. /\ Goto(t, "awaiting") /\ UNCHANGED <<Tk, stop, connection, mockState, pin>>
        /\ UNCHANGED eventQueue /\ ~At(t, "connect", "awaiting")
    BY <1>6 DEF MockConnectStarts, Mock, At
  <2> QED
    BY <1>1, <1>2, <1>3, <2>1, <2>2, QuietTaskStep
<1>7. CASE MockConnects(t)
  <2>1. /\ tasks[t].does.op = "connect" /\ Ends(t) /\ link' = TRUE
        /\ UNCHANGED <<client, up, left>>
        /\ Emit(<<Event("connected"), StatusEvent(mockState)>>)
        /\ UNCHANGED <<Tk, ready, stop, mockState, pin>>
    BY <1>7 DEF MockConnects, At, Mock
  <2>2. QueueType' /\ ready' \in Seq(Tasks)
    BY <1>1, <2>1, EmitTwo, EventTypes DEF QueueType, TaskType
  <2>3. Simple' /\ Lost'
    BY <1>1, <2>1 DEF Simple, Lost, Tk, window, thread, history
  <2> QED
    BY <1>3, <2>1, <2>2, <2>3, TaskStep
<1>15. ASSUME Replaces(t), tasks[t].does.op = "connect", ready' \in Seq(Tasks),
              UNCHANGED <<Tk, stop, mockState, pin>>,
              UNCHANGED eventQueue \/ Emit(<<Event("text")>>)
       PROVE  IInv'
  <2>1. Goto(t, "awaiting") /\ client' = t /\ link' = FALSE /\ UNCHANGED <<up, left>>
    BY <1>15 DEF Replaces
  <2>2. QueueType'
    BY <1>1, <1>2, <1>15, EmitOne DEF QueueType
  <2>3. tasks'[t].at = "awaiting" /\ tasks'[t].does.op = "connect"
    BY <1>1, <1>15, <2>1 DEF Goto, TaskType, Task
  <2>6. UNCHANGED <<tk, after, worker, useMock, refusing, connected, mockButton, badge,
                    shown, unclean, scanEnded, slipped, stop, mockState>>
    BY <1>15 DEF Tk, window, thread, history
  <2>7. link' \in BOOLEAN /\ client' \in Tasks \cup {"none"}
    BY <2>1
  <2>8. up' \in BOOLEAN /\ left' \in BOOLEAN
    BY <1>1, <2>1 DEF Simple
  <2>4. Simple'
    BY <1>1, <2>6, <2>7, <2>8 DEF Simple
  <2>5. Lost'
    BY <2>3 DEF Lost, At
  <2> QED
    BY <1>3, <1>15, <2>1, <2>2, <2>4, <2>5, TaskStep
<1>16. CASE BleConnectStarts(t)
  <2>1. ready' \in Seq(Tasks)
    BY <1>1, <1>16, StartsStep DEF BleConnectStarts
  <2>2. /\ tasks[t].does.op = "connect" /\ ~At(t, "connect", "awaiting")
        /\ UNCHANGED <<Tk, stop, mockState, pin>> /\ Emit(<<Event("text")>>)
        /\ (Goto(t, "finding") /\ UNCHANGED connection) \/ Replaces(t)
    BY <1>16 DEF BleConnectStarts, At, Mock
  <2> QED
    BY <1>1, <1>2, <1>3, <1>15, <2>1, <2>2, QuietTaskStep
<1>17. CASE BleFinds(t)
  <2>1. ready' \in Seq(Tasks)
    BY <1>1, <1>17 DEF BleFinds, TaskType
  <2>2. /\ tasks[t].does.op = "connect" /\ ~At(t, "connect", "awaiting")
        /\ UNCHANGED <<Tk, stop, mockState, pin>>
        /\ \/ Replaces(t) /\ UNCHANGED eventQueue
           \/ Ends(t) /\ Emit(<<Event("error")>>) /\ UNCHANGED connection
    BY <1>17 DEF BleFinds, Raises, At, Mock
  <2> QED
    BY <1>1, <1>2, <1>3, <1>15, <2>1, <2>2, QuietTaskStep
<1>8. CASE BleConnects(t)
  <2>1. /\ tasks[t].does.op = "connect"
        /\ Ends(t) \/ \E at \in {"finding", "awaiting", "announcing"} : Goto(t, at)
        /\ UNCHANGED eventQueue \/ Emit(<<Event("error")>>)
        /\ UNCHANGED <<Tk, ready, stop, mockState, pin, client>>
    BY <1>8 DEF BleConnects, Raises, At, Mock
  <2>2. /\ link' \in BOOLEAN /\ up' \in BOOLEAN /\ left' \in BOOLEAN
        /\ up' /\ ~link' => left'
    <3>1. link \in BOOLEAN /\ up \in BOOLEAN
      BY <1>1 DEF Simple
    <3>2. \/ up' = TRUE /\ link' = (link \/ client = t) /\ left' = ~link'
          \/ left' = (up /\ ~link) /\ UNCHANGED <<link, up>>
      BY <1>8 DEF BleConnects
    <3>3. CASE left' = (up /\ ~link) /\ UNCHANGED <<link, up>>
      BY <3>1, <3>3
    <3>4. CASE up' = TRUE /\ link' = (link \/ client = t) /\ left' = ~link'
      <4>1. link' \in BOOLEAN
        BY <3>4
      <4> QED
        BY <3>4, <4>1
    <3> QED
      BY <3>2, <3>3, <3>4
  <2>3. QueueType' /\ ready' \in Seq(Tasks)
    BY <1>1, <1>2, <2>1, EmitOne DEF QueueType, TaskType
  <2>4. Simple' /\ Lost'
    BY <1>1, <2>1, <2>2 DEF Simple, Lost, Tk, window, thread, history
  <2> QED
    BY <1>3, <2>1, <2>3, <2>4, TaskStep
<1>9. CASE BleAnnounces(t)
  <2>1. /\ tasks[t].does.op = "connect" /\ ~At(t, "connect", "awaiting") /\ Ends(t)
        /\ \E kind \in {"connected", "error"} : Emit(<<Event(kind)>>)
        /\ UNCHANGED <<Tk, ready, stop, connection, mockState, pin>>
    BY <1>9 DEF BleAnnounces, Raises, At, Mock
  <2>2. QueueType' /\ ready' \in Seq(Tasks)
    BY <1>1, <2>1, EmitOne, EventTypes DEF QueueType, TaskType
  <2>3. \A u \in Tasks \ {t} : tasks'[u] = tasks[u]
    BY <1>1, <2>1 DEF Ends, TaskType
  <2>4. Simple' /\ Lost'
    BY <1>1, <2>1, <2>3 DEF Simple, IInv, Lost, At, connection, Tk, window, thread, history
  <2> QED
    BY <1>3, <2>1, <2>2, <2>4, TaskStep
<1>10. CASE DisconnectStarts(t)
  <2>1. ready' \in Seq(Tasks)
    BY <1>1, <1>10, StartsStep DEF DisconnectStarts
  <2>2. /\ Ends(t) \/ \E at \in {"finding", "awaiting", "announcing"} : Goto(t, at)
        /\ UNCHANGED <<Tk, stop, connection, mockState, pin>>
        /\ UNCHANGED eventQueue \/ Emit(<<Event("disconnected")>>)
    BY <1>10 DEF DisconnectStarts, Mock
  <2>9. ~At(t, "connect", "awaiting")
    BY <1>10 DEF DisconnectStarts, At, Verbs
  <2> QED
    BY <1>1, <1>2, <1>3, <2>1, <2>2, <2>9, QuietTaskStep
<1>11. CASE DisconnectEnds(t)
  <2>1. /\ \E kind \in {"disconnected", "error"} : Emit(<<Event(kind)>>)
        /\ Ends(t) /\ UNCHANGED <<Tk, ready, stop, mockState, pin>>
        /\ UNCHANGED connection \/ Closed
    BY <1>11 DEF DisconnectEnds, Raises, Mock
  <2>2. ready' \in Seq(Tasks)
    BY <1>1, <2>1 DEF TaskType
  <2>9. ~At(t, "connect", "awaiting")
    BY <1>11 DEF DisconnectEnds, At, Verbs
  <2> QED
    BY <1>1, <1>2, <1>3, <2>1, <2>2, <2>9, QuietTaskStep
<1>12. CASE CommandStarts(t)
  <2>1. ready' \in Seq(Tasks)
    BY <1>1, <1>12, StartsStep DEF CommandStarts
  <2>2. /\ Ends(t) \/ \E at \in {"finding", "awaiting", "announcing"} : Goto(t, at)
        /\ UNCHANGED <<Tk, stop, connection, mockState, pin>>
        /\ UNCHANGED eventQueue \/ Emit(<<Event("error")>>)
    BY <1>12 DEF CommandStarts, Raises, Mock
  <2>9. ~At(t, "connect", "awaiting")
    BY <1>12 DEF CommandStarts, At, Verbs
  <2> QED
    BY <1>1, <1>2, <1>3, <2>1, <2>2, <2>9, QuietTaskStep
<1>13. CASE MockExecutes(t)
  <2> DEFINE c == tasks[t].does
  <2>1. /\ c.op \in Verbs /\ HandleCommand(c) /\ Ends(t) /\ Emit(<<Response(c)>>)
        /\ UNCHANGED <<Tk, ready, stop, connection>>
    BY <1>13 DEF MockExecutes
  <2> HIDE DEF c
  <2>2. /\ mockState' \in SystemState
        /\ c.op \in {"ARM", "DISARM"} /\ Accepts(c) => mockState' \in {"ARMED", "DISARMED"}
        /\ UNCHANGED pin \/ pin' = c.new
    BY <1>1, <2>1, StateTypes DEF HandleCommand
  <2>3. Response(c) \in Answers
    BY <1>1, <2>1, <2>2, EventTypes, StateTypes DEF Response, Verbs
  <2>4. ready' \in Seq(Tasks)
    BY <1>1, <2>1 DEF TaskType
  <2>9. ~At(t, "connect", "awaiting")
    BY <1>13 DEF MockExecutes, At, Verbs
  <2> QED
    BY <1>1, <1>2, <1>3, <2>1, <2>2, <2>3, <2>4, <2>9, QuietTaskStep DEF c
<1>14. CASE BleCommandEnds(t)
  <2>1. PICK e \in BleAnswers \cup {Event("error")} : Ends(t) /\ Emit(<<e>>)
    BY <1>14 DEF BleCommandEnds, Raises
  <2>2. ready' \in Seq(Tasks) /\ UNCHANGED <<Tk, stop, connection, mockState, pin>>
    BY <1>1, <1>14 DEF BleCommandEnds, Mock, TaskType
  <2>3. e \in Events /\ ~Opens(e)
    BY <1>2, AnswersAssumption
  <2>9. ~At(t, "connect", "awaiting")
    BY <1>14 DEF BleCommandEnds, At, Verbs
  <2> QED
    BY <1>1, <1>3, <2>1, <2>2, <2>3, <2>9, QuietTaskStep
<1> QED
  BY <1>4, <1>5, <1>6, <1>7, <1>8, <1>9, <1>10, <1>11, <1>12, <1>13, <1>14,
     <1>16, <1>17 DEF Resume

(* The coroutine of a shutdown(), and a lost link.                         *)
LEMMA LinkStep ==
  ASSUME IInv, NEW e \in Events, ~Opens(e),
         UNCHANGED eventQueue \/ Emit(<<e>>),
         UNCHANGED <<window, thread, tasks, ready, mockState, pin, scanEnded, slipped>>,
         UNCHANGED connection \/ Closed,
         \/ UNCHANGED <<stop, unclean>>
         \/ /\ stop # "none" /\ stop' \in {"start", "awaiting", "done"}
            /\ unclean' \in {unclean, "failed"}
            /\ stop' = "done" /\ unclean' = "no" => Tidy' /\ Closes(e) /\ Emit(<<e>>)
  PROVE  IInv'
<1>1. Simple /\ QueueType /\ TaskType /\ PinType /\ Typable /\ Stopping /\ Stopped /\ Lost
  BY TypeSplits DEF IInv
<1>2. UNCHANGED <<tk, after, worker, useMock, refusing, connected, mockButton, badge,
                  shown, tasks, ready, pin, mockState, scanEnded, slipped>>
  BY DEF window, thread
<1>3. QueueType' /\ (~WillConnect => ~WillConnect')
  BY <1>1, <1>2, EmitStep
<1>4. /\ link' \in BOOLEAN /\ up' \in BOOLEAN /\ left' \in BOOLEAN /\ client' = client
      /\ Tidy => Tidy'
  <2>1. CASE UNCHANGED connection
    BY <1>1, <2>1 DEF Simple, connection, Tidy
  <2>2. CASE Closed
    BY <2>2 DEF Closed, Tidy
  <2> QED
    BY <2>1, <2>2
<1>5. /\ stop' \in {"none", "start", "awaiting", "done"}
      /\ unclean' \in {"no", "inFlight", "timedOut", "failed"}
      /\ unclean' = "no" => unclean = "no"
      /\ tk' # "stopping" => stop' = "none"
  BY <1>1, <1>2 DEF Simple, Stopping
<1>6. stop' = "done" /\ unclean' = "no" => Tidy' /\ ~WillConnect'
  <2>1. CASE UNCHANGED <<stop, unclean>>
    BY <1>1, <1>3, <1>4, <2>1 DEF Stopping
  <2>2. CASE /\ stop # "none" /\ stop' \in {"start", "awaiting", "done"}
             /\ unclean' \in {unclean, "failed"}
             /\ stop' = "done" /\ unclean' = "no" => Tidy' /\ Closes(e) /\ Emit(<<e>>)
    BY <1>1, <2>2, EmitCloses
  <2> QED
    BY <2>1, <2>2
<1>7. Simple'
  BY <1>1, <1>2, <1>4, <1>5 DEF Simple
<1>8. TaskType' /\ PinType' /\ Typable' /\ Follows' /\ BadgeLiesAfterScanOnly'
  BY <1>1, <1>2 DEF IInv, TaskType, PinType, Typable, Follows, Mode, BadgeLiesAfterScanOnly
<1>9. Stopping'
  BY <1>1, <1>2, <1>5, <1>6 DEF Stopping, InFlight
<1>10. Stopped'
  BY <1>1, <1>2, <1>3, <1>4, <1>5 DEF Stopped
<1>11. Lost'
  BY <1>1, <1>2 DEF Lost, At, Closed, connection
<1> QED
  BY <1>3, <1>7, <1>8, <1>9, <1>10, <1>11, TypeSplits DEF IInv

LEMMA StopStep ==
  ASSUME IInv, StopStarts \/ StopDisconnects \/ StopRaises \/ LinkLost
  PROVE  IInv'
<1>1. /\ Event("disconnected") \in Events /\ ~Opens(Event("disconnected"))
      /\ Closes(Event("disconnected"))
      /\ Event("error") \in Events /\ ~Opens(Event("error"))
  BY EventTypes, Kinds
<1>2. unclean = "no" /\ stop # "none" => ~InFlight("connect")
  BY DEF IInv, Stopping
<1>3. Simple
  BY TypeSplits DEF IInv
<1>4. CASE StopStarts
  <2>1. CASE worker = "ble" /\ ~link
    <3>1. /\ stop # "none" /\ stop' = "done" /\ Emit(<<Event("disconnected")>>)
          /\ UNCHANGED <<window, thread, tasks, ready, connection, mockState, pin,
                         unclean, scanEnded, slipped>>
      BY <1>4, <2>1 DEF StopStarts, Tk, Mock, history
    <3>2. unclean' = "no" => Tidy'
      BY <1>2, <2>1, <3>1 DEF IInv, Lost, Tidy, InFlight, At, connection
    <3> QED
      BY <1>1, <1>2, <3>1, <3>2, LinkStep
  <2>2. CASE ~(worker = "ble" /\ ~link)
    <3>1. /\ stop # "none" /\ stop' = "awaiting" /\ UNCHANGED eventQueue
          /\ UNCHANGED <<window, thread, tasks, ready, connection, mockState, pin,
                         unclean, scanEnded, slipped>>
      BY <1>4, <2>2 DEF StopStarts, Tk, Mock, history
    <3> QED
      BY <1>1, <1>2, <3>1, LinkStep
  <2> QED
    BY <2>1, <2>2
<1>5. CASE StopDisconnects
  <2>1. /\ stop # "none" /\ stop' = "done" /\ Emit(<<Event("disconnected")>>)
        /\ Closed
        /\ UNCHANGED <<window, thread, tasks, ready, mockState, pin, unclean, scanEnded,
                       slipped>>
    BY <1>5 DEF StopDisconnects, Tk, Mock, history
  <2>2. Tidy'
    BY <2>1 DEF Closed, Tidy
  <2> QED
    BY <1>1, <2>1, <2>2, LinkStep
<1>6. CASE StopRaises
  <2>1. /\ stop # "none" /\ stop' = "done" /\ Emit(<<Event("error")>>)
        /\ unclean' = "failed"
        /\ UNCHANGED <<window, thread, tasks, ready, connection, mockState, pin, scanEnded,
                       slipped>>
    BY <1>6 DEF StopRaises, Mock
  <2> QED
    BY <1>1, <1>2, <2>1, LinkStep
<1>7. CASE LinkLost
  <2>1. /\ Closed
        /\ UNCHANGED eventQueue \/ Emit(<<Event("disconnected")>>)
        /\ UNCHANGED <<window, thread, tasks, ready, stop, mockState, pin, unclean,
                       scanEnded, slipped>>
    BY <1>7 DEF LinkLost, Tk, Mock, history
  <2> QED
    BY <1>1, <2>1, LinkStep
<1> QED
  BY <1>4, <1>5, <1>6, <1>7

(* shutdown() returns.                                                     *)
LEMMA ShutdownStep == ASSUME IInv, Shutdown PROVE IInv'
<1>1. Simple /\ QueueType /\ TaskType /\ PinType /\ Stopping
  BY TypeSplits DEF IInv
<1>2. /\ tk = "stopping" /\ Returns /\ worker # "none" /\ after # "nothing"
      /\ after' = "nothing" /\ UNCHANGED <<window, eventQueue>>
  BY <1>1 DEF Shutdown, ShutdownReturns, ShutdownTimesOut, Returns, Stopping
<1>3. UNCHANGED <<useMock, refusing, connected, mockButton, badge, shown>>
  BY <1>2 DEF window
<1>4. QueueType' /\ (WillConnect' <=> WillConnect)
  BY <1>1, <1>2, <1>3, NothingHappens DEF QueueType
<1>5. CASE after \in {"toggle", "close"}
  <2>1. /\ tk' = IF after = "close" THEN "closed" ELSE "idle"
        /\ worker' = "none" /\ UNCHANGED <<link, client, up, left>>
        /\ tasks' = [t \in Tasks |-> NoTask] /\ ready' = <<>> /\ stop' = "none"
        /\ mockState' = "DISARMED" /\ pin' = DEFAULT_PIN
    BY <1>2, <1>5 DEF Returns, connection
  <2>2. /\ UNCHANGED <<scanEnded, slipped>>
        /\ \/ stop = "done" /\ unclean' = unclean
           \/ unclean' = "timedOut"
    BY <1>5 DEF Shutdown, ShutdownReturns, ShutdownTimesOut, history
  <2>3. tk' \in {"idle", "closed"}
    BY <2>1
  <2>4. Simple'
    BY <1>1, <1>2, <1>3, <2>1, <2>2, <2>3 DEF Simple, SystemState
  <2>5. TaskType' /\ PinType' /\ Typable'
    BY <2>1, NoTaskType, EmptySeq, WordsAssumption
       DEF TaskType, PinType, Typable, NoTask, Op
  <2>6. BadgeLiesAfterScanOnly'
    BY <1>3, <2>2 DEF IInv, BadgeLiesAfterScanOnly
  <2>7. Follows' /\ Stopping' /\ Lost'
    BY <2>1, <2>3 DEF Follows, Stopping, Lost
  <2>8. unclean' = "no" => Tidy' /\ ~WillConnect'
    BY <1>1, <1>4, <2>1, <2>2 DEF Stopping, Tidy
  <2>9. tk' = "idle" => ~connected'
    BY <1>1, <1>2, <1>3, <1>5, <2>1 DEF Stopping
  <2>10. Stopped'
    BY <2>8, <2>9 DEF Stopped
  <2> QED
    BY <1>4, <2>4, <2>5, <2>6, <2>7, <2>10, TypeSplits DEF IInv
<1>6. CASE after \notin {"toggle", "close"}
  <2>1. tk' = "idle" /\ NewWorker(Op(after))
    BY <1>2, <1>6 DEF Returns
  <2>2. after \in {"scan", "connect"} /\ useMock \in BOOLEAN
    BY <1>1, <1>2, <1>6 DEF Simple
  <2>3. ValidatePin(Op(after).new) /\ [at |-> "start", does |-> Op(after)] \in Task
    BY <2>2, OpType, WordsAssumption DEF Op
  <2>4. /\ worker' = Mode /\ worker' \in {"mock", "ble"}
        /\ TaskType' /\ PinType' /\ Typable'
        /\ stop' = "none" /\ mockState' = "DISARMED"
        /\ link' = FALSE /\ up' = FALSE /\ client' = "none"
        /\ left' = FALSE /\ slipped' = FALSE
        /\ unclean' = "no" /\ scanEnded' = scanEnded
    BY <2>1, <2>2, <2>3, NewWorkerStep
  <2>5. Simple'
    BY <1>1, <1>2, <1>3, <2>1, <2>4 DEF Simple, SystemState
  <2>6. BadgeLiesAfterScanOnly' /\ Follows'
    BY <1>3, <2>4 DEF IInv, BadgeLiesAfterScanOnly, Follows, Mode
  <2>7. Stopping' /\ Stopped' /\ Lost'
    BY <2>1, <2>4 DEF Stopping, Stopped, Lost
  <2> QED
    BY <1>4, <2>4, <2>5, <2>6, <2>7, TypeSplits DEF IInv
<1> QED
  BY <1>5, <1>6

(* Clicks that submit a coroutine to a worker.                             *)
LEMMA SubmitClickStep ==
  ASSUME IInv, tk = "idle", worker # "none", NEW what, Submit(what),
         [at |-> "start", does |-> what] \in Task, ValidatePin(what.new),
         UNCHANGED <<useMock, refusing, connected, mockButton, shown>>,
         badge' \in {badge, "Scanning", "Connecting"}
  PROVE  IInv'
<1>1. Simple /\ QueueType /\ TaskType /\ PinType /\ Typable
  BY TypeSplits DEF IInv
<1>2. /\ TaskType' /\ Typable'
      /\ UNCHANGED <<eventQueue, tk, after, worker, stop, link, client, up, left,
                     mockState, pin, unclean, scanEnded, slipped>>
      /\ \A u \in Tasks : tasks[u] # NoTask => tasks'[u] = tasks[u]
  BY <1>1, SubmitStep DEF connection
<1>3. badge' \in Badges
  BY <1>1 DEF Simple, Badges
<1>4. Simple' /\ QueueType' /\ PinType'
  BY <1>1, <1>2, <1>3 DEF Simple, QueueType, PinType
<1>5. Follows' /\ BadgeLiesAfterScanOnly'
  BY <1>2 DEF IInv, Follows, Mode, BadgeLiesAfterScanOnly
<1>6. Stopping' /\ Stopped'
  BY <1>2 DEF IInv, Stopping, Stopped
<1>7. Lost'
  BY <1>2, NoTaskIsNone DEF IInv, Lost, At
<1> QED
  BY <1>2, <1>4, <1>5, <1>6, <1>7, TypeSplits DEF IInv

(* Scan and Connect: the worker is of the mode shown, or there is none.    *)
LEMMA EnsureWorkerStep ==
  ASSUME IInv, tk = "idle", ~refusing, NEW name \in {"scan", "connect"}, EnsureWorker(name),
         UNCHANGED <<useMock, refusing, connected, mockButton, shown>>,
         badge' \in {"Scanning", "Connecting"}
  PROVE  IInv'
<1>1. Simple /\ QueueType
  BY TypeSplits DEF IInv
<1>2. ValidatePin(Op(name).new) /\ [at |-> "start", does |-> Op(name)] \in Task
  BY OpType, WordsAssumption DEF Op
<1>3. worker \in {Mode, "none"} /\ Mode # "none" /\ useMock \in BOOLEAN
  BY <1>1 DEF IInv, Follows, Mode, Simple
<1>4. CASE worker = Mode
  <2>1. worker # "none" /\ Submit(Op(name))
    BY <1>3, <1>4 DEF EnsureWorker
  <2> QED
    BY <1>2, <2>1, SubmitClickStep
<1>5. CASE worker = "none"
  <2>1. NewWorker(Op(name)) /\ UNCHANGED <<tk, after, eventQueue>>
    BY <1>3, <1>5 DEF EnsureWorker
  <2>2. /\ worker' = Mode /\ worker' \in {"mock", "ble"}
        /\ TaskType' /\ PinType' /\ Typable'
        /\ stop' = "none" /\ mockState' = "DISARMED"
        /\ link' = FALSE /\ up' = FALSE /\ client' = "none"
        /\ left' = FALSE /\ slipped' = FALSE
        /\ unclean' = "no" /\ scanEnded' = scanEnded
    BY <1>2, <1>3, <2>1, NewWorkerStep
  <2>3. badge' \in Badges
    BY DEF Badges
  <2>4. Simple' /\ QueueType'
    BY <1>1, <2>1, <2>2, <2>3 DEF Simple, QueueType, SystemState
  <2>5. Follows' /\ BadgeLiesAfterScanOnly'
    BY <2>2 DEF Follows, Mode, BadgeLiesAfterScanOnly
  <2>6. Stopping' /\ Stopped' /\ Lost'
    BY <2>1, <2>2 DEF Stopping, Stopped, Lost
  <2> QED
    BY <2>2, <2>4, <2>5, <2>6, TypeSplits DEF IInv
<1> QED
  BY <1>3, <1>4, <1>5

(* Switching the mode and closing the window begin a shutdown().           *)
LEMMA BeginStep ==
  ASSUME IInv, tk = "idle", worker # "none",
         NEW then \in {"toggle", "close"}, BeginShutdown(then),
         useMock' \in BOOLEAN, refusing' \in BOOLEAN,
         UNCHANGED <<connected, mockButton, badge, shown, eventQueue>>,
         then = "toggle" => ~connected
  PROVE  IInv'
<1>1. Simple /\ QueueType /\ TaskType /\ PinType
  BY TypeSplits DEF IInv
<1>2. /\ tk' = "stopping" /\ after' = then /\ stop' = "start"
      /\ unclean' = IF InFlight("connect") THEN "inFlight" ELSE "no"
      /\ UNCHANGED <<worker, tasks, ready, link, client, up, left, mockState, pin,
                     scanEnded, slipped>>
  BY DEF BeginShutdown, Mock, connection
<1>3. unclean' \in {"inFlight", "no"}
  BY <1>2
<1>4. Simple'
  BY <1>1, <1>2, <1>3 DEF Simple
<1>5. QueueType' /\ TaskType' /\ PinType' /\ Typable'
  BY <1>1, <1>2 DEF IInv, QueueType, TaskType, PinType, Typable
<1>6. Follows' /\ BadgeLiesAfterScanOnly' /\ Stopped' /\ Lost'
  BY <1>2 DEF IInv, Follows, BadgeLiesAfterScanOnly, Stopped, Lost, At
<1>7. unclean' = "no" => ~InFlight("connect")'
  BY <1>2 DEF InFlight
<1>8. Stopping'
  BY <1>2, <1>7 DEF Stopping
<1> QED
  BY <1>4, <1>5, <1>6, <1>8, TypeSplits DEF IInv

(* Steps that change the check box and its dialog only, or close a window. *)
LEMMA BoxStep ==
  ASSUME IInv, tk' \in {"idle", "batch", "closed"}, tk # "stopping",
         tk' = "idle" => tk = "idle",
         useMock' \in BOOLEAN, refusing' \in BOOLEAN, Follows',
         UNCHANGED <<connected, mockButton, badge, shown, after, worker, eventQueue,
                     tasks, ready, stop, connection, mockState, pin, history>>
  PROVE  IInv'
<1>1. Simple /\ QueueType /\ TaskType /\ PinType
  BY TypeSplits DEF IInv
<1>2. UNCHANGED <<connected, mockButton, badge, shown, after, worker, eventQueue, tasks,
                  ready, stop, link, client, up, left, mockState, pin, unclean,
                  scanEnded, slipped>>
  BY DEF connection, history
<1>3. Simple' /\ QueueType' /\ TaskType' /\ PinType'
  BY <1>1, <1>2 DEF Simple, QueueType, TaskType, PinType
<1>4. Typable' /\ BadgeLiesAfterScanOnly' /\ Lost'
  BY <1>2 DEF IInv, Typable, BadgeLiesAfterScanOnly, Lost, At
<1>5. WillConnect' <=> WillConnect
  BY <1>2, NothingHappens
<1>6. Stopping' /\ Stopped'
  BY <1>2, <1>5 DEF IInv, Stopping, Stopped, Tidy
<1> QED
  BY <1>3, <1>4, <1>6, TypeSplits DEF IInv

LEMMA ClickModeStep == ASSUME IInv, ClickMode PROVE IInv'
<1>1. Simple
  BY TypeSplits DEF IInv
<1>2. /\ tk = "idle" /\ ~refusing /\ useMock' = ~useMock /\ refusing' = connected
      /\ UNCHANGED <<connected, mockButton, badge, shown, eventQueue>>
  BY DEF ClickMode, Idle
<1>3. useMock' \in BOOLEAN /\ refusing' \in BOOLEAN
  BY <1>1, <1>2 DEF Simple
<1>4. CASE connected \/ worker = "none"
  <2>1. UNCHANGED <<tk, after, worker, tasks, ready, stop, connection, mockState, pin,
                    history>>
    BY <1>4 DEF ClickMode, thread, backend, Mock
  <2>2. Follows'
    BY <1>2, <1>4, <2>1 DEF Follows
  <2> QED
    BY <1>2, <1>3, <2>1, <2>2, BoxStep
<1>5. CASE ~(connected \/ worker = "none")
  <2>1. BeginShutdown("toggle")
    BY <1>5 DEF ClickMode
  <2> QED
    BY <1>2, <1>3, <1>5, <2>1, BeginStep
<1> QED
  BY <1>4, <1>5

LEMMA DismissStep == ASSUME IInv, DismissRefusal PROVE IInv'
<1>1. worker \in {"none", "mock", "ble"}
  BY TypeSplits DEF IInv, Simple
<1>2. /\ tk = "idle" /\ refusing' = FALSE /\ useMock' = (worker = "mock")
      /\ UNCHANGED <<connected, mockButton, badge, shown, tk, after, worker, eventQueue,
                     tasks, ready, stop, connection, mockState, pin, history>>
  BY DEF DismissRefusal, thread, backend, Mock
<1>3. Follows'
  BY <1>1, <1>2 DEF Follows, Mode
<1> QED
  BY <1>2, <1>3, BoxStep

LEMMA CloseWindowStep == ASSUME IInv, CloseWindow PROVE IInv'
<1>1. /\ tk = "idle" /\ useMock' \in BOOLEAN /\ refusing' \in BOOLEAN
      /\ UNCHANGED <<useMock, refusing, connected, mockButton, badge, shown, eventQueue>>
  BY TypeSplits DEF IInv, Simple, CloseWindow, Idle, window
<1>2. CASE worker = "none"
  <2>1. /\ tk' = "closed"
        /\ UNCHANGED <<after, worker, tasks, ready, stop, connection, mockState, pin,
                       history>>
    BY <1>2 DEF CloseWindow, backend, Mock
  <2>2. Follows'
    BY <2>1 DEF Follows
  <2> QED
    BY <1>1, <2>1, <2>2, BoxStep
<1>3. CASE worker # "none"
  <2>1. BeginShutdown("close")
    BY <1>3 DEF CloseWindow
  <2> QED
    BY <1>1, <1>3, <2>1, BeginStep
<1> QED
  BY <1>2, <1>3

(* The commands: the form has validated the PINs.                          *)
LEMMA SendCommandStep ==
  ASSUME IInv, NEW verb \in Verbs, NEW old \in Words, NEW new \in Words,
         ValidatePin(new), SendCommand(Command(verb, old, new))
  PROVE  IInv'
<1>1. /\ [at |-> "start", does |-> Command(verb, old, new)] \in Task
      /\ Command(verb, old, new).new = new
  BY DEF Command, Task
<1>2. /\ tk = "idle" /\ worker # "none" /\ Submit(Command(verb, old, new))
      /\ UNCHANGED <<useMock, refusing, connected, mockButton, badge, shown>>
  BY DEF SendCommand, Idle, window
<1> QED
  BY <1>1, <1>2, SubmitClickStep

LEMMA ClickStep == ASSUME IInv, Click PROVE IInv'
<1>1. DEFAULT_PIN \in Words /\ ValidatePin(DEFAULT_PIN)
  BY WordsAssumption
<1>2. \A verb \in Verbs : Op(verb) = Command(verb, DEFAULT_PIN, DEFAULT_PIN)
  BY DEF Op, Command
<1>3. "ARM" \in Verbs /\ "DISARM" \in Verbs /\ "CHANGE_PIN" \in Verbs
      /\ "STATUS" \in Verbs /\ "MOCK_ALARM" \in Verbs
  BY DEF Verbs
<1>4. CASE ClickScan
  <2>1. /\ tk = "idle" /\ ~refusing /\ EnsureWorker("scan")
        /\ badge' \in {"Scanning", "Connecting"}
        /\ UNCHANGED <<useMock, refusing, connected, mockButton, shown>>
    BY <1>4 DEF ClickScan, Idle
  <2> QED
    BY <2>1, EnsureWorkerStep
<1>5. CASE ClickConnect
  <2>1. /\ tk = "idle" /\ ~refusing /\ EnsureWorker("connect")
        /\ badge' \in {"Scanning", "Connecting"}
        /\ UNCHANGED <<useMock, refusing, connected, mockButton, shown>>
    BY <1>5 DEF ClickConnect, Idle
  <2> QED
    BY <2>1, EnsureWorkerStep
<1>6. CASE ClickDisconnect
  <2>1. /\ tk = "idle" /\ worker # "none" /\ Submit(Op("disconnect"))
        /\ UNCHANGED <<useMock, refusing, connected, mockButton, badge, shown>>
    BY <1>6 DEF ClickDisconnect, Idle, window
  <2>2. ValidatePin(Op("disconnect").new)
        /\ [at |-> "start", does |-> Op("disconnect")] \in Task
    BY <1>1, OpType DEF Op
  <2> QED
    BY <2>1, <2>2, SubmitClickStep
<1>7. CASE ClickStatus
  BY <1>1, <1>2, <1>3, <1>7, SendCommandStep DEF ClickStatus
<1>8. CASE ClickArmOrDisarm
  BY <1>1, <1>3, <1>8, SendCommandStep DEF ClickArmOrDisarm
<1>9. CASE ClickChangePin
  BY <1>3, <1>9, SendCommandStep DEF ClickChangePin, BuildChangePin
<1>10. CASE ClickMockAlarm
  BY <1>1, <1>2, <1>3, <1>10, SendCommandStep DEF ClickMockAlarm
<1> QED
  BY <1>4, <1>5, <1>6, <1>7, <1>8, <1>9, <1>10, ClickModeStep, DismissStep,
     CloseWindowStep DEF Click

LEMMA Stutters == ASSUME IInv, UNCHANGED vars PROVE IInv'
<1>1. UNCHANGED <<tk, after, worker, useMock, refusing, connected, mockButton, badge,
                  shown, eventQueue, tasks, ready, stop, link, client, up, left,
                  mockState, pin, unclean, scanEnded, slipped>>
  BY DEF vars, window, thread, backend, connection, history
<1>2. WillConnect' <=> WillConnect
  BY <1>1, NothingHappens
<1>3. TypeOK'
  BY <1>1 DEF IInv, TypeOK
<1>4. Typable' /\ Follows' /\ BadgeLiesAfterScanOnly' /\ Lost'
  BY <1>1 DEF IInv, Typable, Follows, Mode, BadgeLiesAfterScanOnly, Lost, At
<1>5. Stopping' /\ Stopped'
  BY <1>1, <1>2 DEF IInv, Stopping, Stopped, Tidy, InFlight
<1> QED
  BY <1>3, <1>4, <1>5 DEF IInv

-----------------------------------------------------------------------------
(* The theorems.                                                           *)

LEMMA Inductive == Spec => []IInv
<1>1. Init => IInv
  BY InitIInv
<1>2. IInv /\ [Next]_vars => IInv'
  BY HandleEventStep, ClickStep, ShutdownStep, ResumeStep, StopStep, Stutters DEF Next
<1> QED
  BY <1>1, <1>2, PTL DEF Spec

(* Types.                                                                  *)
THEOREM SessionTypeCorrect == Spec => []TypeOK
<1>1. IInv => TypeOK
  BY DEF IInv
<1> QED
  BY <1>1, Inductive, PTL

(* The form never lets a PIN through that it would refuse later.           *)
THEOREM PinStaysTypable == Spec => []PinIsTypable
<1>1. IInv => PinIsTypable
  BY DEF IInv, Typable, PinIsTypable
<1> QED
  BY <1>1, Inductive, PTL

(* The worker is never of another mode than the check box.                 *)
THEOREM WorkerFollowsMode == Spec => []WorkerMatchesMode
<1>1. IInv => WorkerMatchesMode
  BY DEF IInv, Follows, WorkerMatchesMode, Idle
<1> QED
  BY <1>1, Inductive, PTL

(* An undisturbed shutdown() leaves nothing that connects the GUI, so that *)
(* the assertion of send_command holds.                                    *)
THEOREM AssertionHoldsWithoutRace == Spec => []AssertionNeedsRace
<1>1. IInv => AssertionNeedsRace
  BY DEF IInv, Stopped, AssertionNeedsRace, Idle
<1> QED
  BY <1>1, Inductive, PTL

(* An undisturbed shutdown() leaves no link but one that a connect() has   *)
(* put out of reach.                                                       *)
THEOREM LinksAreClosed == Spec => []LinkIsClosed
<1>1. IInv => LinkIsClosed
  BY DEF IInv, Stopped, Tidy, LinkIsClosed
<1> QED
  BY <1>1, Inductive, PTL

(* Only a scan makes the badge of a connected GUI say Disconnected.        *)
THEOREM BadgeLiesOnlyAfterScan == Spec => []BadgeLiesAfterScanOnly
<1>1. IInv => BadgeLiesAfterScanOnly
  BY DEF IInv
<1> QED
  BY <1>1, Inductive, PTL

-----------------------------------------------------------------------------
(* What the state badge will show.                                         *)

(* The events that set it, and to what.                                    *)
Displays(event) == event.kind \in {"status", "ok", "disconnected"}
ShownBy(event) ==
  CASE event.kind = "status" -> event.state
    [] event.kind = "ok"     -> "ARMED"
    [] OTHER                 -> "DISCONNECTED"

Agrees(s) == s = mockState \/ (s = "ARMED" /\ mockState = "DISARMED")

(* It agrees with the mock drawer once the queue is handled.               *)
WillShow ==
  \/ Agrees(shown) /\ \A k \in DOMAIN eventQueue : ~Displays(eventQueue[k])
  \/ \E k \in DOMAIN eventQueue :
       /\ Displays(eventQueue[k]) /\ Agrees(ShownBy(eventQueue[k]))
       /\ \A j \in DOMAIN eventQueue : k < j => ~Displays(eventQueue[j])

MockAgrees == worker = "mock" /\ link => WillShow

LEMMA DisplayKinds ==
  /\ \A kind \in {"text", "devices", "connected", "error", "other"} : ~Displays(Event(kind))
  /\ \A s \in SystemState : /\ Displays(StatusEvent(s)) /\ ShownBy(StatusEvent(s)) = s
                            /\ Displays(OkEvent(s)) /\ ShownBy(OkEvent(s)) = "ARMED"
  /\ Displays(Event("disconnected")) /\ ShownBy(Event("disconnected")) = "DISCONNECTED"
  /\ \A event \in Answers :
       /\ Displays(event) => Parse(event) = ShownBy(event)
       /\ ~Displays(event) => Parse(event) = shown
  BY DEF Displays, ShownBy, Event, StatusEvent, OkEvent, Answers, Parse

LEMMA ShowQuietly ==
  ASSUME QueueType, UNCHANGED <<shown, mockState>>,
         NEW e \in Events, ~Displays(e), UNCHANGED eventQueue \/ Emit(<<e>>),
         WillShow
  PROVE  WillShow'
<1>1. CASE UNCHANGED eventQueue
  BY <1>1 DEF WillShow, Agrees
<1>2. CASE Emit(<<e>>)
  <2> DEFINE n == Len(eventQueue)
  <2>1. /\ n \in Nat /\ DOMAIN eventQueue = 1..n /\ DOMAIN eventQueue' = 1..(n + 1)
        /\ \A k \in 1..n : eventQueue'[k] = eventQueue[k]
        /\ eventQueue'[n + 1] = e
    BY <1>2, EmitOne DEF QueueType
  <2>2. \A k \in 1..(n + 1) : k \in 1..n \/ k = n + 1
    BY <2>1
  <2>3. CASE Agrees(shown) /\ \A k \in DOMAIN eventQueue : ~Displays(eventQueue[k])
    <3>1. \A k \in DOMAIN eventQueue' : ~Displays(eventQueue'[k])
      BY <2>1, <2>2, <2>3 DEF Displays
    <3> QED
      BY <2>3, <3>1 DEF WillShow, Agrees
  <2>4. ASSUME NEW k \in DOMAIN eventQueue,
               Displays(eventQueue[k]), Agrees(ShownBy(eventQueue[k])),
               \A j \in DOMAIN eventQueue : k < j => ~Displays(eventQueue[j])
        PROVE  WillShow'
    <3>1. k \in DOMAIN eventQueue' /\ eventQueue'[k] = eventQueue[k]
      BY <2>1, <2>4
    <3>2. \A j \in DOMAIN eventQueue' : k < j => ~Displays(eventQueue'[j])
      BY <2>1, <2>2, <2>4 DEF Displays
    <3> QED
      BY <2>4, <3>1, <3>2 DEF WillShow, Agrees, Displays, ShownBy
  <2> QED
    BY <2>3, <2>4 DEF WillShow
<1> QED
  BY <1>1, <1>2

(* The last event in the queue decides.                                    *)
LEMMA ShowLast ==
  ASSUME QueueType', eventQueue' # <<>>,
         NEW e, eventQueue'[Len(eventQueue')] = e,
         Displays(e), Agrees(ShownBy(e))'
  PROVE  WillShow'
<1> DEFINE n == Len(eventQueue')
<1>1. n \in Nat \ {0} /\ DOMAIN eventQueue' = 1..n
  BY EmptySeq, LenProperties DEF QueueType
<1>2. /\ n \in DOMAIN eventQueue'
      /\ \A j \in DOMAIN eventQueue' : ~(n < j)
  BY <1>1
<1> QED
  BY <1>2 DEF WillShow

LEMMA ShowTakes ==
  ASSUME QueueType, NEW e \in Events, Takes(e),
         shown' = IF Displays(e) THEN ShownBy(e) ELSE shown,
         WillShow
  PROVE  WillShow'
<1> DEFINE n == Len(eventQueue)
<1>1. /\ n \in Nat \ {0} /\ DOMAIN eventQueue = 1..n /\ DOMAIN eventQueue' = 1..(n - 1)
      /\ \A k \in 1..(n - 1) : eventQueue'[k] = eventQueue[k + 1]
      /\ eventQueue[1] = e
  BY Taking DEF QueueType
<1>2. mockState' = mockState
  BY DEF Takes, backend, Mock
<1>3. \A k \in 1..(n - 1) : k + 1 \in 1..n
  BY <1>1
<1>4. CASE Agrees(shown) /\ \A k \in DOMAIN eventQueue : ~Displays(eventQueue[k])
  <2>1. ~Displays(e)
    BY <1>1, <1>4 DEF Displays
  <2>2. \A k \in DOMAIN eventQueue' : ~Displays(eventQueue'[k])
    BY <1>1, <1>3, <1>4 DEF Displays
  <2> QED
    BY <1>2, <1>4, <2>1, <2>2 DEF WillShow, Agrees
<1>5. ASSUME NEW k \in DOMAIN eventQueue,
             Displays(eventQueue[k]), Agrees(ShownBy(eventQueue[k])),
             \A j \in DOMAIN eventQueue : k < j => ~Displays(eventQueue[j])
      PROVE  WillShow'
  <2>1. CASE k = 1
    <3>1. shown' = ShownBy(e) /\ Agrees(ShownBy(e))
      BY <1>1, <1>5, <2>1 DEF Displays, ShownBy, Agrees
    <3>2. \A j \in DOMAIN eventQueue' : ~Displays(eventQueue'[j])
      <4> TAKE j \in DOMAIN eventQueue'
      <4>1. j + 1 \in DOMAIN eventQueue /\ k < j + 1 /\ eventQueue'[j] = eventQueue[j + 1]
        BY <1>1, <2>1
      <4> QED
        BY <1>5, <4>1 DEF Displays
    <3> QED
      BY <1>2, <3>1, <3>2 DEF WillShow, Agrees
  <2>2. CASE k # 1
    <3>1. k - 1 \in DOMAIN eventQueue' /\ eventQueue'[k - 1] = eventQueue[k]
      <4>1. k - 1 \in 1..(n - 1) /\ (k - 1) + 1 = k
        BY <1>1, <2>2
      <4> QED
        BY <1>1, <4>1
    <3>2. \A j \in DOMAIN eventQueue' : k - 1 < j => ~Displays(eventQueue'[j])
      <4> TAKE j \in DOMAIN eventQueue'
      <4> HAVE k - 1 < j
      <4>1. j + 1 \in DOMAIN eventQueue /\ k < j + 1 /\ eventQueue'[j] = eventQueue[j + 1]
        BY <1>1
      <4> QED
        BY <1>5, <4>1 DEF Displays
    <3> QED
      BY <1>2, <1>5, <3>1, <3>2 DEF WillShow, Agrees, Displays, ShownBy
  <2> QED
    BY <2>1, <2>2
<1> QED
  BY <1>4, <1>5 DEF WillShow

(* The mock drawer answers what it has become.                             *)
LEMMA MockAnswers ==
  ASSUME NEW c, c.op \in Verbs, HandleCommand(c), mockState \in SystemState,
         NEW e, e = Response(c)
  PROVE  /\ e \in Events
         /\ \/ Displays(e) /\ Agrees(ShownBy(e))'
            \/ ~Displays(e) /\ UNCHANGED mockState
<1>1. CASE c.op = "STATUS"
  <2>1. e = StatusEvent(mockState) /\ UNCHANGED mockState
    BY <1>1 DEF HandleCommand, Response
  <2> QED
    BY <2>1, DisplayKinds, EventTypes DEF Agrees
<1>2. CASE c.op = "MOCK_ALARM"
  <2>1. e = StatusEvent("ALARM") /\ mockState' = "ALARM"
    BY <1>2 DEF HandleCommand, Response, Accepts
  <2> QED
    BY <2>1, DisplayKinds, EventTypes, StateTypes DEF Agrees
<1>3. CASE c.op \in {"ARM", "DISARM"} /\ Accepts(c)
  <2>1. e = OkEvent(mockState') /\ mockState' \in {"ARMED", "DISARMED"}
    BY <1>3 DEF HandleCommand, Response
  <2> QED
    BY <2>1, DisplayKinds, EventTypes, StateTypes DEF Agrees
<1>4. CASE c.op \in {"ARM", "DISARM"} /\ ~Accepts(c)
  BY <1>4, DisplayKinds, EventTypes DEF HandleCommand, Response
<1>5. CASE c.op = "CHANGE_PIN"
  BY <1>5, DisplayKinds, EventTypes DEF HandleCommand, Response
<1> QED
  BY <1>1, <1>2, <1>3, <1>4, <1>5 DEF Verbs

(* A step of a coroutine.                                                  *)
LEMMA ShowResume ==
  ASSUME IInv, MockAgrees, NEW t \in Tasks, Resume(t)
  PROVE  MockAgrees'
<1>1. QueueType /\ mockState \in SystemState
  BY TypeSplits DEF IInv, Simple
<1>2. UNCHANGED <<worker, shown>>
  BY DEF Resume, ScanStarts, ScanEnds, MockConnectStarts, MockConnects,
     BleConnectStarts, BleFinds, BleConnects, BleAnnounces, DisconnectStarts,
     DisconnectEnds, CommandStarts, MockExecutes, BleCommandEnds, Tk, thread, window
<1> SUFFICES ASSUME worker = "mock", link' PROVE WillShow'
  BY <1>2 DEF MockAgrees
<1>3. ASSUME link, UNCHANGED mockState,
             NEW kind \in {"text", "devices", "connected", "error"},
             UNCHANGED eventQueue \/ Emit(<<Event(kind)>>)
      PROVE  WillShow'
  BY <1>1, <1>2, <1>3, EventTypes, DisplayKinds, ShowQuietly DEF MockAgrees
<1>4. CASE ScanStarts(t)
  BY <1>3, <1>4 DEF ScanStarts, Mock, connection
<1>5. CASE ScanEnds(t)
  BY <1>3, <1>5 DEF ScanEnds, Raises, Mock, connection
<1>6. CASE MockConnectStarts(t)
  BY <1>3, <1>6 DEF MockConnectStarts, Mock, connection
<1>13. CASE BleConnectStarts(t)
  BY <1>13 DEF BleConnectStarts
<1>14. CASE BleFinds(t)
  <2>1. CASE Replaces(t)
    BY <2>1 DEF Replaces
  <2>2. CASE Raises(t) /\ UNCHANGED connection
    BY <1>3, <1>14, <2>2 DEF BleFinds, Raises, Mock, connection
  <2> QED
    BY <1>14, <2>1, <2>2 DEF BleFinds
<1>7. CASE MockConnects(t)
  <2>1. PICK e \in Events : e = StatusEvent(mockState)
    BY <1>1, EventTypes
  <2> DEFINE q == <<Event("connected"), e>>
             n == Len(eventQueue)
  <2>2. eventQueue' = eventQueue \o q /\ UNCHANGED mockState
    BY <1>7, <2>1 DEF MockConnects, Emit, Mock
  <2>3. q \in Seq(Events) /\ Len(q) = 2 /\ q[2] = e
    BY EventTypes
  <2>4. n \in Nat
    BY <1>1, LenProperties DEF QueueType
  <2> HIDE DEF q
  <2>5. /\ eventQueue' \in Seq(Events) /\ Len(eventQueue') = n + Len(q)
        /\ \A i \in 1..(n + Len(q)) :
             eventQueue'[i] = IF i <= n THEN eventQueue[i] ELSE q[i - n]
    <3>1. eventQueue \in Seq(Events) /\ q \in Seq(Events)
      BY <1>1, <2>3 DEF QueueType
    <3> QED
      BY <2>2, <3>1, ConcatProperties
  <2>6. eventQueue'[n + 2] = e
    <3>1. n + 2 \in 1..(n + Len(q)) /\ ~(n + 2 <= n) /\ (n + 2) - n = 2
      BY <2>3, <2>4
    <3> QED
      BY <2>3, <2>5, <3>1
  <2>7. eventQueue' # <<>>
    BY <2>3, <2>4, <2>5
  <2>8. Displays(e) /\ Agrees(ShownBy(e))'
    BY <1>1, <2>1, <2>2, DisplayKinds DEF Agrees
  <2> QED
    BY <2>3, <2>5, <2>6, <2>7, <2>8, ShowLast DEF QueueType
<1>8. CASE BleConnects(t) \/ BleAnnounces(t) \/ BleCommandEnds(t)
  <2>1. BleAnnounces(t)
    BY <1>8 DEF BleConnects, BleCommandEnds
  <2> QED
    BY <1>3, <2>1 DEF BleAnnounces, Raises, Mock, connection
<1>9. CASE DisconnectStarts(t)
  BY <1>3, <1>9 DEF DisconnectStarts, Mock, connection
<1>10. CASE DisconnectEnds(t)
  BY <1>10 DEF DisconnectEnds, Closed
<1>11. CASE CommandStarts(t)
  BY <1>3, <1>11 DEF CommandStarts, Raises, Mock, connection
<1>12. CASE MockExecutes(t)
  <2> DEFINE c == tasks[t].does
  <2>1. c.op \in Verbs /\ HandleCommand(c) /\ link /\ Emit(<<Response(c)>>)
    BY <1>12 DEF MockExecutes, connection
  <2> HIDE DEF c
  <2>2. PICK e : e = Response(c)
    OBVIOUS
  <2>3. /\ e \in Events
        /\ \/ Displays(e) /\ Agrees(ShownBy(e))'
           \/ ~Displays(e) /\ UNCHANGED mockState
    BY <1>1, <2>1, <2>2, MockAnswers
  <2>4. Emit(<<e>>)
    BY <2>1, <2>2
  <2>5. CASE Displays(e) /\ Agrees(ShownBy(e))'
    <3>1. QueueType' /\ eventQueue' # <<>> /\ eventQueue'[Len(eventQueue')] = e
      BY <1>1, <2>3, <2>4, EmitOne, EmptySeq DEF QueueType
    <3> QED
      BY <2>5, <3>1, ShowLast
  <2>6. CASE ~Displays(e) /\ UNCHANGED mockState
    BY <1>1, <1>2, <2>1, <2>3, <2>4, <2>6, ShowQuietly DEF MockAgrees
  <2> QED
    BY <2>3, <2>5, <2>6
<1> QED
  BY <1>4, <1>5, <1>6, <1>7, <1>8, <1>9, <1>10, <1>11, <1>12, <1>13,
     <1>14 DEF Resume

(* The GUI handles an event.                                               *)
LEMMA ShowHandled == ASSUME IInv, MockAgrees, HandleEvent PROVE MockAgrees'
<1>1. QueueType
  BY TypeSplits DEF IInv
<1>2. PICK e \in Events : Takes(e) /\ shown' = IF Displays(e) THEN ShownBy(e) ELSE shown
  <2>1. CASE HandleStatus
    BY <2>1, EventTypes, DisplayKinds DEF HandleStatus
  <2>2. CASE HandleDisconnected
    BY <2>2, EventTypes, DisplayKinds DEF HandleDisconnected
  <2>3. CASE HandleConnected \/ HandleText \/ HandleDevices \/ HandleError
    <3>1. \E kind \in {"connected", "text", "devices", "error"} : Takes(Event(kind))
          /\ UNCHANGED shown
      BY <2>3 DEF HandleConnected, HandleText, HandleDevices, HandleError
    <3> QED
      BY <3>1, EventTypes, DisplayKinds
  <2> QED
    BY <2>1, <2>2, <2>3 DEF HandleEvent
<1>3. UNCHANGED <<worker, link>>
  BY <1>2 DEF Takes, backend, connection
<1> QED
  BY <1>1, <1>2, <1>3, ShowTakes DEF MockAgrees

(* A worker that is not the one before has no link.                        *)
LEMMA ShowElse ==
  ASSUME MockAgrees, UNCHANGED shown,
         \/ UNCHANGED <<worker, link, mockState, eventQueue>>
         \/ worker' # "mock" \/ ~link'
  PROVE  MockAgrees'
  BY DEF MockAgrees, WillShow, Agrees

(* Begin, submit, or make a worker.                                        *)
LEMMA ShowClick == ASSUME IInv, MockAgrees, Click PROVE MockAgrees'
<1>1. UNCHANGED shown
  BY DEF Click, ClickScan, ClickConnect, ClickDisconnect, ClickStatus, ClickArmOrDisarm,
     ClickChangePin, ClickMockAlarm, SendCommand, ClickMode, DismissRefusal,
     CloseWindow, window
<1>2. ASSUME NEW what, Submit(what)
      PROVE  UNCHANGED <<worker, link, mockState, eventQueue>>
  BY <1>2 DEF Submit, thread, Mock, connection
<1>3. ASSUME NEW then, BeginShutdown(then)
      PROVE  UNCHANGED <<worker, link, mockState>>
  BY <1>3 DEF BeginShutdown, Mock, connection
<1>4. CASE ClickScan \/ ClickConnect
  <2>1. PICK name \in {"scan", "connect"} : EnsureWorker(name)
    BY <1>4 DEF ClickScan, ClickConnect
  <2>2. \/ Submit(Op(name)) \/ NewWorker(Op(name))
        \/ BeginShutdown(name) /\ UNCHANGED eventQueue
    BY <2>1 DEF EnsureWorker
  <2> QED
    BY <1>1, <1>2, <1>3, <2>2, ShowElse DEF NewWorker
<1>5. CASE \E what : Submit(what)
  BY <1>1, <1>2, <1>5, ShowElse
<1>6. CASE ClickMode \/ DismissRefusal
  <2>1. UNCHANGED <<worker, link, mockState, eventQueue>>
    BY <1>3, <1>6 DEF ClickMode, DismissRefusal, thread, backend, Mock, connection
  <2> QED
    BY <1>1, <2>1, ShowElse
<1>7. CASE CloseWindow
  <2>1. UNCHANGED <<worker, link, mockState, eventQueue>>
    BY <1>3, <1>7 DEF CloseWindow, backend, Mock, connection
  <2> QED
    BY <1>1, <2>1, ShowElse
<1> QED
  BY <1>4, <1>5, <1>6, <1>7 DEF Click, ClickDisconnect, ClickStatus, ClickArmOrDisarm,
     ClickChangePin, ClickMockAlarm, SendCommand

LEMMA ShowRest ==
  ASSUME IInv, MockAgrees,
         Shutdown \/ StopStarts \/ StopDisconnects \/ StopRaises \/ LinkLost
         \/ UNCHANGED vars
  PROVE  MockAgrees'
<1>1. CASE UNCHANGED vars
  BY <1>1, ShowElse DEF vars, window, thread, backend, Mock, connection
<1>2. CASE Shutdown
  <2>1. UNCHANGED shown /\ Returns
    BY <1>2 DEF Shutdown, ShutdownReturns, ShutdownTimesOut, Returns, window
  <2>2. worker' = "none" \/ ~link'
    BY <2>1 DEF Returns, NewWorker
  <2> QED
    BY <2>1, <2>2, ShowElse
<1>3. CASE StopStarts \/ StopDisconnects \/ StopRaises \/ LinkLost
  <2>1. UNCHANGED <<shown, worker>>
    BY <1>3 DEF StopStarts, StopDisconnects, StopRaises, LinkLost, Tk, window, thread
  <2>2. \/ UNCHANGED <<worker, link, mockState, eventQueue>>
        \/ worker = "ble" \/ ~link'
    BY <1>3, <2>1 DEF StopStarts, StopDisconnects, StopRaises, LinkLost, Mock, Closed,
       connection
  <2> QED
    BY <2>1, <2>2, ShowElse
<1> QED
  BY <1>1, <1>2, <1>3

(* When all is quiet the state badge shows the state of the mock drawer,   *)
(* but for the answer OK DISARMED.                                         *)
THEOREM MockStateIsShown == Spec => []MockIsShown
<1>1. Init => MockAgrees
  BY DEF Init, MockAgrees
<1>2. IInv /\ MockAgrees /\ [Next]_vars => MockAgrees'
  BY ShowResume, ShowHandled, ShowClick, ShowRest DEF Next
<1>3. MockAgrees => MockIsShown
  BY DEF MockAgrees, WillShow, Agrees, MockIsShown
<1> QED
  BY <1>1, <1>2, <1>3, Inductive, PTL DEF Spec

-----------------------------------------------------------------------------
(* What becomes of a MOCK_ALARM that a BLE worker has got.                 *)

(* The coroutines wait for the loop in order, each once.                   *)
Ready ==
  /\ \A i \in DOMAIN ready : tasks[ready[i]].at = "start"
  /\ \A i, j \in DOMAIN ready : ready[i] = ready[j] => i = j

(* It starts before any connect(), and there is no link.                   *)
WillFail(t) ==
  /\ tasks[t].at = "start" /\ ~link
  /\ \A u \in Tasks : tasks[u].does.op = "connect" => tasks[u].at = "start"
  /\ \E i \in DOMAIN ready :
       /\ ready[i] = t
       /\ \A j \in 1..i : tasks[ready[j]].does.op # "connect"

AlarmsFail ==
  worker = "ble" /\ ~slipped => \A t \in Tasks : tasks[t].does.op = "MOCK_ALARM" => WillFail(t)

(* The button works in a connected GUI only, and with a BLE worker only    *)
(* until that worker has something to do with a connection.                *)
Button ==
  /\ mockButton => connected
  /\ worker = "ble" /\ ~slipped /\ mockButton => ~link /\ ~InFlight("connect")

(* _ensure_worker never shuts a worker down.                               *)
Reasons == after \in {"nothing", "toggle", "close"}

AlarmInv == Ready /\ AlarmsFail /\ Button /\ Reasons

(* The loop starts the first of those that wait.                           *)
LEMMA Starting ==
  ASSUME NEW t, Starts(t), TaskType
  PROVE  /\ Len(ready) \in Nat \ {0} /\ DOMAIN ready = 1..Len(ready)
         /\ DOMAIN ready' = 1..(Len(ready) - 1)
         /\ \A i \in 1..(Len(ready) - 1) : ready'[i] = ready[i + 1]
         /\ ready[1] = t
  BY EmptySeq, HeadTailProperties, LenProperties DEF Starts, TaskType

LEMMA QueueingUp ==
  ASSUME NEW t \in Tasks, TaskType, ready' = Append(ready, t)
  PROVE  /\ Len(ready) \in Nat /\ DOMAIN ready = 1..Len(ready)
         /\ DOMAIN ready' = 1..(Len(ready) + 1)
         /\ \A i \in 1..Len(ready) : ready'[i] = ready[i]
         /\ ready'[Len(ready) + 1] = t
  BY AppendProperties, LenProperties DEF TaskType

(* What every step of a coroutine does to the coroutines.                  *)
LEMMA ResumeEffect ==
  ASSUME IInv, Ready, NEW t \in Tasks, Resume(t)
  PROVE  /\ tasks' \in [Tasks -> Task]
         /\ \A u \in Tasks \ {t} : tasks'[u] = tasks[u]
         /\ tasks[t].at # "none" /\ tasks'[t].at # "start"
         /\ tasks'[t].does \in {tasks[t].does, Op("none")}
         /\ tasks[t].at = "start" => Starts(t)
         /\ tasks[t].at # "start" => UNCHANGED ready
         /\ link' => link \/ (tasks[t].does.op = "connect" /\ tasks[t].at = "awaiting")
         /\ tasks[t].does.op = "MOCK_ALARM" /\ ~link /\ tasks[t].at = "start"
              => tasks'[t] = NoTask
         /\ UNCHANGED <<worker, after, mockButton, connected, tk, slipped>>
<1>1. TaskType
  BY TypeSplits DEF IInv
<1>2. tasks[t] \in Task /\ tasks \in [Tasks -> Task]
  BY <1>1 DEF TaskType
<1>3. UNCHANGED <<worker, after, mockButton, connected, tk, slipped>>
  BY DEF Resume, ScanStarts, ScanEnds, MockConnectStarts, MockConnects,
     BleConnectStarts, BleFinds, BleConnects, BleAnnounces, DisconnectStarts,
     DisconnectEnds, CommandStarts, MockExecutes, BleCommandEnds, Tk, thread, window, history
<1>4. Ends(t) \/ \E at \in {"finding", "awaiting", "announcing"} : Goto(t, at)
  BY DEF Resume, ScanStarts, ScanEnds, MockConnectStarts, MockConnects,
     BleConnectStarts, BleFinds, BleConnects, BleAnnounces, DisconnectStarts,
     DisconnectEnds, CommandStarts, MockExecutes, BleCommandEnds, Raises,
     Replaces
<1>5. /\ tasks' \in [Tasks -> Task]
      /\ \A u \in Tasks \ {t} : tasks'[u] = tasks[u]
      /\ tasks'[t].at # "start"
      /\ tasks'[t].does \in {tasks[t].does, Op("none")}
  <2>1. CASE Ends(t)
    BY <1>2, <2>1, NoTaskType DEF Ends, NoTask
  <2>2. ASSUME NEW at \in {"finding", "awaiting", "announcing"}, Goto(t, at)
        PROVE  /\ tasks' \in [Tasks -> Task]
               /\ \A u \in Tasks \ {t} : tasks'[u] = tasks[u]
               /\ tasks'[t].at # "start"
               /\ tasks'[t].does = tasks[t].does
    BY <1>2, <2>2 DEF Goto, Task
  <2> QED
    BY <1>4, <2>1, <2>2
<1>6. tasks[t].at # "none"
  BY DEF Resume, ScanStarts, ScanEnds, MockConnectStarts, MockConnects,
     BleConnectStarts, BleFinds, BleConnects, BleAnnounces, DisconnectStarts,
     DisconnectEnds, CommandStarts, MockExecutes, BleCommandEnds, At
<1>7. /\ tasks[t].at = "start" => Starts(t)
      /\ tasks[t].at # "start" => UNCHANGED ready
  BY DEF Resume, ScanStarts, ScanEnds, MockConnectStarts, MockConnects,
     BleConnectStarts, BleFinds, BleConnects, BleAnnounces, DisconnectStarts,
     DisconnectEnds, CommandStarts, MockExecutes, BleCommandEnds, At
<1>8. link' => link \/ (tasks[t].does.op = "connect" /\ tasks[t].at = "awaiting")
  BY DEF Resume, ScanStarts, ScanEnds, MockConnectStarts, MockConnects,
     BleConnectStarts, BleFinds, BleConnects, BleAnnounces, DisconnectStarts,
     DisconnectEnds, CommandStarts, MockExecutes, BleCommandEnds, At,
     Replaces, Closed, connection
<1>9. tasks[t].does.op = "MOCK_ALARM" /\ ~link /\ tasks[t].at = "start"
        => tasks'[t] = NoTask
  <2> SUFFICES ASSUME tasks[t].does.op = "MOCK_ALARM", ~link, tasks[t].at = "start"
               PROVE  tasks'[t] = NoTask
    OBVIOUS
  <2>1. CommandStarts(t)
    BY DEF Resume, ScanStarts, ScanEnds, MockConnectStarts, MockConnects,
       BleConnectStarts, BleFinds, BleConnects, BleAnnounces, DisconnectStarts,
       DisconnectEnds, MockExecutes, BleCommandEnds, At
  <2>2. Ends(t)
    BY <2>1 DEF CommandStarts, Raises
  <2> QED
    BY <1>2, <2>2 DEF Ends
<1> QED
  BY <1>3, <1>5, <1>6, <1>7, <1>8, <1>9

LEMMA ReadyResume == ASSUME IInv, Ready, NEW t \in Tasks, Resume(t) PROVE Ready'
<1>1. TaskType
  BY TypeSplits DEF IInv
<1>2. /\ \A u \in Tasks \ {t} : tasks'[u] = tasks[u]
      /\ tasks[t].at = "start" => Starts(t)
      /\ tasks[t].at # "start" => UNCHANGED ready
  BY ResumeEffect
<1>3. \A i \in DOMAIN ready : ready[i] \in Tasks
  BY <1>1, ElementOfSeq, LenProperties DEF TaskType
<1>4. CASE Starts(t)
  <2> DEFINE n == Len(ready)
  <2>1. /\ n \in Nat \ {0} /\ DOMAIN ready = 1..n /\ DOMAIN ready' = 1..(n - 1)
        /\ \A i \in 1..(n - 1) : ready'[i] = ready[i + 1]
        /\ ready[1] = t
    BY <1>1, <1>4, Starting
  <2>2. \A i \in 1..(n - 1) : i + 1 \in 1..n /\ i + 1 # 1
    BY <2>1
  <2>3. \A i \in 1..(n - 1) : ready[i + 1] \in Tasks \ {t}
    BY <1>3, <2>1, <2>2 DEF Ready
  <2>4. \A i \in DOMAIN ready' : tasks'[ready'[i]].at = "start"
    BY <1>2, <2>1, <2>2, <2>3 DEF Ready
  <2>5. \A i, j \in DOMAIN ready' : ready'[i] = ready'[j] => i = j
    <3> TAKE i, j \in DOMAIN ready'
    <3> HAVE ready'[i] = ready'[j]
    <3>1. i + 1 = j + 1
      BY <2>1, <2>2 DEF Ready
    <3> QED
      BY <2>1, <3>1
  <2> QED
    BY <2>4, <2>5 DEF Ready
<1>5. CASE tasks[t].at # "start"
  <2>1. \A i \in DOMAIN ready : ready[i] \in Tasks \ {t}
    BY <1>3, <1>5 DEF Ready
  <2> QED
    BY <1>2, <1>5, <2>1 DEF Ready
<1> QED
  BY <1>2, <1>4, <1>5

LEMMA AlarmResume == ASSUME IInv, AlarmInv, NEW t \in Tasks, Resume(t) PROVE AlarmInv'
<1>1. TaskType
  BY TypeSplits DEF IInv
<1>2. Ready /\ Button /\ Reasons
  BY DEF AlarmInv
<1>3. /\ tasks' \in [Tasks -> Task]
      /\ \A u \in Tasks \ {t} : tasks'[u] = tasks[u]
      /\ tasks[t].at # "none" /\ tasks'[t].at # "start"
      /\ tasks'[t].does \in {tasks[t].does, Op("none")}
      /\ tasks[t].at = "start" => Starts(t)
      /\ tasks[t].at # "start" => UNCHANGED ready
      /\ link' => link \/ (tasks[t].does.op = "connect" /\ tasks[t].at = "awaiting")
      /\ tasks[t].does.op = "MOCK_ALARM" /\ ~link /\ tasks[t].at = "start"
           => tasks'[t] = NoTask
      /\ UNCHANGED <<worker, after, mockButton, connected, tk, slipped>>
  BY <1>2, ResumeEffect
<1>4. \A u \in Tasks : tasks'[u].does.op \in {tasks[u].does.op, "none"}
  BY <1>3 DEF Op
<1>5. Ready' /\ Reasons'
  BY <1>2, <1>3, ReadyResume DEF Reasons
<1>6. Button'
  BY <1>2, <1>3, <1>4 DEF Button, InFlight
<1>7. ASSUME worker = "ble", ~slipped, NEW u \in Tasks, tasks'[u].does.op = "MOCK_ALARM"
      PROVE  WillFail(u)'
  <2>1. tasks[u].does.op = "MOCK_ALARM"
    BY <1>4, <1>7
  <2>2. WillFail(u)
    BY <1>7, <2>1 DEF AlarmInv, AlarmsFail
  <2>3. PICK i \in DOMAIN ready :
          /\ ready[i] = u
          /\ \A j \in 1..i : tasks[ready[j]].does.op # "connect"
    BY <2>2 DEF WillFail
  <2>4. u # t
    BY <1>3, <1>7, <2>1, <2>2 DEF WillFail, NoTask, Op
  <2>5. tasks[t].does.op # "connect"
    <3> SUFFICES ASSUME tasks[t].does.op = "connect" PROVE FALSE
      OBVIOUS
    <3>1. Starts(t)
      BY <1>3, <2>2 DEF WillFail
    <3>2. ready[1] = t /\ DOMAIN ready = 1..Len(ready)
      BY <1>1, <3>1, Starting
    <3>3. 1 \in 1..i
      BY <1>1, <2>3, <3>2, LenProperties DEF TaskType
    <3> QED
      BY <2>3, <3>2, <3>3
  <2>6. tasks'[u].at = "start" /\ ~link'
    BY <1>3, <2>2, <2>4, <2>5 DEF WillFail
  <2>7. \A v \in Tasks : tasks'[v].does.op = "connect" => tasks'[v].at = "start"
    BY <1>3, <1>4, <2>2, <2>5 DEF WillFail
  <2>8. \E k \in DOMAIN ready' :
          /\ ready'[k] = u
          /\ \A j \in 1..k : tasks'[ready'[j]].does.op # "connect"
    <3>1. \A j \in DOMAIN ready : ready[j] \in Tasks
      BY <1>1, ElementOfSeq, LenProperties DEF TaskType
    <3>2. CASE UNCHANGED ready
      <4>1. DOMAIN ready = 1..Len(ready) /\ Len(ready) \in Nat
        BY <1>1, LenProperties DEF TaskType
      <4>2. \A j \in 1..i : j \in DOMAIN ready
        BY <2>3, <4>1
      <4> QED
        BY <1>4, <2>3, <3>1, <3>2, <4>2
    <3>3. CASE Starts(t)
      <4> DEFINE n == Len(ready)
      <4>1. /\ n \in Nat \ {0} /\ DOMAIN ready = 1..n /\ DOMAIN ready' = 1..(n - 1)
            /\ \A j \in 1..(n - 1) : ready'[j] = ready[j + 1]
            /\ ready[1] = t
        BY <1>1, <3>3, Starting
      <4>2. i # 1
        BY <2>3, <2>4, <4>1
      <4>3. i - 1 \in 1..(n - 1) /\ (i - 1) + 1 = i
        BY <2>3, <4>1, <4>2
      <4>4. \A j \in 1..(i - 1) : /\ j \in 1..(n - 1) /\ j + 1 \in 1..i
                                  /\ j + 1 \in DOMAIN ready
        BY <2>3, <4>1
      <4>5. \A j \in 1..(i - 1) : tasks'[ready'[j]].does.op # "connect"
        BY <1>4, <2>3, <3>1, <4>1, <4>4
      <4>6. ready'[i - 1] = u
        BY <2>3, <4>1, <4>3
      <4> QED
        BY <4>1, <4>3, <4>5, <4>6
    <3> QED
      BY <1>3, <3>2, <3>3
  <2> QED
    BY <2>6, <2>7, <2>8 DEF WillFail
<1>8. AlarmsFail'
  BY <1>3, <1>7 DEF AlarmsFail
<1> QED
  BY <1>5, <1>6, <1>8 DEF AlarmInv

(* A coroutine is submitted.                                               *)
LEMMA AlarmSubmit ==
  ASSUME IInv, AlarmInv, tk = "idle", NEW what, Submit(what),
         [at |-> "start", does |-> what] \in Task,
         what.op = "MOCK_ALARM" => mockButton,
         what.op = "connect" => ~connected,
         UNCHANGED <<connected, mockButton>>
  PROVE  AlarmInv'
<1>1. TaskType
  BY TypeSplits DEF IInv
<1>2. Ready /\ AlarmsFail /\ Button /\ Reasons
  BY DEF AlarmInv
<1> DEFINE t == CHOOSE t \in Free : TRUE
<1>3. t \in Tasks /\ tasks[t] = NoTask
  BY DEF Submit, Free
<1>4. /\ tasks' = [tasks EXCEPT ![t] = [at |-> "start", does |-> what]]
      /\ ready' = Append(ready, t)
      /\ UNCHANGED <<tk, after, worker, link, slipped>>
  BY DEF Submit, thread, connection, history
<1> HIDE DEF t
<1> DEFINE n == Len(ready)
<1>5. /\ n \in Nat /\ DOMAIN ready = 1..n /\ DOMAIN ready' = 1..(n + 1)
      /\ \A i \in 1..n : ready'[i] = ready[i]
      /\ ready'[n + 1] = t
  BY <1>1, <1>3, <1>4, QueueingUp
<1>6. /\ \A u \in Tasks \ {t} : tasks'[u] = tasks[u]
      /\ tasks'[t].at = "start" /\ tasks'[t].does.op = what.op
  BY <1>1, <1>3, <1>4 DEF TaskType
<1>7. \A i \in 1..n : ready[i] \in Tasks \ {t}
  <2> TAKE i \in 1..n
  <2>1. ready[i] \in Tasks
    BY <1>1, <1>5, ElementOfSeq DEF TaskType
  <2>2. tasks[ready[i]].at = "start"
    BY <1>2, <1>5 DEF Ready
  <2> QED
    BY <1>3, <2>1, <2>2 DEF NoTask
<1>8. \A i \in 1..(n + 1) : i \in 1..n \/ i = n + 1
  BY <1>5
<1>9. Ready'
  <2>1. \A i \in 1..(n + 1) : tasks'[ready'[i]].at = "start"
    BY <1>2, <1>5, <1>6, <1>7, <1>8 DEF Ready
  <2>2. \A i, j \in 1..(n + 1) : ready'[i] = ready'[j] => i = j
    BY <1>2, <1>5, <1>7, <1>8 DEF Ready
  <2> QED
    BY <1>5, <2>1, <2>2 DEF Ready
<1>10. Button' /\ Reasons'
  BY <1>2, <1>4, <1>6 DEF Button, Reasons, InFlight
<1>11. ASSUME worker = "ble", ~slipped, NEW u \in Tasks, tasks'[u].does.op = "MOCK_ALARM"
       PROVE  WillFail(u)'
  <2>1. CASE u = t
    <3>1. ~link /\ ~InFlight("connect")
      BY <1>2, <1>6, <1>11, <2>1 DEF Button
    <3>2. \A v \in Tasks : tasks'[v].does.op # "connect"
      BY <1>6, <1>11, <2>1, <3>1 DEF InFlight
    <3>3. \A j \in 1..(n + 1) : ready'[j] \in Tasks
      BY <1>3, <1>5, <1>7, <1>8
    <3>4. n + 1 \in DOMAIN ready'
      BY <1>5
    <3> QED
      BY <1>4, <1>5, <1>6, <2>1, <3>1, <3>2, <3>3, <3>4 DEF WillFail
  <2>2. CASE u # t
    <3>1. WillFail(u)
      BY <1>2, <1>6, <1>11, <2>2 DEF AlarmsFail
    <3>2. PICK i \in DOMAIN ready :
            /\ ready[i] = u
            /\ \A j \in 1..i : tasks[ready[j]].does.op # "connect"
      BY <3>1 DEF WillFail
    <3>3. \A j \in 1..i : j \in 1..n
      BY <1>5, <3>2
    <3>4. /\ i \in DOMAIN ready' /\ ready'[i] = u
          /\ \A j \in 1..i : tasks'[ready'[j]].does.op # "connect"
      BY <1>5, <1>6, <1>7, <3>2, <3>3
    <3>5. \A v \in Tasks : tasks'[v].does.op = "connect" => tasks'[v].at = "start"
      BY <1>6, <3>1 DEF WillFail
    <3> QED
      BY <1>4, <1>6, <2>2, <3>1, <3>4, <3>5 DEF WillFail
  <2> QED
    BY <2>1, <2>2
<1>12. AlarmsFail'
  BY <1>4, <1>11 DEF AlarmsFail
<1> QED
  BY <1>9, <1>10, <1>12 DEF AlarmInv

(* A worker is made: it has one coroutine.                                 *)
LEMMA AlarmNewWorker ==
  ASSUME IInv, AlarmInv, NEW name \in {"scan", "connect"}, NewWorker(Op(name)),
         name = "connect" => ~connected,
         UNCHANGED <<connected, mockButton>>, after' \in {after, "nothing"}
  PROVE  AlarmInv'
<1> DEFINE t == CHOOSE t \in Tasks : TRUE
<1>1. t \in Tasks
  BY TasksAssumption
<1>2. /\ tasks' = [u \in Tasks |->
                     IF u = t THEN [at |-> "start", does |-> Op(name)] ELSE NoTask]
      /\ ready' = <<t>> /\ link' = FALSE
  BY DEF NewWorker
<1> HIDE DEF t
<1>3. /\ tasks'[t].at = "start"
      /\ \A u \in Tasks : tasks'[u].does.op \in {name, "none"}
  BY <1>1, <1>2 DEF NoTask, Op
<1>4. DOMAIN ready' = {1} /\ ready'[1] = t
  BY <1>2
<1>5. Ready'
  BY <1>3, <1>4 DEF Ready
<1>6. AlarmsFail'
  BY <1>3 DEF AlarmsFail
<1>7. Button'
  BY <1>2, <1>3 DEF AlarmInv, Button, InFlight
<1> QED
  BY <1>5, <1>6, <1>7 DEF AlarmInv, Reasons

(* What leaves the coroutines alone, and makes no link.                    *)
LEMMA AlarmElse ==
  ASSUME AlarmInv, UNCHANGED <<worker, tasks, ready>>, link' => link,
         after' \in {after, "toggle", "close"},
         mockButton' => connected',
         slipped => slipped',
         worker = "ble" /\ ~slipped' /\ mockButton' => mockButton
  PROVE  AlarmInv'
<1>1. Ready' /\ Reasons'
  BY DEF AlarmInv, Ready, Reasons
<1>2. Button'
  BY DEF AlarmInv, Button, InFlight
<1>3. AlarmsFail'
  BY DEF AlarmInv, AlarmsFail, WillFail
<1> QED
  BY <1>1, <1>2, <1>3 DEF AlarmInv

(* The GUI handles an event: but for a refused click the worker follows    *)
(* the check box, so that a "connected" does not turn the button on beside *)
(* a BLE worker.                                                           *)
LEMMA AlarmHandled == ASSUME IInv, AlarmInv, HandleEvent PROVE AlarmInv'
<1>1. /\ tk \in {"idle", "batch"}
      /\ UNCHANGED <<after, worker, useMock, tasks, ready, link>>
  BY DEF HandleEvent, HandleConnected, HandleDisconnected, HandleText, HandleDevices,
     HandleError, HandleStatus, Takes, backend, connection
<1>2. \/ UNCHANGED <<connected, mockButton, slipped>>
      \/ mockButton' = FALSE /\ UNCHANGED slipped
      \/ mockButton' = useMock /\ connected' = TRUE /\ slipped' = (slipped \/ refusing)
  <2>1. useMock \in BOOLEAN
    BY TypeSplits DEF IInv, Simple
  <2>2. CASE HandleConnected
    BY <2>1, <2>2 DEF HandleConnected, SetControlsEnabled
  <2>3. CASE HandleDisconnected \/ HandleError
    BY <2>3 DEF HandleDisconnected, HandleError, SetControlsEnabled
  <2>4. CASE HandleText \/ HandleDevices \/ HandleStatus
    BY <2>4 DEF HandleText, HandleDevices, HandleStatus
  <2> QED
    BY <2>2, <2>3, <2>4 DEF HandleEvent
<1>3. worker = "ble" /\ ~refusing => ~useMock
  BY <1>1 DEF IInv, Follows, Mode
<1>4. link' => link
  BY <1>1
<1>5. CASE UNCHANGED <<connected, mockButton, slipped>>
  BY <1>1, <1>4, <1>5, AlarmElse DEF AlarmInv, Button
<1>6. CASE mockButton' = FALSE /\ UNCHANGED slipped
  BY <1>1, <1>4, <1>6, AlarmElse
<1>7. CASE mockButton' = useMock /\ connected' = TRUE /\ slipped' = (slipped \/ refusing)
  <2>1. worker = "ble" /\ ~slipped' => ~mockButton'
    BY <1>3, <1>7
  <2>2. (mockButton' => connected') /\ (slipped => slipped')
    BY <1>7
  <2> QED
    BY <1>1, <1>4, <2>1, <2>2, AlarmElse
<1> QED
  BY <1>2, <1>5, <1>6, <1>7

LEMMA AlarmClick == ASSUME IInv, AlarmInv, Click PROVE AlarmInv'
<1>1. /\ tk = "idle" /\ UNCHANGED <<connected, mockButton>>
      /\ ~DismissRefusal => ~refusing
  BY DEF Click, ClickScan, ClickConnect, ClickDisconnect, ClickStatus, ClickArmOrDisarm,
     ClickChangePin, ClickMockAlarm, SendCommand, ClickMode, DismissRefusal,
     CloseWindow, window, Idle
<1>2. mockButton => connected
  BY DEF AlarmInv, Button
<1>3. ASSUME NEW then \in {"toggle", "close"}, BeginShutdown(then)
      PROVE  AlarmInv'
  BY <1>1, <1>2, <1>3, AlarmElse DEF BeginShutdown, connection
<1>4. CASE ClickScan \/ ClickConnect
  <2>1. PICK name \in {"scan", "connect"} :
          EnsureWorker(name) /\ (name = "connect" => ~connected)
    BY <1>4 DEF ClickScan, ClickConnect
  <2>2. worker \in {Mode, "none"}
    BY <1>4 DEF IInv, Follows, ClickScan, ClickConnect, Idle
  <2>3. \/ Submit(Op(name))
        \/ NewWorker(Op(name)) /\ UNCHANGED after
    BY <2>1, <2>2 DEF EnsureWorker, Mode
  <2>4. [at |-> "start", does |-> Op(name)] \in Task /\ Op(name).op = name
    BY OpType DEF Op
  <2> QED
    BY <1>1, <2>1, <2>3, <2>4, AlarmSubmit, AlarmNewWorker
<1>5. ASSUME NEW verb \in Verbs, NEW old \in Words, NEW new \in Words,
             Submit(Command(verb, old, new)), verb = "MOCK_ALARM" => mockButton
      PROVE  AlarmInv'
  <2>1. /\ [at |-> "start", does |-> Command(verb, old, new)] \in Task
        /\ Command(verb, old, new).op = verb /\ verb # "connect"
    BY DEF Command, Task, Verbs
  <2> QED
    BY <1>1, <1>5, <2>1, AlarmSubmit
<1>6. DEFAULT_PIN \in Words /\ \A name : Op(name) = Command(name, DEFAULT_PIN, DEFAULT_PIN)
  BY WordsAssumption DEF Op, Command
<1>7. CASE ClickDisconnect
  <2>1. Submit(Op("disconnect")) /\ Op("disconnect").op = "disconnect"
    BY <1>7 DEF ClickDisconnect, Op
  <2> QED
    BY <1>1, <2>1, OpType, AlarmSubmit
<1>8. CASE ClickStatus \/ ClickArmOrDisarm \/ ClickChangePin
  <2>1. \E verb \in Verbs \ {"MOCK_ALARM"}, old \in Words, new \in Words :
          Submit(Command(verb, old, new))
    BY <1>6, <1>8 DEF ClickStatus, ClickArmOrDisarm, ClickChangePin, SendCommand, Verbs
  <2> QED
    BY <1>5, <2>1
<1>9. CASE ClickMockAlarm
  <2>1. mockButton /\ Submit(Command("MOCK_ALARM", DEFAULT_PIN, DEFAULT_PIN))
    BY <1>6, <1>9 DEF ClickMockAlarm, SendCommand
  <2> QED
    BY <1>5, <1>6, <2>1 DEF Verbs
<1>10. CASE ClickMode
  <2>1. CASE connected \/ worker = "none"
    BY <1>1, <1>2, <1>10, <2>1, AlarmElse
       DEF ClickMode, thread, backend, connection, history
  <2>2. CASE ~(connected \/ worker = "none")
    BY <1>3, <1>10, <2>2 DEF ClickMode
  <2> QED
    BY <2>1, <2>2
<1>12. CASE DismissRefusal
  BY <1>1, <1>2, <1>12, AlarmElse DEF DismissRefusal, thread, backend, connection, history
<1>11. CASE CloseWindow
  <2>1. CASE worker = "none"
    BY <1>1, <1>2, <1>11, <2>1, AlarmElse
       DEF CloseWindow, backend, connection, history
  <2>2. CASE worker # "none"
    BY <1>3, <1>11, <2>2 DEF CloseWindow
  <2> QED
    BY <2>1, <2>2
<1> QED
  BY <1>4, <1>7, <1>8, <1>9, <1>10, <1>11, <1>12 DEF Click

LEMMA AlarmRest ==
  ASSUME IInv, AlarmInv,
         Shutdown \/ StopStarts \/ StopDisconnects \/ StopRaises \/ LinkLost
         \/ UNCHANGED vars
  PROVE  AlarmInv'
<1>1. mockButton => connected
  BY DEF AlarmInv, Button
<1>2. CASE Shutdown
  <2>1. Returns /\ after \in {"toggle", "close"}
    BY <1>2 DEF Shutdown, ShutdownReturns, ShutdownTimesOut, AlarmInv, Reasons, IInv,
       Stopping
  <2>2. /\ worker' = "none" /\ after' = "nothing" /\ ready' = <<>>
        /\ UNCHANGED <<connected, mockButton>>
    BY <2>1 DEF Returns, window
  <2>3. DOMAIN ready' = {}
    BY <2>2
  <2> QED
    BY <1>1, <2>2, <2>3 DEF AlarmInv, Ready, AlarmsFail, Button, Reasons
<1>3. CASE StopStarts \/ StopDisconnects \/ StopRaises \/ LinkLost
  <2>1. /\ UNCHANGED <<connected, mockButton, worker, after, tasks, ready, slipped>>
        /\ link' => link
    BY <1>3 DEF StopStarts, StopDisconnects, StopRaises, LinkLost, Closed, connection,
       Tk, window, thread, history
  <2> QED
    BY <1>1, <2>1, AlarmElse
<1>4. CASE UNCHANGED vars
  BY <1>1, <1>4, AlarmElse DEF vars, window, thread, backend, connection, history
<1> QED
  BY <1>2, <1>3, <1>4

(* MOCK_ALARM is never written to a real drawer, unless a "Connected." was *)
(* handled while the dialog of a refused switch was open.                  *)
THEOREM MockAlarmNeverLeaves == Spec => []MockAlarmStaysInMock
<1>1. Init => AlarmInv
  <2> SUFFICES ASSUME Init PROVE AlarmInv
    OBVIOUS
  <2>1. DOMAIN ready = {}
    BY DEF Init
  <2> QED
    BY <2>1 DEF Init, AlarmInv, Ready, AlarmsFail, Button, Reasons
<1>2. IInv /\ AlarmInv /\ [Next]_vars => AlarmInv'
  BY AlarmResume, AlarmHandled, AlarmClick, AlarmRest DEF Next
<1>3. AlarmInv => MockAlarmStaysInMock
  BY DEF AlarmInv, AlarmsFail, WillFail, MockAlarmStaysInMock, At
<1> QED
  BY <1>1, <1>2, <1>3, Inductive, PTL DEF Spec
=============================================================================
